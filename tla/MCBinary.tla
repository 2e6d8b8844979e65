------------------------------ MODULE MCBinary ------------------------------
(* Boundary values for the constants of JsonBinary. *)
EXTENDS JsonBinaryWriter

\* Words from their last bytes: 0 or 255 before them.
Wide(fill, low) == [i \in 1 .. 8 |-> IF i > 8 - Len(low) THEN low[i - 8 + Len(low)] ELSE fill]
Positive == {Wide(0, low) : low \in
  {<<0>>, <<23>>, <<24>>, <<127>>, <<128>>, <<255>>, <<1, 0>>, <<127, 255>>, <<128, 0>>, <<255, 255>>,
   <<1, 0, 0>>, <<127, 255, 255, 255>>, <<128, 0, 0, 0>>, <<255, 255, 255, 255>>, <<1, 0, 0, 0, 0>>,
   <<127, 255, 255, 255, 255, 255, 255, 255>>}}
Large == {Wide(0, <<128, 0, 0, 0, 0, 0, 0, 0>>), Wide(255, <<>>)}
Signed(words) == {<<"integer", w>> : w \in words}
Unsigned(words) == {<<"unsigned", w>> : w \in words}
Numbers == Signed(Positive) \cup Unsigned(Positive) \cup Unsigned(Large)
             \cup Signed({Complement(w) : w \in Positive})

U(n) == <<"unsigned", Wide(0, <<n>>)>>
I(n) == <<"integer", Wide(0, <<n>>)>>
Minus(n) == <<"integer", Wide(255, <<256 - n>>)>>
OneAsFloat == <<"float", <<63, 240, 0, 0, 0, 0, 0, 0>> >>
Chars(n) == <<"string", [i \in 1 .. n |-> 97]>>
True == <<"boolean", TRUE>>
False == <<"boolean", FALSE>>
Array(s) == <<"array", s>>
Object(f) == <<"object", f>>
a == <<97>>
b0 == <<98, 0>>

Leaves == {Null, True, False, OneAsFloat, U(200), U(5), Minus(5), Chars(0), Chars(1), EmptyArray, EmptyObject}
Mixed == {Null, True, U(200), Minus(5), Chars(1), EmptyArray}
Pairs == {Array(<<v, w>>) : v, w \in Mixed} \cup {Object((a :> v) @@ (<<>> :> w)) : v, w \in Mixed}
\* Twelve elements, the last with an index of two digits.
Hundreds == Array([i \in 1 .. 12 |-> U(200 + 10 * i - 10 * (i \div 6) * (i % 6))])
Long == {Chars(n) : n \in {23, 24, 31, 32, 128}}
          \cup {Array([i \in 1 .. n |-> v]) : n \in {15, 16, 23, 24}, v \in {U(1), True}}
          \cup {Hundreds}
          \cup {Object([k \in {<<97 + i>> : i \in 1 .. n} |-> Null]) : n \in {15, 24}}
Deep == {Array(<<Array(<<v>>), Array(<<w>>)>>) : v, w \in {U(5), Minus(5), Chars(1)}}
          \cup {Object(a :> Array(<<v, Object(a :> w)>>)) : v, w \in {U(200), Chars(1), Null}}
In(j) == Object(a :> j)
MCValues == Leaves \cup Numbers \cup {Chars(256)} \cup Pairs \cup Long \cup Deep
              \cup {In(j) : j \in Numbers \cup Leaves \cup {Chars(128), Hundreds}} \cup {Array(<<n, U(200)>>) : n \in Numbers}
              \cup {Array(<<n, I(100)>>) : n \in Numbers}
              \cup {Object(b0 :> U(1)), Object(a :> Object(b0 :> Null))}

\* From RFC 7049, appendix A, and of the same kind for the other formats.
F(format, b, v) == [format |-> format, bytes |-> b, value |-> v]
D(b) == <<"float", [i \in 1 .. 8 |-> IF i <= Len(b) THEN b[i] ELSE 0]>>
MCForeign ==
  {F("cbor", <<249>> \o h[1], D(h[2])) : h \in
     {<< <<60, 0>>, <<63, 240>> >>, << <<0, 1>>, <<62, 112>> >>, << <<3, 255>>, <<63, 15, 248>> >>,
      << <<4, 0>>, <<63, 16>> >>, << <<128, 0>>, <<128>> >>, << <<252, 0>>, <<255, 240>> >>,
      << <<126, 0>>, <<127, 248>> >>, << <<196, 0>>, <<192, 16>> >>}}
  \cup {F(f[1], <<f[2]>> \o h[1], D(h[2])) : f \in {<<"cbor", 250>>, <<"msgpack", 202>>, <<"ubjson", 100>>},
          h \in {<< <<127, 127, 255, 255>>, <<71, 239, 255, 255, 224>> >>,
                 << <<0, 0, 0, 1>>, <<54, 160>> >>, << <<63, 192, 0, 0>>, <<63, 248>> >>}}
  \cup {F("cbor", <<159, 1, 130, 2, 3, 255>>, Array(<<U(1), Array(<<U(2), U(3)>>)>>)),
        F("cbor", <<191, 97, 97, 245, 97, 98, 244, 255>>, Object((a :> True) @@ (<<98>> :> False))),
        F("cbor", <<127, 97, 97, 127, 97, 97, 255, 255>>, Chars(2)),
        F("cbor", <<161, 127, 97, 97, 255, 246>>, In(Null)),
        F("cbor", <<162, 97, 97, 1, 97, 97, 2>>, In(U(2))),
        F("cbor", <<152, 1, 27, 0, 0, 0, 0, 0, 0, 0, 5>>, Array(<<U(5)>>)),
        F("cbor", <<123, 0, 0, 0, 0, 0, 0, 0, 1, 97>>, Chars(1)),
        F("cbor", <<161, 123, 0, 0, 0, 0, 0, 0, 0, 1, 97, 246>>, In(Null)),
        F("cbor", <<59, 0, 0, 0, 0, 0, 0, 0, 5>>, Minus(6)),
        F("msgpack", <<210, 255, 255, 255, 255>>, Minus(1)),
        F("msgpack", <<221, 0, 0, 0, 1, 217, 1, 97>>, Array(<<Chars(1)>>)),
        F("msgpack", <<223, 0, 0, 0, 1, 218, 0, 1, 97, 192>>, In(Null)),
        F("ubjson", <<78, 91, 78, 84, 78, 90, 93>>, Array(<<True, Null>>)),
        F("ubjson", <<67, 97>>, Chars(1)),
        F("ubjson", <<83, 76, 0, 0, 0, 0, 0, 0, 0, 1, 97>>, Chars(1)),
        F("ubjson", <<91, 36, 78, 35, 105, 3>>, EmptyArray),
        F("ubjson", <<91, 35, 105, 2, 78, 84, 70>>, Array(<<True, False>>)),
        F("ubjson", <<123, 36, 84, 35, 73, 0, 1, 85, 1, 97>>, In(True)),
        F("bson", <<15, 0, 0, 0, 4, 97, 0, 7, 0, 0, 0, 10, 0, 0, 0>>, In(Array(<<Null>>))),
        F("bson", <<11, 0, 0, 0, 10, 97, 0, 10, 97, 0, 0>>, In(Null))}

Mode(format, size, type) == [format |-> format, use_size |-> size, use_type |-> type]
MCModes == {Mode("cbor", FALSE, FALSE), Mode("msgpack", FALSE, FALSE), Mode("bson", FALSE, FALSE),
            Mode("ubjson", FALSE, FALSE), Mode("ubjson", TRUE, FALSE), Mode("ubjson", TRUE, TRUE)}
MCChanges == {0, 78, 105, 127, 249, 255}

=============================================================================
