------------------------------ MODULE MCPatch ------------------------------
(* Small sets for the constants of JsonPatch. *)
EXTENDS JsonPointer

\* Keys with what a pointer escapes, and texts of indices.
a == <<97>>
esc == <<126, 49>>    \* ~1
sl == <<126, 47>>     \* ~/
k0 == <<48>>
I(n) == <<"integer", n>>
U(n) == <<"unsigned", n>>
Quoted(s) == <<"string", s>>
Array(s) == <<"array", s>>
Object(f) == <<"object", f>>

ArraysOver(S, n) == {Array(s) : s \in BoundedSeq(S, n)}
ObjectsOver(K, S) == {Object(f) : f \in UNION {[L -> S] : L \in SUBSET K}}

Prims == {Null, I(1), I(2)}
Inner == {Null, I(1), I(-1), U(15), EmptyArray, EmptyObject,
          Array(<<I(1), I(2)>>), Object(a :> I(1)), Object(esc :> I(1))}

Few == {Null, I(-1), U(15), EmptyArray, Array(<<I(1), I(2)>>), Object(esc :> I(1))}
MCDiffs == Inner \cup ArraysOver(Few, 2) \cup ObjectsOver({esc, sl}, Few)
             \cup {Array([i \in 1 .. 3 |-> I(i)]), Array([i \in 1 .. 4 |-> I(i)])}

MCFlats == ArraysOver(Inner, 2) \cup ObjectsOver({a, esc, <<>>}, Inner)
             \cup ObjectsOver({k0, <<49>>}, Inner)
             \cup {Array([i \in 1 .. 11 |-> I(i)]), I(1)}

MCMerges == {Null, I(1), I(2), EmptyObject, Array(<<Null>>)}
              \cup ObjectsOver({a, k0}, {Null, I(1), I(2), EmptyObject} \cup ObjectsOver({a}, Prims))

MCDocs == {Null, I(1), EmptyObject, EmptyArray, Array(<<I(1), I(2)>>),
           Object(a :> Array(<<I(1), Null>>)), Object(a :> Object(a :> I(1))),
           Array(<<Object(a :> I(1)), Array(<<I(2)>>)>>)}

i0 == <<48>>
i1 == <<49>>
minus == <<45>>
Tokens == {a, i0, i1, minus}
Paths == {to_string(t) : t \in BoundedSeq(Tokens, 2)}
           \cup {to_string(<<a, t, u>>) : t \in {i0, i1, minus}, u \in {a, minus}}
           \cup {<<47, 48, 49>>, <<47, 45, 48>>, <<47, 45, 49>>, <<47>>, <<97>>, <<47, 126>>}
FromPaths == {<<>>, to_string(<<a>>), to_string(<<a, i0>>), to_string(<<i0>>), to_string(<<i1>>),
          to_string(<<i0, a>>), <<47, 126, 50>>}
Values == {I(1), Array(<<Null>>)}
Text(S) == {Quoted(s) : s \in S}
MCOps ==
  [op : {"add", "replace", "test"}, path : Text(Paths), value : Values, from : {Missing}]
    \cup [op : {"remove"}, path : Text(Paths), value : {Missing}, from : {Missing}]
    \cup [op : {"move", "copy"}, path : Text(Paths), value : {Missing}, from : Text(FromPaths)]
    \cup {NoObject, NoMembers("add"), [NoMembers("remove") EXCEPT !.path = I(1)], [NoMembers("add") EXCEPT !.path = Quoted(<<>>)],
          [NoMembers("move") EXCEPT !.path = Quoted(<<>>)], [NoMembers("merge") EXCEPT !.path = Quoted(<<>>)]}

=============================================================================
