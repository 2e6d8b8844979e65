------------------------------ MODULE MCMessage ------------------------------
(* ChannelMessage and the modules below it, on small sets for TLC. *)
EXTENDS ChannelMessage

\* The bytes at both ends of every range that scan_string and decode tell apart.
MCByte ==
  {\h1F, \h20, \h22, \h5C, \h7F, \h80, \h8F, \h90, \h9F, \hA0, \hBF, \hC1, \hC2, \hDF,
   \hE0, \hE1, \hEC, \hED, \hEF, \hF0, \hF1, \hF3, \hF4, \hF5}

\* The same for the values of a \u escape.
MCCodeUnit ==
  {0, 8, 9, 10, 13, \h1F, \h20, \h22, \h5C, \h7F, \h80, \h7FF, \h800, \hFFF, \h1000,
   \hCFFF, \hD000, \hD7FF, \hD800, \hDBFF, \hDC00, \hDFFF, \hE000, \hFFFF}

\* The digits 0, 1, 2, 3, 6, 8 and 9: those of the greatest integers of 14 bits, and their neighbours.
MCDigit == {48, 49, 50, 51, 54, 56, 57}

MCKeyOrder ==
  <<"", "1", "2", "a", "b", "e", "event", "join_ref", "ok", "p", "payload", "ref", "status",
    "t", "topic">>
MCStr == Range(MCKeyOrder)

\* A value as nested tuples, an object as its members in their order, and the tree of it
\* from n on: what comes is added to laid, the tree of the elements before and where each is.
RECURSIVE Laid(_, _)
Laid(v, n) ==
  LET Add(laid, w) ==
        LET next == n + 1 + Len(laid[1]) IN
        <<laid[1] \o Laid(w, next), Append(laid[2], next)>>
      values == IF v[1] = "object" THEN [i \in DOMAIN v[2] |-> v[2][i][2]] ELSE v[2]
      all == FoldLeft(Add, << <<>>, <<>> >>, values) IN
  CASE v[1] = "array" -> << <<v[1], all[2]>> >> \o all[1]
    [] v[1] = "object" ->
         << <<v[1], [i \in DOMAIN v[2] |-> <<v[2][i][1], all[2][i]>>]>> >> \o all[1]
    [] OTHER -> <<v>>

String(s) == <<"string", s>>
Empty == <<"object", <<>> >>
Reply(v) == <<"object", << <<"status", v>>, <<"a", Empty>> >> >>

\* Objects with some of the fields, in the order of the map, or in the other one after a
\* payload and a ref that are overruled.
MCFrames ==
  LET Members(fields, order) ==
        LET there == SelectSeq(order, LAMBDA k : fields[k] # Absent) IN
        [i \in DOMAIN there |-> <<there[i], fields[there[i]]>>]
      Early == << <<"payload", Reply(String("b"))>>, <<"ref", String("2")>> >>
  IN {Laid(<<"object", IF early THEN Early \o Members(fields, Reverse(Fields)) ELSE Members(fields, Fields)>>, 1) :
        early \in BOOLEAN, fields \in
         [topic : {String("t"), Null, Absent}, event : {String("e"), Absent},
          payload : {Reply(String("ok")), Reply(Null), Reply(Empty), Empty,
                     <<"array", <<Empty, Null>> >>, String("p"), Null, Absent},
          ref : {String("1"), Leaf("number"), Null, Absent},
          join_ref : {String("2"), Null, Absent}]}

MCMessages ==
  [topic : {"t"}, event : {"e"}, payload : {"p"}, ref : {"", "1"}, join_ref : {"", "2"}]

=============================================================================
