------------------------------- MODULE MCText -------------------------------
(* Small sets for the constants of JsonText. *)
EXTENDS Integers, Sequences

Item(type, chars) == [type |-> type, chars |-> chars]

\* A string has the characters at the ends of the ranges that an adapter tells apart.
MCItems ==
  {Item("begin_array", <<91>>), Item("name_separator", <<58>>), Item("literal_null", <<110, 117, 108, 108>>),
   Item("value_number", <<48>>), Item("value_number", <<45, 49, 46, 53>>),
   Item("value_string", <<34, \h7F, \h80, 34>>), Item("value_string", <<34, \h7FF, \h800, \hFFFF, 34>>),
   Item("value_string", <<34, \h10000, \h10FFFF, 34>>),
   Item("space", <<32>>), Item("space", <<10>>), Item("mark", <<\hFEFF>>), Item("end_of_input", <<0>>),
   Item("mistake", <<116, 114, 117, 93>>), Item("mistake", <<\hF000>>), Item("mistake", <<45, 93>>),
   Item("mistake", <<34, 10>>), Item("broken", <<34, \hD800>>)}

=============================================================================
