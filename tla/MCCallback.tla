----------------------------- MODULE MCCallback -----------------------------
(* Small sets for the constant of JsonCallback. *)

Leaf == <<"number", 1>>
Array(s) == <<"array", s>>
Object(s) == <<"object", s>>

\* The keys of a text stand in their order and out of it, and one comes twice.
MCTrees ==
  {Leaf, Array(<<>>), Object(<<>>), Array(<<Leaf, Leaf>>),
   Array(<<Array(<<Leaf>>), Object(<< <<1, Leaf>> >>), Array(<<>>)>>),
   Array(<<Object(<< <<1, Array(<<Leaf>>)>> >>), Leaf>>),
   Array(<<Array(<<Array(<<Leaf>>), Leaf>>), Leaf>>),
   Object(<< <<2, Leaf>>, <<1, Leaf>>, <<3, Object(<<>>)>> >>),
   Object(<< <<1, Leaf>>, <<1, Array(<<>>)>>, <<2, Object(<<>>)>> >>),
   Object(<< <<1, Array(<<Leaf, Object(<< <<1, Leaf>> >>)>>)>>, <<2, Leaf>> >>),
   Object(<< <<2, Object(<< <<1, Object(<<>>)>>, <<2, Leaf>> >>)>>, <<1, Array(<<>>)>> >>)}

=============================================================================
