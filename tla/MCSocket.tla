------------------------------ MODULE MCSocket ------------------------------
(* Instances of PhoenixSocket for TLC. *)
EXTENDS PhoenixSocket, TLC

\* The connections are interchangeable.
Symmetry == Permutations(Con)

=============================================================================
