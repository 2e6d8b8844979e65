------------------------------ MODULE MCFloat ------------------------------
(* The constants of JsonFloat for binary16, the half precision of IEEE 754. *)
EXTENDS Integers

\* A cfg has no negative numbers.
MCAlpha == -10
MCGamma == -2
MCMinDecExp == -3

\* Every value of the format that is not negative, the infinity and NaN among them,
\* and some with the sign.
MCFloats ==
  [neg : {FALSE}, E : 0 .. 31, F : 0 .. 1023] \cup [neg : {TRUE}, E : 0 .. 31, F : {0, 1, 512, 1023}]

=============================================================================
