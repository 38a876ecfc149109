--------------------------- MODULE MCFixedDivision ---------------------------
(* Instances of FixedDivision for TLC: numbers of eight bits, three of them *)
(* fractional, every operand but the least.                                 *)
EXTENDS FixedDivision

AllOperands == -(Top - 1) .. Top - 1
AllPowers == {2 ^ k : k \in 0 .. 7}
=============================================================================
