------------------------ MODULE MCConfirmTransaction ------------------------
(* Instances of ConfirmTransaction for TLC: heights of a few blocks in which *)
(* the transaction expires, the level trails the tip and the timeout passes. *)
EXTENDS ConfirmTransaction
=============================================================================
