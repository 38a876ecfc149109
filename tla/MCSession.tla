----------------------------- MODULE MCSession -----------------------------
(* Instances of Session for TLC. *)
EXTENDS Session, TLC

CONSTANTS a1, a2   \* two accounts
CONSTANTS w1, w2   \* two subscription ids of the server

MCAccounts == {a1, a2}
MCWsIds == {w1, w2}

\* accounts and subscription ids are interchangeable
Symmetry == Permutations(MCAccounts) \cup Permutations(MCWsIds)
=============================================================================
