---------------------------- MODULE MCSubscriber ----------------------------
(* Instances of Subscriber for TLC. *)
EXTENDS Subscriber

CONSTANTS a1, a2   \* two accounts
CONSTANTS w1, w2   \* two subscription ids of the server

MCAccounts == {a1, a2}
MCWsIds == {w1, w2}
=============================================================================
