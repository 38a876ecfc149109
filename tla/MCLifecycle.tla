---------------------------- MODULE MCLifecycle ----------------------------
(* Instances of Lifecycle for TLC: up to three unread messages, enough for   *)
(* a message to be read before, during and after the closing handshake.      *)
EXTENDS Lifecycle
=============================================================================
