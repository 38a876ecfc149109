-------------------------- MODULE MangoInstructions --------------------------
(***************************************************************************)
(* The instruction builders of mango_v3::ix (include/mango_v3.hpp): lists  *)
(* of accounts with fixed privileges in front of a packed structure.       *)
(***************************************************************************)
EXTENDS Integers, Sequences

CONSTANTS MAX_PAIRS, EmptyKey

LOCAL Account(key, signer, writable) ==
  [pubkey |-> key, isSigner |-> signer, isWritable |-> writable]

\* toBytes: the code of the instruction as a uint32_t and its members, packed
toBytes(code, size) == [k \in 1 .. size |-> IF k = 1 THEN code ELSE 0]

\* The arguments are a function from their names, and those of the members of
\* market and group, to keys.  A PlacePerpOrder has 31 bytes.
placePerpOrderInstruction(key) ==
  [programId |-> key["programPk"],
   accounts |->
     <<Account(key["groupPk"], FALSE, FALSE), Account(key["accountPk"], FALSE, TRUE),
       Account(key["ownerPk"], TRUE, FALSE), Account(key["mangoCache"], FALSE, FALSE),
       Account(key["marketPk"], FALSE, TRUE), Account(key["bids"], FALSE, TRUE),
       Account(key["asks"], FALSE, TRUE), Account(key["eventQueue"], FALSE, TRUE)>>
     \o [n \in 1 .. MAX_PAIRS |-> Account(EmptyKey, FALSE, FALSE)],
   data |-> toBytes(12, 31)]

\* a CancelAllPerpOrders has 5 bytes
cancelAllPerpOrdersInstruction(key) ==
  [programId |-> key["programPk"],
   accounts |->
     <<Account(key["groupPk"], FALSE, FALSE), Account(key["accountPk"], FALSE, TRUE),
       Account(key["ownerPk"], TRUE, FALSE), Account(key["marketPk"], FALSE, TRUE),
       Account(key["bids"], FALSE, TRUE), Account(key["asks"], FALSE, TRUE)>>,
   data |-> toBytes(39, 5)]
=============================================================================
