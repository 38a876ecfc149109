-------------------------- MODULE MCEpochSchedule --------------------------
(* Instances of EpochSchedule for TLC: a cluster without warm-up and         *)
(* clusters with one to five doubling epochs, whose normal epoch is as long  *)
(* as the next doubling or, as on the main network, shorter.                 *)
EXTENDS EpochSchedule

AllSchedules ==
  {[firstNormalEpoch |-> e, firstNormalSlot |-> (2 ^ e - 1) * 32,
    slotsPerEpoch |-> 2 ^ e * 32] : e \in 0 .. 5}
    \cup
  {[firstNormalEpoch |-> e, firstNormalSlot |-> (2 ^ e - 1) * 32,
    slotsPerEpoch |-> 2 ^ e * 32 - 13] : e \in 1 .. 5}
=============================================================================
