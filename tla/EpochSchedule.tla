--------------------------- MODULE EpochSchedule ---------------------------
(***************************************************************************)
(* The arithmetic of struct EpochSchedule (include/solana.hpp): which      *)
(* epoch a slot belongs to, and which slots an epoch has.  During warm-up  *)
(* the epochs double in length from MINIMUM_SLOT_PER_EPOCH on, later all   *)
(* have slotsPerEpoch slots.  The two directions are computed by           *)
(* different formulas; here a clock runs through the slots and the         *)
(* formulas have to agree with it.                                         *)
(***************************************************************************)
EXTENDS Integers

CONSTANTS
  Schedules,  \* the schedules a cluster can have, as records of the three numbers
  MaxSlot,    \* bound: the last slot
  Bits        \* of a number: 64 in the code

VARIABLES
  schedule,   \* the EpochSchedule received from the cluster
  slot

vars == <<schedule, slot>>

MINIMUM_SLOT_PER_EPOCH == 32

\* what a shift by k places multiplies and divides by
TwoTo[k \in 0 .. Bits] == IF k = 0 THEN 1 ELSE 2 * TwoTo[k - 1]

ASSUME BitsAssumption == Bits \in 1 .. 64

\* The normal epochs begin where the doubling ones end, and a slot of these is a
\* number.  In the code "1 << epoch" and its product with 32 are of type int.
ASSUME SchedulesAssumption ==
  \A s \in Schedules :
    /\ s.firstNormalEpoch \in 0 .. 26 /\ s.firstNormalEpoch + 5 < Bits
    /\ s.firstNormalSlot = (TwoTo[s.firstNormalEpoch] - 1) * MINIMUM_SLOT_PER_EPOCH
    /\ s.slotsPerEpoch \in Nat \ {0}

Init == schedule \in Schedules /\ slot = 0

NextSlot == slot < MaxSlot /\ slot' = slot + 1 /\ UNCHANGED schedule

Spec == Init /\ [][NextSlot]_vars

----------------------------------------------------------------------------
(* The two bit functions. *)

\* how often the loop of trailingZeros halves n until it is not above one
trailingZeros(n) ==
  CHOOSE k \in 0 .. Bits : ~(n \div TwoTo[k] > 1) /\ (k > 0 => n \div TwoTo[k - 1] > 1)

Shr(n, k) == IF k >= Bits THEN 0 ELSE n \div TwoTo[k]

Bit(n, k) == (n \div TwoTo[k]) % 2

\* a | b, a place at a time
Or(a, b) ==
  LET upTo[k \in 0 .. Bits] ==
        IF k = 0 THEN 0
        ELSE upTo[k - 1] + (IF Bit(a, k - 1) + Bit(b, k - 1) > 0 THEN TwoTo[k - 1] ELSE 0)
  IN  upTo[Bits]

\* n |= n >> k
Smear(n, k) == Or(n, Shr(n, k))

\* n--
Predecessor(n) == n - 1

nextPowerOfTwo(n) ==
  IF n = 0 THEN 1
  ELSE Smear(Smear(Smear(Smear(Smear(Smear(Predecessor(n), 1), 2), 4), 8), 16), 32) + 1

\* broken: the last warm-up epoch is taken for a normal one
IsNormalEarly(e) == e + 1 >= schedule.firstNormalEpoch

\* the test of getSlotsInEpoch
IsNormal(e) == e >= schedule.firstNormalEpoch

getSlotsInEpoch(e) ==
  IF IsNormal(e) THEN schedule.slotsPerEpoch
  ELSE TwoTo[e + trailingZeros(MINIMUM_SLOT_PER_EPOCH)]

\* broken: the first slot of an epoch falls into the one before
WarmupEpochShort(s) ==
  trailingZeros(nextPowerOfTwo(s + MINIMUM_SLOT_PER_EPOCH))
    - trailingZeros(MINIMUM_SLOT_PER_EPOCH) - 1

WarmupEpoch(s) ==
  trailingZeros(nextPowerOfTwo(s + MINIMUM_SLOT_PER_EPOCH + 1))
    - trailingZeros(MINIMUM_SLOT_PER_EPOCH) - 1

\* the pair [epoch, slotIndex]
getEpochAndSlotIndex(s) ==
  IF s < schedule.firstNormalSlot
  THEN <<WarmupEpoch(s), s - (getSlotsInEpoch(WarmupEpoch(s)) - MINIMUM_SLOT_PER_EPOCH)>>
  ELSE <<schedule.firstNormalEpoch + (s - schedule.firstNormalSlot) \div schedule.slotsPerEpoch,
         (s - schedule.firstNormalSlot) % schedule.slotsPerEpoch>>

getEpoch(s) == getEpochAndSlotIndex(s)[1]

getFirstSlotInEpoch(e) ==
  IF e <= schedule.firstNormalEpoch
  THEN (TwoTo[e] - 1) * MINIMUM_SLOT_PER_EPOCH
  ELSE (e - schedule.firstNormalEpoch) * schedule.slotsPerEpoch + schedule.firstNormalSlot

getLastSlotInEpoch(e) == getFirstSlotInEpoch(e) + getSlotsInEpoch(e) - 1

----------------------------------------------------------------------------

(* A slot lies between the first and the last slot of its epoch, and its   *)
(* index counts from the first: what getEpochAndSlotIndex computes from    *)
(* the slot fits what the other operations compute from the epoch          *)
(* (solana.hpp:103-147), in warm-up, at its end and after it.              *)
SlotInItsEpoch ==
  LET info == getEpochAndSlotIndex(slot)
  IN  /\ getFirstSlotInEpoch(info[1]) <= slot
      /\ slot <= getLastSlotInEpoch(info[1])
      /\ info[2] = slot - getFirstSlotInEpoch(info[1])

(* From one slot to the next the index grows by one, or the epoch does and *)
(* the index starts again after the last slot of the epoch: no slot is     *)
(* skipped or counted twice (solana.hpp:103-127).                          *)
EpochsFollow ==
  [][LET now == getEpochAndSlotIndex(slot)
         then == getEpochAndSlotIndex(slot + 1)
     IN  \/ then = <<now[1], now[2] + 1>> /\ then[2] < getSlotsInEpoch(then[1])
         \/ then = <<now[1] + 1, 0>> /\ now[2] + 1 = getSlotsInEpoch(now[1])]_vars
=============================================================================
