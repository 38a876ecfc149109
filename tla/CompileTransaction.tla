------------------------- MODULE CompileTransaction -------------------------
(***************************************************************************)
(* CompiledTransaction::fromInstructions and serializeTo (lib/solana.cpp): *)
(* the accounts of all instructions are collected, merged so that each is  *)
(* named once with the most it is asked for, sorted, counted into the      *)
(* header, and the instructions are rewritten to positions in that list.   *)
(* The cluster knows the privileges of an account only by its position and *)
(* the three counters, so everything depends on the sort.                  *)
(***************************************************************************)
EXTENDS Integers, Sequences, FiniteSets, CompactU16, Base58

CONSTANTS
  Keys,          \* public keys
  KeyBytes(_),   \* PublicKey::data
  Blockhashes,   \* data of recent blockhashes
  Payer,         \* the key that pays
  Requests,      \* lists of instructions that can be compiled
  IndexRange     \* number of values of a uint8_t, or fewer

ASSUME PayerAssumption == Payer \in Keys
ASSUME BytesAssumption ==
  /\ \A k \in Keys : KeyBytes(k) \in [1 .. KeySize -> 0 .. 255]
  /\ Blockhashes \subseteq [1 .. KeySize -> 0 .. 255]
ASSUME IndexAssumption == IndexRange \in 2 .. 256

\* an AccountMeta
Metas == [pubkey : Keys, isSigner : BOOLEAN, isWritable : BOOLEAN]

\* an Instruction; its data is opaque
Instructions == [programId : Keys, accounts : Seq(Metas), data : Seq(0 .. 255)]

ASSUME RequestsAssumption == Requests \subseteq Seq(Instructions)

VARIABLES
  pc,            \* the loop that runs
  instructions,  \* the arguments
  recentBlockhash,
  i,             \* what the loop has handled
  allMetas,
  uniqueMetas,
  sorted,        \* the part of uniqueMetas std::sort has put in place
  accounts,
  header,        \* the three uint8_t counters
  compiled,      \* cixs
  buffer         \* the serialized message

vars == <<pc, instructions, recentBlockhash, i, allMetas, uniqueMetas, sorted, accounts, header,
          compiled, buffer>>

args == <<instructions, recentBlockhash>>
metaVars == <<allMetas, uniqueMetas, sorted>>
messageVars == <<accounts, header, compiled, buffer>>

Positions(s) == 1 .. Len(s)

Meta(key, signer, writable) ==
  [pubkey |-> key, isSigner |-> signer, isWritable |-> writable]

NoHeader == [requiredSignatures |-> 0, readOnlySigned |-> 0, readOnlyUnsigned |-> 0]

\* broken: the payer is charged but does not sign
UnsignedPayer == Meta(Payer, FALSE, TRUE)

\* the first entry
PayerMeta == Meta(Payer, TRUE, TRUE)

\* all but the blockhash, which Init is given and SendTransaction asks for
Start ==
  /\ pc = "collect"
  /\ instructions \in Requests
  /\ i = 0
  /\ allMetas = <<PayerMeta>>
  /\ uniqueMetas = <<>> /\ sorted = <<>> /\ accounts = <<>>
  /\ header = NoHeader
  /\ compiled = <<>> /\ buffer = <<>>

Init == Start /\ recentBlockhash \in Blockhashes

----------------------------------------------------------------------------
(* Collecting and merging. *)

\* one round of the first loop
Collect ==
  /\ pc = "collect"
  /\ i < Len(instructions)
  /\ LET ix == instructions[i + 1]
     IN  allMetas' = allMetas \o ix.accounts \o <<Meta(ix.programId, FALSE, FALSE)>>
  /\ i' = i + 1
  /\ UNCHANGED <<pc, args, uniqueMetas, sorted, messageVars>>

\* broken: the privileges of the first mention are kept
FirstMention(old, new) == old

\* dup->isSigner |= ..., dup->isWritable |= ...
MaxPrivileges(old, new) ==
  Meta(old.pubkey, old.isSigner \/ new.isSigner, old.isWritable \/ new.isWritable)

\* find_if, then push_back or the two assignments
Merge(metas, meta) ==
  IF \E k \in Positions(metas) : metas[k].pubkey = meta.pubkey
  THEN [k \in Positions(metas) |->
          IF metas[k].pubkey = meta.pubkey THEN MaxPrivileges(metas[k], meta) ELSE metas[k]]
  ELSE Append(metas, meta)

\* one round of the second loop
MergeNext ==
  /\ pc = "merge"
  /\ i < Len(allMetas)
  /\ uniqueMetas' = Merge(uniqueMetas, allMetas[i + 1])
  /\ i' = i + 1
  /\ UNCHANGED <<pc, args, allMetas, sorted, messageVars>>

----------------------------------------------------------------------------
(* std::sort. *)

\* broken: writable accounts first
WritableFirst(x, y) ==
  \/ x.isWritable /\ ~y.isWritable
  \/ x.isWritable = y.isWritable /\ x.isSigner /\ ~y.isSigner

\* AccountMeta::operator<
Less(x, y) == (x.isSigner /\ ~y.isSigner) \/ (x.isWritable /\ ~y.isWritable)

\* the metas for which operator< is not an order: each is less than the other
Conflict(metas) ==
  \E j, k \in Positions(metas) : Less(metas[j], metas[k]) /\ Less(metas[k], metas[j])

\* metas that are not in place yet
Unsorted(metas, done) == {k \in Positions(metas) : \A j \in Positions(done) : done[j] # metas[k]}

\* The next element of the result.  std::sort is not stable, so equal elements
\* come in any order; it asks for a strict weak order, and without one its
\* result is any permutation.
SortNext ==
  /\ pc = "sort"
  /\ \E k \in Unsorted(uniqueMetas, sorted) :
       /\ \/ Conflict(uniqueMetas)
          \/ \A j \in Unsorted(uniqueMetas, sorted) : ~Less(uniqueMetas[j], uniqueMetas[k])
       /\ sorted' = Append(sorted, uniqueMetas[k])
  /\ UNCHANGED <<pc, args, i, allMetas, uniqueMetas, messageVars>>

----------------------------------------------------------------------------
(* Counting, compiling and serializing. *)

\* a uint8_t counter
Count(S) == Cardinality(S) % IndexRange

HeaderOf(metas) ==
  LET Signer(k) == metas[k].isSigner
      Readonly(k) == ~metas[k].isWritable
  IN  [requiredSignatures |-> Count({k \in Positions(metas) : Signer(k)}),
       readOnlySigned |-> Count({k \in Positions(metas) : Signer(k) /\ Readonly(k)}),
       readOnlyUnsigned |-> Count({k \in Positions(metas) : ~Signer(k) /\ Readonly(k)})]

CountPrivileges ==
  /\ pc = "sort"
  /\ Unsorted(uniqueMetas, sorted) = {}
  /\ accounts' = [k \in Positions(sorted) |-> sorted[k].pubkey]
  /\ header' = HeaderOf(sorted)
  /\ pc' = "compile"
  /\ UNCHANGED <<args, i, metaVars, compiled, buffer>>

\* std::find - begin() as a uint8_t: the first position from zero, or the length
Index(keys, key) ==
  ((CHOOSE k \in 1 .. Len(keys) + 1 :
     (k > Len(keys) \/ keys[k] = key) /\ \A j \in 1 .. k - 1 : keys[j] # key) - 1) % IndexRange

\* CompiledInstruction::fromInstruction
FromInstruction(ix, keys) ==
  [programIdIndex |-> Index(keys, ix.programId),
   accountIndices |-> [k \in Positions(ix.accounts) |-> Index(keys, ix.accounts[k].pubkey)],
   data |-> ix.data]

\* broken: the list as it was before the sort
ListBeforeSort == [k \in Positions(uniqueMetas) |-> uniqueMetas[k].pubkey]

\* the list positions refer to
List == accounts

\* one round of the last loop
CompileNext ==
  /\ pc = "compile"
  /\ i < Len(instructions)
  /\ compiled' = Append(compiled, FromInstruction(instructions[i + 1], List))
  /\ i' = i + 1
  /\ UNCHANGED <<pc, args, metaVars, accounts, header, buffer>>

\* CompactU16::encode of a vector of bytes
Vector(bytes) == EncodeLength(Len(bytes)) \o bytes

\* broken: the two vectors change places
InstructionBytesSwapped(ix) == <<ix.programIdIndex>> \o Vector(ix.data) \o Vector(ix.accountIndices)

\* CompiledInstruction::serializeTo
InstructionBytes(ix) == <<ix.programIdIndex>> \o Vector(ix.accountIndices) \o Vector(ix.data)

\* the bytes of a list of keys
KeysBytes(keys) ==
  [k \in 1 .. KeySize * Len(keys) |->
     KeyBytes(keys[((k - 1) \div KeySize) + 1])[((k - 1) % KeySize) + 1]]

\* CompiledTransaction::serializeTo before its last loop
Preamble ==
  <<header.requiredSignatures, header.readOnlySigned, header.readOnlyUnsigned>>
    \o EncodeLength(Len(accounts)) \o KeysBytes(accounts)
    \o recentBlockhash \o EncodeLength(Len(compiled))

SerializeHead ==
  /\ pc = "compile"
  /\ i = Len(instructions)
  /\ buffer' = Preamble
  /\ pc' = "serialize" /\ i' = 0
  /\ UNCHANGED <<args, metaVars, accounts, header, compiled>>

\* one round of the loop of CompiledTransaction::serializeTo
SerializeNext ==
  /\ pc = "serialize"
  /\ i < Len(compiled)
  /\ buffer' = buffer \o InstructionBytes(compiled[i + 1])
  /\ i' = i + 1
  /\ UNCHANGED <<pc, args, metaVars, accounts, header, compiled>>

\* the end of a loop
LoopEnds ==
  /\ \/ pc = "collect" /\ i = Len(instructions) /\ pc' = "merge"
     \/ pc = "merge" /\ i = Len(allMetas) /\ pc' = "sort"
     \/ pc = "serialize" /\ i = Len(compiled) /\ pc' = "done"
  /\ i' = 0
  /\ UNCHANGED <<args, metaVars, messageVars>>

Next ==
  \/ Collect \/ MergeNext \/ SortNext \/ CountPrivileges
  \/ CompileNext \/ SerializeHead \/ SerializeNext \/ LoopEnds

Spec == Init /\ [][Next]_vars

----------------------------------------------------------------------------

\* the metas that name a key, in the first n entries
Mentions(key, n) == {k \in 1 .. n : allMetas[k].pubkey = key}

SomeSigner(S) == \E k \in S : allMetas[k].isSigner
SomeWritable(S) == \E k \in S : allMetas[k].isWritable

\* how many entries of allMetas the second loop has seen
Seen == IF pc = "collect" THEN 0 ELSE IF pc = "merge" THEN i ELSE Len(allMetas)

(* After every round of the merging loop each key seen so far has one      *)
(* entry, and signs or is writable if any mention of it asks for that      *)
(* (solana.cpp:505-518).                                                   *)
MergeRight ==
  /\ \A j, k \in Positions(uniqueMetas) :
       uniqueMetas[j].pubkey = uniqueMetas[k].pubkey => j = k
  /\ {uniqueMetas[k].pubkey : k \in Positions(uniqueMetas)}
       = {allMetas[k].pubkey : k \in 1 .. Seen}
  /\ \A k \in Positions(uniqueMetas) :
       LET S == Mentions(uniqueMetas[k].pubkey, Seen)
       IN  /\ uniqueMetas[k].isSigner = SomeSigner(S)
           /\ uniqueMetas[k].isWritable = SomeWritable(S)

\* what the cluster takes from the header for the k-th account
ReadsAsSigner(k) == k <= header.requiredSignatures
ReadsAsWritable(k) ==
  IF ReadsAsSigner(k)
  THEN k <= header.requiredSignatures - header.readOnlySigned
  ELSE k <= Len(accounts) - header.readOnlyUnsigned

Signers == {k \in Positions(sorted) : sorted[k].isSigner}

(* The cluster gives every account exactly the privileges its instructions *)
(* asked for, and the payer is the account it charges, namely the first    *)
(* (solana.cpp:520-540).  This needs accounts operator< can order, no more *)
(* accounts than a position has values, fewer signers than that, and, for  *)
(* the charge, a payer that is the only signer that is written.            *)
HeaderRight ==
  ( /\ pc \in {"compile", "serialize", "done"}
    /\ ~Conflict(uniqueMetas)
    /\ Len(accounts) <= IndexRange
    /\ Cardinality(Signers) < IndexRange ) =>
    /\ \A k \in Positions(accounts) :
         LET S == Mentions(accounts[k], Len(allMetas))
         IN  /\ ReadsAsSigner(k) = SomeSigner(S)
             /\ ReadsAsWritable(k) = SomeWritable(S)
    /\ (\A k \in Positions(sorted) :
          sorted[k].isSigner /\ sorted[k].isWritable => sorted[k].pubkey = Payer)
         => accounts[1] = Payer

(* The order of the accounts that solana.cpp:520-521 promises, whatever    *)
(* the privileges of the accounts.                                         *)
Class(meta) ==
  CASE meta.isSigner /\ meta.isWritable -> 1
    [] meta.isSigner /\ ~meta.isWritable -> 2
    [] ~meta.isSigner /\ meta.isWritable -> 3
    [] OTHER -> 4
SortedAsDocumented ==
  \A j, k \in Positions(sorted) : j < k => Class(sorted[j]) <= Class(sorted[k])

\* the account at a position counted from zero
At(index) == accounts[index + 1]

(* The compiled form of an instruction names the program and the accounts  *)
(* of the instruction it was made of, in their order (solana.cpp:470-483). *)
(* Positions have as many values as a uint8_t.                             *)
IndicesRight ==
  Len(accounts) <= IndexRange =>
    \A n \in Positions(compiled) :
      LET c == compiled[n]
          ix == instructions[n]
      IN  /\ At(c.programIdIndex) = ix.programId
          /\ Len(c.accountIndices) = Len(ix.accounts)
          /\ \A k \in Positions(ix.accounts) : At(c.accountIndices[k]) = ix.accounts[k].pubkey
=============================================================================
