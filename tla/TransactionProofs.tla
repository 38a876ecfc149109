-------------------------- MODULE TransactionProofs --------------------------
(***************************************************************************)
(* CompileTransaction: what fromInstructions makes of any instructions.    *)
(* Merged privileges, positions and counters are right, whatever the       *)
(* accounts, their privileges and the order std::sort puts equal ones in.  *)
(* SendTransaction: what the cluster gets.  The text that is sent carries  *)
(* what was compiled, and the number of signatures it needs if only the    *)
(* payer signs.                                                            *)
(***************************************************************************)
EXTENDS SendTransaction, CodecProofs, SequenceTheorems

Phases == {"collect", "merge", "sort", "compile", "serialize", "done"}

Compiled == [programIdIndex : 0 .. IndexRange - 1,
             accountIndices : Seq(0 .. IndexRange - 1),
             data : Seq(Byte)]

\* The lists the message is made of.
ListsTyped ==
  /\ instructions \in Seq(Instructions)
  /\ i \in Nat
  /\ allMetas \in Seq(Metas)
  /\ uniqueMetas \in Seq(Metas)
  /\ sorted \in Seq(Metas)
  /\ accounts \in Seq(Keys)
  /\ header \in [requiredSignatures : 0 .. IndexRange - 1,
                 readOnlySigned : 0 .. IndexRange - 1,
                 readOnlyUnsigned : 0 .. IndexRange - 1]
  /\ compiled \in Seq(Compiled)

\* How far the loops are, and that a loop before its turn has done nothing.
Progress ==
  /\ pc \in Phases
  /\ pc = "collect" => i <= Len(instructions) /\ uniqueMetas = <<>>
  /\ pc = "merge" => i <= Len(allMetas)
  /\ pc \in {"collect", "merge"} => sorted = <<>>
  /\ pc = "sort" => i = 0
  /\ pc \in {"collect", "merge", "sort"} => compiled = <<>>
  /\ pc = "compile" => i = Len(compiled)
  /\ Len(compiled) <= Len(instructions)
  /\ pc \in {"serialize", "done"} => Len(compiled) = Len(instructions)
  /\ pc = "serialize" => i <= Len(compiled)

\* instructions whose accounts are in allMetas
Collected == IF pc = "collect" THEN i ELSE Len(instructions)

Mentioned(key) == \E k \in Positions(allMetas) : allMetas[k].pubkey = key

\* The payer comes first, and after it whatever an instruction names.
AllMentioned ==
  /\ Len(allMetas) >= 1 /\ allMetas[1] = PayerMeta
  /\ \A n \in 1 .. Collected :
       /\ Mentioned(instructions[n].programId)
       /\ \A j \in Positions(instructions[n].accounts) :
            Mentioned(instructions[n].accounts[j].pubkey)

\* std::sort has put some of the accounts in place, each of them once.
Selected ==
  /\ \A j \in Positions(sorted) : \E k \in Positions(uniqueMetas) : sorted[j] = uniqueMetas[k]
  /\ \A j, k \in Positions(sorted) : sorted[j].pubkey = sorted[k].pubkey => j = k

\* If operator< is an order, nothing in place or still to be placed is less
\* than what comes before it.
InOrder ==
  ~Conflict(uniqueMetas) =>
    /\ \A j, k \in Positions(sorted) : j < k => ~Less(sorted[k], sorted[j])
    /\ \A j \in Positions(sorted) : \A k \in Unsorted(uniqueMetas, sorted) :
         ~Less(uniqueMetas[k], sorted[j])

\* When the sort is over every account is in the list and counted.
Listed ==
  pc \in {"compile", "serialize", "done"} =>
    /\ Unsorted(uniqueMetas, sorted) = {}
    /\ accounts = [k \in Positions(sorted) |-> sorted[k].pubkey]
    /\ header = HeaderOf(sorted)

\* Every instruction is compiled with the list.
CompiledRight ==
  \A n \in Positions(compiled) : compiled[n] = FromInstruction(instructions[n], accounts)

IInv ==
  /\ ListsTyped /\ Progress /\ AllMentioned /\ MergeRight
  /\ Selected /\ InOrder /\ Listed /\ CompiledRight

----------------------------------------------------------------------------
(* The operators. *)

\* a number within the values of a uint8_t is kept
LEMMA ModFacts ==
  ASSUME NEW n \in Nat, NEW m \in Nat \ {0}
  PROVE  n % m \in 0 .. m - 1 /\ (n < m => n % m = n)
OBVIOUS

\* the positions of a list are finitely many
LEMMA CountFacts ==
  ASSUME NEW n \in Nat, NEW S \in SUBSET (1 .. n)
  PROVE  /\ IsFiniteSet(S) /\ Cardinality(S) \in Nat /\ Cardinality(S) <= n
         /\ Count(S) \in 0 .. IndexRange - 1
         /\ Cardinality(S) < IndexRange => Count(S) = Cardinality(S)
<1>1. IsFiniteSet(1 .. n) /\ Cardinality(1 .. n) = n
  BY FS_Interval
<1>2. IsFiniteSet(S) /\ Cardinality(S) <= Cardinality(1 .. n)
  BY <1>1, FS_Subset
<1>3. Cardinality(S) \in Nat
  BY <1>2, FS_CardinalityType
<1>4. IndexRange \in Nat \ {0}
  BY IndexAssumption
<1>5. QED
  BY <1>1, <1>2, <1>3, <1>4, ModFacts DEF Count

\* the fields of a meta
LEMMA MetaFields ==
  /\ \A key \in Keys : \A s, w \in BOOLEAN :
       /\ Meta(key, s, w) \in Metas
       /\ Meta(key, s, w).pubkey = key /\ Meta(key, s, w).isSigner = s /\ Meta(key, s, w).isWritable = w
  /\ \A x \in Metas : x.pubkey \in Keys /\ x.isSigner \in BOOLEAN /\ x.isWritable \in BOOLEAN
  /\ \A x, y \in Metas : MaxPrivileges(x, y) \in Metas
BY DEF Meta, Metas, MaxPrivileges

\* the entry of the payer
LEMMA PayerFields == PayerMeta \in Metas /\ PayerMeta.pubkey = Payer
BY PayerAssumption, MetaFields DEF PayerMeta

\* the fields of an instruction
LEMMA InstructionFields ==
  ASSUME NEW ix \in Instructions
  PROVE  ix.programId \in Keys /\ ix.accounts \in Seq(Metas) /\ ix.data \in Seq(Byte)
BY DEF Instructions, Byte

\* the counters are uint8_t
LEMMA HeaderTyped ==
  ASSUME NEW metas \in Seq(Metas)
  PROVE  HeaderOf(metas) \in [requiredSignatures : 0 .. IndexRange - 1,
                              readOnlySigned : 0 .. IndexRange - 1,
                              readOnlyUnsigned : 0 .. IndexRange - 1]
<1> DEFINE A == {k \in Positions(metas) : metas[k].isSigner}
           B == {k \in Positions(metas) : metas[k].isSigner /\ ~metas[k].isWritable}
           C == {k \in Positions(metas) : ~metas[k].isSigner /\ ~metas[k].isWritable}
<1>1. Len(metas) \in Nat /\ A \in SUBSET (1 .. Len(metas)) /\ B \in SUBSET (1 .. Len(metas))
      /\ C \in SUBSET (1 .. Len(metas))
  BY DEF Positions
<1>2. HeaderOf(metas) = [requiredSignatures |-> Count(A), readOnlySigned |-> Count(B),
                         readOnlyUnsigned |-> Count(C)]
  BY DEF HeaderOf
<1> HIDE DEF A, B, C
<1>3. Count(A) \in 0 .. IndexRange - 1 /\ Count(B) \in 0 .. IndexRange - 1
      /\ Count(C) \in 0 .. IndexRange - 1
  BY <1>1, CountFacts
<1>4. QED
  BY <1>2, <1>3

\* std::find: the first position of a key, or the end of the list
LEMMA IndexFinds ==
  ASSUME NEW keys \in Seq(Keys), NEW key \in Keys
  PROVE  /\ Index(keys, key) \in 0 .. IndexRange - 1
         /\ (\E k \in 1 .. Len(keys) : keys[k] = key) /\ Len(keys) <= IndexRange
              => /\ Index(keys, key) + 1 \in 1 .. Len(keys)
                 /\ keys[Index(keys, key) + 1] = key
<1> DEFINE P(k) == (k > Len(keys) \/ keys[k] = key) /\ \A j \in 1 .. k - 1 : keys[j] # key
           S == {k \in 1 .. Len(keys) + 1 : k > Len(keys) \/ keys[k] = key}
           first == CHOOSE k \in 1 .. Len(keys) + 1 : P(k)
<1>1. Len(keys) \in Nat
  OBVIOUS
<1>2. PICK m \in S : \A k \in S : m <= k
  <2>1. S \in SUBSET Nat /\ Len(keys) + 1 \in S
    BY <1>1
  <2> HIDE DEF S
  <2>2. QED
    BY <2>1, LeastElement
<1>3. m \in 1 .. Len(keys) + 1 /\ P(m)
  <2>1. m \in 1 .. Len(keys) + 1 /\ (m > Len(keys) \/ keys[m] = key)
    BY <1>2
  <2>2. ASSUME NEW j \in 1 .. m - 1, keys[j] = key
        PROVE  FALSE
    BY <1>1, <1>2, <2>1, <2>2
  <2>3. QED
    BY <2>1, <2>2
<1>4. first \in 1 .. Len(keys) + 1 /\ P(first)
  <2> HIDE DEF P
  <2>1. QED
    BY <1>3
<1>5. Index(keys, key) = (first - 1) % IndexRange
  BY DEF Index
<1> HIDE DEF first
<1>6. first - 1 \in Nat /\ IndexRange \in Nat \ {0}
  BY <1>4, IndexAssumption
<1>7. /\ (first - 1) % IndexRange \in 0 .. IndexRange - 1
      /\ first - 1 < IndexRange => (first - 1) % IndexRange = first - 1
  BY <1>6, ModFacts
<1>8. ASSUME NEW k \in 1 .. Len(keys), keys[k] = key, Len(keys) <= IndexRange
      PROVE  first <= Len(keys) /\ keys[first] = key /\ first - 1 < IndexRange
  <2>1. first \in 1 .. Len(keys) + 1 /\ (first > Len(keys) \/ keys[first] = key)
    BY <1>4
  <2>2. \A j \in 1 .. first - 1 : keys[j] # key
    BY <1>4
  <2>3. first <= Len(keys)
    BY <1>1, <1>8, <2>1, <2>2
  <2>4. QED
    BY <1>1, <1>6, <1>8, <2>1, <2>3
<1>9. Index(keys, key) \in 0 .. IndexRange - 1
  BY <1>5, <1>7
<1>10. ASSUME NEW k \in 1 .. Len(keys), keys[k] = key, Len(keys) <= IndexRange
       PROVE  Index(keys, key) + 1 \in 1 .. Len(keys) /\ keys[Index(keys, key) + 1] = key
  <2>1. first <= Len(keys) /\ keys[first] = key /\ Index(keys, key) = first - 1
    BY <1>5, <1>7, <1>8, <1>10
  <2> HIDE DEF P
  <2>2. QED
    BY <1>1, <1>4, <2>1
<1>11. QED
  BY <1>9, <1>10

\* a compiled instruction
LEMMA CompiledTyped ==
  ASSUME NEW ix \in Instructions, NEW keys \in Seq(Keys)
  PROVE  FromInstruction(ix, keys) \in Compiled
<1>1. ix.programId \in Keys /\ ix.accounts \in Seq(Metas) /\ ix.data \in Seq(Byte)
  BY InstructionFields
<1>2. \A k \in Positions(ix.accounts) : ix.accounts[k].pubkey \in Keys
  BY <1>1, MetaFields DEF Positions
<1>3. \A key \in Keys : Index(keys, key) \in 0 .. IndexRange - 1
  BY IndexFinds
<1>4. [k \in Positions(ix.accounts) |-> Index(keys, ix.accounts[k].pubkey)] \in Seq(0 .. IndexRange - 1)
  BY <1>1, <1>2, <1>3 DEF Positions
<1>5. Index(keys, ix.programId) \in 0 .. IndexRange - 1
  BY <1>1, <1>3
<1>6. QED
  BY <1>1, <1>4, <1>5 DEF FromInstruction, Compiled

\* no key has two entries
Distinct(metas) == \A j, k \in Positions(metas) : metas[j].pubkey = metas[k].pubkey => j = k

\* One round of the merging loop: the entry of the key is the only one that
\* changes, or it is a new one.
LEMMA MergeFacts ==
  ASSUME NEW metas \in Seq(Metas), NEW meta \in Metas, Distinct(metas)
  PROVE  LET m == Merge(metas, meta)
         IN  /\ m \in Seq(Metas) /\ Distinct(m)
             /\ {m[k].pubkey : k \in Positions(m)} = {metas[k].pubkey : k \in Positions(metas)} \cup {meta.pubkey}
             /\ \A k \in Positions(m) :
                  \/ k \in Positions(metas) /\ m[k] = metas[k] /\ m[k].pubkey # meta.pubkey
                  \/ /\ k \in Positions(metas) /\ metas[k].pubkey = meta.pubkey
                     /\ m[k] = MaxPrivileges(metas[k], meta) /\ m[k].pubkey = meta.pubkey
                  \/ m[k] = meta /\ \A j \in Positions(metas) : metas[j].pubkey # meta.pubkey
<1> DEFINE m == Merge(metas, meta)
           found == \E k \in Positions(metas) : metas[k].pubkey = meta.pubkey
<1> USE DEF Positions
<1>1. \A k \in 1 .. Len(metas) :
        /\ metas[k] \in Metas
        /\ MaxPrivileges(metas[k], meta) \in Metas
        /\ MaxPrivileges(metas[k], meta).pubkey = metas[k].pubkey
  <2>1. \A k \in 1 .. Len(metas) : metas[k] \in Metas
    OBVIOUS
  <2>2. \A x \in Metas : MaxPrivileges(x, meta) \in Metas /\ MaxPrivileges(x, meta).pubkey = x.pubkey
    BY DEF MaxPrivileges, Meta, Metas
  <2>3. QED
    BY <2>1, <2>2
<1>2. CASE found
  <2>1. m = [k \in 1 .. Len(metas) |->
              IF metas[k].pubkey = meta.pubkey THEN MaxPrivileges(metas[k], meta) ELSE metas[k]]
    BY <1>2 DEF Merge
  <2> HIDE DEF m
  <2>2. m \in Seq(Metas) /\ Len(m) = Len(metas)
    BY <1>1, <2>1
  <2>3. \A k \in 1 .. Len(metas) : m[k].pubkey = metas[k].pubkey
    BY <1>1, <2>1
  <2>4. Distinct(m)
    BY <2>2, <2>3 DEF Distinct
  <2>5. {m[k].pubkey : k \in 1 .. Len(m)} = {metas[k].pubkey : k \in 1 .. Len(metas)} \cup {meta.pubkey}
    BY <1>2, <2>2, <2>3
  <2>6. \A k \in 1 .. Len(m) :
          \/ k \in 1 .. Len(metas) /\ m[k] = metas[k] /\ m[k].pubkey # meta.pubkey
          \/ /\ k \in 1 .. Len(metas) /\ metas[k].pubkey = meta.pubkey
             /\ m[k] = MaxPrivileges(metas[k], meta) /\ m[k].pubkey = meta.pubkey
    BY <1>1, <2>1, <2>2
  <2>7. QED
    BY <2>2, <2>4, <2>5, <2>6 DEF m
<1>3. CASE ~found
  <2>1. m = Append(metas, meta)
    BY <1>3 DEF Merge
  <2> HIDE DEF m
  <2>2. /\ m \in Seq(Metas) /\ Len(m) = Len(metas) + 1 /\ m[Len(metas) + 1] = meta
        /\ \A k \in 1 .. Len(metas) : m[k] = metas[k]
    BY <2>1
  <2>3. Distinct(m)
    BY <1>3, <2>2 DEF Distinct
  <2>4. {m[k].pubkey : k \in 1 .. Len(m)} = {metas[k].pubkey : k \in 1 .. Len(metas)} \cup {meta.pubkey}
    BY <2>2
  <2>5. \A k \in 1 .. Len(m) :
          \/ k \in 1 .. Len(metas) /\ m[k] = metas[k] /\ m[k].pubkey # meta.pubkey
          \/ m[k] = meta /\ \A j \in 1 .. Len(metas) : metas[j].pubkey # meta.pubkey
    BY <1>3, <2>2
  <2>6. QED
    BY <2>2, <2>3, <2>4, <2>5 DEF m
<1>4. QED
  BY <1>2, <1>3

\* the first n entries, merged
Merged(metas, n) ==
  /\ Distinct(metas)
  /\ {metas[k].pubkey : k \in Positions(metas)} = {allMetas[k].pubkey : k \in 1 .. n}
  /\ \A k \in Positions(metas) :
       /\ metas[k].isSigner = SomeSigner(Mentions(metas[k].pubkey, n))
       /\ metas[k].isWritable = SomeWritable(Mentions(metas[k].pubkey, n))

\* The invariant as a fact about the round.
LEMMA MergeRightIsMerged == MergeRight <=> Merged(uniqueMetas, Seen)
BY DEF MergeRight, Merged, Distinct

\* One more entry.
LEMMA MergeStep ==
  ASSUME allMetas \in Seq(Metas), NEW metas \in Seq(Metas), NEW n \in Nat,
         n < Len(allMetas), Merged(metas, n)
  PROVE  Merged(Merge(metas, allMetas[n + 1]), n + 1)
<1> DEFINE meta == allMetas[n + 1]
           m == Merge(metas, meta)
<1>1. meta \in Metas /\ \A k \in 1 .. n + 1 : allMetas[k] \in Metas
  OBVIOUS
<1>2. /\ Distinct(m)
      /\ {m[k].pubkey : k \in Positions(m)} = {metas[k].pubkey : k \in Positions(metas)} \cup {meta.pubkey}
      /\ \A k \in Positions(m) :
           \/ k \in Positions(metas) /\ m[k] = metas[k] /\ m[k].pubkey # meta.pubkey
           \/ /\ k \in Positions(metas) /\ metas[k].pubkey = meta.pubkey
              /\ m[k] = MaxPrivileges(metas[k], meta) /\ m[k].pubkey = meta.pubkey
           \/ m[k] = meta /\ \A j \in Positions(metas) : metas[j].pubkey # meta.pubkey
  <2>1. Distinct(metas)
    BY DEF Merged
  <2> HIDE DEF meta
  <2>2. QED
    BY <1>1, <2>1, MergeFacts DEF m
<1> HIDE DEF m
<1>3. {m[k].pubkey : k \in Positions(m)} = {allMetas[k].pubkey : k \in 1 .. n + 1}
  <2>1. 1 .. n + 1 = (1 .. n) \cup {n + 1}
    OBVIOUS
  <2>2. {allMetas[k].pubkey : k \in 1 .. n + 1} = {allMetas[k].pubkey : k \in 1 .. n} \cup {meta.pubkey}
    BY <2>1
  <2> HIDE DEF meta
  <2>3. QED
    BY <1>2, <2>2 DEF Merged
<1>4. ASSUME NEW key
      PROVE  /\ key = meta.pubkey => Mentions(key, n + 1) = Mentions(key, n) \cup {n + 1}
             /\ key # meta.pubkey => Mentions(key, n + 1) = Mentions(key, n)
  BY DEF Mentions
<1>5. ASSUME NEW k \in Positions(m)
      PROVE  /\ m[k].isSigner = SomeSigner(Mentions(m[k].pubkey, n + 1))
             /\ m[k].isWritable = SomeWritable(Mentions(m[k].pubkey, n + 1))
  <2>1. CASE k \in Positions(metas) /\ m[k] = metas[k] /\ m[k].pubkey # meta.pubkey
    <3>1. Mentions(m[k].pubkey, n + 1) = Mentions(metas[k].pubkey, n)
      BY <1>4, <2>1
    <3>2. QED
      BY <2>1, <3>1 DEF Merged
  <2>2. CASE /\ k \in Positions(metas) /\ metas[k].pubkey = meta.pubkey
             /\ m[k] = MaxPrivileges(metas[k], meta) /\ m[k].pubkey = meta.pubkey
    <3> DEFINE S == Mentions(metas[k].pubkey, n)
    <3>1. Mentions(m[k].pubkey, n + 1) = S \cup {n + 1}
      BY <1>4, <2>2
    <3>2. metas[k].isSigner = SomeSigner(S) /\ metas[k].isWritable = SomeWritable(S)
      BY <2>2 DEF Merged
    <3>3. metas[k] \in Metas
      BY <2>2 DEF Positions
    <3>4. m[k].isSigner = (metas[k].isSigner \/ meta.isSigner)
      BY <1>1, <2>2, <3>3 DEF MaxPrivileges, Meta, Metas
    <3>5. m[k].isWritable = (metas[k].isWritable \/ meta.isWritable)
      BY <1>1, <2>2, <3>3 DEF MaxPrivileges, Meta, Metas
    <3> HIDE DEF S
    <3>6. SomeSigner(S \cup {n + 1}) = (SomeSigner(S) \/ meta.isSigner)
      BY Zenon DEF SomeSigner
    <3>7. SomeWritable(S \cup {n + 1}) = (SomeWritable(S) \/ meta.isWritable)
      BY Zenon DEF SomeWritable
    <3>8. QED
      BY <3>1, <3>2, <3>4, <3>5, <3>6, <3>7, Zenon
  <2>3. CASE m[k] = meta /\ \A j \in Positions(metas) : metas[j].pubkey # meta.pubkey
    <3>1. Mentions(meta.pubkey, n) = {}
      BY <2>3, SMTT(30) DEF Merged, Mentions
    <3>2. Mentions(m[k].pubkey, n + 1) = {n + 1}
      BY <1>4, <2>3, <3>1
    <3>3. SomeSigner({n + 1}) = meta.isSigner /\ SomeWritable({n + 1}) = meta.isWritable
      BY <1>1 DEF SomeSigner, SomeWritable, Metas
    <3>4. QED
      BY <2>3, <3>2, <3>3
  <2>4. QED
    BY <1>2, <2>1, <2>2, <2>3
<1>6. QED
  BY <1>2, <1>3, <1>5 DEF Merged, m

----------------------------------------------------------------------------
(* The steps keep the invariant. *)

\* r is s, then t, then x
Joins(r, s, t, x) ==
  /\ Len(r) = Len(s) + Len(t) + 1
  /\ \A k \in 1 .. Len(s) : r[k] = s[k]
  /\ \A k \in 1 .. Len(t) : r[Len(s) + k] = t[k]
  /\ r[Len(s) + Len(t) + 1] = x

Joined(s, t, x) == s \o t \o <<x>>

\* What the first loop appends: a list and an element.
LEMMA JoinedFacts ==
  ASSUME NEW s \in Seq(Metas), NEW t \in Seq(Metas), NEW x \in Metas
  PROVE  Joined(s, t, x) \in Seq(Metas) /\ Joins(Joined(s, t, x), s, t, x)
<1> DEFINE q == s \o t
           r == Joined(s, t, x)
<1>1. Len(s) \in Nat /\ Len(t) \in Nat /\ <<x>> \in Seq(Metas) /\ Len(<<x>>) = 1 /\ <<x>>[1] = x
  OBVIOUS
<1>2. /\ q \in Seq(Metas) /\ Len(q) = Len(s) + Len(t)
      /\ \A k \in 1 .. Len(s) + Len(t) : q[k] = IF k <= Len(s) THEN s[k] ELSE t[k - Len(s)]
  BY ConcatProperties
<1> HIDE DEF q
<1> DEFINE one == <<x>>
<1>3. /\ r \in Seq(Metas) /\ Len(r) = Len(q) + Len(one)
      /\ \A k \in 1 .. Len(q) + Len(one) : r[k] = IF k <= Len(q) THEN q[k] ELSE one[k - Len(q)]
  <2>1. r = q \o one
    BY DEF q, Joined
  <2> HIDE DEF one
  <2>2. QED
    BY <1>1, <1>2, <2>1, ConcatProperties DEF one
<1>4. Len(one) = 1 /\ one[1] = x
  BY <1>1
<1> HIDE DEF one, r
<1>5. Len(q) \in Nat /\ Len(r) = Len(s) + Len(t) + 1
  BY <1>1, <1>2, <1>3, <1>4
<1>6. ASSUME NEW k \in 1 .. Len(s)
      PROVE  r[k] = s[k]
  <2>1. k \in 1 .. Len(s) + Len(t) /\ k \in 1 .. Len(q) + Len(one) /\ k <= Len(q)
    BY <1>1, <1>2, <1>4
  <2>2. r[k] = q[k]
    BY <1>3, <2>1
  <2>3. QED
    BY <1>2, <2>1, <2>2
<1>7. ASSUME NEW k \in 1 .. Len(t)
      PROVE  r[Len(s) + k] = t[k]
  <2> DEFINE j == Len(s) + k
  <2>1. /\ j \in 1 .. Len(s) + Len(t) /\ j \in 1 .. Len(q) + Len(one)
        /\ j <= Len(q) /\ ~(j <= Len(s)) /\ j - Len(s) = k
    BY <1>1, <1>2, <1>4
  <2> HIDE DEF j
  <2>2. r[j] = q[j]
    BY <1>3, <2>1
  <2>3. q[j] = t[j - Len(s)]
    BY <1>2, <2>1
  <2>4. QED
    BY <2>1, <2>2, <2>3 DEF j
<1>8. r[Len(s) + Len(t) + 1] = x
  <2> DEFINE j == Len(s) + Len(t) + 1
  <2>1. j \in 1 .. Len(q) + Len(one) /\ ~(j <= Len(q)) /\ j - Len(q) = 1
    BY <1>1, <1>2, <1>4
  <2> HIDE DEF j
  <2>2. r[j] = one[1]
    BY <1>3, <2>1
  <2>3. QED
    BY <1>4, <2>2 DEF j
<1>9. QED
  BY <1>3, <1>5, <1>6, <1>7, <1>8 DEF r, Joins

\* What is in allMetas stays there.
LEMMA SameMentions ==
  ASSUME AllMentioned, UNCHANGED <<instructions, allMetas>>, Collected' = Collected
  PROVE  AllMentioned'
BY DEF AllMentioned, Mentioned, Positions

\* What is merged stays merged.
LEMMA SameMerge ==
  ASSUME MergeRight, UNCHANGED <<allMetas, uniqueMetas>>, Seen' = Seen
  PROVE  MergeRight'
<1>1. (\A j, k \in Positions(uniqueMetas) : uniqueMetas[j].pubkey = uniqueMetas[k].pubkey => j = k)'
  BY DEF MergeRight, Positions
<1>2. ({uniqueMetas[k].pubkey : k \in Positions(uniqueMetas)} = {allMetas[k].pubkey : k \in 1 .. Seen})'
  <2>1. {uniqueMetas'[k].pubkey : k \in 1 .. Len(uniqueMetas')}
          = {uniqueMetas[k].pubkey : k \in 1 .. Len(uniqueMetas)}
    OBVIOUS
  <2>2. {allMetas'[k].pubkey : k \in 1 .. Seen'} = {allMetas[k].pubkey : k \in 1 .. Seen}
    OBVIOUS
  <2>3. QED
    BY <2>1, <2>2 DEF MergeRight, Positions
<1>3. (\A k \in Positions(uniqueMetas) :
         LET S == Mentions(uniqueMetas[k].pubkey, Seen)
         IN  /\ uniqueMetas[k].isSigner = SomeSigner(S)
             /\ uniqueMetas[k].isWritable = SomeWritable(S))'
  BY DEF MergeRight, Mentions, SomeSigner, SomeWritable, Positions
<1>4. QED
  BY <1>1, <1>2, <1>3 DEF MergeRight

\* the arguments are in, the lists but for the payer empty
LEMMA StartInv == Start => IInv
<1> SUFFICES ASSUME Start
             PROVE  IInv
  OBVIOUS
<1>1. /\ pc = "collect" /\ instructions \in Seq(Instructions) /\ i = 0
      /\ allMetas = <<PayerMeta>> /\ uniqueMetas = <<>> /\ sorted = <<>> /\ accounts = <<>>
      /\ header = NoHeader /\ compiled = <<>>
  BY RequestsAssumption DEF Start
<1>2. ListsTyped
  <2>1. header \in [requiredSignatures : 0 .. IndexRange - 1,
                    readOnlySigned : 0 .. IndexRange - 1,
                    readOnlyUnsigned : 0 .. IndexRange - 1]
    BY <1>1, IndexAssumption DEF NoHeader
  <2>2. allMetas \in Seq(Metas)
    BY <1>1, PayerFields
  <2>3. /\ uniqueMetas \in Seq(Metas) /\ sorted \in Seq(Metas) /\ accounts \in Seq(Keys)
        /\ compiled \in Seq(Compiled)
    BY <1>1
  <2>4. QED
    BY <1>1, <2>1, <2>2, <2>3 DEF ListsTyped
<1>3. Progress
  BY <1>1 DEF Progress, Phases
<1>4. AllMentioned
  BY <1>1 DEF AllMentioned, Collected
<1>5. MergeRight
  BY <1>1 DEF MergeRight, Seen, Positions
<1>6. Selected /\ CompiledRight
  BY <1>1 DEF Selected, CompiledRight, Positions
<1>7. InOrder
  BY <1>1 DEF InOrder, Positions
<1>8. Listed
  BY <1>1 DEF Listed
<1>9. QED
  BY <1>2, <1>3, <1>4, <1>5, <1>6, <1>7, <1>8 DEF IInv

\* one round of the first loop
LEMMA CollectInv ==
  ASSUME IInv, Collect
  PROVE  IInv'
<1> DEFINE ix == instructions[i + 1]
<1>1. /\ pc = "collect" /\ i < Len(instructions) /\ i' = i + 1
      /\ allMetas' = allMetas \o ix.accounts \o <<Meta(ix.programId, FALSE, FALSE)>>
      /\ UNCHANGED <<pc, instructions, uniqueMetas, sorted, accounts, header, compiled>>
  BY DEF Collect, args, messageVars
<1>2. ListsTyped /\ Progress /\ AllMentioned
  BY DEF IInv
<1>3. instructions \in Seq(Instructions) /\ i \in Nat /\ allMetas \in Seq(Metas) /\ ix \in Instructions
  BY <1>1, <1>2 DEF ListsTyped
<1>4. ix.programId \in Keys /\ ix.accounts \in Seq(Metas)
  BY <1>3, InstructionFields
<1>5. /\ Meta(ix.programId, FALSE, FALSE) \in Metas
      /\ Meta(ix.programId, FALSE, FALSE).pubkey = ix.programId
  BY <1>4, MetaFields
<1> DEFINE program == Meta(ix.programId, FALSE, FALSE)
<1>6. /\ allMetas' \in Seq(Metas)
      /\ Len(allMetas') = Len(allMetas) + Len(ix.accounts) + 1
      /\ \A k \in 1 .. Len(allMetas) : allMetas'[k] = allMetas[k]
      /\ \A k \in 1 .. Len(ix.accounts) : allMetas'[Len(allMetas) + k] = ix.accounts[k]
      /\ allMetas'[Len(allMetas) + Len(ix.accounts) + 1] = program
  <2> HIDE DEF ix, program
  <2>1. allMetas' = Joined(allMetas, ix.accounts, program)
    BY <1>1 DEF program, ix, Joined
  <2>2. program \in Metas
    BY <1>5 DEF program
  <2>3. allMetas \in Seq(Metas) /\ ix.accounts \in Seq(Metas)
    BY <1>3, <1>4
  <2>4. \A u, v \in Seq(Metas) : \A x \in Metas : Joined(u, v, x) \in Seq(Metas) /\ Joins(Joined(u, v, x), u, v, x)
    BY JoinedFacts
  <2>5. allMetas' \in Seq(Metas) /\ Joins(allMetas', allMetas, ix.accounts, program)
    BY <2>1, <2>2, <2>3, <2>4, Zenon
  <2>6. QED
    BY <2>5, Zenon DEF Joins
<1> HIDE DEF ix, program
<1>7. ListsTyped'
  <2>1. i' \in Nat
    BY <1>1, <1>3
  <2>2. allMetas' \in Seq(Metas)
    BY <1>6
  <2>3. QED
    BY <1>1, <1>2, <2>1, <2>2 DEF ListsTyped
<1>8. Progress'
  BY <1>1, <1>2, <1>3 DEF Progress, ListsTyped
<1>9. Len(allMetas) \in Nat /\ Len(ix.accounts) \in Nat
  BY <1>3, <1>4
<1>10. \A key : Mentioned(key) => \E k \in 1 .. Len(allMetas') : allMetas'[k].pubkey = key
  BY <1>6, <1>9 DEF Mentioned, Positions
<1>11. /\ \E k \in 1 .. Len(allMetas') : allMetas'[k].pubkey = ix.programId
       /\ \A j \in 1 .. Len(ix.accounts) :
            \E k \in 1 .. Len(allMetas') : allMetas'[k].pubkey = ix.accounts[j].pubkey
  <2>1. \E k \in 1 .. Len(allMetas') : allMetas'[k].pubkey = ix.programId
    <3> DEFINE last == Len(allMetas) + Len(ix.accounts) + 1
    <3>1. last \in 1 .. Len(allMetas')
      BY <1>6, <1>9
    <3>2. allMetas'[last].pubkey = ix.programId
      BY <1>5, <1>6, Zenon DEF program
    <3> HIDE DEF last
    <3>3. QED
      BY <3>1, <3>2
  <2>2. ASSUME NEW j \in 1 .. Len(ix.accounts)
        PROVE  \E k \in 1 .. Len(allMetas') : allMetas'[k].pubkey = ix.accounts[j].pubkey
    <3>1. Len(allMetas) + j \in 1 .. Len(allMetas')
      BY <1>6, <1>9
    <3>2. QED
      BY <1>6, <3>1
  <2>3. QED
    BY <2>1, <2>2
<1>12. AllMentioned'
  <2>1. Len(allMetas') >= 1 /\ allMetas'[1] = PayerMeta
    BY <1>2, <1>6, <1>9 DEF AllMentioned
  <2>2. ASSUME NEW n \in 1 .. i + 1
        PROVE  /\ \E k \in 1 .. Len(allMetas') : allMetas'[k].pubkey = instructions[n].programId
               /\ \A j \in 1 .. Len(instructions[n].accounts) :
                    \E k \in 1 .. Len(allMetas') : allMetas'[k].pubkey = instructions[n].accounts[j].pubkey
    <3>1. CASE n = i + 1
      BY <1>11, <3>1 DEF ix
    <3>2. CASE n # i + 1
      <4>1. n \in 1 .. Collected
        BY <1>1, <1>3, <3>2 DEF Collected
      <4>2. /\ Mentioned(instructions[n].programId)
            /\ \A j \in 1 .. Len(instructions[n].accounts) : Mentioned(instructions[n].accounts[j].pubkey)
        BY <1>2, <4>1 DEF AllMentioned, Positions
      <4>3. QED
        BY <1>10, <4>2
    <3>3. QED
      BY <3>1, <3>2
  <2>3. Collected' = i + 1
    BY <1>1 DEF Collected
  <2>4. QED
    BY <1>1, <2>1, <2>2, <2>3 DEF AllMentioned, Mentioned, Positions
<1>13. MergeRight'
  <2>1. uniqueMetas' = <<>> /\ pc' = "collect"
    BY <1>1, <1>2 DEF Progress
  <2>2. QED
    BY <2>1 DEF MergeRight, Seen, Positions
<1>14. Selected' /\ InOrder' /\ Listed' /\ CompiledRight'
  <2>1. sorted' = <<>> /\ compiled' = <<>> /\ pc' = "collect"
    BY <1>1, <1>2 DEF Progress
  <2>2. QED
    BY <2>1 DEF Selected, InOrder, Listed, CompiledRight, Positions
<1>15. QED
  BY <1>7, <1>8, <1>12, <1>13, <1>14 DEF IInv

\* one round of the second loop
LEMMA MergeNextInv ==
  ASSUME IInv, MergeNext
  PROVE  IInv'
<1>1. /\ pc = "merge" /\ i < Len(allMetas) /\ i' = i + 1
      /\ uniqueMetas' = Merge(uniqueMetas, allMetas[i + 1])
      /\ UNCHANGED <<pc, instructions, allMetas, sorted, accounts, header, compiled>>
  BY DEF MergeNext, args, messageVars
<1>2. ListsTyped /\ Progress /\ AllMentioned /\ MergeRight
  BY DEF IInv
<1>3. i \in Nat /\ allMetas \in Seq(Metas) /\ uniqueMetas \in Seq(Metas) /\ allMetas[i + 1] \in Metas
  BY <1>1, <1>2 DEF ListsTyped
<1>4. Merged(uniqueMetas, i)
  BY <1>1, <1>2, MergeRightIsMerged DEF Seen
<1>5. Merged(uniqueMetas', i + 1)
  BY <1>1, <1>3, <1>4, MergeStep
<1>6. uniqueMetas' \in Seq(Metas)
  <2>1. Distinct(uniqueMetas)
    BY <1>4 DEF Merged
  <2>2. QED
    BY <1>1, <1>3, <2>1, MergeFacts
<1>7. ListsTyped'
  BY <1>1, <1>2, <1>3, <1>6 DEF ListsTyped
<1>8. Progress'
  BY <1>1, <1>2, <1>3 DEF Progress
<1>9. AllMentioned'
  BY <1>1, <1>2 DEF AllMentioned, Collected, Mentioned, Positions
<1>10. MergeRight'
  BY <1>1, <1>5, ZenonT(60) DEF MergeRight, Merged, Distinct, Seen, Mentions, SomeSigner, SomeWritable, Positions
<1>11. Selected' /\ InOrder' /\ Listed' /\ CompiledRight'
  <2>1. sorted' = <<>> /\ compiled' = <<>> /\ pc' = "merge"
    BY <1>1, <1>2 DEF Progress
  <2>2. QED
    BY <2>1 DEF Selected, InOrder, Listed, CompiledRight, Positions
<1>12. QED
  BY <1>7, <1>8, <1>9, <1>10, <1>11 DEF IInv

\* one step of the sort: an account that nothing left is less than
LEMMA SortNextInv ==
  ASSUME IInv, SortNext
  PROVE  IInv'
<1>1. /\ pc = "sort"
      /\ UNCHANGED <<pc, instructions, i, allMetas, uniqueMetas, accounts, header, compiled>>
  BY DEF SortNext, args, messageVars
<1>2. PICK k \in Unsorted(uniqueMetas, sorted) :
        /\ Conflict(uniqueMetas) \/ \A j \in Unsorted(uniqueMetas, sorted) : ~Less(uniqueMetas[j], uniqueMetas[k])
        /\ sorted' = Append(sorted, uniqueMetas[k])
  BY DEF SortNext
<1> DEFINE x == uniqueMetas[k]
           n == Len(sorted)
<1>3. ListsTyped /\ Progress /\ AllMentioned /\ MergeRight /\ Selected /\ InOrder
  BY DEF IInv
<1>4. uniqueMetas \in Seq(Metas) /\ sorted \in Seq(Metas) /\ compiled = <<>> /\ n \in Nat
  BY <1>1, <1>3 DEF ListsTyped, Progress
<1>5. k \in Positions(uniqueMetas) /\ x \in Metas /\ \A j \in 1 .. n : sorted[j] # x
  BY <1>2, <1>4 DEF Unsorted, Positions
<1>6. /\ sorted' \in Seq(Metas) /\ Len(sorted') = n + 1 /\ sorted'[n + 1] = x
      /\ \A j \in 1 .. n : sorted'[j] = sorted[j]
  BY <1>2, <1>4, <1>5
<1>7. \A j \in 1 .. n + 1 : j \in 1 .. n \/ j = n + 1
  BY <1>4
<1> HIDE DEF x, n
<1>8. ListsTyped'
  BY <1>1, <1>3, <1>6 DEF ListsTyped
<1>9. Progress'
  BY <1>1, <1>3 DEF Progress
<1>10. AllMentioned' /\ MergeRight' /\ CompiledRight' /\ Listed'
  <2>1. Seen' = Seen /\ Collected' = Collected
    BY <1>1 DEF Seen, Collected
  <2>2. QED
    BY <1>1, <1>3, <1>4, <2>1, SameMentions, SameMerge DEF CompiledRight, Listed, Positions
<1>11. Selected'
  <2>1. ASSUME NEW j \in 1 .. n + 1
        PROVE  \E m \in Positions(uniqueMetas) : sorted'[j] = uniqueMetas[m]
    BY <1>3, <1>5, <1>6, <1>7 DEF Selected, Positions, x, n
  <2>2. ASSUME NEW j \in 1 .. n
        PROVE  sorted[j].pubkey # x.pubkey
    <3>1. PICK m \in Positions(uniqueMetas) : sorted[j] = uniqueMetas[m]
      BY <1>3 DEF Selected, Positions, n
    <3>2. uniqueMetas[m].pubkey = x.pubkey => m = k
      BY <1>3, <1>5 DEF MergeRight, x
    <3>3. QED
      BY <1>5, <3>1, <3>2 DEF x
  <2>3. ASSUME NEW j \in 1 .. n + 1, NEW m \in 1 .. n + 1, sorted'[j].pubkey = sorted'[m].pubkey
        PROVE  j = m
    <3>1. j \in 1 .. n /\ m \in 1 .. n => j = m
      BY <1>3, <1>6, <2>3 DEF Selected, Positions, n
    <3>2. QED
      BY <1>6, <1>7, <2>2, <2>3, <3>1
  <2>4. QED
    BY <1>1, <1>6, <2>1, <2>3 DEF Selected, Positions
<1>12. InOrder'
  <2> SUFFICES ASSUME ~Conflict(uniqueMetas)
               PROVE  /\ \A j, m \in 1 .. n + 1 : j < m => ~Less(sorted'[m], sorted'[j])
                      /\ \A j \in 1 .. n + 1 : \A m \in Unsorted(uniqueMetas, sorted') :
                           ~Less(uniqueMetas[m], sorted'[j])
    BY <1>1, <1>6 DEF InOrder, Positions
  <2>1. \A j \in Unsorted(uniqueMetas, sorted) : ~Less(uniqueMetas[j], x)
    BY <1>2 DEF x
  <2>2. /\ \A j, m \in 1 .. n : j < m => ~Less(sorted[m], sorted[j])
        /\ \A j \in 1 .. n : \A m \in Unsorted(uniqueMetas, sorted) : ~Less(uniqueMetas[m], sorted[j])
    BY <1>3 DEF InOrder, Positions, n
  <2>3. Unsorted(uniqueMetas, sorted') \subseteq Unsorted(uniqueMetas, sorted)
    BY <1>4, <1>6 DEF Unsorted, Positions, n
  <2>4. \A j \in 1 .. n : ~Less(x, sorted[j])
    BY <1>2, <2>2 DEF x
  <2>5. ASSUME NEW j \in 1 .. n + 1, NEW m \in 1 .. n + 1, j < m
        PROVE  ~Less(sorted'[m], sorted'[j])
    <3>1. j \in 1 .. n /\ (m \in 1 .. n \/ m = n + 1)
      BY <1>4, <2>5 DEF n
    <3>2. QED
      BY <1>6, <2>2, <2>4, <2>5, <3>1
  <2>6. ASSUME NEW j \in 1 .. n + 1, NEW m \in Unsorted(uniqueMetas, sorted')
        PROVE  ~Less(uniqueMetas[m], sorted'[j])
    <3>1. m \in Unsorted(uniqueMetas, sorted)
      BY <2>3
    <3>2. QED
      BY <1>6, <1>7, <2>1, <2>2, <3>1
  <2>7. QED
    BY <2>5, <2>6
<1>13. QED
  BY <1>8, <1>9, <1>10, <1>11, <1>12 DEF IInv

\* the accounts are listed and counted
LEMMA CountPrivilegesInv ==
  ASSUME IInv, CountPrivileges
  PROVE  IInv'
<1>1. /\ pc = "sort" /\ pc' = "compile"
      /\ Unsorted(uniqueMetas, sorted) = {}
      /\ accounts' = [k \in Positions(sorted) |-> sorted[k].pubkey]
      /\ header' = HeaderOf(sorted)
      /\ UNCHANGED <<instructions, i, allMetas, uniqueMetas, sorted, compiled>>
  BY DEF CountPrivileges, args, metaVars
<1>2. ListsTyped /\ Progress /\ AllMentioned /\ MergeRight /\ Selected /\ InOrder
  BY DEF IInv
<1>3. sorted \in Seq(Metas) /\ compiled = <<>> /\ i = 0
  BY <1>1, <1>2 DEF ListsTyped, Progress
<1>4. accounts' \in Seq(Keys)
  <2>1. \A k \in 1 .. Len(sorted) : sorted[k].pubkey \in Keys
    BY <1>3, MetaFields
  <2>2. QED
    BY <1>1, <1>3, <2>1 DEF Positions
<1>5. header' \in [requiredSignatures : 0 .. IndexRange - 1,
                   readOnlySigned : 0 .. IndexRange - 1,
                   readOnlyUnsigned : 0 .. IndexRange - 1]
  BY <1>1, <1>3, HeaderTyped
<1>6. ListsTyped'
  BY <1>1, <1>2, <1>4, <1>5 DEF ListsTyped
<1>7. Progress'
  BY <1>1, <1>2, <1>3 DEF Progress, Phases, ListsTyped
<1>8. AllMentioned' /\ MergeRight' /\ CompiledRight'
  <2>1. Seen' = Seen /\ Collected' = Collected
    BY <1>1 DEF Seen, Collected
  <2>2. QED
    BY <1>1, <1>2, <1>3, <2>1, SameMentions, SameMerge DEF CompiledRight, Positions
<1>9. Selected' /\ InOrder'
  BY <1>1, <1>2 DEF Selected, InOrder, Conflict, Unsorted, Positions
<1>10. Listed'
  BY <1>1 DEF Listed, Unsorted, Positions
<1>11. QED
  BY <1>6, <1>7, <1>8, <1>9, <1>10 DEF IInv

\* one round of the last loop
LEMMA CompileNextInv ==
  ASSUME IInv, CompileNext
  PROVE  IInv'
<1>1. /\ pc = "compile" /\ i < Len(instructions) /\ i' = i + 1
      /\ compiled' = Append(compiled, FromInstruction(instructions[i + 1], accounts))
      /\ UNCHANGED <<pc, instructions, allMetas, uniqueMetas, sorted, accounts, header>>
  BY DEF CompileNext, args, metaVars, List
<1>2. ListsTyped /\ Progress /\ AllMentioned /\ MergeRight /\ Selected /\ InOrder /\ Listed /\ CompiledRight
  BY DEF IInv
<1> DEFINE c == FromInstruction(instructions[i + 1], accounts)
<1>3. /\ instructions \in Seq(Instructions) /\ i \in Nat /\ i = Len(compiled)
      /\ compiled \in Seq(Compiled) /\ accounts \in Seq(Keys)
  BY <1>1, <1>2 DEF ListsTyped, Progress
<1>4. c \in Compiled
  <2>1. instructions[i + 1] \in Instructions
    BY <1>1, <1>3
  <2>2. QED
    BY <1>3, <2>1, CompiledTyped
<1> HIDE DEF c
<1>5. /\ compiled' \in Seq(Compiled) /\ Len(compiled') = i + 1 /\ compiled'[i + 1] = c
      /\ \A n \in 1 .. i : compiled'[n] = compiled[n]
  BY <1>1, <1>3, <1>4 DEF c
<1>6. ListsTyped'
  BY <1>1, <1>2, <1>3, <1>5 DEF ListsTyped
<1>7. Progress'
  BY <1>1, <1>2, <1>3, <1>5 DEF Progress
<1>8. AllMentioned' /\ MergeRight'
  <2>1. Seen' = Seen /\ Collected' = Collected
    BY <1>1 DEF Seen, Collected
  <2>2. QED
    BY <1>1, <1>2, <2>1, SameMentions, SameMerge
<1>9. Selected' /\ InOrder' /\ Listed'
  BY <1>1, <1>2 DEF Selected, InOrder, Conflict, Listed, Unsorted, Positions
<1>10. CompiledRight'
  <2>1. ASSUME NEW n \in 1 .. i + 1
        PROVE  compiled'[n] = FromInstruction(instructions[n], accounts)
    <3>1. CASE n = i + 1
      BY <1>5, <3>1 DEF c
    <3>2. CASE n # i + 1
      BY <1>2, <1>3, <1>5, <3>2 DEF CompiledRight, Positions
    <3>3. QED
      BY <3>1, <3>2
  <2>2. QED
    BY <1>1, <1>5, <2>1 DEF CompiledRight, Positions
<1>11. QED
  BY <1>6, <1>7, <1>8, <1>9, <1>10 DEF IInv

\* the rounds that only change the buffer, and the ends of the loops
LEMMA LoopsInv ==
  ASSUME IInv, SerializeHead \/ SerializeNext \/ LoopEnds
  PROVE  IInv'
<1>1. /\ UNCHANGED <<instructions, allMetas, uniqueMetas, sorted, accounts, header, compiled>>
      /\ \/ /\ pc = "compile" /\ i = Len(instructions) /\ pc' = "serialize" /\ i' = 0
         \/ /\ pc = "serialize" /\ i < Len(compiled) /\ pc' = pc /\ i' = i + 1
         \/ /\ pc = "collect" /\ i = Len(instructions) /\ pc' = "merge" /\ i' = 0
         \/ /\ pc = "merge" /\ i = Len(allMetas) /\ pc' = "sort" /\ i' = 0
         \/ /\ pc = "serialize" /\ i = Len(compiled) /\ pc' = "done" /\ i' = 0
  BY DEF SerializeHead, SerializeNext, LoopEnds, args, metaVars, messageVars
<1>2. ListsTyped /\ Progress /\ AllMentioned /\ MergeRight /\ Selected /\ InOrder /\ Listed /\ CompiledRight
  BY DEF IInv
<1>3. /\ i \in Nat /\ Len(instructions) \in Nat /\ Len(allMetas) \in Nat /\ Len(compiled) \in Nat
  BY <1>2 DEF ListsTyped
<1>4. ListsTyped'
  BY <1>1, <1>2, <1>3 DEF ListsTyped
<1>5. Progress'
  BY <1>1, <1>2, <1>3 DEF Progress, Phases
<1>6. AllMentioned'
  <2>1. Collected' = Collected
    BY <1>1 DEF Collected
  <2>2. QED
    BY <1>1, <1>2, <2>1, SameMentions
<1>7. MergeRight'
  <2>1. Seen' = Seen
    BY <1>1 DEF Seen
  <2>2. QED
    BY <1>1, <1>2, <2>1, SameMerge
<1>8. Selected' /\ InOrder'
  BY <1>1, <1>2 DEF Selected, InOrder, Conflict, Unsorted, Positions
<1>9. Listed'
  BY <1>1, <1>2 DEF Listed, Unsorted, Positions
<1>10. CompiledRight'
  BY <1>1, <1>2 DEF CompiledRight, Positions
<1>11. QED
  BY <1>4, <1>5, <1>6, <1>7, <1>8, <1>9, <1>10 DEF IInv

\* The invariant says nothing of the blockhash and of the buffer.
LEMMA SameInv ==
  ASSUME IInv, UNCHANGED <<pc, instructions, i, allMetas, uniqueMetas, sorted, accounts, header, compiled>>
  PROVE  IInv'
<1>1. /\ ListsTyped /\ Progress /\ AllMentioned /\ MergeRight
      /\ Selected /\ InOrder /\ Listed /\ CompiledRight
  BY DEF IInv
<1>2. ListsTyped' /\ Progress'
  BY <1>1 DEF ListsTyped, Progress
<1>3. AllMentioned' /\ MergeRight'
  <2>1. Seen' = Seen /\ Collected' = Collected
    BY DEF Seen, Collected
  <2>2. QED
    BY <1>1, <2>1, SameMentions, SameMerge
<1>4. Selected' /\ InOrder' /\ Listed' /\ CompiledRight'
  BY <1>1 DEF Selected, InOrder, Conflict, Unsorted, Listed, CompiledRight, Positions
<1>5. QED
  BY <1>1, <1>2, <1>3, <1>4 DEF IInv

\* every step of the compilation
LEMMA StepInv == IInv /\ [Next]_vars => IInv'
<1> SUFFICES ASSUME IInv, [Next]_vars
             PROVE  IInv'
  OBVIOUS
<1>1. CASE UNCHANGED vars
  BY <1>1, SameInv DEF vars
<1>2. QED
  BY <1>1, CollectInv, MergeNextInv, SortNextInv, CountPrivilegesInv, CompileNextInv, LoopsInv DEF Next

----------------------------------------------------------------------------
(* What the invariant says of the message. *)

\* the loops in which the list of accounts is used
Listing == pc \in {"compile", "serialize", "done"}

\* an account in the list has the privileges its mentions ask for
LEMMA PrivilegesOfListed ==
  ASSUME IInv, Listing
  PROVE  /\ Len(accounts) \in Nat /\ Len(sorted) = Len(accounts)
         /\ \A k \in 1 .. Len(accounts) :
              LET S == Mentions(accounts[k], Len(allMetas))
              IN  /\ sorted[k] \in Metas /\ accounts[k] = sorted[k].pubkey
                  /\ sorted[k].isSigner = SomeSigner(S)
                  /\ sorted[k].isWritable = SomeWritable(S)
<1>1. ListsTyped /\ MergeRight /\ Selected /\ Listed
  BY DEF IInv
<1>2. sorted \in Seq(Metas) /\ uniqueMetas \in Seq(Metas) /\ Seen = Len(allMetas)
  BY <1>1 DEF ListsTyped, Listing, Seen
<1>3. accounts = [k \in 1 .. Len(sorted) |-> sorted[k].pubkey]
  BY <1>1 DEF Listed, Listing, Positions
<1>4. Len(sorted) \in Nat /\ Len(accounts) = Len(sorted)
  BY <1>2, <1>3
<1>5. ASSUME NEW k \in 1 .. Len(accounts)
      PROVE  LET S == Mentions(accounts[k], Len(allMetas))
             IN  /\ sorted[k] \in Metas /\ accounts[k] = sorted[k].pubkey
                 /\ sorted[k].isSigner = SomeSigner(S)
                 /\ sorted[k].isWritable = SomeWritable(S)
  <2>1. PICK m \in Positions(uniqueMetas) : sorted[k] = uniqueMetas[m]
    BY <1>1, <1>4 DEF Selected, Positions
  <2>2. /\ uniqueMetas[m].isSigner = SomeSigner(Mentions(uniqueMetas[m].pubkey, Seen))
        /\ uniqueMetas[m].isWritable = SomeWritable(Mentions(uniqueMetas[m].pubkey, Seen))
    BY <1>1 DEF MergeRight
  <2>3. accounts[k] = sorted[k].pubkey /\ sorted[k] \in Metas
    BY <1>2, <1>3, <1>4
  <2>4. QED
    BY <1>2, <2>1, <2>2, <2>3
<1>6. QED
  BY <1>4, <1>5

\* a mentioned key is in the list
LEMMA MentionedIsListed ==
  ASSUME IInv, Listing, NEW key, Mentioned(key)
  PROVE  \E k \in 1 .. Len(accounts) : accounts[k] = key
<1>1. ListsTyped /\ MergeRight /\ Selected /\ Listed
  BY DEF IInv
<1>2. /\ accounts = [k \in 1 .. Len(sorted) |-> sorted[k].pubkey]
      /\ Len(accounts) = Len(sorted) /\ Unsorted(uniqueMetas, sorted) = {}
  BY <1>1 DEF Listed, Listing, Positions, ListsTyped
<1>3. Seen = Len(allMetas)
  BY DEF Seen, Listing
<1>4. key \in {allMetas[k].pubkey : k \in 1 .. Seen}
  BY <1>3 DEF Mentioned, Positions
<1>5. PICK m \in Positions(uniqueMetas) : uniqueMetas[m].pubkey = key
  <2>1. key \in {uniqueMetas[k].pubkey : k \in Positions(uniqueMetas)}
    BY <1>1, <1>4, Zenon DEF MergeRight
  <2>2. QED
    BY <2>1
<1>6. PICK j \in Positions(sorted) : sorted[j] = uniqueMetas[m]
  BY <1>2 DEF Unsorted
<1>7. QED
  BY <1>2, <1>5, <1>6 DEF Positions

\* positions name what the instruction names
LEMMA IndicesFollow == IInv => IndicesRight
<1> SUFFICES ASSUME IInv, Len(accounts) <= IndexRange, NEW n \in Positions(compiled)
             PROVE  /\ At(compiled[n].programIdIndex) = instructions[n].programId
                    /\ Len(compiled[n].accountIndices) = Len(instructions[n].accounts)
                    /\ \A k \in Positions(instructions[n].accounts) :
                         At(compiled[n].accountIndices[k]) = instructions[n].accounts[k].pubkey
  BY DEF IndicesRight
<1> DEFINE ix == instructions[n]
<1>1. ListsTyped /\ Progress /\ AllMentioned /\ CompiledRight
  BY DEF IInv
<1>2. /\ Len(compiled) \in Nat /\ Len(instructions) \in Nat /\ n \in 1 .. Len(compiled)
      /\ instructions \in Seq(Instructions) /\ accounts \in Seq(Keys)
  BY <1>1 DEF ListsTyped, Positions
<1>3. Listing /\ n \in 1 .. Len(instructions) /\ Collected = Len(instructions)
  BY <1>1, <1>2 DEF Progress, Phases, Listing, Collected
<1>4. ix \in Instructions
  BY <1>2, <1>3
<1>5. Mentioned(ix.programId) /\ \A j \in Positions(ix.accounts) : Mentioned(ix.accounts[j].pubkey)
  BY <1>1, <1>3 DEF AllMentioned
<1>6. compiled[n] = FromInstruction(ix, accounts)
  BY <1>1 DEF CompiledRight
<1> HIDE DEF ix
<1>7. ix.programId \in Keys /\ ix.accounts \in Seq(Metas)
  BY <1>4, InstructionFields
<1>8. \A j \in 1 .. Len(ix.accounts) : ix.accounts[j].pubkey \in Keys
  BY <1>7, MetaFields
<1>9. /\ compiled[n].programIdIndex = Index(accounts, ix.programId)
      /\ compiled[n].accountIndices = [k \in 1 .. Len(ix.accounts) |-> Index(accounts, ix.accounts[k].pubkey)]
  BY <1>6 DEF FromInstruction, Positions
<1>10. ASSUME NEW key \in Keys, Mentioned(key)
       PROVE  At(Index(accounts, key)) = key
  <2>1. \E k \in 1 .. Len(accounts) : accounts[k] = key
    BY <1>3, <1>10, MentionedIsListed
  <2>2. QED
    BY <1>2, <1>10, <2>1, IndexFinds DEF At
<1>11. At(compiled[n].programIdIndex) = ix.programId
  BY <1>5, <1>7, <1>9, <1>10
<1>12. Len(compiled[n].accountIndices) = Len(ix.accounts)
  BY <1>7, <1>9
<1>13. ASSUME NEW k \in Positions(ix.accounts)
       PROVE  At(compiled[n].accountIndices[k]) = ix.accounts[k].pubkey
  <2>1. ix.accounts[k].pubkey \in Keys /\ Mentioned(ix.accounts[k].pubkey)
    BY <1>5, <1>8 DEF Positions
  <2>2. compiled[n].accountIndices[k] = Index(accounts, ix.accounts[k].pubkey)
    BY <1>9 DEF Positions
  <2>3. QED
    BY <1>10, <2>1, <2>2
<1>14. QED
  BY <1>11, <1>12, <1>13 DEF ix

\* a set of positions with every position before one of its own
LEMMA Prefix ==
  ASSUME NEW n \in Nat, NEW P \in SUBSET (1 .. n),
         \A j, k \in 1 .. n : j < k /\ k \in P => j \in P
  PROVE  Cardinality(P) \in 0 .. n /\ P = 1 .. Cardinality(P)
<1> DEFINE T == {m \in Nat : P \subseteq 1 .. m}
<1>1. T \in SUBSET Nat /\ n \in T
  OBVIOUS
<1>2. PICK m \in T : \A k \in T : m <= k
  <2> HIDE DEF T
  <2>1. QED
    BY <1>1, LeastElement
<1>3. m \in Nat /\ m <= n /\ P \subseteq 1 .. m
  BY <1>1, <1>2
<1>4. m > 0 => m \in P
  <2>1. ASSUME m > 0, m \notin P
        PROVE  FALSE
    <3>1. m - 1 \in Nat /\ P \subseteq 1 .. m - 1
      BY <1>3, <2>1
    <3>2. QED
      BY <1>2, <1>3, <3>1
  <2>2. QED
    BY <2>1
<1>5. P = 1 .. m
  <2>1. ASSUME NEW j \in 1 .. m
        PROVE  j \in P
    <3>1. j \in 1 .. n /\ m \in 1 .. n /\ m > 0 /\ (j = m \/ j < m)
      BY <1>3, <2>1
    <3>2. QED
      BY <1>4, <3>1
  <2>2. QED
    BY <1>3, <2>1
<1>6. Cardinality(P) = m
  <2>1. Cardinality(1 .. m) = IF 1 > m THEN 0 ELSE m - 1 + 1
    BY <1>3, FS_Interval
  <2>2. QED
    BY <1>3, <1>5, <2>1
<1>7. QED
  BY <1>3, <1>5, <1>6

\* the positions from one to another
LEMMA Interval ==
  ASSUME NEW a \in Nat, NEW b \in Nat
  PROVE  Cardinality(a + 1 .. b) = IF a < b THEN b - a ELSE 0
<1>1. Cardinality(a + 1 .. b) = IF a + 1 > b THEN 0 ELSE b - (a + 1) + 1
  BY FS_Interval
<1>2. QED
  BY <1>1

\* the payer is in the list, signs and is written
LEMMA PayerListed ==
  ASSUME IInv, Listing
  PROVE  \E k \in 1 .. Len(accounts) :
           accounts[k] = Payer /\ sorted[k].isSigner /\ sorted[k].isWritable
<1>1. PayerMeta.pubkey = Payer /\ PayerMeta.isSigner /\ PayerMeta.isWritable
  BY PayerAssumption, MetaFields DEF PayerMeta
<1>2. Len(allMetas) \in Nat /\ 1 \in 1 .. Len(allMetas) /\ allMetas[1] = PayerMeta
  BY DEF IInv, ListsTyped, AllMentioned
<1>3. Mentioned(Payer)
  BY <1>1, <1>2 DEF Mentioned, Positions
<1>4. PICK k \in 1 .. Len(accounts) : accounts[k] = Payer
  BY <1>3, MentionedIsListed
<1>5. 1 \in Mentions(Payer, Len(allMetas))
  BY <1>1, <1>2 DEF Mentions
<1>6. SomeSigner(Mentions(Payer, Len(allMetas))) /\ SomeWritable(Mentions(Payer, Len(allMetas)))
  BY <1>1, <1>2, <1>5 DEF SomeSigner, SomeWritable
<1>7. QED
  BY <1>4, <1>6, PrivilegesOfListed

\* With an order, the signers come first, and so do the accounts that are
\* written: the counters say where each of the two ends.
LEMMA HeaderCounts ==
  ASSUME IInv, Listing, ~Conflict(uniqueMetas), Len(accounts) <= IndexRange,
         Cardinality(Signers) < IndexRange
  PROVE  \E s, w \in 1 .. Len(accounts) :
           /\ \A k \in 1 .. Len(accounts) : (sorted[k].isSigner <=> k <= s) /\ (sorted[k].isWritable <=> k <= w)
           /\ header.requiredSignatures = s
           /\ header.readOnlySigned = IF w < s THEN s - w ELSE 0
           /\ header.readOnlyUnsigned = Len(accounts) - (IF w < s THEN s ELSE w)
<1> DEFINE N == Len(accounts)
           A == {k \in 1 .. N : sorted[k].isSigner}
           W == {k \in 1 .. N : sorted[k].isWritable}
           B == {k \in 1 .. N : sorted[k].isSigner /\ ~sorted[k].isWritable}
           C == {k \in 1 .. N : ~sorted[k].isSigner /\ ~sorted[k].isWritable}
<1>1. N \in Nat /\ Len(sorted) = N /\ \A k \in 1 .. N : sorted[k] \in Metas
  BY PrivilegesOfListed
<1>2. \A j, k \in 1 .. N : j < k => ~Less(sorted[k], sorted[j])
  BY <1>1 DEF IInv, InOrder, Positions
<1>3. \A k \in 1 .. N : sorted[k].isSigner \in BOOLEAN /\ sorted[k].isWritable \in BOOLEAN
  BY <1>1, MetaFields
<1>4. \E k \in 1 .. N : sorted[k].isSigner /\ sorted[k].isWritable
  BY PayerListed
<1>5. PICK s \in 1 .. N : A = 1 .. s /\ Cardinality(A) = s
  <2>1. A \in SUBSET (1 .. N) /\ \A j, k \in 1 .. N : j < k /\ k \in A => j \in A
    BY <1>2 DEF Less
  <2> HIDE DEF A
  <2>2. Cardinality(A) \in 0 .. N /\ A = 1 .. Cardinality(A)
    BY <1>1, <2>1, Prefix
  <2>3. A # {}
    BY <1>4 DEF A
  <2>4. Cardinality(A) \in 1 .. N
    BY <2>2, <2>3
  <2>5. QED
    BY <2>2, <2>4
<1>6. PICK w \in 1 .. N : W = 1 .. w
  <2>1. W \in SUBSET (1 .. N) /\ \A j, k \in 1 .. N : j < k /\ k \in W => j \in W
    BY <1>2 DEF Less
  <2> HIDE DEF W
  <2>2. Cardinality(W) \in 0 .. N /\ W = 1 .. Cardinality(W)
    BY <1>1, <2>1, Prefix
  <2>3. W # {}
    BY <1>4 DEF W
  <2>4. Cardinality(W) \in 1 .. N
    BY <2>2, <2>3
  <2>5. QED
    BY <2>2, <2>4
<1>7. \A k \in 1 .. N : (sorted[k].isSigner <=> k <= s) /\ (sorted[k].isWritable <=> k <= w)
  BY <1>1, <1>5, <1>6
<1>8. header = [requiredSignatures |-> Count(A), readOnlySigned |-> Count(B), readOnlyUnsigned |-> Count(C)]
  BY <1>1 DEF IInv, Listed, Listing, HeaderOf, Positions
<1>9. A = Signers
  BY <1>1 DEF Signers, Positions
<1>10. /\ B = w + 1 .. s
       /\ C = (IF w < s THEN s ELSE w) + 1 .. N
  BY <1>1, <1>7
<1>11. A \in SUBSET (1 .. N) /\ B \in SUBSET (1 .. N) /\ C \in SUBSET (1 .. N)
  OBVIOUS
<1> HIDE DEF N, A, W, B, C
<1>12. s \in Nat /\ w \in Nat /\ 1 <= s /\ s <= N /\ 1 <= w /\ w <= N
  BY <1>1
<1>13. Cardinality(B) = IF w < s THEN s - w ELSE 0
  BY <1>10, <1>12, Interval
<1>14. Cardinality(C) = N - (IF w < s THEN s ELSE w)
  <2> DEFINE m == IF w < s THEN s ELSE w
  <2>1. m \in Nat /\ m <= N
    BY <1>12
  <2> HIDE DEF m
  <2>2. Cardinality(m + 1 .. N) = IF m < N THEN N - m ELSE 0
    BY <1>1, <2>1, Interval
  <2>3. Cardinality(C) = N - m
    BY <1>1, <1>10, <2>1, <2>2 DEF m
  <2>4. QED
    BY <2>3 DEF m
<1>15. s < IndexRange /\ N <= IndexRange
  BY <1>5, <1>9 DEF N
<1>16. Count(A) = s
  BY <1>1, <1>5, <1>11, <1>15, CountFacts
<1>17. Count(B) = Cardinality(B)
  <2>1. Cardinality(B) < IndexRange
    BY <1>12, <1>13, <1>15, IndexAssumption
  <2>2. QED
    BY <1>1, <1>11, <2>1, CountFacts
<1>18. Count(C) = Cardinality(C)
  <2>1. Cardinality(C) < IndexRange
    BY <1>1, <1>12, <1>14, <1>15, IndexAssumption
  <2>2. QED
    BY <1>1, <1>11, <2>1, CountFacts
<1>19. /\ header.requiredSignatures = s
       /\ header.readOnlySigned = IF w < s THEN s - w ELSE 0
       /\ header.readOnlyUnsigned = N - (IF w < s THEN s ELSE w)
  BY <1>8, <1>13, <1>14, <1>16, <1>17, <1>18
<1>20. QED
  BY <1>7, <1>12, <1>19 DEF N

\* what the cluster takes from the header is what was asked for
LEMMA HeaderFollows == IInv => HeaderRight
<1> SUFFICES ASSUME IInv, Listing, ~Conflict(uniqueMetas), Len(accounts) <= IndexRange,
                    Cardinality(Signers) < IndexRange
             PROVE  /\ \A k \in Positions(accounts) :
                         LET S == Mentions(accounts[k], Len(allMetas))
                         IN  /\ ReadsAsSigner(k) = SomeSigner(S)
                             /\ ReadsAsWritable(k) = SomeWritable(S)
                    /\ (\A k \in Positions(sorted) :
                          sorted[k].isSigner /\ sorted[k].isWritable => sorted[k].pubkey = Payer)
                         => accounts[1] = Payer
  BY DEF HeaderRight, Listing
<1> DEFINE N == Len(accounts)
<1>1. PICK s, w \in 1 .. N :
        /\ \A k \in 1 .. N : (sorted[k].isSigner <=> k <= s) /\ (sorted[k].isWritable <=> k <= w)
        /\ header.requiredSignatures = s
        /\ header.readOnlySigned = IF w < s THEN s - w ELSE 0
        /\ header.readOnlyUnsigned = N - (IF w < s THEN s ELSE w)
  BY HeaderCounts
<1>2. N \in Nat /\ Len(sorted) = N
  BY PrivilegesOfListed
<1>3. ASSUME NEW k \in 1 .. N
      PROVE  LET S == Mentions(accounts[k], Len(allMetas))
             IN  /\ ReadsAsSigner(k) = SomeSigner(S)
                 /\ ReadsAsWritable(k) = SomeWritable(S)
  <2> DEFINE S == Mentions(accounts[k], Len(allMetas))
  <2>1. sorted[k].isSigner = SomeSigner(S) /\ sorted[k].isWritable = SomeWritable(S) /\ sorted[k] \in Metas
    BY PrivilegesOfListed
  <2>2. SomeSigner(S) \in BOOLEAN /\ SomeWritable(S) \in BOOLEAN
    BY <2>1, MetaFields
  <2> HIDE DEF S
  <2>3. ReadsAsSigner(k) <=> k <= s
    BY <1>1 DEF ReadsAsSigner
  <2>4. ReadsAsWritable(k) <=> k <= w
    <3>1. CASE k <= s
      <4>1. ReadsAsWritable(k) <=> k <= s - (IF w < s THEN s - w ELSE 0)
        BY <1>1, <2>3, <3>1 DEF ReadsAsWritable
      <4>2. QED
        BY <1>2, <3>1, <4>1
    <3>2. CASE ~(k <= s)
      <4>1. ReadsAsWritable(k) <=> k <= N - (N - (IF w < s THEN s ELSE w))
        BY <1>1, <2>3, <3>2 DEF ReadsAsWritable
      <4>2. QED
        BY <1>2, <3>2, <4>1
    <3>3. QED
      BY <3>1, <3>2
  <2>5. (SomeSigner(S) <=> k <= s) /\ (SomeWritable(S) <=> k <= w)
    BY <1>1, <2>1
  <2>6. ReadsAsSigner(k) = SomeSigner(S) /\ ReadsAsWritable(k) = SomeWritable(S)
    <3>1. ReadsAsSigner(k) \in BOOLEAN /\ ReadsAsWritable(k) \in BOOLEAN
      <4> DEFINE a == k <= header.requiredSignatures
                 b == k <= header.requiredSignatures - header.readOnlySigned
                 c == k <= Len(accounts) - header.readOnlyUnsigned
      <4>1. a \in BOOLEAN /\ b \in BOOLEAN /\ c \in BOOLEAN
        OBVIOUS
      <4>2. ReadsAsSigner(k) = a /\ ReadsAsWritable(k) = IF a THEN b ELSE c
        BY DEF ReadsAsSigner, ReadsAsWritable
      <4> HIDE DEF a, b, c
      <4>3. QED
        BY <4>1, <4>2
    <3>2. QED
      BY <2>2, <2>3, <2>4, <2>5, <3>1
  <2>7. QED
    BY <2>6 DEF S
<1>4. ASSUME \A k \in Positions(sorted) :
               sorted[k].isSigner /\ sorted[k].isWritable => sorted[k].pubkey = Payer
      PROVE  accounts[1] = Payer
  <2>1. 1 \in 1 .. N /\ sorted[1].isSigner /\ sorted[1].isWritable
    BY <1>1, <1>2
  <2>2. sorted[1].pubkey = Payer
    BY <1>2, <1>4, <2>1 DEF Positions
  <2>3. QED
    BY <2>1, <2>2, PrivilegesOfListed
<1>5. QED
  BY <1>3, <1>4 DEF Positions

----------------------------------------------------------------------------
(* The theorems. *)

\* The invariant holds in every state of the compilation.
LEMMA Inductive == Spec => []IInv
<1>1. Init => IInv
  BY StartInv DEF Init
<1>2. QED
  BY <1>1, StepInv, PTL DEF Spec

\* What is merged is right after every round, whatever the instructions: each
\* key once, with the most any of its mentions asks for.
THEOREM MergeCorrect == Spec => []MergeRight
<1>1. IInv => MergeRight
  BY DEF IInv
<1>2. QED
  BY <1>1, Inductive, PTL

\* Every position in a compiled instruction names the account the instruction
\* named, whatever the instructions, if the accounts have as many positions.
THEOREM IndicesCorrect == Spec => []IndicesRight
BY Inductive, IndicesFollow, PTL

\* The cluster reads from the counters the privileges that were asked for, and
\* charges the payer, whatever order std::sort puts equal accounts in.
THEOREM HeaderCorrect == Spec => []HeaderRight
BY Inductive, HeaderFollows, PTL

----------------------------------------------------------------------------
(* From here on the way of a transaction to the cluster. *)

Bytes == Seq(Byte)

----------------------------------------------------------------------------
(* Sequences of bytes. *)

Cat(s, t) == s \o t

\* one after the other, and what is left without the first
LEMMA CatFacts ==
  ASSUME NEW s \in Bytes, NEW t \in Bytes
  PROVE  /\ Cat(s, t) \in Bytes
         /\ Len(Cat(s, t)) = Len(s) + Len(t)
         /\ \A k \in 1 .. Len(s) : Cat(s, t)[k] = s[k]
         /\ After(Cat(s, t), Len(s)) = t
         /\ SubSeq(Cat(s, t), 1, Len(s)) = s
         /\ SubSeq(Cat(s, t), Len(s) + 1, Len(s) + Len(t)) = t
<1> DEFINE q == Cat(s, t)
<1>1. Len(s) \in Nat /\ Len(t) \in Nat
  BY DEF Bytes
<1>2. /\ q \in Bytes /\ Len(q) = Len(s) + Len(t)
      /\ \A k \in 1 .. Len(s) + Len(t) : q[k] = IF k <= Len(s) THEN s[k] ELSE t[k - Len(s)]
  BY ConcatProperties DEF Bytes, Cat
<1> HIDE DEF q
<1>3. \A k \in 1 .. Len(s) : q[k] = s[k]
  BY <1>1, <1>2
<1>4. SubSeq(q, 1, Len(s)) = s
  <2> DEFINE u == SubSeq(q, 1, Len(s))
  <2>1. u \in Bytes /\ Len(u) = Len(s) /\ \A k \in 1 .. Len(s) : u[k] = q[k]
    BY <1>1, <1>2 DEF Bytes
  <2> HIDE DEF u
  <2>2. \A k \in 1 .. Len(s) : u[k] = s[k]
    BY <1>3, <2>1
  <2>3. u = s
    BY <2>1, <2>2, SeqEqual DEF Bytes
  <2>4. QED
    BY <2>3 DEF u
<1>5. SubSeq(q, Len(s) + 1, Len(s) + Len(t)) = t
  <2> DEFINE u == SubSeq(q, Len(s) + 1, Len(s) + Len(t))
  <2>1. u \in Bytes /\ Len(u) = Len(t) /\ \A k \in 1 .. Len(t) : u[k] = q[Len(s) + k]
    BY <1>1, <1>2 DEF Bytes
  <2>2. \A k \in 1 .. Len(t) : q[Len(s) + k] = t[k]
    BY <1>1, <1>2
  <2> HIDE DEF u
  <2>3. \A k \in 1 .. Len(t) : u[k] = t[k]
    BY <2>1, <2>2
  <2>4. u = t
    BY <2>1, <2>3, SeqEqual DEF Bytes
  <2>5. QED
    BY <2>4 DEF u
<1>6. After(q, Len(s)) = t
  BY <1>2, <1>5 DEF After
<1>7. QED
  BY <1>2, <1>3, <1>4, <1>5, <1>6 DEF q

\* a part that two sequences share
LEMMA SameSubSeq ==
  ASSUME NEW s, NEW t, NEW m \in Nat, NEW n \in Nat, \A k \in m .. n : s[k] = t[k] /\ t[k] \in Byte
  PROVE  SubSeq(s, m, n) = SubSeq(t, m, n)
<1> DEFINE u == SubSeq(s, m, n)
           v == SubSeq(t, m, n)
<1>1. /\ u \in Bytes /\ Len(u) = (IF m <= n THEN n - m + 1 ELSE 0)
      /\ \A k \in 1 .. n - m + 1 : u[k] = s[m + k - 1]
  BY SubSeqProperties DEF Bytes
<1>2. /\ v \in Bytes /\ Len(v) = (IF m <= n THEN n - m + 1 ELSE 0)
      /\ \A k \in 1 .. n - m + 1 : v[k] = t[m + k - 1]
  BY SubSeqProperties DEF Bytes
<1> HIDE DEF u, v
<1>3. \A k \in 1 .. Len(u) : u[k] = v[k]
  BY <1>1, <1>2
<1>4. u = v
  BY <1>1, <1>2, <1>3, SeqEqual DEF Bytes
<1>5. QED
  BY <1>4 DEF u, v

\* the order of joining does not matter
LEMMA CatAssociative ==
  ASSUME NEW s \in Bytes, NEW t \in Bytes, NEW u \in Bytes
  PROVE  Cat(Cat(s, t), u) = Cat(s, Cat(t, u))
BY ConcatAssociative DEF Cat, Bytes

\* nothing joined
LEMMA CatEmpty ==
  ASSUME NEW s \in Bytes
  PROVE  Cat(s, <<>>) = s /\ Cat(<<>>, s) = s /\ <<>> \in Bytes
BY ConcatEmptySeq DEF Cat, Bytes

\* a byte
LEMMA OneIsByte ==
  ASSUME NEW b \in Byte
  PROVE  <<b>> \in Bytes /\ Len(<<b>>) = 1 /\ <<b>>[1] = b
BY DEF Bytes

\* the values of a uint16_t
LEMMA Range16 == \A n : n \in UInt16 <=> n \in Nat /\ n < 65536
<1>1. PICK m \in Int : m = 65535
  OBVIOUS
<1>2. UInt16 = 0 .. m
  BY <1>1 DEF UInt16
<1>3. \A n : n \in 0 .. m <=> n \in Nat /\ n < m + 1
  OBVIOUS
<1>4. m + 1 = 65536
  BY <1>1
<1>5. QED
  BY <1>2, <1>3, <1>4

\* the conversion to uint16_t
LEMMA Converted ==
  ASSUME NEW n \in Nat
  PROVE  \E r \in UInt16 : EncodeLength(n) = Encode(r) /\ (n \in UInt16 => n = r)
<1>1. PICK r : r = n % 65536
  OBVIOUS
<1>2. EncodeLength(n) = Encode(r)
  BY <1>1 DEF EncodeLength
<1>3. r \in UInt16
  <2>1. r \in Nat /\ r < 65536
    BY <1>1
  <2>2. QED
    BY <2>1, Range16
<1>4. n \in UInt16 => n = r
  <2>1. n \in UInt16 => n < 65536
    BY Range16
  <2>2. n < 65536 => n = r
    BY <1>1
  <2>3. QED
    BY <2>1, <2>2
<1>5. QED
  BY <1>2, <1>3, <1>4

\* the length prefix is bytes, whatever the length
LEMMA PrefixTyped ==
  ASSUME NEW n \in Nat
  PROVE  EncodeLength(n) \in Bytes /\ (n \in UInt16 => EncodeLength(n) = Encode(n))
<1>1. PICK r \in UInt16 : EncodeLength(n) = Encode(r) /\ (n \in UInt16 => n = r)
  BY Converted
<1>2. Low(r) \in Bits7 /\ Mid(r) \in Bits7 /\ High(r) \in Bits2
  BY SevenBits
<1>3. More(Low(r)) \in HighBytes /\ More(Mid(r)) \in HighBytes
  BY <1>2, HighBit
<1>4. /\ Low(r) \in Byte /\ Mid(r) \in Byte /\ High(r) \in Byte
      /\ More(Low(r)) \in Byte /\ More(Mid(r)) \in Byte
  BY <1>2, <1>3 DEF Byte, Bits7, Bits2, HighBytes
<1>5. /\ <<Low(r)>> \in Bytes /\ <<More(Low(r)), Mid(r)>> \in Bytes
      /\ <<More(Low(r)), More(Mid(r)), High(r)>> \in Bytes
  BY <1>4 DEF Bytes
<1>6. Encode(r) \in Bytes
  BY <1>5 DEF Encode
<1>7. QED
  BY <1>1, <1>6

\* a reader of the length prefix gets the number and stops at its end
LEMMA PrefixRead ==
  ASSUME NEW n \in UInt16, NEW rest \in Bytes
  PROVE  /\ Width(Cat(EncodeLength(n), rest)) = Len(EncodeLength(n))
         /\ Decode(Cat(EncodeLength(n), rest)) = n
<1>1. EncodeLength(n) = Encode(n)
  <2>1. n \in Nat
    BY Range16
  <2>2. QED
    BY <2>1, PrefixTyped
<1>2. QED
  BY <1>1, RoundTrip DEF Bytes, Cat

\* A vector of items: how many, their bytes, and what follows.
LEMMA VectorRead ==
  ASSUME NEW n \in UInt16, NEW size \in Nat, NEW s \in Bytes, Len(s) = n * size, NEW rest \in Bytes
  PROVE  ReadVector(Cat(EncodeLength(n), Cat(s, rest)), size) = [n |-> n, bytes |-> s, rest |-> rest]
<1> DEFINE e == EncodeLength(n)
           q == Cat(e, Cat(s, rest))
<1>1. e \in Bytes /\ Width(q) = Len(e) /\ Decode(q) = n
  <2>1. n \in Nat
    BY Range16
  <2>2. e \in Bytes /\ Cat(s, rest) \in Bytes
    BY <2>1, PrefixTyped, CatFacts
  <2>3. QED
    BY <2>2, PrefixRead
<1>2. Cat(s, rest) \in Bytes /\ Len(Cat(s, rest)) = Len(s) + Len(rest)
  BY CatFacts
<1> HIDE DEF e
<1>3. Cat(e, s) \in Bytes /\ Len(Cat(e, s)) = Len(e) + Len(s)
  BY <1>1, CatFacts
<1>4. q = Cat(Cat(e, s), rest)
  BY <1>1, CatAssociative
<1>5. After(q, Len(e) + Len(s)) = rest
  BY <1>3, <1>4, CatFacts
<1>6. Len(e) \in Nat /\ Len(s) \in Nat
  BY <1>1 DEF Bytes
<1>7. SubSeq(q, Len(e) + 1, Len(e) + Len(s)) = s
  <2> DEFINE u == SubSeq(q, Len(e) + 1, Len(e) + Len(s))
             es == Cat(e, s)
  <2>1. \A j \in 1 .. Len(e) + Len(s) : q[j] = es[j]
    <3> HIDE DEF es, q
    <3>1. q = Cat(es, rest) /\ es \in Bytes /\ Len(es) = Len(e) + Len(s)
      BY <1>3, <1>4 DEF es
    <3>2. QED
      BY <3>1, CatFacts
  <2>2. es \in Bytes /\ Len(es) = Len(e) + Len(s) /\ SubSeq(es, Len(e) + 1, Len(e) + Len(s)) = s
    BY <1>1, CatFacts
  <2>3. q \in Bytes
    BY <1>1, <1>2, CatFacts
  <2> HIDE DEF es, q
  <2>4. \A j \in Len(e) + 1 .. Len(e) + Len(s) : q[j] = es[j] /\ es[j] \in Byte
    BY <1>6, <2>1, <2>2 DEF Bytes
  <2>5. SubSeq(q, Len(e) + 1, Len(e) + Len(s)) = SubSeq(es, Len(e) + 1, Len(e) + Len(s))
    BY <1>6, <2>2, <2>3, <2>4, SameSubSeq
  <2>6. QED
    BY <2>2, <2>5
<1>8. Width(q) = Len(e) /\ Decode(q) = n /\ Decode(q) * size = Len(s)
  BY <1>1
<1>9. ReadVector(q, size) = [n |-> n, bytes |-> s, rest |-> rest]
  <2> HIDE DEF q
  <2>1. ReadVector(q, size) = [n |-> Decode(q), bytes |-> SubSeq(q, Width(q) + 1, Width(q) + Decode(q) * size),
                               rest |-> After(q, Width(q) + Decode(q) * size)]
    BY DEF ReadVector
  <2>2. QED
    BY <1>5, <1>7, <1>8, <2>1, Zenon
<1>10. QED
  BY <1>9 DEF e

----------------------------------------------------------------------------
(* Instructions. *)

\* a length prefix that can say its number
Fits(c) == Len(c.accountIndices) \in UInt16 /\ Len(c.data) \in UInt16

\* the fields of a compiled instruction are bytes
LEMMA CompiledBytes ==
  ASSUME NEW c \in Compiled
  PROVE  /\ c.programIdIndex \in Byte /\ c.accountIndices \in Bytes /\ c.data \in Bytes
         /\ c = [programIdIndex |-> c.programIdIndex, accountIndices |-> c.accountIndices, data |-> c.data]
<1>1. 0 .. IndexRange - 1 \subseteq Byte
  BY IndexAssumption DEF Byte
<1>2. /\ c.programIdIndex \in 0 .. IndexRange - 1
      /\ c.accountIndices \in Seq(0 .. IndexRange - 1) /\ c.data \in Seq(Byte)
      /\ c = [programIdIndex |-> c.programIdIndex, accountIndices |-> c.accountIndices, data |-> c.data]
  BY DEF Compiled
<1>3. c.accountIndices \in Seq(Byte)
  BY <1>1, <1>2, SeqMonotonic
<1>4. QED
  BY <1>1, <1>2, <1>3 DEF Bytes

\* the three parts of an instruction
LEMMA InstructionParts ==
  ASSUME NEW c \in Compiled
  PROVE  LET a == EncodeLength(Len(c.accountIndices))
             d == EncodeLength(Len(c.data))
         IN  /\ a \in Bytes /\ d \in Bytes /\ InstructionBytes(c) \in Bytes
             /\ \A rest \in Bytes :
                  Cat(InstructionBytes(c), rest)
                    = Cat(<<c.programIdIndex>>, Cat(a, Cat(c.accountIndices, Cat(d, Cat(c.data, rest)))))
<1> DEFINE p == <<c.programIdIndex>>
           a == EncodeLength(Len(c.accountIndices))
           d == EncodeLength(Len(c.data))
           x == c.accountIndices
           y == c.data
<1>1. p \in Bytes /\ x \in Bytes /\ y \in Bytes
  BY CompiledBytes, OneIsByte
<1>2. a \in Bytes /\ d \in Bytes
  BY <1>1, PrefixTyped DEF Bytes
<1>3. InstructionBytes(c) = Cat(Cat(p, Cat(a, x)), Cat(d, y))
  BY DEF InstructionBytes, Vector, Cat
<1> HIDE DEF p, a, d, x, y
<1>4. /\ Cat(a, x) \in Bytes /\ Cat(d, y) \in Bytes /\ Cat(p, Cat(a, x)) \in Bytes
      /\ InstructionBytes(c) \in Bytes
  <2>1. Cat(a, x) \in Bytes /\ Cat(d, y) \in Bytes
    BY <1>1, <1>2, CatFacts
  <2>2. Cat(p, Cat(a, x)) \in Bytes
    BY <1>1, <2>1, CatFacts
  <2>3. QED
    BY <1>3, <2>1, <2>2, CatFacts
<1>5. ASSUME NEW rest \in Bytes
      PROVE  Cat(InstructionBytes(c), rest) = Cat(p, Cat(a, Cat(x, Cat(d, Cat(y, rest)))))
  <2>1. Cat(Cat(d, y), rest) = Cat(d, Cat(y, rest))
    BY <1>1, <1>2, CatAssociative
  <2> DEFINE tail == Cat(d, Cat(y, rest))
  <2>2. tail \in Bytes
    BY <1>4, <2>1, CatFacts
  <2>3. Cat(InstructionBytes(c), rest) = Cat(Cat(p, Cat(a, x)), tail)
    BY <1>3, <1>4, <2>1, CatAssociative
  <2> HIDE DEF tail
  <2>4. Cat(Cat(p, Cat(a, x)), tail) = Cat(p, Cat(Cat(a, x), tail))
    BY <1>1, <1>4, <2>2, CatAssociative
  <2>5. Cat(Cat(a, x), tail) = Cat(a, Cat(x, tail))
    BY <1>1, <1>2, <2>2, CatAssociative
  <2>6. QED
    BY <2>3, <2>4, <2>5 DEF tail
<1>6. QED
  BY <1>2, <1>4, <1>5 DEF p, a, d, x, y

\* A reader gets the instruction back, and what follows it.
LEMMA InstructionRead ==
  ASSUME NEW c \in Compiled, Fits(c), NEW rest \in Bytes
  PROVE  ReadInstruction(Cat(InstructionBytes(c), rest)) = [ix |-> c, rest |-> rest]
<1> DEFINE p == <<c.programIdIndex>>
           a == EncodeLength(Len(c.accountIndices))
           d == EncodeLength(Len(c.data))
           last == Cat(d, Cat(c.data, rest))
           v == Cat(a, Cat(c.accountIndices, last))
           s == Cat(InstructionBytes(c), rest)
<1>1. /\ p \in Bytes /\ Len(p) = 1 /\ p[1] = c.programIdIndex
      /\ c.accountIndices \in Bytes /\ c.data \in Bytes
  BY CompiledBytes, OneIsByte
<1>2. a \in Bytes /\ d \in Bytes /\ s = Cat(p, v)
  BY InstructionParts
<1>3. last \in Bytes
  <2>1. Cat(c.data, rest) \in Bytes
    BY <1>1, CatFacts
  <2>2. QED
    BY <1>2, <2>1, CatFacts
<1>4. v \in Bytes
  <2> HIDE DEF last, a
  <2>1. Cat(c.accountIndices, last) \in Bytes
    BY <1>1, <1>3, CatFacts
  <2>2. QED
    BY <1>2, <2>1, CatFacts
<1> DEFINE n == Len(c.accountIndices)
           k == Len(c.data)
<1>5. n \in UInt16 /\ k \in UInt16 /\ n = n * 1 /\ k = k * 1
  <2>1. n \in UInt16 /\ k \in UInt16
    BY DEF Fits
  <2>2. \A x \in UInt16 : x = x * 1
    BY Range16
  <2>3. QED
    BY <2>1, <2>2
<1>6. ReadVector(v, 1) = [n |-> n, bytes |-> c.accountIndices, rest |-> last]
  <2> HIDE DEF last
  <2>1. QED
    BY <1>1, <1>3, <1>5, VectorRead
<1>7. ReadVector(last, 1) = [n |-> k, bytes |-> c.data, rest |-> rest]
  <2> DEFINE y == c.data
  <2>1. y \in Bytes /\ Len(y) = k * 1 /\ k \in UInt16 /\ last = Cat(EncodeLength(k), Cat(y, rest))
    BY <1>1, <1>5
  <2> HIDE DEF k, y, last
  <2>2. QED
    BY <2>1, VectorRead DEF y
<1> HIDE DEF v, last, s, p
<1>8. s[1] = c.programIdIndex /\ After(s, 1) = v
  <2>1. (\A j \in 1 .. Len(p) : Cat(p, v)[j] = p[j]) /\ After(Cat(p, v), Len(p)) = v
    BY <1>1, <1>4, CatFacts
  <2>2. QED
    BY <1>1, <1>2, <2>1
<1>9. ReadInstruction(s) = [ix |-> [programIdIndex |-> c.programIdIndex, accountIndices |-> c.accountIndices,
                                    data |-> c.data],
                            rest |-> rest]
  BY <1>6, <1>7, <1>8 DEF ReadInstruction
<1>10. QED
  BY <1>9, CompiledBytes DEF s

\* A reader of all instructions gets the list back, and what follows it; tails
\* has what follows each of them.
LEMMA InstructionsRead ==
  ASSUME NEW cs \in Seq(Compiled), \A n \in 1 .. Len(cs) : Fits(cs[n]),
         NEW tails \in [0 .. Len(cs) -> Bytes],
         \A n \in 1 .. Len(cs) : tails[n - 1] = Cat(InstructionBytes(cs[n]), tails[n])
  PROVE  ReadInstructions(tails[0], Len(cs)) = [ixs |-> cs, rest |-> tails[Len(cs)]]
<1> DEFINE N == Len(cs)
           s == tails[0]
           First == [ixs |-> <<>>, rest |-> s]
           Read(x) == [ixs |-> Append(x.ixs, ReadInstruction(x.rest).ix), rest |-> ReadInstruction(x.rest).rest]
           Eq(g) == g = [n \in 0 .. N |-> IF n = 0 THEN First ELSE Read(g[n - 1])]
           f == CHOOSE g : Eq(g)
           W(n) == [ixs |-> SubSeq(cs, 1, n), rest |-> tails[n]]
           w == [n \in 0 .. N |-> W(n)]
<1>1. N \in Nat /\ \A n \in 1 .. N : cs[n] \in Compiled
  OBVIOUS
<1>2. W(0) = First
  OBVIOUS
<1>3. ASSUME NEW n \in 1 .. N
      PROVE  Read(W(n - 1)) = W(n)
  <2>1. Append(SubSeq(cs, 1, n - 1), cs[n]) = SubSeq(cs, 1, n)
    OBVIOUS
  <2>2. tails[n] \in Bytes /\ tails[n - 1] = Cat(InstructionBytes(cs[n]), tails[n]) /\ cs[n] \in Compiled /\ Fits(cs[n])
    OBVIOUS
  <2>3. ReadInstruction(tails[n - 1]) = [ix |-> cs[n], rest |-> tails[n]]
    BY <2>2, InstructionRead
  <2> DEFINE x == W(n - 1)
  <2>4. x.ixs = SubSeq(cs, 1, n - 1) /\ x.rest = tails[n - 1]
    OBVIOUS
  <2> HIDE DEF x
  <2>5. ReadInstruction(x.rest).ix = cs[n] /\ ReadInstruction(x.rest).rest = tails[n]
    BY <2>3, <2>4
  <2>6. Read(x) = [ixs |-> Append(SubSeq(cs, 1, n - 1), cs[n]), rest |-> tails[n]]
    BY <2>4, <2>5
  <2>7. QED
    BY <2>1, <2>6 DEF x
<1>4. ReadInstructions(s, N) = f[N]
  BY DEF ReadInstructions
<1> HIDE DEF First, Read, W
<1>5. Eq(w)
  <2> DEFINE v == [n \in 0 .. N |-> IF n = 0 THEN First ELSE Read(w[n - 1])]
  <2>1. \A n \in 1 .. N : w[n - 1] = W(n - 1)
    BY <1>1
  <2>2. ASSUME NEW n \in 0 .. N
        PROVE  W(n) = IF n = 0 THEN First ELSE Read(w[n - 1])
    BY <1>1, <1>2, <1>3, <2>1
  <2> HIDE DEF w
  <2>3. v = [n \in 0 .. N |-> W(n)]
    BY <2>2
  <2>4. QED
    BY <2>3 DEF w
<1>6. Eq(f)
  <2> HIDE DEF Eq
  <2>1. QED
    BY <1>5
<1> HIDE DEF f
<1>7. f[0] = First /\ \A n \in 1 .. N : f[n] = Read(f[n - 1])
  <2>1. \A n \in 0 .. N : f[n] = IF n = 0 THEN First ELSE Read(f[n - 1])
    BY <1>6, Zenon
  <2>2. QED
    BY <1>1, <2>1
<1>8. \A n \in 0 .. N : f[n] = W(n)
  <2> DEFINE S == {n \in 0 .. N : f[n] = W(n)}
  <2>1. 0 \in S
    BY <1>1, <1>2, <1>7
  <2>2. ASSUME NEW n \in 0 .. N - 1, n \in S
        PROVE  n + 1 \in S
    <3>1. f[n] = W(n) /\ n + 1 \in 1 .. N /\ (n + 1) - 1 = n /\ n + 1 \in 0 .. N
      BY <1>1, <2>2
    <3>2. f[n + 1] = W(n + 1)
      BY <1>3, <1>7, <3>1
    <3>3. QED
      BY <3>1, <3>2
  <2>3. \A n \in 0 .. N : n \in S
    <3> HIDE DEF S
    <3>1. QED
      BY <1>1, <2>1, <2>2, FiniteInduction
  <2>4. QED
    BY <2>3
<1>9. W(N) = [ixs |-> cs, rest |-> tails[N]]
  <2>1. SubSeq(cs, 1, N) = cs
    BY SubSeqFull
  <2>2. QED
    BY <2>1 DEF W
<1>10. QED
  BY <1>1, <1>4, <1>8, <1>9

----------------------------------------------------------------------------
(* The head of the message, and the message. *)

\* a list of keys as bytes
LEMMA KeysTyped ==
  ASSUME NEW keys \in Seq(Keys)
  PROVE  KeysBytes(keys) \in Bytes /\ Len(KeysBytes(keys)) = Len(keys) * KeySize
<1> DEFINE N == Len(keys)
<1>1. N \in Nat /\ KeySize \in Nat \ {0} /\ KeySize * N \in Nat /\ KeySize * N = N * KeySize
  BY KeySizeAssumption
<1>2. ASSUME NEW k \in 1 .. KeySize * N
      PROVE  KeyBytes(keys[((k - 1) \div KeySize) + 1])[((k - 1) % KeySize) + 1] \in Byte
  <2> DEFINE q == (k - 1) \div KeySize
             r == (k - 1) % KeySize
  <2>1. k - 1 \in Nat /\ k - 1 < KeySize * N
    BY <1>1
  <2>2. q \in Nat /\ KeySize * q <= k - 1
    BY <1>1, <2>1
  <2>3. r \in 0 .. KeySize - 1
    BY <1>1, <2>1, ModFacts
  <2> HIDE DEF q, r
  <2>4. q < N
    BY <1>1, <2>1, <2>2
  <2>5. keys[q + 1] \in Keys /\ r + 1 \in 1 .. KeySize
    BY <1>1, <2>2, <2>3, <2>4
  <2>6. KeyBytes(keys[q + 1]) \in [1 .. KeySize -> Byte]
    BY <2>5, BytesAssumption DEF Byte
  <2>7. KeyBytes(keys[q + 1])[r + 1] \in Byte
    BY <2>5, <2>6
  <2>8. QED
    BY <2>7 DEF q, r
<1> DEFINE e(k) == KeyBytes(keys[((k - 1) \div KeySize) + 1])[((k - 1) % KeySize) + 1]
           m == KeySize * N
<1>3. KeysBytes(keys) = [k \in 1 .. m |-> e(k)]
  BY DEF KeysBytes
<1>4. \A k \in 1 .. m : e(k) \in Byte
  BY <1>2
<1>5. m \in Nat /\ m = N * KeySize
  BY <1>1
<1> HIDE DEF e, m
<1>6. QED
  BY <1>3, <1>4, <1>5 DEF Bytes

\* a blockhash with the size of one
HashTyped == recentBlockhash \in Bytes /\ Len(recentBlockhash) = KeySize

Counters == <<header.requiredSignatures, header.readOnlySigned, header.readOnlyUnsigned>>

\* the parts of the preamble, one after the other
Parts(rest) ==
  Cat(Counters, Cat(EncodeLength(Len(accounts)), Cat(KeysBytes(accounts),
    Cat(recentBlockhash, Cat(EncodeLength(Len(compiled)), rest)))))

\* what it consists of, and that all of it is bytes
LEMMA PreambleParts ==
  ASSUME ListsTyped, HashTyped
  PROVE  /\ Counters \in Bytes /\ Len(Counters) = 3
         /\ Preamble \in Bytes
         /\ \A rest \in Bytes : Cat(Preamble, rest) = Parts(rest) /\ Parts(rest) \in Bytes
<1> DEFINE h == Counters
           a == EncodeLength(Len(accounts))
           k == KeysBytes(accounts)
           b == recentBlockhash
           c == EncodeLength(Len(compiled))
<1>1. h \in Bytes /\ Len(h) = 3
  <2>1. /\ header.requiredSignatures \in Byte /\ header.readOnlySigned \in Byte
        /\ header.readOnlyUnsigned \in Byte
    <3>1. 0 .. IndexRange - 1 \subseteq Byte
      BY IndexAssumption DEF Byte
    <3>2. QED
      BY <3>1 DEF ListsTyped
  <2>2. QED
    BY <2>1 DEF Counters, Bytes
<1>2. a \in Bytes /\ c \in Bytes /\ k \in Bytes /\ b \in Bytes
  <2>1. accounts \in Seq(Keys) /\ Len(accounts) \in Nat /\ Len(compiled) \in Nat
    BY DEF ListsTyped
  <2>2. QED
    BY <2>1, PrefixTyped, KeysTyped DEF HashTyped
<1>3. Preamble = Cat(Cat(Cat(Cat(h, a), k), b), c)
  BY DEF Preamble, Counters, Cat
<1> HIDE DEF h, a, k, b, c
<1>4. Cat(h, a) \in Bytes
  BY <1>1, <1>2, CatFacts
<1>5. Cat(Cat(h, a), k) \in Bytes
  BY <1>2, <1>4, CatFacts
<1>6. Cat(Cat(Cat(h, a), k), b) \in Bytes
  BY <1>2, <1>5, CatFacts
<1>7. Preamble \in Bytes
  BY <1>2, <1>3, <1>6, CatFacts
<1>8. ASSUME NEW rest \in Bytes
      PROVE  Cat(Preamble, rest) = Parts(rest) /\ Parts(rest) \in Bytes
  <2> DEFINE r1 == Cat(c, rest)
             r2 == Cat(b, r1)
             r3 == Cat(k, r2)
  <2>1. r1 \in Bytes
    BY <1>2, CatFacts
  <2>2. Cat(Preamble, rest) = Cat(Cat(Cat(Cat(h, a), k), b), r1)
    BY <1>2, <1>3, <1>6, CatAssociative
  <2> HIDE DEF r1
  <2>3. r2 \in Bytes
    BY <1>2, <2>1, CatFacts
  <2>4. Cat(Cat(Cat(Cat(h, a), k), b), r1) = Cat(Cat(Cat(h, a), k), r2)
    BY <1>2, <1>5, <2>1, CatAssociative
  <2> HIDE DEF r2
  <2>5. r3 \in Bytes
    BY <1>2, <2>3, CatFacts
  <2>6. Cat(Cat(Cat(h, a), k), r2) = Cat(Cat(h, a), r3)
    BY <1>2, <1>4, <2>3, CatAssociative
  <2> HIDE DEF r3
  <2>7. Cat(Cat(h, a), r3) = Cat(h, Cat(a, r3))
    BY <1>1, <1>2, <2>5, CatAssociative
  <2>8. Parts(rest) = Cat(h, Cat(a, r3))
    BY DEF Parts, h, a, k, b, c, r1, r2, r3
  <2>9. Cat(Preamble, rest) \in Bytes
    BY <1>7, CatFacts
  <2>10. QED
    BY <2>2, <2>4, <2>6, <2>7, <2>8, <2>9
<1>9. QED
  BY <1>1, <1>7, <1>8 DEF h

\* how many instructions are in the buffer
Written == IF pc = "serialize" THEN i ELSE Len(compiled)

\* The buffer is the preamble and the instructions written so far; tails has
\* what follows the preamble and each of them.
Serialized ==
  pc \in {"serialize", "done"} =>
    \E tails \in [0 .. Written -> Bytes] :
      /\ tails[Written] = <<>>
      /\ \A n \in 1 .. Written : tails[n - 1] = Cat(InstructionBytes(compiled[n]), tails[n])
      /\ buffer = Cat(Preamble, tails[0])

\* A reader of the whole message.
LEMMA MessageRead ==
  ASSUME IInv, HashTyped, Serialized, pc = "done", LengthsFit
  PROVE  /\ buffer \in Bytes
         /\ SubSeq(buffer, 1, 3) = Counters
         /\ LET keys == ReadVector(After(buffer, 3), KeySize)
                ixs == After(keys.rest, KeySize)
                read == ReadInstructions(After(ixs, Width(ixs)), Decode(ixs))
            IN  /\ keys.n = Len(accounts) /\ keys.bytes = KeysBytes(accounts)
                /\ SubSeq(keys.rest, 1, KeySize) = recentBlockhash
                /\ read.ixs = compiled /\ read.rest = <<>>
<1>1. ListsTyped
  BY DEF IInv
<1> DEFINE N == Len(compiled)
<1>2. PICK tails \in [0 .. N -> Bytes] :
        /\ tails[N] = <<>>
        /\ \A n \in 1 .. N : tails[n - 1] = Cat(InstructionBytes(compiled[n]), tails[n])
        /\ buffer = Cat(Preamble, tails[0])
  BY DEF Serialized, Written
<1>3. /\ compiled \in Seq(Compiled) /\ accounts \in Seq(Keys) /\ N \in Nat /\ tails[0] \in Bytes
      /\ KeySize \in Nat
  BY <1>1, KeySizeAssumption, SMTT(30) DEF ListsTyped
<1> DEFINE t == tails[0]
           c == EncodeLength(N)
           ixs == Cat(c, t)
           x == Cat(recentBlockhash, ixs)
           k == KeysBytes(accounts)
           y == Cat(EncodeLength(Len(accounts)), Cat(k, x))
<1>4. Len(accounts) \in UInt16 /\ N \in UInt16 /\ \A n \in 1 .. N : Fits(compiled[n])
  BY DEF LengthsFit, Fits, Positions
<1>5. Counters \in Bytes /\ Len(Counters) = 3
  BY <1>1, PreambleParts
<1>6. c \in Bytes /\ k \in Bytes /\ Len(k) = Len(accounts) * KeySize
      /\ EncodeLength(Len(accounts)) \in Bytes
  BY <1>3, PrefixTyped, KeysTyped
<1> HIDE DEF t, k
<1>7. ixs \in Bytes
  BY <1>3, <1>6, CatFacts DEF t
<1>8. Width(ixs) = Len(c) /\ Decode(ixs) = N /\ After(ixs, Len(c)) = t
  BY <1>3, <1>4, <1>6, PrefixRead, CatFacts DEF t
<1> HIDE DEF ixs
<1>9. x \in Bytes /\ SubSeq(x, 1, KeySize) = recentBlockhash /\ After(x, KeySize) = ixs
  BY <1>7, CatFacts DEF HashTyped
<1> HIDE DEF x
<1>10. ReadVector(y, KeySize) = [n |-> Len(accounts), bytes |-> k, rest |-> x]
  <2> DEFINE m == Len(accounts)
  <2>1. m \in UInt16 /\ KeySize \in Nat /\ k \in Bytes /\ Len(k) = m * KeySize /\ x \in Bytes
    BY <1>3, <1>4, <1>6, <1>9
  <2> HIDE DEF m
  <2>2. ReadVector(Cat(EncodeLength(m), Cat(k, x)), KeySize) = [n |-> m, bytes |-> k, rest |-> x]
    BY <2>1, VectorRead
  <2>3. QED
    BY <2>2, Zenon DEF m
<1>11. y \in Bytes
  <2>1. Cat(k, x) \in Bytes
    BY <1>6, <1>9, CatFacts
  <2>2. QED
    BY <1>6, <2>1, CatFacts
<1>12. buffer = Cat(Counters, y)
  <2>1. buffer = Parts(t)
    BY <1>1, <1>2, <1>3, PreambleParts DEF t
  <2>2. QED
    BY <2>1, Zenon DEF Parts, y, x, ixs, k
<1> HIDE DEF y, c
<1>13. buffer \in Bytes /\ SubSeq(buffer, 1, 3) = Counters /\ After(buffer, 3) = y
  <2>1. /\ Cat(Counters, y) \in Bytes
        /\ SubSeq(Cat(Counters, y), 1, Len(Counters)) = Counters
        /\ After(Cat(Counters, y), Len(Counters)) = y
    BY <1>5, <1>11, CatFacts
  <2>2. QED
    BY <1>5, <1>12, <2>1
<1>14. ReadInstructions(t, N) = [ixs |-> compiled, rest |-> <<>>]
  BY <1>2, <1>3, <1>4, InstructionsRead DEF t
<1>15. ReadVector(After(buffer, 3), KeySize) = [n |-> Len(accounts), bytes |-> k, rest |-> x]
  BY <1>10, <1>13
<1> DEFINE keys == ReadVector(After(buffer, 3), KeySize)
<1>16. keys.n = Len(accounts) /\ keys.bytes = k /\ keys.rest = x
  BY <1>15
<1> HIDE DEF keys
<1>17. After(keys.rest, KeySize) = ixs /\ SubSeq(keys.rest, 1, KeySize) = recentBlockhash
  BY <1>9, <1>16
<1> DEFINE found == After(keys.rest, KeySize)
           read == ReadInstructions(After(found, Width(found)), Decode(found))
<1>18. read.ixs = compiled /\ read.rest = <<>>
  BY <1>8, <1>14, <1>17
<1>19. /\ keys.n = Len(accounts) /\ keys.bytes = KeysBytes(accounts)
       /\ SubSeq(keys.rest, 1, KeySize) = recentBlockhash
  BY <1>16, <1>17 DEF k
<1>20. QED
  BY <1>13, <1>18, <1>19, Zenon DEF keys

\* a key the library reads from a text
LEMMA HashRead ==
  ASSUME NEW text \in Seq(Digit \cup {NoDigit}), FromBase58(text).ok
  PROVE  FromBase58(text).data \in Bytes /\ Len(FromBase58(text).data) = KeySize
<1> DEFINE key == FromBase58(text).data
<1>1. key \in [1 .. KeySize -> Byte]
  BY KeysHaveTheirSize
<1> HIDE DEF key
<1>2. KeySize \in Nat
  BY KeySizeAssumption
<1>3. key \in Bytes /\ Len(key) = KeySize
  BY <1>1, <1>2 DEF Bytes
<1>4. QED
  BY <1>3 DEF key

\* libsodium's signature of any message has its size
SignatureTyped == \A m \in Bytes : Signature(m) \in [1 .. SignatureSize -> Byte]

\* A reader of the text that is sent finds the signature and the message.
LEMMA TextRead ==
  ASSUME SignatureTyped, NEW tx \in Bytes
  PROVE  LET text == Encode64(signTransaction(tx))
             wire == Carried(text)
         IN  /\ Decode64(text) = wire
             /\ Decode(wire) = 1
             /\ ReadVector(wire, SignatureSize) = [n |-> 1, bytes |-> Signature(tx), rest |-> tx]
<1> DEFINE g == Signature(tx)
           e == EncodeLength(1)
           s == signTransaction(tx)
<1>1. g \in Bytes /\ Len(g) = 1 * SignatureSize /\ SignatureSize \in Nat
  <2>1. g \in [1 .. SignatureSize -> Byte]
    BY DEF SignatureTyped
  <2> HIDE DEF g
  <2>2. QED
    BY <2>1, SignatureAssumption DEF Bytes
<1>2. e \in Bytes /\ 1 \in UInt16
  BY PrefixTyped, Range16
<1>3. Cat(g, tx) \in Bytes
  BY <1>1, CatFacts
<1>4. s = Cat(e, Cat(g, tx))
  <2>1. s = Cat(Cat(e, g), tx)
    BY DEF signTransaction, Cat
  <2> HIDE DEF e, g, s
  <2>2. QED
    BY <1>1, <1>2, <2>1, CatAssociative
<1>5. ReadVector(Cat(e, Cat(g, tx)), SignatureSize) = [n |-> 1, bytes |-> g, rest |-> tx]
  <2> HIDE DEF g
  <2>1. QED
    BY <1>1, <1>2, VectorRead
<1>6. Decode(Cat(e, Cat(g, tx))) = 1
  <2> HIDE DEF g
  <2>1. QED
    BY <1>2, <1>3, PrefixRead
<1> HIDE DEF e, g, s
<1>7. s \in Bytes
  BY <1>2, <1>3, <1>4, CatFacts
<1>8. Carried(Encode64(s)) = s /\ Decode64(Encode64(s)) = s
  BY <1>7, CarriesWhatItEncodes, DecodesWhatItEncodes DEF Bytes
<1>9. QED
  BY <1>4, <1>5, <1>6, <1>8, Zenon DEF g, s

----------------------------------------------------------------------------
(* The steps keep the invariant. *)

\* The call is where the compilation is, with a blockhash of the right size;
\* what is sent is the text of the whole message.
SendInv ==
  /\ IInv
  /\ answer \in Seq(Digit \cup {NoDigit})
  /\ call \in {"getLatestBlockhash", "compile", "threw", "sent"}
  /\ call \in {"getLatestBlockhash", "threw"} => pc = "collect"
  /\ call \in {"compile", "sent"} => HashTyped
  /\ Serialized
  /\ call = "sent" => pc = "done" /\ b64Tx = Encode64(signTransaction(buffer))

\* a compilation that has a blockhash writes the instructions in turn
LEMMA SerializedInv ==
  ASSUME IInv, HashTyped, Serialized, Next
  PROVE  Serialized'
<1>1. ListsTyped /\ Progress
  BY DEF IInv
<1>2. CASE Collect \/ MergeNext \/ SortNext \/ CountPrivileges \/ CompileNext
  <2>1. pc' \in {"collect", "merge", "sort", "compile"}
    BY <1>2 DEF Collect, MergeNext, SortNext, CountPrivileges, CompileNext
  <2>2. QED
    BY <2>1 DEF Serialized
<1>3. CASE SerializeHead
  <2>1. /\ pc' = "serialize" /\ i' = 0 /\ buffer' = Preamble
        /\ UNCHANGED <<compiled, header, accounts, recentBlockhash>>
    BY <1>3 DEF SerializeHead, args
  <2>2. Preamble' = Preamble /\ Written' = 0
    BY <2>1 DEF Preamble, Written
  <2>3. Preamble \in Bytes
    BY <1>1, PreambleParts
  <2> DEFINE tails == [n \in 0 .. 0 |-> <<>>]
  <2>4. /\ tails \in [0 .. 0 -> Bytes] /\ tails[0] = <<>>
        /\ \A n \in 1 .. 0 : tails[n - 1] = Cat(InstructionBytes(compiled'[n]), tails[n])
    <3>1. <<>> \in Bytes
      BY DEF Bytes
    <3>2. QED
      BY <3>1
  <2> HIDE DEF tails
  <2>5. buffer' = Cat(Preamble', tails[0])
    BY <2>1, <2>2, <2>3, <2>4, CatEmpty
  <2>6. QED
    BY <2>2, <2>4, <2>5 DEF Serialized
<1>4. CASE SerializeNext
  <2> DEFINE b == InstructionBytes(compiled[i + 1])
  <2>1. /\ pc = "serialize" /\ pc' = "serialize" /\ i < Len(compiled) /\ i' = i + 1 /\ buffer' = Cat(buffer, b)
        /\ UNCHANGED <<compiled, header, accounts, recentBlockhash>>
    BY <1>4 DEF SerializeNext, args, Cat
  <2>2. Preamble' = Preamble /\ Written' = i + 1 /\ Written = i
    BY <2>1 DEF Preamble, Written
  <2>3. PICK tails \in [0 .. i -> Bytes] :
          /\ tails[i] = <<>>
          /\ \A n \in 1 .. i : tails[n - 1] = Cat(InstructionBytes(compiled[n]), tails[n])
          /\ buffer = Cat(Preamble, tails[0])
    BY <2>1, <2>2 DEF Serialized
  <2>4. i \in Nat /\ compiled \in Seq(Compiled) /\ \A n \in 1 .. i + 1 : compiled[n] \in Compiled
    BY <1>1, <2>1 DEF ListsTyped
  <2>5. \A n \in 1 .. i + 1 : InstructionBytes(compiled[n]) \in Bytes
    BY <2>4, InstructionParts
  <2>6. b \in Bytes /\ Preamble \in Bytes
    BY <1>1, <2>4, <2>5, PreambleParts
  <2> HIDE DEF b
  <2> DEFINE more == [n \in 0 .. i + 1 |-> IF n <= i THEN Cat(tails[n], b) ELSE <<>>]
  <2>7. \A n \in 0 .. i : tails[n] \in Bytes /\ Cat(tails[n], b) \in Bytes
    BY <2>6, CatFacts
  <2>8. /\ more \in [0 .. i + 1 -> Bytes] /\ more[i + 1] = <<>>
        /\ \A n \in 0 .. i : more[n] = Cat(tails[n], b)
    BY <2>4, <2>7, CatEmpty
  <2> HIDE DEF more
  <2>9. ASSUME NEW n \in 1 .. i + 1
        PROVE  more[n - 1] = Cat(InstructionBytes(compiled[n]), more[n])
    <3>1. CASE n = i + 1
      <4>1. more[i] = Cat(tails[i], b) /\ n - 1 = i
        BY <2>4, <2>8, <3>1
      <4>2. more[i] = b
        BY <2>3, <2>6, <4>1, CatEmpty
      <4>3. Cat(b, more[n]) = b
        BY <2>6, <2>8, <3>1, CatEmpty
      <4>4. QED
        BY <3>1, <4>1, <4>2, <4>3 DEF b
    <3>2. CASE n # i + 1
      <4> DEFINE h == InstructionBytes(compiled[n])
      <4>1. n \in 1 .. i /\ n - 1 \in 0 .. i /\ n \in 0 .. i
        BY <2>4, <3>2
      <4>2. h \in Bytes /\ tails[n - 1] = Cat(h, tails[n]) /\ tails[n] \in Bytes
        BY <2>3, <2>5, <2>7, <4>1
      <4> HIDE DEF h
      <4>3. more[n - 1] = Cat(Cat(h, tails[n]), b)
        BY <2>8, <4>1, <4>2
      <4>4. Cat(Cat(h, tails[n]), b) = Cat(h, Cat(tails[n], b))
        BY <2>6, <4>2, CatAssociative
      <4>5. more[n] = Cat(tails[n], b)
        BY <2>8, <4>1
      <4>6. QED
        BY <4>3, <4>4, <4>5 DEF h
    <3>3. QED
      BY <3>1, <3>2
  <2>10. buffer' = Cat(Preamble, more[0])
    <3>1. 0 \in 0 .. i
      BY <2>4
    <3>2. Cat(Cat(Preamble, tails[0]), b) = Cat(Preamble, Cat(tails[0], b))
      BY <2>6, <2>7, <3>1, CatAssociative
    <3>3. QED
      BY <2>1, <2>3, <2>8, <3>1, <3>2
  <2>11. QED
    BY <2>1, <2>2, <2>8, <2>9, <2>10 DEF Serialized
<1>5. CASE LoopEnds
  <2>1. /\ UNCHANGED <<compiled, header, accounts, recentBlockhash, buffer>>
        /\ \/ pc' = "merge" \/ pc' = "sort"
           \/ pc = "serialize" /\ i = Len(compiled) /\ pc' = "done"
    BY <1>5 DEF LoopEnds, args, metaVars, messageVars
  <2>2. pc' = "done" => Written' = Written
    BY <2>1 DEF Written
  <2>3. Preamble' = Preamble
    BY <2>1 DEF Preamble
  <2>4. QED
    BY <2>1, <2>2, <2>3 DEF Serialized
<1>6. QED
  BY <1>2, <1>3, <1>4, <1>5 DEF Next

\* the calls start without a blockhash
LEMMA SendInitInv == SendInit => SendInv
<1> SUFFICES ASSUME SendInit
             PROVE  SendInv
  OBVIOUS
<1>1. Start /\ call = "getLatestBlockhash" /\ answer \in Answers(instructions)
  BY DEF SendInit
<1>2. pc = "collect" /\ instructions \in Requests
  BY <1>1 DEF Start
<1>3. answer \in Seq(Digit \cup {NoDigit})
  BY <1>1, <1>2, AnswersAssumption
<1>4. QED
  BY <1>1, <1>2, <1>3, StartInv DEF SendInv, Serialized

\* the blockhash is read
LEMMA GetLatestBlockhashInv ==
  ASSUME SendInv, GetLatestBlockhash
  PROVE  SendInv'
<1>1. /\ call = "getLatestBlockhash" /\ pc = "collect"
      /\ recentBlockhash' = FromBase58(answer).data
      /\ call' = IF FromBase58(answer).ok THEN "compile" ELSE "threw"
      /\ UNCHANGED <<pc, instructions, i, allMetas, uniqueMetas, sorted, accounts, header, compiled, buffer, answer>>
  BY DEF GetLatestBlockhash, metaVars, messageVars, SendInv
<1>2. IInv /\ answer \in Seq(Digit \cup {NoDigit})
  BY DEF SendInv
<1>3. IInv'
  BY <1>1, <1>2, SameInv
<1>4. call' = "compile" => HashTyped'
  <2>1. ASSUME call' = "compile"
        PROVE  FromBase58(answer).data \in Bytes /\ Len(FromBase58(answer).data) = KeySize
    BY <1>1, <1>2, <2>1, HashRead
  <2>2. QED
    BY <1>1, <2>1 DEF HashTyped
<1>5. Serialized'
  BY <1>1 DEF Serialized
<1>6. QED
  BY <1>1, <1>2, <1>3, <1>4, <1>5 DEF SendInv

\* every step of the calls
LEMMA SendStepInv == SendInv /\ [SendNext]_allVars => SendInv'
<1> SUFFICES ASSUME SendInv, [SendNext]_allVars
             PROVE  SendInv'
  OBVIOUS
<1>1. CASE GetLatestBlockhash
  BY <1>1, GetLatestBlockhashInv
<1>2. CASE Compile
  <2>1. /\ call = "compile" /\ Next /\ HashTyped /\ IInv /\ Serialized
        /\ UNCHANGED <<call, answer, b64Tx, recentBlockhash>>
    BY <1>2 DEF Compile, sendVars, SendInv, Next, Collect, MergeNext, SortNext, CountPrivileges, CompileNext,
         SerializeHead, SerializeNext, LoopEnds, args
  <2>2. IInv' /\ Serialized'
    BY <2>1, StepInv, SerializedInv
  <2>3. HashTyped'
    BY <2>1 DEF HashTyped
  <2>4. QED
    BY <2>1, <2>2, <2>3 DEF SendInv
<1>3. CASE sendTransaction
  <2>1. /\ call = "compile" /\ pc = "done" /\ b64Tx' = Encode64(signTransaction(buffer)) /\ call' = "sent"
        /\ UNCHANGED <<vars, answer>>
    BY <1>3 DEF sendTransaction
  <2>2. IInv'
    BY <2>1, SameInv DEF SendInv, vars
  <2>3. HashTyped' /\ Serialized'
    BY <2>1 DEF SendInv, vars, HashTyped, Serialized, Written, Preamble
  <2>4. QED
    BY <2>1, <2>2, <2>3 DEF SendInv, vars
<1>4. CASE UNCHANGED allVars
  <2>1. IInv'
    BY <1>4, SameInv DEF SendInv, allVars, vars
  <2>2. HashTyped' = HashTyped /\ Serialized' = Serialized
    BY <1>4 DEF allVars, vars, HashTyped, Serialized, Written, Preamble
  <2>3. QED
    BY <1>4, <2>1, <2>2 DEF SendInv, allVars, vars, sendVars
<1>5. QED
  BY <1>1, <1>2, <1>3, <1>4 DEF SendNext

----------------------------------------------------------------------------
(* The theorems. *)

\* The invariant holds in every state of the calls.
LEMMA SendInductive == SendSpec => []SendInv
BY SendInitInv, SendStepInv, PTL DEF SendSpec

\* Merging, positions and counters are right with a blockhash of any answer.
THEOREM SendMergeCorrect == SendSpec => []MergeRight
<1>1. SendInv => MergeRight
  BY DEF SendInv, IInv
<1>2. QED
  BY <1>1, SendInductive, PTL

\* as IndicesCorrect, for the calls
THEOREM SendIndicesCorrect == SendSpec => []IndicesRight
<1>1. SendInv => IndicesRight
  BY IndicesFollow DEF SendInv
<1>2. QED
  BY <1>1, SendInductive, PTL

\* as HeaderCorrect, for the calls
THEOREM SendHeaderCorrect == SendSpec => []HeaderRight
<1>1. SendInv => HeaderRight
  BY HeaderFollows DEF SendInv
<1>2. QED
  BY <1>1, SendInductive, PTL

\* The cluster reads from the text exactly what was compiled: the signature of
\* the message, the counters, the accounts, the blockhash and every
\* instruction, whatever the instructions and the answer, as long as the
\* lengths of the lists are values of the uint16_t they are converted to.
THEOREM WireCorrect ==
  ASSUME SignatureTyped
  PROVE  SendSpec => []WireRight
<1>1. SendInv => WireRight
  <2> SUFFICES ASSUME SendInv, call = "sent", LengthsFit
               PROVE  LET wire == Carried(b64Tx)
                          signatures == ReadVector(wire, SignatureSize)
                          message == signatures.rest
                          keys == ReadVector(After(message, 3), KeySize)
                          ixs == After(keys.rest, KeySize)
                          read == ReadInstructions(After(ixs, Width(ixs)), Decode(ixs))
                      IN  /\ Decode64(b64Tx) = wire
                          /\ signatures.n = 1 /\ signatures.bytes = Signature(message)
                          /\ SubSeq(message, 1, 3)
                               = <<header.requiredSignatures, header.readOnlySigned, header.readOnlyUnsigned>>
                          /\ keys.n = Len(accounts) /\ keys.bytes = KeysBytes(accounts)
                          /\ SubSeq(keys.rest, 1, KeySize) = recentBlockhash
                          /\ read.ixs = compiled /\ read.rest = <<>>
    BY DEF WireRight
  <2>1. IInv /\ HashTyped /\ Serialized /\ pc = "done" /\ b64Tx = Encode64(signTransaction(buffer))
    BY DEF SendInv
  <2>2. /\ buffer \in Bytes
        /\ SubSeq(buffer, 1, 3) = Counters
        /\ LET keys == ReadVector(After(buffer, 3), KeySize)
               ixs == After(keys.rest, KeySize)
               read == ReadInstructions(After(ixs, Width(ixs)), Decode(ixs))
           IN  /\ keys.n = Len(accounts) /\ keys.bytes = KeysBytes(accounts)
               /\ SubSeq(keys.rest, 1, KeySize) = recentBlockhash
               /\ read.ixs = compiled /\ read.rest = <<>>
    BY <2>1, MessageRead
  <2> DEFINE wire == Carried(b64Tx)
             signatures == ReadVector(wire, SignatureSize)
  <2>3. /\ Decode64(b64Tx) = wire
        /\ signatures = [n |-> 1, bytes |-> Signature(buffer), rest |-> buffer]
    BY <2>1, <2>2, TextRead
  <2> HIDE DEF signatures
  <2>4. signatures.n = 1 /\ signatures.bytes = Signature(buffer) /\ signatures.rest = buffer
    BY <2>3
  <2>5. QED
    BY <2>2, <2>3, <2>4, Zenon DEF signatures, Counters
<1>2. QED
  BY <1>1, SendInductive, PTL

\* A transaction that only the payer signs has as many signatures as its header
\* says it needs, whatever else is in it.
THEOREM SignaturesCorrect ==
  ASSUME SignatureTyped
  PROVE  SendSpec => []SignaturesSuffice
<1>1. SendInv => SignaturesSuffice
  <2> SUFFICES ASSUME SendInv, call = "sent", \A k \in Signers : sorted[k].pubkey = Payer
               PROVE  Decode(Carried(b64Tx)) = header.requiredSignatures
    BY DEF SignaturesSuffice
  <2>1. IInv /\ HashTyped /\ Serialized /\ pc = "done" /\ b64Tx = Encode64(signTransaction(buffer))
    BY DEF SendInv
  <2>2. Listing /\ ListsTyped /\ Selected /\ Listed
    BY <2>1 DEF Listing, IInv
  <2>3. buffer \in Bytes
    <3>1. PICK tails \in [0 .. Written -> Bytes] : buffer = Cat(Preamble, tails[0])
      BY <2>1, Zenon DEF Serialized
    <3>2. Written \in Nat
      BY <2>1, <2>2 DEF Written, ListsTyped
    <3>3. tails[0] \in Bytes /\ Preamble \in Bytes
      BY <2>1, <2>2, <3>2, PreambleParts DEF ListsTyped
    <3>4. QED
      BY <3>1, <3>3, CatFacts
  <2>4. Decode(Carried(b64Tx)) = 1
    BY <2>1, <2>3, TextRead
  <2>5. Len(accounts) \in Nat /\ Len(sorted) = Len(accounts)
    BY <2>1, <2>2, PrivilegesOfListed
  <2>6. PICK k \in 1 .. Len(accounts) : accounts[k] = Payer /\ sorted[k].isSigner
    BY <2>1, <2>2, PayerListed
  <2>7. \A j, m \in 1 .. Len(sorted) : sorted[j].pubkey = sorted[m].pubkey => j = m
    BY <2>2 DEF Selected, Positions
  <2>8. sorted[k].pubkey = Payer /\ k \in Signers
    BY <2>5, <2>6 DEF Signers, Positions
  <2>9. Signers = {k}
    BY <2>5, <2>7, <2>8 DEF Signers, Positions
  <2>10. Count(Signers) = 1
    <3>1. Cardinality({k}) = 1
      BY FS_Singleton
    <3>2. 1 < IndexRange
      BY IndexAssumption
    <3>3. QED
      BY <2>5, <2>8, <2>9, <3>1, <3>2, CountFacts DEF Signers, Positions
  <2>11. header.requiredSignatures = Count(Signers)
    BY <2>2 DEF Listed, Listing, HeaderOf, Signers
  <2>12. QED
    BY <2>4, <2>10, <2>11
<1>2. QED
  BY <1>1, SendInductive, PTL

(* The blockhash of a compilation is what fromBase58 makes of the answer.    *)
Answered ==
  /\ answer \in Seq(Digit \cup {NoDigit})
  /\ call = "compile" => FromBase58(answer).ok /\ recentBlockhash = FromBase58(answer).data
  /\ call = "threw" => ~FromBase58(answer).ok

\* The answer is read once, and neither it nor the blockhash changes then.
LEMMA AnsweredInductive == SendSpec => []Answered
<1>1. SendInit => Answered
  <2> SUFFICES ASSUME SendInit
               PROVE  Answered
    OBVIOUS
  <2>1. call = "getLatestBlockhash" /\ answer \in Answers(instructions) /\ instructions \in Requests
    BY DEF SendInit, Start
  <2>2. QED
    BY <2>1, AnswersAssumption DEF Answered
<1>2. Answered /\ [SendNext]_allVars => Answered'
  <2> SUFFICES ASSUME Answered, [SendNext]_allVars
               PROVE  Answered'
    OBVIOUS
  <2>1. CASE GetLatestBlockhash
    <3>1. /\ recentBlockhash' = FromBase58(answer).data /\ answer' = answer
          /\ call' = IF FromBase58(answer).ok THEN "compile" ELSE "threw"
      BY <2>1 DEF GetLatestBlockhash
    <3>2. FromBase58(answer)' = FromBase58(answer)
      BY <3>1
    <3>3. QED
      BY <3>1, <3>2 DEF Answered
  <2>2. CASE Compile
    <3>1. call' = call /\ answer' = answer /\ recentBlockhash' = recentBlockhash
      BY <2>2 DEF Compile, sendVars, Next, Collect, MergeNext, SortNext, CountPrivileges, CompileNext,
           SerializeHead, SerializeNext, LoopEnds, args
    <3>2. QED
      BY <3>1 DEF Answered
  <2>3. CASE sendTransaction
    BY <2>3 DEF sendTransaction, Answered
  <2>4. CASE UNCHANGED allVars
    <3>1. call' = call /\ answer' = answer /\ recentBlockhash' = recentBlockhash
      BY <2>4 DEF allVars, vars, sendVars, args
    <3>2. QED
      BY <3>1 DEF Answered
  <2>5. QED
    BY <2>1, <2>2, <2>3, <2>4 DEF SendNext
<1>3. QED
  BY <1>1, <1>2, PTL DEF SendSpec

\* A compilation has the blockhash that the text of the answer stands for, and
\* the library writes it as that text; the call throws only for a text that
\* stands for no key, whatever the answer.
THEOREM BlockhashCorrect == SendSpec => []BlockhashRight
<1>1. Answered => BlockhashRight
  <2> SUFFICES ASSUME Answered
               PROVE  BlockhashRight
    OBVIOUS
  <2>1. answer \in Seq(Digit \cup {NoDigit})
    BY DEF Answered
  <2>2. ASSUME call = "compile"
        PROVE  /\ Len(recentBlockhash) = KeySize /\ Denotes(answer, recentBlockhash)
               /\ ToBase58(recentBlockhash) = answer
    <3>1. /\ recentBlockhash \in Seq(Byte) /\ Len(recentBlockhash) = KeySize
          /\ Denotes(answer, recentBlockhash)
      BY <2>1, <2>2, FromBase58Right DEF Answered
    <3>2. QED
      BY <2>1, <3>1, ToBase58Right
  <2>3. ASSUME call = "threw"
        PROVE  \/ \E k \in 1 .. Len(answer) : answer[k] = NoDigit
               \/ LeadingZeros(answer) + Len(Number(answer)) # KeySize
    BY <2>1, <2>3, FromBase58Right DEF Answered
  <2>4. QED
    BY <2>2, <2>3 DEF BlockhashRight
<1>2. QED
  BY <1>1, AnsweredInductive, PTL
=============================================================================
