------------------------ MODULE MCCompileTransaction ------------------------
(* Instances of SendTransaction for TLC: one payer, two more accounts and a  *)
(* program, every combination of privileges, up to two instructions that     *)
(* share accounts and programs; an order and a cancellation on Mango; and,   *)
(* with no instruction, answers with many texts of blockhashes.              *)
EXTENDS SendTransaction, TLC

CONSTANTS p, acc1, acc2, prog, group, market, cache, bids, asks, events, none

MCKeys == {p, acc1, acc2, prog, group, market, cache, bids, asks, events, none}

\* keys with different bytes; the empty key has only zeros
Number1(k) ==
  (p :> 1 @@ acc1 :> 2 @@ acc2 :> 3 @@ prog :> 4 @@ group :> 5 @@ market :> 6 @@ cache :> 7
     @@ bids :> 8 @@ asks :> 9 @@ events :> 10 @@ none :> 0)[k]
MCKeyBytes(k) == [n \in 1 .. KeySize |-> Number1(k)]

\* the second instruction has one account or none, the first up to two
Some(n, programs, datas) ==
  {[programId |-> k, accounts |-> s, data |-> d] :
     k \in programs, s \in UNION {[1 .. m -> [pubkey : {p, acc1, acc2}, isSigner : BOOLEAN, isWritable : BOOLEAN]] : m \in 0 .. n},
     d \in datas}

\* data whose length takes one byte and two
Bytes(n) == [k \in 1 .. n |-> 7]

Mango == INSTANCE MangoInstructions WITH MAX_PAIRS <- 15, EmptyKey <- none

\* the keys of a Mango order of an owner
Order(owner) ==
  [programPk |-> prog, ownerPk |-> owner, accountPk |-> acc1, groupPk |-> group, marketPk |-> market,
   mangoCache |-> cache, bids |-> bids, asks |-> asks, eventQueue |-> events]

MangoRequests(owner) ==
  {<<Mango!cancelAllPerpOrdersInstruction(Order(owner))>>,
   <<Mango!cancelAllPerpOrdersInstruction(Order(owner)), Mango!placePerpOrderInstruction(Order(owner))>>}

AllRequests ==
  {<<>>} \cup {<<x>> : x \in Some(2, {acc1, prog}, {<<>>, Bytes(128)})}
    \cup {<<x, y>> : x \in Some(2, {prog}, {<<7, 200>>}), y \in Some(1, {acc1}, {Bytes(127)})}
    \cup MangoRequests(p)

\* a read-only signer in front of a writable account that does not sign
SignerFirst ==
  {<<[programId |-> prog, accounts |-> <<Meta(acc2, TRUE, FALSE), Meta(acc1, FALSE, TRUE)>>, data |-> <<>>]>>}

\* a blockhash with some zeros in front, and its last byte on its own
Hash(zeros, fill, last) ==
  [k \in 1 .. KeySize |-> IF k <= zeros THEN 0 ELSE IF k = KeySize THEN last ELSE fill]
Hashes == {Hash(z, f, l) : z \in {0, 1, 2, KeySize - 1}, f \in {1, 57, 58, 255}, l \in {0, 1, 58, 255}}
PlainHash == Hash(KeySize - 3, 60, 7)
MCBlockhashes == {PlainHash}

\* what may come back: a text; one letter too many or too few, in front or at
\* the end; a character that is no digit; too large a number; nothing
Damaged(t) ==
  {t, <<0>> \o t, <<57>> \o t, Append(t, 0), Tail(t), SubSeq(t, 1, Len(t) - 1),
   [t EXCEPT ![Len(t) \div 2] = NoDigit]}
MCAnswers(ixs) ==
  IF ixs # <<>> THEN {ToBase58(PlainHash)}
  ELSE UNION {Damaged(ToBase58(h)) : h \in Hashes}
         \cup {<<>>} \cup {[k \in 1 .. n |-> d] : n \in KeySize - 1 .. BufferSize(KeySize), d \in {0, 57}}

\* 64 bytes that depend on the message
MCSignature(m) == [k \in 1 .. SignatureSize |-> (Len(m) + m[Len(m)] + 7 * m[1] + k) % 256]
=============================================================================
