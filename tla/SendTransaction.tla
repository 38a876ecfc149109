--------------------------- MODULE SendTransaction ---------------------------
(***************************************************************************)
(* The way of a transaction from the user to the cluster (lib/solana.cpp): *)
(* Connection::getLatestBlockhash reads the blockhash out of an answer,    *)
(* CompileTransaction compiles and serializes the message, and             *)
(* Connection::sendTransaction signs it, turns it into text and puts it in *)
(* a request.  The cluster, which is external, reads it back.              *)
(***************************************************************************)
EXTENDS CompileTransaction, Base64

CONSTANTS
  Answers(_),     \* texts that can come back for the blockhash of a request
  Signature(_),   \* external: the signature libsodium makes for a message
  SignatureSize

ASSUME SignatureAssumption == SignatureSize \in Nat
ASSUME AnswersAssumption == \A ixs \in Requests : Answers(ixs) \subseteq Seq(Digit \cup {NoDigit})

VARIABLES
  call,           \* what the user's thread does
  answer,         \* the member "blockhash" of the answer
  b64Tx           \* the text that is sent

sendVars == <<call, answer, b64Tx>>
allVars == <<vars, sendVars>>

SendInit ==
  /\ Start
  /\ recentBlockhash = <<>>
  /\ call = "getLatestBlockhash"
  /\ answer \in Answers(instructions)
  /\ b64Tx = <<>>

\* getLatestBlockhash: a text that is no key is an exception
GetLatestBlockhash ==
  /\ call = "getLatestBlockhash"
  /\ recentBlockhash' = FromBase58(answer).data
  /\ call' = IF FromBase58(answer).ok THEN "compile" ELSE "threw"
  /\ UNCHANGED <<pc, instructions, i, metaVars, messageVars, answer, b64Tx>>

\* fromInstructions and serializeTo
Compile ==
  /\ call = "compile"
  /\ Next
  /\ UNCHANGED sendVars

\* CompiledTransaction::signTransaction
signTransaction(tx) == EncodeLength(1) \o Signature(tx) \o tx

\* sendTransaction: sign, which serializes the message, and b64encode
sendTransaction ==
  /\ call = "compile" /\ pc = "done"
  /\ b64Tx' = Encode64(signTransaction(buffer))
  /\ call' = "sent"
  /\ UNCHANGED <<vars, answer>>

SendNext == GetLatestBlockhash \/ Compile \/ sendTransaction

SendSpec == SendInit /\ [][SendNext]_allVars

----------------------------------------------------------------------------

(* The compilation starts with a blockhash only if the text of the answer  *)
(* stands for it, and then the library writes it as that text again; the   *)
(* call throws only for a text that stands for no key (solana.cpp:30-46    *)
(* and 759-771).                                                           *)
BlockhashRight ==
  /\ call = "compile" /\ pc = "collect" /\ i = 0 =>
       /\ Len(recentBlockhash) = KeySize
       /\ Denotes(answer, recentBlockhash)
       /\ ToBase58(recentBlockhash) = answer
  /\ call = "threw" =>
       \/ \E k \in 1 .. Len(answer) : answer[k] = NoDigit
       \/ LeadingZeros(answer) + Len(Number(answer)) # KeySize

\* the rest of a buffer after n bytes
After(s, n) == SubSeq(s, n + 1, Len(s))

\* reading a vector of items of some size at the head of a buffer: how many
\* there are, their bytes, and what follows
ReadVector(s, size) ==
  LET w == Width(s)
      n == Decode(s)
  IN  [n |-> n, bytes |-> SubSeq(s, w + 1, w + n * size), rest |-> After(s, w + n * size)]

\* the instructions in a buffer, one after the other, and what follows
ReadInstruction(s) ==
  LET v == ReadVector(After(s, 1), 1)
      d == ReadVector(v.rest, 1)
  IN  [ix |-> [programIdIndex |-> s[1], accountIndices |-> v.bytes, data |-> d.bytes],
       rest |-> d.rest]
ReadInstructions(s, count) ==
  LET f[n \in 0 .. count] ==
        IF n = 0 THEN [ixs |-> <<>>, rest |-> s]
        ELSE LET earlier == f[n - 1]
                 read == ReadInstruction(earlier.rest)
             IN  [ixs |-> Append(earlier.ixs, read.ix), rest |-> read.rest]
  IN  f[count]

\* no list is longer than its length prefix can say
LengthsFit ==
  /\ Len(accounts) \in UInt16 /\ Len(compiled) \in UInt16
  /\ \A n \in Positions(compiled) :
       Len(compiled[n].accountIndices) \in UInt16 /\ Len(compiled[n].data) \in UInt16

(* The cluster finds in the text what was compiled and nothing else: one   *)
(* signature, which is one of the message that follows it; in the message  *)
(* the counters, the accounts, the blockhash it has handed out, and every  *)
(* instruction.  It is decoded the way the format says, and the library's  *)
(* own decoder agrees (solana.cpp:485-489, 553-590 and 690-697).           *)
WireRight ==
  call = "sent" /\ LengthsFit =>
    LET wire == Carried(b64Tx)
        signatures == ReadVector(wire, SignatureSize)
        message == signatures.rest
        keys == ReadVector(After(message, 3), KeySize)
        ixs == After(keys.rest, KeySize)
        read == ReadInstructions(After(ixs, Width(ixs)), Decode(ixs))
    IN  /\ Decode64(b64Tx) = wire
        /\ signatures.n = 1 /\ signatures.bytes = Signature(message)
        /\ SubSeq(message, 1, 3)
             = <<header.requiredSignatures, header.readOnlySigned, header.readOnlyUnsigned>>
        /\ keys.n = Len(accounts) /\ keys.bytes = KeysBytes(accounts)
        /\ SubSeq(keys.rest, 1, KeySize) = recentBlockhash
        /\ read.ixs = compiled /\ read.rest = <<>>

(* A transaction that only its payer signs has as many signatures as its   *)
(* header says it needs: the one signTransaction adds, whatever the header *)
(* (solana.cpp:496 and 572-583).                                           *)
SignaturesSuffice ==
  call = "sent" /\ (\A k \in Signers : sorted[k].pubkey = Payer) =>
    Decode(Carried(b64Tx)) = header.requiredSignatures
=============================================================================
