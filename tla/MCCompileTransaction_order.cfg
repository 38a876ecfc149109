SPECIFICATION SendSpec
CONSTANTS
  p = p  acc1 = acc1  acc2 = acc2  prog = prog  group = group  market = market
  cache = cache  bids = bids  asks = asks  events = events  none = none
  Keys <- MCKeys
  KeyBytes <- MCKeyBytes
  KeySize = 8
  LimbBytes = 2
  Blockhashes <- MCBlockhashes
  Answers <- MCAnswers
  Signature <- MCSignature
  SignatureSize = 64
  Payer = p
  Requests <- SignerFirst
  IndexRange = 10
INVARIANT SortedAsDocumented
CHECK_DEADLOCK FALSE
