SPECIFICATION SendSpec
CONSTANTS
  p = p  acc1 = acc1  acc2 = acc2  prog = prog  group = group  market = market
  cache = cache  bids = bids  asks = asks  events = events  none = none
  Keys <- MCKeys
  KeyBytes <- MCKeyBytes
  KeySize = 8
  LimbBytes = 2
  Blockhashes <- MCBlockhashes
  Answers <- MCAnswers
  Signature <- MCSignature
  SignatureSize = 64
  Payer = p
  Requests <- AllRequests
  IndexRange = 10
INVARIANTS
  MergeRight
  HeaderRight
  IndicesRight
  BlockhashRight
  WireRight
  SignaturesSuffice
CHECK_DEADLOCK FALSE
