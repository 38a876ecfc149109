SPECIFICATION Spec
CONSTANTS
  k0 = k0
  k1 = k1
  One = 256
  Top = 4194304
  NumOracles = 2
  Keys <- AllKeys
  Empty = Empty
  QUOTE_INDEX = 2
  Ten = 10
  DefaultDecimals = 2
  HalfWord = 128
  Mantissa = 256
  LongMantissa = 2048
  MaxExponent = 29
  Finer = 1024
  NoValue = NoValue
  Accounts <- AllAccounts
  Groups <- AllGroups
  Caches <- AllCaches
  OpenOrders <- AllOpenOrders
INVARIANTS
  AddressesMapped
