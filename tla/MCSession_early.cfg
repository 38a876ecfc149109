SPECIFICATION Spec
CONSTANTS
  a1 = a1  a2 = a2  w1 = w1  w2 = w2
  Accounts <- MCAccounts
  WsIds <- MCWsIds
  MaxRequests = 2
  MaxQueued = 2
  AwaitsConfirmation = FALSE
PROPERTIES
  RemovedNotLookedUp
