CONSTANTS
  c1 = c1
  c2 = c2
  o1 = o1
  Calls <- MCCalls
  Orders <- MCOrders
  OrderOf <- MCOrderOf
  ConfigAttempts <- MCAttempts
  Amounts <- MCAmounts
  Serializable <- MCSerializable
  MaxConns = 2
  Backoff <- NoBackoff
SPECIFICATION FairCheckoutSpec
INVARIANTS
  CheckoutTypeOK
  PaidAtomically
  PaymentsAreAuthorised
  RepliesMatchOrder
PROPERTIES
  PaidOnce
  EveryCheckoutReturns
CHECK_DEADLOCK FALSE
