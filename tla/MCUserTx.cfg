CONSTANTS
  c1 = c1
  c2 = c2
  c3 = c3
  c4 = c4
  c5 = c5
  p1 = p1
  nil = nil
  NilID <- nil
  Calls <- MCCalls
  PlainCalls <- MCPlain
  Approach <- MCApproach
  Together <- MCTogether
  ConfigAttempts <- MCAttempts
  Username <- OneName
  MaxConns = 2
  Backoff <- NoBackoff
SPECIFICATION FairUserSpec
INVARIANTS
  UserTypeOK
  NoTornPair
  RepliesMatchRows
  NoHoldAndWait
PROPERTIES
  EveryUserCallReturns
  RegistrySpec
CHECK_DEADLOCK FALSE
