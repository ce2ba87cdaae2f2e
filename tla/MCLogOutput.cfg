CONSTANTS
  Goroutines = {"g1", "g2"}
  Attributes = {"a", "b"}
  Groups = {"s"}
  MaxHandlers = 3
  MaxRecords = 1
SPECIFICATION OutputSpec
INVARIANTS
  RecordsAreWhole
  RecordsShowTheirLogger
PROPERTIES
  EveryRecordReturns
CHECK_DEADLOCK FALSE
