CONSTANTS
  r1 = r1
  r2 = r2
  r3 = r3
  Requests <- MCRequests
  Username <- MCUsername
  RedactKeys = {"password"}
SPECIFICATION LogSpec
INVARIANTS
  LineCountsQueries
  LineTellsOutcome
  NoPasswordLogged
PROPERTIES
  EveryRequestLogged
CHECK_DEADLOCK FALSE
