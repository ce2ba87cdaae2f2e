SPECIFICATION PatchSpec
CONSTANTS
  Requests = {r1, r2}
  Users = {1, 2}
  Stored = {1}
  Bios = {"a", "b"}
  MaxMembers = 2
PROPERTIES
  BioRegisterSpec
CHECK_DEADLOCK FALSE
