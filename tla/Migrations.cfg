CONSTANTS
  Users = {"u1", "u2"}
  Releases = {"0009", "0017", "0023", "0029", "0035", "0037"}
  MaxCrashes = 1
  MaxDowns = 2
  MaxWrites = 2
SPECIFICATION FairSpec
INVARIANTS HeadMatchesModels SchemaDetermined  OnlyKnownFailures
PROPERTIES HandMadeKept HeadReached
CHECK_DEADLOCK FALSE
