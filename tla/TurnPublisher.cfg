CONSTANTS
  Repos = {r1, r2}
  MaxEdits = 2
  MaxRestarts = 2
  MaxPrs = 2
  None = None
SPECIFICATION FairSpec
INVARIANTS PublicationTruthful RecordedBranchExists AnnouncedPrIsOpen
PROPERTIES NeverOverwritten PublishingEnds
CHECK_DEADLOCK FALSE
