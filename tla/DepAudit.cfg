\* Every requirement of at most one clause, the common forms of two, lists of two
\* in an optional group, and ages on both sides of the floor.
SPECIFICATION Spec
CONSTANTS
  Versions <- MCVersions
  Names <- MCNames
  Newer <- MCNewer
  Projects <- MCProjects
  NotList = NotList
  TrunkFiles <- MCTrunkFiles
  Releases <- MCReleases
  NoDate = NoDate
  MinAge = 14
INVARIANTS
  OkMeansOldEnough
  ReportsAreRight
CHECK_DEADLOCK FALSE
