\* The same inputs.
SPECIFICATION Spec
CONSTANTS
  Versions <- MCVersions
  Names <- MCNames
  Newer <- MCNewer
  Projects <- MCProjects
  NotList = NotList
  TrunkFiles <- MCTrunkFiles
  Releases <- MCReleases
  NoDate = NoDate
  MinAge = 14
INVARIANTS
  OkMeansExactPins
CHECK_DEADLOCK FALSE
