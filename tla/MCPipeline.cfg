CONSTANTS
  Keys = {1, 2, 3, 4, 5, 6, 7, 8, 9, 10, 11, 12}
  Pipelines <- MCPipelines
  Expressions <- MCExpressions
  Asts <- MCAsts
  Texts <- MCTexts
  Hashes <- MCHashes
  HeightOne <- SubtreesOfHeightOne
SPECIFICATION Spec
INVARIANTS BuildsWhatIsWritten  RanksBoundFind GroupsAreComponents GroupsAreWhatShares GroupsPartition
PROPERTY ImplementsPartition
CHECK_DEADLOCK FALSE
