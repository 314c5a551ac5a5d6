SPECIFICATION Spec
CONSTANTS
  MaxItem = 5
  MaxRelation = 6
  Titles <- MCTitles
  NoText = "none"
  Norm <- MCNorm
  Text <- MCText
  TitleOrder <- MCTitleOrder
  Like <- MCLike
  Ratio <- MCRatio
  MaxCandidates = 3
  ImportMatches = 2
  ReferenceMatches = 2
  Kinds = {"movie"}
  Years = {1992, 1993}
  NoYear = 0
  Keys <- MCKeys
  Values = {"a", "A", "b"}
  NormKey <- MCNormKey
  NormValue <- MCNormValue
  LastKey <- MCLastKey
  NoValue = "none"
  Langs = {"de"}
  NoLang = "none"
  NoItem = NoItem
  RelationTypes <- MCTypes
  NormType <- MCNormType
  InverseType <- MCInverse
  NoOrder = "none"
  NoPosition = NoPosition
  Notes = {"n", "m"}
  s1 = s1
  s2 = s2
  Sessions = {s1, s2}
  Requests <- MCRequests
  MaxRequests = 3
  Items <- MCItems
  Aliases <- MCAliases
  Relations <- MCRelations
SYMMETRY Symmetry
CHECK_DEADLOCK FALSE
INVARIANTS
  Consistent
  PreviewIsWhatMergeDoes
  GraphAnswersAreExact
PROPERTIES
  MergeKeepsKnowledge
  ImportKeepsValues
  CreateMeansNew
  MigrationKeepsRelations
