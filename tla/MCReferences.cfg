SPECIFICATION Spec
CONSTANTS
  Unknown = Unknown
  HashSimilarity <- MCHashSimilarity
  Files <- MCFiles
  Samplings <- MCSamplings
  Frames <- MCFrames
  Ids <- MCIds
  Drafts <- MCDrafts
  Changes <- MCChanges
  Payloads <- MCPayloads
  s1 = s1
  s2 = s2
  Sessions = {s1, s2}
  MaxCalls = 3
  MaxJobs = 2
  Idle = Idle
  NoRow = NoRow
SYMMETRY Symmetry
INVARIANTS
  TypeOK
  AnswerNamesWhatItCompared
  MadeReferenceWorks
  RatingsAgree
  NeverBetterBothWays
  BlurIsNoImprovement
PROPERTY
  DeletedStaysDeleted
CHECK_DEADLOCK FALSE
