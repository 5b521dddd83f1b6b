SPECIFICATION Spec
CONSTANTS
  id1 = id1
  id2 = id2
  None = None
  SnapshotIds = {id1, id2}
  Counts = {0, 1, 2}
  MaxCount = 1
  MaxLines = 3
  Outputs <- ShortOutputs
INVARIANTS TypeOK AnswerIsFirstSummary
