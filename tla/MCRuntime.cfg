SPECIFICATION Spec
CONSTANTS
  Executions = {e1}
  Workers = {w1, w2}
  ThreadOf <- OneThread
  Nobody = Nobody
  Lost = Lost
  NumParts = 1
  Contents = {c1}
  MaxRounds = 1
  MaxCalls = 2
  MaxRequests = 2
  Tools = {"add", "update", "lookup", "ingest"}
  MaxId = 2
  MaxCrashes = 0
  MaxExpiries = 1
SYMMETRY Symmetry
INVARIANTS TypeOK NothingHidden OneCallAfterCancel ApprovalIsForTheCursor
PROPERTIES EffectsAreOnceAndShownTruly RetrievalIsNotRepeated
