SPECIFICATION Spec
CONSTANTS
  Executions = {e1}
  Workers = {w1, w2}
  ThreadOf <- OneThread
  Nobody = Nobody
  Lost = Lost
  NumParts = 2
  Contents = {c1, c2}
  MaxRounds = 1
  MaxCalls = 1
  MaxRequests = 1
  Tools = {"bulk"}
  MaxId = 2
  MaxCrashes = 1
  MaxExpiries = 0
SYMMETRY Symmetry
INVARIANT NothingHidden
