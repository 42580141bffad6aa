SPECIFICATION Spec
CONSTANTS
  Executions = {e1}
  Workers = {w1, w2}
  ThreadOf <- MCThreadOf
  Nobody = Nobody
  Lost = Lost
  MaxFailures = 2
  MaxRounds = 1
  MaxCalls = 1
  MaxWakes = 0
  MaxCrashes = 1
  MaxExpiries = 1
  Stalls = TRUE
SYMMETRY MCSymmetry
INVARIANT SettledIsPublished
CHECK_DEADLOCK FALSE
