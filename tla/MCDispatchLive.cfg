SPECIFICATION FairSpec
CONSTANTS
  Executions = {e1}
  Workers = {w1, w2}
  ThreadOf <- MCThreadOf
  Nobody = Nobody
  Lost = Lost
  MaxFailures = 2
  MaxRounds = 1
  MaxCalls = 2
  MaxWakes = 1
  MaxCrashes = 1
  MaxExpiries = 0
  Stalls = TRUE
PROPERTIES EventuallyRests CancellationEnds ParkedIsAnnounced
CHECK_DEADLOCK FALSE
