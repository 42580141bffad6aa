SPECIFICATION Spec
CONSTANTS
  Executions = {e1}
  Workers = {w1, w2}
  ThreadOf <- MCThreadOf
  Nobody = Nobody
  Lost = Lost
  MaxFailures = 2
  MaxRounds = 1
  MaxCalls = 1
  MaxWakes = 1
  MaxCrashes = 1
  MaxExpiries = 2
  Stalls = FALSE
SYMMETRY MCSymmetry
INVARIANTS TypeOK SettledIsPublished UnsettledIsScheduled CancellationStaysDeliverable SubmittedOnce
PROPERTIES RestsAfterLastWake TerminalIsFinal LeasesAreExclusive
CHECK_DEADLOCK FALSE
