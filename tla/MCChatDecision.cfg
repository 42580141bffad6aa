SPECIFICATION Spec
CONSTANTS
  e1 = e1
  e2 = e2
  t1 = t1
  t2 = t2
  Threads = {t1}
  Executions = {e1, e2}
  ThreadOf <- OneThread
  Asking = {e1}
  Parking = {e2}
  Own = {e1}
  NoThread = NoThread
  Nothing = Nothing
  MaxLosses = 1
  MixedCancels = FALSE
PROPERTY SavedDecisionIsRead
