SPECIFICATION EvidenceSpec
CONSTANTS
  Passages = {p1, p2}
  Codes = {n1, n2}
  Manufacturers = {m1}
  p1 = p1
  p2 = p2
  n1 = n1
  n2 = n2
  m1 = m1
  d1 = d1
  d2 = d2
  Names <- MCNames
  FactNames = {f1}
  Documents = {d1, d2}
  Text <- MCText
  Given <- MCGiven
  f1 = f1
  ModelAnswers <- MCModelAnswers
  NoPassage = NoPassage
  Unknown = Unknown
  Callers = {c1, c2}
  Asked <- MCAsked
  Nothing = Nothing
  Timeout = 1
  Lease = 3
  Fresh = 4
  FreshOther = 3
  MaxDelay = 1
  Horizon = 5
  FieldScope = {"part_number", "manufacturer", "description", "datasheet_url"}
  Lengths = {1, 2}
  MaxResults = 1
SYMMETRY Symmetry
INVARIANTS TypeOK AnswersAreSourced FailuresStayDistinct ClaimsAreExclusive AnswersFitTheDocument
CHECK_DEADLOCK FALSE
