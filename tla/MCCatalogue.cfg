SPECIFICATION Spec
CONSTANTS
  Numbers = {n1}
  Slots = {s1, s2}
  Unmarked = Unmarked
  Makers = {m1}
  Links = {}
  NoLink = NoLink
  FactNames = {}
  Readings = {}
  Absent = Absent
  Jobs = {}
  JobKinds = {}
  Users = {}
  n1 = n1
  s1 = s1
  s2 = s2
  Category <- MCCategory
  OldText <- MCOldText
  Spellings <- MCSpellings
  BomFilters <- MCBomFilters
  KnownFacts <- MCKnownFacts
  Requirements <- MCRequirements
  Accepted <- MCAccepted
  AskedTogether <- MCAskedTogether
  Power <- SmallLadder
  Fine = 8
  MaxParts = 3
  MaxQuantity = 1
  MaxBatch = 2
INVARIANTS TypeOK EverySpellingFinds PagesCoverAnswers NoHiddenShortage ConfirmedForEveryValue
PROPERTIES NoNewTwins CreationOnlyAdds
