SPECIFICATION Spec
CONSTANTS
  Numbers = {n1}
  Slots = {}
  Unmarked = Unmarked
  Makers = {m1}
  Links = {l1}
  NoLink = NoLink
  FactNames = {f1}
  Readings = {r1, r2}
  Absent = Absent
  Jobs = {j1, j2}
  JobKinds = {"refresh", "datasheet", "assert", "cli"}
  Users = {u1}
  MaxParts = 1
  MaxQuantity = 1
  MaxBatch = 1
SYMMETRY Symmetry
CONSTRAINT OneConcern
INVARIANTS FactsFitTheirPart ReviewsStayApplicable NothingOutlivesItsPart
PROPERTY DecisionsAreInformed
