SPECIFICATION Spec
CONSTANTS
  Numbers = {n1, n2}
  Slots = {}
  Unmarked = Unmarked
  Makers = {m1}
  Links = {l1}
  NoLink = NoLink
  FactNames = {f1}
  Readings = {r1}
  Absent = Absent
  Jobs = {j1}
  JobKinds = {"lookup"}
  Users = {u1}
  MaxParts = 1
  MaxQuantity = 1
  MaxBatch = 1
SYMMETRY Symmetry
INVARIANT ProposalsFitTheirPart
