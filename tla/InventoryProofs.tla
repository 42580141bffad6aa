--------------------------- MODULE InventoryProofs ---------------------------
(***************************************************************************)
(* What the inventory promises for every number of parts, jobs and users.  *)
(* Whatever commits between the reading of a part and the arrival of what  *)
(* was found for it, evidence stays with the part it is about: RowOK is    *)
(* what every step keeps of each part with its reviews and facts.          *)
(***************************************************************************)
EXTENDS Inventory, SequenceTheorems, FiniteSetTheorems, TLAPS

(* A part, its pending reviews and its accepted facts. *)
RowOK(id) ==
    /\ parts[id] = Absent => pending[id] = {} /\ facts[id] = {} /\ reviews[id] = Absent
    /\ id >= nextId => parts[id] = Absent
    /\ Proposals(pending[id])
    /\ OneFactEach(facts[id]) /\ AreAbout(facts[id], parts[id])
    /\ reviews[id] # Absent =>
          /\ OneFactEach(reviews[id].facts) /\ AreAbout(reviews[id].facts, parts[id])
          /\ reviews[id].meta = Metadata(parts[id])
          /\ reviews[id].was = facts[id] /\ reviews[id].read = facts[id]

Tables ==
    /\ nextId \in 1..(MaxParts + 1)
    /\ parts \in [Ids -> Part \cup {Absent}]
    /\ pending \in [Ids -> SUBSET Proposal]
    /\ facts \in [Ids -> SUBSET Fact]
    /\ reviews \in [Ids -> Review \cup {Absent}]
    /\ \A id \in Ids : RowOK(id)

JobsOK == jobs \in [Jobs -> Job \cup {NoJob}]

(* What is asked to be approved was on the screen. *)
ScreensOK ==
    /\ screens \in [Users -> Screen]
    /\ \A u \in Users : screens[u].pc = "asked" =>
          /\ screens[u].snapshot \in Snapshot
          /\ screens[u].review # Absent
          /\ screens[u].snapshot.review = screens[u].review

IInv == Tables /\ JobsOK /\ ScreensOK
-----------------------------------------------------------------------------
(* Rows.                                                                     *)

Keeps(id) == parts'[id] = parts[id] /\ pending'[id] = pending[id]
             /\ facts'[id] = facts[id] /\ reviews'[id] = reviews[id]

(* A row that is left alone. *)
LEMMA SameRow ==
  ASSUME Tables, NEW id \in Ids, Keeps(id), nextId' \in Int, nextId' >= nextId
  PROVE  RowOK(id)'
<1>1. RowOK(id) /\ nextId \in Int /\ id \in Int BY Bounds DEF Tables, Ids
<1> QED BY <1>1 DEF RowOK, Keeps, AreAbout, Metadata, Proposals, OneFactEach

(* A part that is edited or counted: what evidence is bound to is unchanged  *)
(* or there is none. *)
LEMMA ReplacedRow ==
  ASSUME Tables, NEW id \in Ids, parts[id] # Absent, parts'[id] \in Part, nextId' = nextId,
         facts'[id] = facts[id], reviews'[id] = reviews[id], pending'[id] \subseteq pending[id],
         Metadata(parts'[id]) # Metadata(parts[id]) => facts[id] = {} /\ reviews[id] = Absent
  PROVE  RowOK(id)'
<1>1. RowOK(id) /\ nextId \in Int /\ id \in Int BY Bounds DEF Tables, Ids
<1>2. parts'[id] # Absent BY AbsentIsNoRow
<1>3. Proposals(pending'[id]) BY <1>1 DEF RowOK, Proposals
<1>4. CASE Metadata(parts'[id]) = Metadata(parts[id])
  <2>1. parts'[id].code = parts[id].code /\ parts'[id].maker = parts[id].maker
    BY <1>4 DEF Metadata
  <2> QED BY <1>1, <1>2, <1>3, <1>4, <2>1 DEF RowOK, AreAbout
<1>5. CASE facts[id] = {} /\ reviews[id] = Absent
  BY <1>1, <1>2, <1>3, <1>5 DEF RowOK, AreAbout
<1> QED BY <1>4, <1>5

(* The typing of the tables, and each row. *)
LEMMA TablesByRow ==
  ASSUME nextId' \in 1..(MaxParts + 1),
         parts' \in [Ids -> Part \cup {Absent}], pending' \in [Ids -> SUBSET Proposal],
         facts' \in [Ids -> SUBSET Fact], reviews' \in [Ids -> Review \cup {Absent}],
         \A id \in Ids : RowOK(id)'
  PROVE  Tables'
BY DEF Tables

LEMMA RowTypes ==
  ASSUME Tables, NEW id \in Ids
  PROVE  /\ parts[id] \in Part \cup {Absent} /\ pending[id] \in SUBSET Proposal
         /\ facts[id] \in SUBSET Fact /\ reviews[id] \in Review \cup {Absent} /\ RowOK(id)
         /\ id \in Int /\ nextId \in Int
BY Bounds DEF Tables, Ids
-----------------------------------------------------------------------------
(* Creation, counting, edits, deletion, normalisation.                       *)

LEMMA RowsAreFunctions ==
  ASSUME NEW S, NEW items \in UNION {[1..n -> S] : n \in 1..MaxBatch}
  PROVE  /\ Len(items) \in Nat /\ DOMAIN items = 1..Len(items)
         /\ \A i \in DOMAIN items : items[i] \in S
         /\ IsFiniteSet(DOMAIN items)
<1>1. \E n \in Nat : items \in [1..n -> S] BY Bounds
<1>2. items \in Seq(S) BY <1>1, SeqDef
<1>3. Len(items) \in Nat /\ DOMAIN items = 1..Len(items) /\ items \in [1..Len(items) -> S]
  BY <1>2, LenProperties
<1>4. IsFiniteSet(1..Len(items)) BY <1>3, FS_Interval
<1> QED BY <1>3, <1>4

(* What a creation does to the table of parts. *)
Inserted(items, row, last) ==
    /\ last >= nextId /\ last <= MaxParts + 1 /\ last \in Int
    /\ nextId' = last
    /\ row \in [nextId..(last - 1) -> DOMAIN items]
    /\ \A a, b \in DOMAIN row : a < b => row[a] < row[b]
    /\ \A a \in DOMAIN row :
          /\ \A k \in 1..(row[a] - 1) : ~SameStock(items[k], items[row[a]])
          /\ Twins(items[row[a]]) = {}
    /\ parts' = [id \in Ids |-> IF id \in DOMAIN row THEN items[row[id]] ELSE parts[id]]
    /\ UNCHANGED <<pending, facts, reviews, jobs, screens>>

LEMMA CreateInserts ==
  ASSUME Tables, NEW items \in Rows, CreateParts(items)
  PROVE  \E row, last : Inserted(items, row, last)
<1> DEFINE First(i) == \A k \in 1..(i - 1) : ~SameStock(items[k], items[i])
           added == {i \in DOMAIN items : First(i) /\ Twins(items[i]) = {}}
           last == nextId + Cardinality(added)
<1>1. IsFiniteSet(DOMAIN items) BY RowsAreFunctions DEF Rows
<1>2. added \in SUBSET DOMAIN items OBVIOUS
<1>3. Cardinality(added) \in Nat BY <1>1, <1>2, FS_Subset, FS_CardinalityType
<1>4. PICK row \in [nextId..(last - 1) -> added] :
        /\ \A a, b \in DOMAIN row : a < b => row[a] < row[b]
        /\ parts' = [id \in Ids |-> IF id \in DOMAIN row THEN items[row[id]] ELSE parts[id]]
  BY DEF CreateParts
<1>5. nextId' = last /\ last <= MaxParts + 1 /\ UNCHANGED <<pending, facts, reviews, jobs, screens>>
  BY DEF CreateParts
<1>6. last \in Int /\ last >= nextId BY <1>3, Bounds DEF Tables
<1>7. row \in [nextId..(last - 1) -> DOMAIN items] BY <1>2, <1>4
<1>8. ASSUME NEW a \in DOMAIN row PROVE First(row[a]) /\ Twins(items[row[a]]) = {}
  BY <1>4, <1>8
<1> HIDE DEF last, added
<1>9. Inserted(items, row, last) BY <1>4, <1>5, <1>6, <1>7, <1>8 DEF Inserted
<1> QED BY <1>9

LEMMA CreateTables ==
  ASSUME Tables, NEW items \in Rows, CreateParts(items)
  PROVE  Tables'
<1>1. PICK row, last : Inserted(items, row, last) BY CreateInserts
<1>2. ASSUME NEW id \in Ids, id \in DOMAIN row PROVE parts'[id] \in Part /\ id >= nextId /\ id < nextId'
  <2>1. row[id] \in DOMAIN items /\ id \in nextId..(last - 1) BY <1>1, <1>2 DEF Inserted
  <2>2. items[row[id]] \in Part BY <2>1, RowsAreFunctions DEF Rows, Written
  <2> QED BY <1>1, <1>2, <2>1, <2>2, RowTypes DEF Inserted
<1>3. ASSUME NEW id \in Ids, id \notin DOMAIN row PROVE parts'[id] = parts[id]
  BY <1>1, <1>3 DEF Inserted
<1>4. nextId \in Int /\ nextId' \in 1..(MaxParts + 1) /\ nextId' >= nextId
  BY <1>1, Bounds DEF Inserted, Tables
<1>5. parts' \in [Ids -> Part \cup {Absent}]
  <2>1. parts' = [id \in Ids |-> parts'[id]] BY <1>1 DEF Inserted
  <2>2. \A id \in Ids : parts'[id] \in Part \cup {Absent} BY <1>2, <1>3, RowTypes
  <2> QED BY <2>1, <2>2
<1>6. ASSUME NEW id \in Ids PROVE RowOK(id)'
  <2>1. CASE id \in DOMAIN row
    <3>1. parts[id] = Absent BY <1>2, <2>1, RowTypes DEF RowOK
    <3>2. pending[id] = {} /\ facts[id] = {} /\ reviews[id] = Absent
      BY <3>1, RowTypes DEF RowOK
    <3>3. parts'[id] # Absent BY <1>2, <2>1, AbsentIsNoRow
    <3>4. pending'[id] = {} /\ facts'[id] = {} /\ reviews'[id] = Absent
      BY <1>1, <3>2 DEF Inserted
    <3>5. ~(id >= nextId') BY <1>2, <1>4, <2>1, RowTypes
    <3> QED BY <3>3, <3>4, <3>5 DEF RowOK, Proposals, OneFactEach, AreAbout
  <2>2. CASE id \notin DOMAIN row
    BY <1>1, <1>3, <1>4, <2>2, SameRow DEF Keeps, Inserted
  <2> QED BY <2>1, <2>2
<1> QED BY <1>1, <1>4, <1>5, <1>6, TablesByRow DEF Inserted, Tables

(* A step that replaces some parts. *)
LEMMA ReplacedTables ==
  ASSUME Tables, NEW S \in SUBSET Stored,
         nextId' = nextId, facts' = facts, reviews' = reviews,
         pending' \in [Ids -> SUBSET Proposal], parts' \in [Ids -> Part \cup {Absent}],
         \A id \in Ids : pending'[id] \subseteq pending[id],
         \A id \in Ids \ S : Keeps(id),
         \A id \in S : /\ parts'[id] \in Part
                       /\ Metadata(parts'[id]) # Metadata(parts[id]) =>
                             facts[id] = {} /\ reviews[id] = Absent
  PROVE  Tables'
<1>1. ASSUME NEW id \in Ids PROVE RowOK(id)'
  <2>1. CASE id \in S BY <2>1, ReplacedRow DEF Stored
  <2>2. CASE id \notin S BY <2>2, SameRow, RowTypes
  <2> QED BY <2>1, <2>2
<1> QED BY <1>1, TablesByRow DEF Tables

LEMMA CountedPart ==
  ASSUME NEW p \in Part, NEW n \in Int, p.qty + n \in 0..MaxQuantity
  PROVE  Counted(p, n) \in Part /\ Metadata(Counted(p, n)) = Metadata(p)
         /\ Counted(p, n).code = p.code
BY DEF Counted, Part, Metadata

LEMMA CountTables == Tables /\ Counts => Tables'
<1> SUFFICES ASSUME Tables, Counts PROVE Tables'
  OBVIOUS
<1>1. ASSUME NEW targets \in SUBSET Ids, NEW n \in 1..MaxQuantity, AddStock(targets, n)
      PROVE  Tables'
  <2>1. ASSUME NEW id \in targets
        PROVE  parts'[id] \in Part /\ Metadata(parts'[id]) = Metadata(parts[id])
    <3>1. parts[id] \in Part /\ parts[id].qty + n <= MaxQuantity
      BY <1>1, <2>1, RowTypes DEF AddStock, Stored
    <3>2. parts[id].qty + n \in 0..MaxQuantity BY <3>1, Bounds DEF Part
    <3>3. parts'[id] = Counted(parts[id], n) BY <1>1, <2>1 DEF AddStock
    <3> QED BY <3>1, <3>2, <3>3, CountedPart
  <2>2. \A id \in Ids \ targets : parts'[id] = parts[id] BY <1>1 DEF AddStock
  <2>3. parts' = [id \in Ids |-> parts'[id]] BY <1>1 DEF AddStock
  <2>4. parts' \in [Ids -> Part \cup {Absent}] BY <2>1, <2>2, <2>3, RowTypes
  <2>5. targets \in SUBSET Stored /\ UNCHANGED <<nextId, pending, facts, reviews>>
    BY <1>1 DEF AddStock
  <2>6. \A id \in Ids \ targets : Keeps(id) BY <2>2, <2>5 DEF Keeps
  <2>7. pending' \in [Ids -> SUBSET Proposal] /\ \A id \in Ids : pending'[id] \subseteq pending[id]
    BY <2>5 DEF Tables
  <2> QED BY <2>1, <2>4, <2>5, <2>6, <2>7, ReplacedTables
<1>2. ASSUME NEW id \in Ids, NEW delta \in {1, -1}, AdjustStock(id, delta)
      PROVE  Tables'
  <2>1. parts[id] \in Part /\ parts[id].qty + delta \in 0..MaxQuantity /\ id \in Stored
        /\ parts' = [parts EXCEPT ![id] = Counted(parts[id], delta)]
        /\ UNCHANGED <<nextId, pending, facts, reviews>>
    BY <1>2, RowTypes DEF AdjustStock, Stored
  <2>2. Counted(parts[id], delta) \in Part
        /\ Metadata(Counted(parts[id], delta)) = Metadata(parts[id])
    BY <2>1, CountedPart
  <2>3. parts'[id] = Counted(parts[id], delta) /\ parts' \in [Ids -> Part \cup {Absent}]
        /\ \A other \in Ids \ {id} : Keeps(other)
    BY <2>1, <2>2 DEF Tables, Keeps
  <2>4. pending' \in [Ids -> SUBSET Proposal]
        /\ \A other \in Ids : pending'[other] \subseteq pending[other]
    BY <2>1 DEF Tables
  <2>5. {id} \in SUBSET Stored BY <2>1
  <2>6. \A other \in {id} : parts'[other] \in Part /\ Metadata(parts'[other]) = Metadata(parts[other])
    BY <2>2, <2>3
  <2> QED BY <2>1, <2>3, <2>4, <2>5, <2>6, ReplacedTables
<1> QED BY <1>1, <1>2 DEF Counts

(* Edits: every edit but the last of an array is seen by the next. *)
Edited(ids, edits, k) ==
    [id \in Ids |-> IF \E j \in 1..k : ids[j] = id
                    THEN edits[CHOOSE j \in 1..k : ids[j] = id] ELSE parts[id]]

LEMMA EditedParts ==
  ASSUME Tables, NEW ids \in Selections, NEW edits \in [DOMAIN ids -> Written],
         UpdateParts(ids, edits)
  PROVE  /\ DOMAIN ids = 1..Len(ids) /\ Len(ids) \in Nat
         /\ parts' = Edited(ids, edits, Len(ids))
         /\ \A k \in DOMAIN ids : ids[k] \in Stored /\ edits[k] \in Part
         /\ \A k \in DOMAIN ids : \A m \in k..Len(ids) : Edited(ids, edits, m)[ids[k]] = edits[k]
         /\ \A k \in DOMAIN ids : Edited(ids, edits, k - 1)[ids[k]] = parts[ids[k]]
         /\ \A id \in Ids : (\A k \in DOMAIN ids : ids[k] # id) => parts'[id] = parts[id]
         /\ \A k \in DOMAIN ids : MayReplace(Edited(ids, edits, k - 1), ids[k], edits[k])
<1>1. DOMAIN ids = 1..Len(ids) /\ Len(ids) \in Nat /\ \A k \in DOMAIN ids : ids[k] \in Ids
  BY RowsAreFunctions DEF Selections
<1>2. parts' = Edited(ids, edits, Len(ids)) BY DEF UpdateParts, Edited
<1>3. \A k \in DOMAIN ids : ids[k] \in Stored /\ edits[k] \in Part BY DEF UpdateParts, Written
<1>4. \A j, k \in DOMAIN ids : ids[j] = ids[k] => j = k BY DEF UpdateParts
<1>5. ASSUME NEW k \in DOMAIN ids, NEW m \in k..Len(ids)
      PROVE  Edited(ids, edits, m)[ids[k]] = edits[k]
  <2>1. k \in 1..m /\ 1..m \subseteq DOMAIN ids BY <1>1, <1>5
  <2>2. (CHOOSE j \in 1..m : ids[j] = ids[k]) = k BY <1>4, <2>1
  <2> QED BY <1>1, <2>1, <2>2 DEF Edited
<1>6. ASSUME NEW k \in DOMAIN ids PROVE Edited(ids, edits, k - 1)[ids[k]] = parts[ids[k]]
  <2>1. 1..(k - 1) \subseteq DOMAIN ids /\ k \notin 1..(k - 1) BY <1>1, <1>6
  <2>2. ~\E j \in 1..(k - 1) : ids[j] = ids[k] BY <1>4, <2>1
  <2> QED BY <1>1, <2>2 DEF Edited
<1>7. \A k \in DOMAIN ids : MayReplace(Edited(ids, edits, k - 1), ids[k], edits[k])
  BY DEF UpdateParts, Edited
<1>8. ASSUME NEW id \in Ids, \A k \in DOMAIN ids : ids[k] # id PROVE parts'[id] = parts[id]
  BY <1>1, <1>2, <1>8 DEF Edited
<1> QED BY <1>1, <1>2, <1>3, <1>5, <1>6, <1>7, <1>8

LEMMA UpdateTables ==
  ASSUME Tables, NEW ids \in Selections, NEW edits \in [DOMAIN ids -> Written],
         UpdateParts(ids, edits)
  PROVE  Tables'
<1> DEFINE S == {ids[k] : k \in DOMAIN ids}
<1>1. S \in SUBSET Stored BY EditedParts
<1>2. ASSUME NEW id \in S
      PROVE  /\ parts'[id] \in Part
             /\ Metadata(parts'[id]) # Metadata(parts[id]) => facts[id] = {} /\ reviews[id] = Absent
  <2>1. PICK k \in DOMAIN ids : ids[k] = id BY <1>2
  <2>2. parts'[id] = edits[k] /\ edits[k] \in Part /\ Edited(ids, edits, k - 1)[id] = parts[id]
    BY <2>1, EditedParts
  <2>3. MayReplace(Edited(ids, edits, k - 1), id, edits[k]) BY <2>1, EditedParts
  <2> QED BY <2>2, <2>3 DEF MayReplace
<1>3. \A id \in Ids \ S : parts'[id] = parts[id] BY EditedParts
<1>4. parts' \in [Ids -> Part \cup {Absent}]
  <2>1. parts' = [id \in Ids |-> parts'[id]] BY EditedParts DEF Edited
  <2> QED BY <1>2, <1>3, <2>1, RowTypes
<1>5. pending' = [id \in Ids |-> IF \E k \in DOMAIN ids : ids[k] = id THEN {} ELSE pending[id]]
      /\ UNCHANGED <<nextId, facts, reviews>>
  BY DEF UpdateParts
<1>6. pending' \in [Ids -> SUBSET Proposal] /\ \A id \in Ids : pending'[id] \subseteq pending[id]
  BY <1>5, RowTypes
<1>7. \A id \in Ids \ S : Keeps(id) BY <1>3, <1>5 DEF Keeps
<1> HIDE DEF S
<1> QED BY <1>1, <1>2, <1>4, <1>5, <1>6, <1>7, ReplacedTables

LEMMA DeleteTables ==
  ASSUME Tables, NEW id \in Ids, DeletePart(id)
  PROVE  Tables'
<1>1. /\ parts' \in [Ids -> Part \cup {Absent}] /\ pending' \in [Ids -> SUBSET Proposal]
      /\ facts' \in [Ids -> SUBSET Fact] /\ reviews' \in [Ids -> Review \cup {Absent}]
      /\ nextId' = nextId
  BY DEF DeletePart, Tables
<1>2. ASSUME NEW other \in Ids PROVE RowOK(other)'
  <2>1. CASE other = id
    <3>1. parts'[id] = Absent /\ pending'[id] = {} /\ facts'[id] = {} /\ reviews'[id] = Absent
      BY DEF DeletePart, Tables
    <3> QED BY <2>1, <3>1 DEF RowOK, Proposals, OneFactEach, AreAbout
  <2>2. CASE other # id
    BY <1>1, <2>2, SameRow, RowTypes DEF DeletePart, Keeps, Tables
  <2> QED BY <2>1, <2>2
<1> QED BY <1>1, <1>2, TablesByRow DEF Tables

LEMMA NormalizeTables ==
  ASSUME Tables, NormalizeNominalValues
  PROVE  Tables'
<1> DEFINE Canonical(id) == [parts[id] EXCEPT !.raw = FALSE]
<1>1. ASSUME NEW id \in Ids, id \in Stored
      PROVE  /\ parts'[id] = Canonical(id) /\ Canonical(id) \in Part
             /\ Canonical(id).code = parts[id].code /\ Canonical(id).maker = parts[id].maker
  BY <1>1, RowTypes DEF NormalizeNominalValues, Stored, Part
<1>2. ASSUME NEW id \in Ids, id \in Stored, reviews[id] # Absent
      PROVE  /\ reviews'[id] = [reviews[id] EXCEPT !.meta = Metadata(Canonical(id))]
             /\ reviews'[id] \in Review /\ reviews'[id].meta = Metadata(parts'[id])
             /\ reviews'[id].facts = reviews[id].facts
             /\ reviews'[id].was = reviews[id].was /\ reviews'[id].read = reviews[id].read
  <2>1. reviews[id].meta = Metadata(parts[id]) /\ reviews[id].was = facts[id]
    BY <1>2, RowTypes DEF RowOK
  <2>2. reviews'[id] = [reviews[id] EXCEPT !.meta = Metadata(Canonical(id))]
    BY <1>2, <2>1 DEF NormalizeNominalValues
  <2>3. reviews[id] \in Review BY <1>2, RowTypes
  <2>4. Metadata(Canonical(id)) \in Codes \X BOOLEAN \X Makers BY <1>1, <1>2 DEF Metadata, Part
  <2> HIDE DEF Canonical
  <2> QED BY <1>1, <1>2, <2>2, <2>3, <2>4 DEF Review
<1>3. ASSUME NEW id \in Ids, id \notin Stored \/ reviews[id] = Absent
      PROVE  reviews'[id] = reviews[id]
  BY <1>3 DEF NormalizeNominalValues
<1>4. ASSUME NEW id \in Ids, id \notin Stored PROVE parts'[id] = Absent /\ parts[id] = Absent
  BY <1>4 DEF NormalizeNominalValues, Stored
<1>5. UNCHANGED <<nextId, pending, facts>> BY DEF NormalizeNominalValues
<1>6. parts' \in [Ids -> Part \cup {Absent}]
  <2>1. parts' = [id \in Ids |-> parts'[id]] BY DEF NormalizeNominalValues
  <2> QED BY <1>1, <1>4, <2>1
<1>7. reviews' \in [Ids -> Review \cup {Absent}]
  <2>1. reviews' = [id \in Ids |-> reviews'[id]] BY DEF NormalizeNominalValues
  <2> QED BY <1>2, <1>3, <2>1, RowTypes
<1>8. ASSUME NEW id \in Ids PROVE RowOK(id)'
  <2>1. RowOK(id) /\ id \in Int /\ nextId \in Int BY RowTypes
  <2>2. CASE id \notin Stored
    <3>1. Keeps(id) BY <1>3, <1>4, <1>5, <2>2 DEF Keeps
    <3> QED BY <1>5, <2>1, <3>1, SameRow
  <2>3. CASE id \in Stored
    <3>1. parts'[id] # Absent BY <1>1, <2>3, AbsentIsNoRow
    <3>2. parts'[id].code = parts[id].code /\ parts'[id].maker = parts[id].maker BY <1>1, <2>3
    <3>3. parts[id] # Absent BY <2>3 DEF Stored
    <3>4. reviews'[id] # Absent => reviews[id] # Absent BY <1>3, <2>3
    <3> QED BY <1>2, <1>5, <2>1, <2>3, <3>1, <3>2, <3>3, <3>4 DEF RowOK, AreAbout
  <2> QED BY <2>2, <2>3
<1> QED BY <1>5, <1>6, <1>7, <1>8, TablesByRow DEF Tables
-----------------------------------------------------------------------------
(* Lookups and extractions.                                                  *)

LEMMA PendingTables ==
  ASSUME Tables, NEW id \in Ids, NEW S \in ProposalSets, S # {} => id \in Stored,
         pending' = [pending EXCEPT ![id] = S], UNCHANGED <<parts, nextId, facts, reviews>>
  PROVE  Tables'
<1>1. S \in SUBSET Proposal /\ Proposals(S) BY DEF ProposalSets
<1>2. pending' \in [Ids -> SUBSET Proposal] /\ pending'[id] = S BY <1>1 DEF Tables
<1>3. ASSUME NEW other \in Ids PROVE RowOK(other)'
  <2>1. CASE other = id
    <3>1. RowOK(id) BY RowTypes
    <3> QED BY <1>1, <1>2, <2>1, <3>1 DEF RowOK, Stored, AreAbout
  <2>2. CASE other # id BY <2>2, SameRow, RowTypes DEF Keeps, Tables
  <2> QED BY <2>1, <2>2
<1> QED BY <1>2, <1>3, TablesByRow DEF Tables

LEMMA ReviewTables ==
  ASSUME Tables, NEW id \in Ids, NEW F \in FactSets, NEW original,
         AreAbout(F, original), StageSpecifications(id, original, F, facts[id]),
         UNCHANGED <<parts, nextId, pending, facts>>
  PROVE  Tables'
<1> DEFINE review == [facts |-> F, meta |-> Metadata(original), was |-> facts[id],
                      read |-> facts[id]]
<1>1. /\ id \in Stored /\ parts[id] \in Part /\ facts[id] \in SUBSET Fact /\ RowOK(id)
      /\ reviews' = [reviews EXCEPT ![id] = review]
      /\ Metadata(parts[id]) = Metadata(original)
  BY RowTypes DEF StageSpecifications, Stored
<1>2. original.code = parts[id].code /\ original.maker = parts[id].maker
  BY <1>1 DEF Metadata
<1>3. Metadata(parts[id]) \in Codes \X BOOLEAN \X Makers BY <1>1 DEF Metadata, Part
<1>4. F \in SUBSET Fact /\ OneFactEach(F) /\ AreAbout(F, parts[id])
  BY <1>2 DEF FactSets, AreAbout
<1>5. review \in Review BY <1>1, <1>3, <1>4 DEF Review
<1>6. reviews' \in [Ids -> Review \cup {Absent}] /\ reviews'[id] = review
  BY <1>1, <1>5 DEF Tables
<1>7. ASSUME NEW other \in Ids PROVE RowOK(other)'
  <2>1. CASE other = id
    <3>1. parts[id] # Absent BY <1>1 DEF Stored
    <3> QED BY <1>1, <1>4, <1>6, <2>1, <3>1 DEF RowOK, AreAbout
  <2>2. CASE other # id BY <1>1, <2>2, SameRow, RowTypes DEF Keeps, Tables
  <2> QED BY <2>1, <2>2
<1> QED BY <1>6, <1>7, TablesByRow DEF Tables

LEMMA UnchangedTables ==
  ASSUME Tables, UNCHANGED tableVars
  PROVE  Tables'
<1>1. \A id \in Ids : RowOK(id)'
  BY SameRow, RowTypes DEF Keeps, tableVars
<1> QED BY <1>1, TablesByRow DEF Tables, tableVars

LEMMA WorksTables ==
  ASSUME Tables, JobsOK, NEW j \in Jobs, Works(j)
  PROVE  Tables'
<1>1. ASSUME NEW pc, At(j, pc) PROVE jobs[j] \in Job /\ jobs[j].id \in Ids
  BY <1>1 DEF JobsOK, At, NoJob, Job
<1>2. ASSUME NEW S \in ProposalSets, StageLookup(j, S) PROVE Tables'
  <2>1. jobs[j].id \in Ids BY <1>1, <1>2 DEF StageLookup
  <2>2. UNCHANGED <<parts, nextId, facts, reviews>> BY <1>2 DEF StageLookup
  <2>3. CASE UNCHANGED pending BY <2>2, <2>3, UnchangedTables DEF tableVars
  <2>4. CASE jobs[j].id \in Stored /\ SavePendingReview(jobs[j].id, S)
    BY <2>1, <2>2, <2>4, PendingTables DEF SavePendingReview
  <2> QED BY <1>2, <2>3, <2>4 DEF StageLookup
<1>3. ASSUME NEW F \in FactSets, StageExtraction(j, F) PROVE Tables'
  <2>1. /\ jobs[j].id \in Ids /\ facts[jobs[j].id] = jobs[j].before
        /\ AreAbout(F, jobs[j].part)
        /\ StageSpecifications(jobs[j].id, jobs[j].part, F, jobs[j].before)
        /\ UNCHANGED <<parts, nextId, pending, facts>>
    BY <1>1, <1>3 DEF StageExtraction
  <2> QED BY <2>1, ReviewTables
<1>4. ASSUME NEW F \in FactSets, StageAssertion(j, F) PROVE Tables'
  <2>1. /\ jobs[j].id \in Ids /\ AreAbout(F, jobs[j].part)
        /\ StageSpecifications(jobs[j].id, jobs[j].part, F, facts[jobs[j].id])
        /\ UNCHANGED <<parts, nextId, pending, facts>>
    BY <1>1, <1>4 DEF StageAssertion
  <2> QED BY <2>1, ReviewTables
<1>5. ASSUME NEW S \in ProposalSets, StageEnrichment(j, S) PROVE Tables'
  <2>1. jobs[j].id \in Ids BY <1>1, <1>5 DEF StageEnrichment
  <2> QED BY <1>5, <2>1, PendingTables DEF StageEnrichment, SavePendingReview
<1>6. CASE \/ \E kind \in JobKinds, id \in Ids : StartJob(j, kind, id)
           \/ ReadForLookup(j) \/ LoseLookup(j) \/ ReadForExtraction(j) \/ ReadFacts(j)
           \/ LoseExtraction(j) \/ LoseProposal(j)
  <2>1. UNCHANGED tableVars
    BY <1>6 DEF StartJob, ReadForLookup, LoseLookup, ReadForExtraction, ReadFacts,
                LoseExtraction, LoseProposal
  <2> QED BY <2>1, UnchangedTables
<1> QED BY <1>2, <1>3, <1>4, <1>5, <1>6 DEF Works

(* A job moves to a state that is one. *)
LEMMA JobMove ==
  ASSUME JobsOK, NEW j \in Jobs, NEW job \in Job \cup {NoJob}, Becomes(j, job)
  PROVE  JobsOK'
BY DEF JobsOK, Becomes

LEMMA WorksJobs ==
  ASSUME Tables, JobsOK, NEW j \in Jobs, Works(j)
  PROVE  JobsOK'
<1>1. ASSUME NEW pc, At(j, pc) PROVE jobs[j] \in Job /\ jobs[j].id \in Ids
  BY <1>1 DEF JobsOK, At, NoJob, Job
<1>2. ASSUME Ends(j) PROVE JobsOK' BY <1>2, JobMove DEF Ends
<1>3. ASSUME NEW pc, At(j, pc), FailedExtraction(j) PROVE JobsOK'
  <2>1. [jobs[j] EXCEPT !.pc = "fetch", !.fallback = FALSE] \in Job BY <1>1, <1>3 DEF Job
  <2> QED BY <1>2, <1>3, <2>1, JobMove DEF FailedExtraction
<1>4. ASSUME NEW kind \in JobKinds, NEW id \in Ids, StartJob(j, kind, id) PROVE JobsOK'
  <2> DEFINE New(pc) == [pc |-> pc, kind |-> kind, id |-> id, part |-> Absent, before |-> {},
                         source |-> NoLink, fallback |-> FALSE]
             OnPart(pc) == [New(pc) EXCEPT !.part = parts[id]]
  <2>1. parts[id] \in Part BY <1>4, RowTypes DEF StartJob, Stored
  <2>2. New("fetch") \in Job BY DEF Job
  <2>3. OnPart("asserting") \in Job /\ OnPart("metadata") \in Job BY <2>1 DEF Job
  <2>4. parts[id].link # NoLink =>
           [New("reading") EXCEPT !.source = parts[id].link, !.fallback = TRUE] \in Job
    BY <2>1 DEF Job, Part
  <2>5. \A url \in Links : [New("reading") EXCEPT !.source = url] \in Job BY DEF Job
  <2>6. \E job \in Job : Becomes(j, job)
    BY <1>4, <2>2, <2>3, <2>4, <2>5 DEF StartJob
  <2> QED BY <2>6, JobMove
<1>5. CASE ReadForLookup(j)
  <2>1. jobs[j] \in Job /\ jobs[j].id \in Ids BY <1>1, <1>5 DEF ReadForLookup
  <2>2. Numbered(jobs[j].id) => [jobs[j] EXCEPT !.pc = "lookup", !.part = parts[jobs[j].id]] \in Job
    BY <2>1, RowTypes DEF Job
  <2> QED BY <1>2, <1>5, <2>2, JobMove DEF ReadForLookup
<1>6. ASSUME NEW S \in ProposalSets, StageLookup(j, S) PROVE JobsOK'
  <2> DEFINE found == Proposed(S, "link") \ {jobs[j].source}
             url == CHOOSE url \in found : TRUE
  <2>1. jobs[j] \in Job BY <1>1, <1>6 DEF StageLookup
  <2>2. found \subseteq Links BY DEF Proposed, ProposalSets, Proposal
  <2>3. found # {} => url \in Links BY <2>2
  <2> HIDE DEF url
  <2>4. found # {} => [jobs[j] EXCEPT !.pc = "reading", !.source = url] \in Job
    BY <2>1, <2>3 DEF Job
  <2>5. Ends(j) \/ (found # {} /\ Becomes(j, [jobs[j] EXCEPT !.pc = "reading", !.source = url]))
    BY <1>6 DEF StageLookup, url
  <2> QED BY <1>2, <2>4, <2>5, JobMove
<1>7. CASE ReadForExtraction(j)
  <2>1. jobs[j] \in Job /\ jobs[j].id \in Ids BY <1>1, <1>7 DEF ReadForExtraction
  <2>2. [jobs[j] EXCEPT !.pc = "facts", !.part = parts[jobs[j].id]] \in Job
    BY <2>1, RowTypes DEF Job
  <2> QED BY <1>3, <1>7, <2>2, JobMove DEF ReadForExtraction
<1>8. CASE ReadFacts(j)
  <2>1. jobs[j] \in Job /\ jobs[j].id \in Ids BY <1>1, <1>8 DEF ReadFacts
  <2>2. [jobs[j] EXCEPT !.pc = "extracting", !.before = facts[jobs[j].id]] \in Job
    BY <2>1, RowTypes DEF Job
  <2> QED BY <1>2, <1>8, <2>2, JobMove DEF ReadFacts
<1>9. CASE LoseExtraction(j) BY <1>2, <1>3, <1>9 DEF LoseExtraction
<1>10. CASE \/ LoseLookup(j) \/ LoseProposal(j) \/ \E F \in FactSets : StageExtraction(j, F)
            \/ \E F \in FactSets : StageAssertion(j, F)
            \/ \E S \in ProposalSets : StageEnrichment(j, S)
  BY <1>2, <1>10 DEF LoseLookup, LoseProposal, StageExtraction, StageAssertion, StageEnrichment
<1> QED BY <1>4, <1>5, <1>6, <1>7, <1>8, <1>9, <1>10 DEF Works
-----------------------------------------------------------------------------
(* Reviews and their decisions.                                              *)

LEMMA AcceptedPart ==
  ASSUME NEW p \in Part, NEW S \in SUBSET Proposal
  PROVE  Accepting(p, S) \in Part
<1> DEFINE V(field, old) == IF Proposed(S, field) = {} THEN old
                            ELSE CHOOSE v \in Proposed(S, field) : TRUE
<1>1. Proposed(S, "maker") \subseteq Makers /\ Proposed(S, "link") \subseteq Links
  BY DEF Proposed, Proposal
<1>2. V("maker", p.maker) \in Makers /\ V("link", p.link) \in Links \cup {NoLink}
  BY <1>1 DEF Part
<1>3. Accepting(p, S) = [p EXCEPT !.maker = V("maker", p.maker), !.link = V("link", p.link)]
  BY DEF Accepting
<1> HIDE DEF V
<1>4. [p EXCEPT !.maker = V("maker", p.maker), !.link = V("link", p.link)] \in Part
  BY <1>2 DEF Part
<1> QED BY <1>3, <1>4

LEMMA ApplyTables ==
  ASSUME Tables, ScreensOK, NEW u \in Users, NEW S \in ProposalSets, ApplyReview(u, S)
  PROVE  Tables'
<1> DEFINE id == screens[u].id
           p == Accepting(parts[id], S)
<1>1. id \in Ids /\ id \in Stored /\ parts[id] \in Part
  BY RowTypes DEF ApplyReview, ScreensOK, Screen, Stored
<1>2. p \in Part BY <1>1, AcceptedPart DEF ProposalSets
<1>3. MayReplace(parts, id, p) /\ parts' = [parts EXCEPT ![id] = p]
      /\ pending' = [pending EXCEPT ![id] = {x \in pending[id] : Proposed(S, x.field) = {}}]
      /\ UNCHANGED <<nextId, facts, reviews>>
  BY DEF ApplyReview
<1> HIDE DEF p
<1>4. parts' \in [Ids -> Part \cup {Absent}] /\ parts'[id] = p
      /\ \A other \in Ids \ {id} : parts'[other] = parts[other]
  BY <1>1, <1>2, <1>3 DEF Tables
<1>5. /\ pending' \in [Ids -> SUBSET Proposal]
      /\ \A other \in Ids : pending'[other] \subseteq pending[other]
      /\ \A other \in Ids \ {id} : pending'[other] = pending[other]
  BY <1>1, <1>3 DEF Tables
<1>6. \A other \in {id} :
         /\ parts'[other] \in Part
         /\ Metadata(parts'[other]) # Metadata(parts[other]) =>
               facts[other] = {} /\ reviews[other] = Absent
  BY <1>2, <1>3, <1>4 DEF MayReplace
<1>7. \A other \in Ids \ {id} : Keeps(other) BY <1>3, <1>4, <1>5 DEF Keeps
<1>8. {id} \in SUBSET Stored BY <1>1
<1> HIDE DEF id
<1> QED BY <1>3, <1>4, <1>5, <1>6, <1>7, <1>8, ReplacedTables

LEMMA ExecuteTables ==
  ASSUME Tables, ScreensOK, NEW u \in Users, ExecuteDecision(u)
  PROVE  Tables'
<1> DEFINE id == screens[u].id
<1>1. id \in Ids /\ id \in Stored /\ RowOK(id) /\ screens[u].snapshot \in Snapshot
      /\ screens[u].snapshot.review = screens[u].review
      /\ screens[u].snapshot = SnapshotOf(id) /\ screens[u].review # Absent
  BY RowTypes DEF ExecuteDecision, ScreensOK, Screen, Stored
<1>2. reviews' = [reviews EXCEPT ![id] = Absent] /\ UNCHANGED <<parts, nextId, pending>>
  BY DEF ExecuteDecision
<1>3. UNCHANGED facts
      \/ facts' = [facts EXCEPT ![id] = Merged(facts[id], reviews[id].facts)]
  BY DEF ExecuteDecision, ApplySpecificationReview
<1> HIDE DEF id
<1>4. reviews' \in [Ids -> Review \cup {Absent}] /\ reviews'[id] = Absent
  BY <1>1, <1>2 DEF Tables
<1>5. CASE UNCHANGED facts
  <2>1. ASSUME NEW other \in Ids PROVE RowOK(other)'
    <3>1. CASE other = id BY <1>1, <1>2, <1>4, <1>5, <3>1 DEF RowOK, AreAbout
    <3>2. CASE other # id BY <1>2, <1>5, <3>2, SameRow, RowTypes DEF Keeps, Tables
    <3> QED BY <3>1, <3>2
  <2> QED BY <1>2, <1>4, <1>5, <2>1, TablesByRow DEF Tables
<1>6. CASE facts' = [facts EXCEPT ![id] = Merged(facts[id], reviews[id].facts)]
  <2> DEFINE F == reviews[id].facts
  <2>0. reviews[id] # Absent BY <1>1 DEF SnapshotOf
  <2>1. reviews[id] \in Review /\ facts[id] \in SUBSET Fact BY <1>1, <2>0, RowTypes
  <2>2. F \in SUBSET Fact /\ OneFactEach(F) /\ AreAbout(F, parts[id])
        /\ OneFactEach(facts[id]) /\ AreAbout(facts[id], parts[id])
    BY <1>1, <2>0, <2>1 DEF RowOK, Review
  <2> HIDE DEF F
  <2>3. /\ Merged(facts[id], F) \in SUBSET Fact /\ AreAbout(Merged(facts[id], F), parts[id])
        /\ OneFactEach(Merged(facts[id], F))
    BY <2>1, <2>2 DEF Merged, AreAbout, OneFactEach
  <2>4. facts' \in [Ids -> SUBSET Fact] /\ facts'[id] = Merged(facts[id], F)
    BY <1>1, <1>6, <2>3 DEF Tables, F
  <2>5. ASSUME NEW other \in Ids PROVE RowOK(other)'
    <3>1. CASE other = id
      <4>1. parts[id] # Absent BY <1>1 DEF Stored
      <4> QED BY <1>1, <1>2, <1>4, <2>3, <2>4, <3>1, <4>1 DEF RowOK, AreAbout
    <3>2. CASE other # id BY <1>2, <1>6, <3>2, SameRow, RowTypes DEF Keeps, Tables
    <3> QED BY <3>1, <3>2
  <2> QED BY <1>2, <1>4, <2>4, <2>5, TablesByRow DEF Tables
<1> QED BY <1>3, <1>5, <1>6

LEMMA DecidesTables ==
  ASSUME Tables, ScreensOK, NEW u \in Users, Decides(u)
  PROVE  Tables'
<1>1. CASE RejectReview(u)
  <2>1. screens[u].id \in Ids /\ {} \in ProposalSets
    BY DEF ScreensOK, Screen, ProposalSets, Proposals
  <2>2. pending' = [pending EXCEPT ![screens[u].id] = {}] /\ UNCHANGED <<parts, nextId, facts, reviews>>
    BY <1>1 DEF RejectReview
  <2> QED BY <2>1, <2>2, PendingTables
<1>2. CASE \/ \E id \in Ids : Show(u, id)
           \/ \E approve \in BOOLEAN : RequestDecision(u, approve)
           \/ LoseDecision(u)
  <2>1. UNCHANGED tableVars BY <1>2 DEF Show, RequestDecision, LoseDecision
  <2> QED BY <2>1, UnchangedTables
<1> QED BY <1>1, <1>2, ApplyTables, ExecuteTables DEF Decides

LEMMA BlankScreen == Blank \in Screen /\ Blank.pc = "blank"
BY Bounds DEF Blank, Screen, Ids

(* A screen that a user moves to one that is sound. *)
LEMMA ScreenMove ==
  ASSUME ScreensOK, NEW u \in Users, NEW screen \in Screen,
         screens' = [screens EXCEPT ![u] = screen],
         screen.pc = "asked" => /\ screen.snapshot \in Snapshot /\ screen.review # Absent
                                /\ screen.snapshot.review = screen.review
  PROVE  ScreensOK'
<1>1. screens' \in [Users -> Screen] /\ screens'[u] = screen
      /\ \A other \in Users \ {u} : screens'[other] = screens[other]
  BY DEF ScreensOK
<1> QED BY <1>1 DEF ScreensOK

LEMMA DecidesScreens ==
  ASSUME Tables, ScreensOK, NEW u \in Users, Decides(u)
  PROVE  ScreensOK'
<1>1. ASSUME NEW id \in Ids, Show(u, id) PROVE ScreensOK'
  <2> DEFINE screen == [Blank EXCEPT !.pc = "shown", !.id = id, !.pending = pending[id],
                                     !.review = reviews[id]]
  <2>1. screen \in Screen /\ screen.pc = "shown" BY BlankScreen, RowTypes DEF Screen
  <2>2. screens' = [screens EXCEPT ![u] = screen] BY <1>1 DEF Show
  <2> HIDE DEF screen
  <2> QED BY <2>1, <2>2, ScreenMove
<1>2. ASSUME NEW approve \in BOOLEAN, RequestDecision(u, approve) PROVE ScreensOK'
  <2> DEFINE id == screens[u].id
             screen == [screens[u] EXCEPT !.pc = "asked", !.approve = approve,
                                          !.snapshot = SnapshotOf(id)]
  <2>1. screens[u] \in Screen /\ id \in Ids /\ parts[id] \in Part /\ reviews[id] = screens[u].review
        /\ screens[u].review # Absent
    BY <1>2, RowTypes DEF RequestDecision, ScreensOK, Screen, Stored
  <2>2. SnapshotOf(id) \in Snapshot /\ SnapshotOf(id).review = reviews[id]
    BY <2>1, RowTypes DEF SnapshotOf, Snapshot
  <2>3. screens' = [screens EXCEPT ![u] = screen]
    BY <1>2 DEF RequestDecision, ScreensOK
  <2>4. screen \in Screen /\ screen.snapshot = SnapshotOf(id) /\ screen.review = screens[u].review
    BY <2>1, <2>2 DEF Screen
  <2> HIDE DEF screen, id
  <2> QED BY <2>1, <2>2, <2>3, <2>4, ScreenMove
<1>3. CASE \/ \E S \in ProposalSets : ApplyReview(u, S)
           \/ RejectReview(u) \/ ExecuteDecision(u) \/ LoseDecision(u)
  <2>1. screens' = [screens EXCEPT ![u] = Blank]
    BY <1>3 DEF ApplyReview, RejectReview, ExecuteDecision, LoseDecision
  <2> QED BY <2>1, BlankScreen, ScreenMove
<1> QED BY <1>1, <1>2, <1>3 DEF Decides
-----------------------------------------------------------------------------
(* The invariant.                                                            *)

(* What the steps of jobs and of users leave alone. *)
LEMMA WorksFrame ==
  ASSUME NEW j, Works(j)
  PROVE  UNCHANGED <<parts, nextId, screens>>
<1>1. CASE \/ \E kind \in JobKinds, id \in Ids : StartJob(j, kind, id)
           \/ ReadForLookup(j) \/ LoseLookup(j)
  BY <1>1 DEF StartJob, ReadForLookup, LoseLookup, tableVars
<1>2. CASE ReadForExtraction(j) \/ ReadFacts(j) \/ LoseExtraction(j) \/ LoseProposal(j)
  BY <1>2 DEF ReadForExtraction, ReadFacts, LoseExtraction, LoseProposal, tableVars
<1>3. CASE \E S \in ProposalSets : StageLookup(j, S) \/ StageEnrichment(j, S)
  BY <1>3 DEF StageLookup, StageEnrichment
<1>4. CASE \E F \in FactSets : StageExtraction(j, F) \/ StageAssertion(j, F)
  BY <1>4 DEF StageExtraction, StageAssertion
<1> QED BY <1>1, <1>2, <1>3, <1>4 DEF Works

LEMMA DecidesFrame ==
  ASSUME NEW u, Decides(u)
  PROVE  /\ UNCHANGED <<nextId, jobs>>
         /\ UNCHANGED parts \/ \E S \in ProposalSets : ApplyReview(u, S)
<1>1. CASE \E S \in ProposalSets : ApplyReview(u, S) BY <1>1 DEF ApplyReview
<1>2. CASE \/ \E id \in Ids : Show(u, id)
           \/ \E approve \in BOOLEAN : RequestDecision(u, approve)
           \/ LoseDecision(u)
  BY <1>2 DEF Show, RequestDecision, LoseDecision, tableVars
<1>3. CASE RejectReview(u) \/ ExecuteDecision(u) BY <1>3 DEF RejectReview, ExecuteDecision
<1> QED BY <1>1, <1>2, <1>3 DEF Decides

LEMMA InvInit == Init => IInv
<1> SUFFICES ASSUME Init PROVE IInv
  OBVIOUS
<1>1. nextId \in 1..(MaxParts + 1) BY DEF Init
<1>2. parts \in [Ids -> Part \cup {Absent}] BY DEF Init
<1>3. \A id \in Ids : pending[id] = {} /\ facts[id] = {} /\ reviews[id] = Absent
  BY DEF Init
<1>4. pending \in [Ids -> SUBSET Proposal] /\ facts \in [Ids -> SUBSET Fact]
      /\ reviews \in [Ids -> Review \cup {Absent}]
  BY DEF Init
<1>5. \A id \in Ids : id >= nextId => parts[id] = Absent BY <1>1, Bounds DEF Init, Ids
<1>6. \A id \in Ids : RowOK(id) BY <1>3, <1>5 DEF RowOK, Proposals, OneFactEach, AreAbout
<1>7. JobsOK BY DEF Init, JobsOK
<1>8. ScreensOK BY BlankScreen DEF Init, ScreensOK
<1> QED BY <1>1, <1>2, <1>4, <1>6, <1>7, <1>8 DEF IInv, Tables

LEMMA InvStep == IInv /\ [Next]_vars => IInv'
<1> SUFFICES ASSUME IInv, [Next]_vars PROVE IInv'
  OBVIOUS
<1>0. Tables /\ JobsOK /\ ScreensOK BY DEF IInv
<1>1. CASE UNCHANGED vars
  <2>1. UNCHANGED tableVars /\ UNCHANGED <<jobs, screens>> BY <1>1 DEF vars
  <2>2. JobsOK' /\ ScreensOK' BY <1>0, <2>1 DEF JobsOK, ScreensOK
  <2> QED BY <1>0, <2>1, <2>2, UnchangedTables DEF IInv
<1>2. ASSUME UNCHANGED <<jobs, screens>> PROVE JobsOK' /\ ScreensOK'
  BY <1>0, <1>2 DEF JobsOK, ScreensOK
<1>3. CASE Creates
  <2>1. PICK items \in Rows : CreateParts(items) BY <1>3 DEF Creates
  <2>2. UNCHANGED <<jobs, screens>> BY <2>1 DEF CreateParts
  <2> QED BY <1>0, <1>2, <2>1, <2>2, CreateTables DEF IInv
<1>4. CASE Counts
  <2>1. UNCHANGED <<jobs, screens>> BY <1>4 DEF Counts, AddStock, AdjustStock
  <2> QED BY <1>0, <1>2, <1>4, <2>1, CountTables DEF IInv
<1>5. CASE Edits
  <2>1. PICK ids \in Selections : \E edits \in [DOMAIN ids -> Written] : UpdateParts(ids, edits)
    BY <1>5 DEF Edits
  <2>2. PICK edits \in [DOMAIN ids -> Written] : UpdateParts(ids, edits) BY <2>1
  <2>3. UNCHANGED <<jobs, screens>> BY <2>2 DEF UpdateParts
  <2> QED BY <1>0, <1>2, <2>2, <2>3, UpdateTables DEF IInv
<1>6. CASE Deletes
  <2>1. PICK id \in Ids : DeletePart(id) BY <1>6 DEF Deletes
  <2>2. UNCHANGED <<jobs, screens>> BY <2>1 DEF DeletePart
  <2> QED BY <1>0, <1>2, <2>1, <2>2, DeleteTables DEF IInv
<1>7. CASE NormalizeNominalValues
  <2>1. UNCHANGED <<jobs, screens>> BY <1>7 DEF NormalizeNominalValues
  <2> QED BY <1>0, <1>2, <1>7, <2>1, NormalizeTables DEF IInv
<1>8. ASSUME NEW j \in Jobs, Works(j) PROVE IInv'
  <2>1. UNCHANGED screens BY <1>8, WorksFrame
  <2>2. ScreensOK' BY <1>0, <2>1 DEF ScreensOK
  <2> QED BY <1>0, <1>8, <2>2, WorksTables, WorksJobs DEF IInv
<1>9. ASSUME NEW u \in Users, Decides(u) PROVE IInv'
  <2>1. UNCHANGED jobs BY <1>9, DecidesFrame
  <2>2. JobsOK' BY <1>0, <2>1 DEF JobsOK
  <2> QED BY <1>0, <1>9, <2>2, DecidesTables, DecidesScreens DEF IInv
<1> QED BY <1>1, <1>3, <1>4, <1>5, <1>6, <1>7, <1>8, <1>9 DEF Next

LEMMA Invariant == Spec => []IInv
BY InvInit, InvStep, PTL DEF Spec
-----------------------------------------------------------------------------
(* Theorems.                                                                 *)

(* Every row has its type, no count is negative, and a part has at most one  *)
(* proposal of a field and one fact of a name, over any number of edits,     *)
(* reviews and late answers.                                                 *)
THEOREM InventoryTypes == Spec => []TypeOK
<1>1. IInv => TypeOK BY DEF IInv, Tables, JobsOK, ScreensOK, RowOK, TypeOK
<1> QED BY <1>1, Invariant, PTL

(* Accepted electrical facts are about the part they are stored with.        *)
THEOREM FactsStay == Spec => []FactsFitTheirPart
<1>1. IInv => FactsFitTheirPart
  BY DEF IInv, Tables, RowOK, FactsFitTheirPart, AreAbout
<1> QED BY <1>1, Invariant, PTL

(* A pending electrical review can always be applied to its part, and to the *)
(* facts its extraction saw before it asked the provider.                    *)
THEOREM ReviewsApply == Spec => []ReviewsStayApplicable
<1>1. IInv => ReviewsStayApplicable
  BY DEF IInv, Tables, RowOK, ReviewsStayApplicable
<1> QED BY <1>1, Invariant, PTL

(* A deleted part leaves no review and no fact, and a late answer adds none. *)
THEOREM NothingLeftBehind == Spec => []NothingOutlivesItsPart
<1>1. IInv => NothingOutlivesItsPart
  BY DEF IInv, Tables, RowOK, NothingOutlivesItsPart
<1> QED BY <1>1, Invariant, PTL
-----------------------------------------------------------------------------
(* What a step may not do.                                                   *)

(* A row of an array creation is a record of its own. *)
LEMMA CreationAdds ==
  ASSUME Tables, NEW items \in Rows, CreateParts(items), NEW id \in 1..(nextId - 1)
  PROVE  Keeps(id)
<1>1. PICK row, last : Inserted(items, row, last) BY CreateInserts
<1>2. nextId \in 1..(MaxParts + 1) /\ id \in Ids BY Bounds DEF Tables, Ids
<1>3. id \notin DOMAIN row BY <1>1, <1>2 DEF Inserted
<1> QED BY <1>1, <1>2, <1>3 DEF Inserted, Keeps

(* Only a creation takes new ids. *)
LEMMA NextIdIsTaken ==
  ASSUME [Next]_vars, nextId' # nextId
  PROVE  Creates
<1>1. ~Counts /\ ~Edits
  BY DEF Counts, AddStock, AdjustStock, Edits, UpdateParts
<1>2. ~Deletes /\ ~NormalizeNominalValues BY DEF Deletes, DeletePart, NormalizeNominalValues
<1>3. \A j \in Jobs : ~Works(j) BY WorksFrame
<1>4. \A u \in Users : ~Decides(u) BY DecidesFrame
<1>5. ~UNCHANGED vars BY DEF vars, tableVars
<1> QED BY <1>1, <1>2, <1>3, <1>4, <1>5 DEF Next

(* An array of rows adds records and changes none that is counted already. *)
THEOREM CreationIsAddition == Spec => CreationOnlyAdds
<1>1. ASSUME IInv, [Next]_vars, nextId' # nextId, NEW id \in 1..(nextId - 1)
      PROVE  Keeps(id)
  <2>1. PICK items \in Rows : CreateParts(items) BY <1>1, NextIdIsTaken DEF Creates
  <2> QED BY <1>1, <2>1, CreationAdds DEF IInv
<1>2. IInv /\ [Next]_vars =>
        [nextId' # nextId => \A id \in 1..(nextId - 1) :
            /\ parts'[id] = parts[id] /\ pending'[id] = pending[id]
            /\ facts'[id] = facts[id] /\ reviews'[id] = reviews[id]]_vars
  BY <1>1 DEF Keeps
<1> QED BY <1>2, Invariant, PTL DEF Spec, CreationOnlyAdds

(* A review that is pending leaves only by a decision, or with its part. *)
Leaves(id) ==
    /\ reviews[id] # Absent /\ parts'[id] # Absent
    /\ reviews'[id] = Absent \/ reviews'[id].facts # reviews[id].facts

LEMMA WorksKeepReviews ==
  ASSUME Tables, JobsOK, NEW j \in Jobs, Works(j), NEW id \in Ids, reviews[id] # Absent
  PROVE  reviews'[id] = reviews[id]
<1>1. ASSUME NEW other, NEW original, NEW F, NEW read, StageSpecifications(other, original, F, read)
      PROVE  reviews'[id] = reviews[id]
  BY <1>1 DEF StageSpecifications, Tables
<1>2. CASE \/ \E F \in FactSets : StageExtraction(j, F)
           \/ \E F \in FactSets : StageAssertion(j, F)
  BY <1>1, <1>2 DEF StageExtraction, StageAssertion
<1>3. CASE \/ \E kind \in JobKinds, part \in Ids : StartJob(j, kind, part)
           \/ ReadForLookup(j) \/ LoseLookup(j) \/ ReadForExtraction(j) \/ ReadFacts(j)
           \/ \E S \in ProposalSets : StageLookup(j, S)
           \/ \E S \in ProposalSets : StageEnrichment(j, S)
           \/ LoseExtraction(j) \/ LoseProposal(j)
  BY <1>3 DEF StartJob, ReadForLookup, LoseLookup, ReadForExtraction, ReadFacts, StageLookup,
              StageEnrichment, LoseExtraction, LoseProposal, tableVars
<1> QED BY <1>2, <1>3 DEF Works

LEMMA NormalizeKeepsReviews ==
  ASSUME Tables, NormalizeNominalValues, NEW id \in Ids
  PROVE  ~Leaves(id)
<1>1. SUFFICES ASSUME reviews[id] # Absent
               PROVE  reviews'[id] # Absent /\ reviews'[id].facts = reviews[id].facts
  BY DEF Leaves
<1>2. reviews[id] \in Review /\ parts[id] # Absent /\ parts[id] \in Part
      /\ reviews[id].meta = Metadata(parts[id]) /\ reviews[id].was = facts[id]
  BY <1>1, RowTypes DEF RowOK
<1>3. reviews'[id] = [reviews[id] EXCEPT !.meta = Metadata([parts[id] EXCEPT !.raw = FALSE])]
  BY <1>1, <1>2 DEF NormalizeNominalValues, Stored
<1>4. [parts[id] EXCEPT !.raw = FALSE] \in Part BY <1>2 DEF Part
<1>5. Metadata([parts[id] EXCEPT !.raw = FALSE]) \in Codes \X BOOLEAN \X Makers
  BY <1>4 DEF Metadata, Part
<1>6. reviews'[id] \in Review /\ reviews'[id].facts = reviews[id].facts
  BY <1>2, <1>3, <1>5 DEF Review
<1>7. reviews'[id] # Absent BY ONLY <1>6, AbsentIsNoRow
<1> QED BY <1>6, <1>7

LEMMA DecisionWasShown ==
  ASSUME IInv, [Next]_vars, NEW id \in Ids, Leaves(id)
  PROVE  \E u \in Users : /\ screens[u].pc = "asked" /\ screens[u].id = id
                          /\ screens[u].review = reviews[id]
                          /\ screens'[u].pc = "blank"
<1>0. Tables /\ JobsOK /\ ScreensOK BY DEF IInv
<1>1. reviews'[id] # reviews[id] /\ reviews[id] # Absent /\ parts'[id] # Absent BY DEF Leaves
<1>2. ~(Creates \/ Counts \/ Edits)
  BY <1>1 DEF Creates, CreateParts, Counts, AddStock, AdjustStock, Edits, UpdateParts
<1>3. ~Deletes BY <1>0, <1>1 DEF Deletes, DeletePart, Tables
<1>4. ~NormalizeNominalValues BY <1>0, NormalizeKeepsReviews
<1>5. \A j \in Jobs : ~Works(j) BY <1>0, <1>1, WorksKeepReviews
<1>6. reviews' # reviews BY <1>1
<1>7. PICK u \in Users : Decides(u)
  BY <1>2, <1>3, <1>4, <1>5, <1>6 DEF Next, vars, tableVars
<1>8. ExecuteDecision(u)
  BY <1>6, <1>7 DEF Decides, Show, ApplyReview, RejectReview, RequestDecision, LoseDecision,
                    tableVars
<1>9. screens[u].id = id BY <1>0, <1>1, <1>8 DEF ExecuteDecision, Tables
<1>10. screens[u].snapshot.review = reviews[id] BY <1>8, <1>9 DEF ExecuteDecision, SnapshotOf
<1>11. screens[u].pc = "asked" /\ screens'[u].pc = "blank"
  BY <1>0, <1>8, BlankScreen DEF ExecuteDecision, ScreensOK
<1> QED BY <1>0, <1>9, <1>10, <1>11 DEF ScreensOK

(* A pending electrical review is accepted or rejected only by a user whose  *)
(* screen showed exactly that review.                                        *)
THEOREM DecisionsWereShown == Spec => DecisionsAreInformed
<1>1. IInv /\ [Next]_vars =>
        [\A id \in Ids :
          /\ reviews[id] # Absent /\ parts'[id] # Absent
          /\ reviews'[id] = Absent \/ reviews'[id].facts # reviews[id].facts
          => \E u \in Users : /\ screens[u].pc = "asked" /\ screens[u].id = id
                              /\ screens[u].review = reviews[id]
                              /\ screens'[u].pc = "blank"]_vars
  BY DecisionWasShown DEF Leaves
<1> QED BY <1>1, Invariant, PTL DEF Spec, DecisionsAreInformed
-----------------------------------------------------------------------------
(* Two records never become one stock.                                       *)

(* Two records become one stock that were not. *)
Twinned(id, other) ==
    /\ id # other
    /\ parts'[id] # Absent /\ parts'[other] # Absent
    /\ SameStock(parts'[id], parts'[other])
    /\ ~(/\ parts[id] # Absent /\ parts[other] # Absent
         /\ SameStock(parts[id], parts[other]))

LEMMA SameStockSymmetric ==
  \A p, q : SameStock(p, q) <=> SameStock(q, p)
BY DEF SameStock

(* A step that gives no part another identity. *)
LEMMA SameIdentities ==
  ASSUME \A id \in Ids : parts'[id] # Absent =>
            parts[id] # Absent /\ parts'[id].code = parts[id].code,
         NEW id \in Ids, NEW other \in Ids
  PROVE  ~Twinned(id, other)
BY DEF Twinned, SameStock

LEMMA CreateTwins ==
  ASSUME Tables, NEW items \in Rows, CreateParts(items), NEW id \in Ids, NEW other \in Ids
  PROVE  ~Twinned(id, other)
<1>1. PICK row, last : Inserted(items, row, last) BY CreateInserts
<1>2. \A part \in Ids \ DOMAIN row : parts'[part] = parts[part] BY <1>1 DEF Inserted
<1>3. \A part \in DOMAIN row : part \in Int /\ row[part] \in Nat /\ row[part] >= 1
  BY <1>1, RowsAreFunctions, RowTypes DEF Inserted, Rows
<1>4. ASSUME NEW a \in DOMAIN row, a \in Ids, NEW b \in DOMAIN row, b \in Ids, a < b
      PROVE  ~SameStock(parts'[a], parts'[b])
  <2>1. row[a] \in 1..(row[b] - 1) BY <1>1, <1>3, <1>4 DEF Inserted
  <2>2. parts'[a] = items[row[a]] /\ parts'[b] = items[row[b]] BY <1>1, <1>4 DEF Inserted
  <2> QED BY <1>1, <2>1, <2>2 DEF Inserted
<1>5. ASSUME NEW a \in DOMAIN row, a \in Ids, NEW b \in Ids \ DOMAIN row, parts'[b] # Absent
      PROVE  ~SameStock(parts'[b], parts'[a])
  <2>1. parts'[b] = parts[b] /\ b \in Stored BY <1>2, <1>5 DEF Stored
  <2>2. parts'[a] = items[row[a]] /\ Twins(items[row[a]]) = {} BY <1>1, <1>5 DEF Inserted
  <2> QED BY <2>1, <2>2 DEF Twins
<1>6. SUFFICES ASSUME Twinned(id, other) PROVE FALSE
  OBVIOUS
<1>7. CASE id \in DOMAIN row /\ other \in DOMAIN row
  <2>1. id < other \/ other < id BY <1>3, <1>6, <1>7 DEF Twinned
  <2> QED BY <1>4, <1>6, <1>7, <2>1, SameStockSymmetric DEF Twinned
<1>8. CASE id \in DOMAIN row /\ other \notin DOMAIN row
  BY <1>5, <1>6, <1>8, SameStockSymmetric DEF Twinned
<1>9. CASE id \notin DOMAIN row /\ other \in DOMAIN row
  BY <1>5, <1>6, <1>9 DEF Twinned
<1>10. CASE id \notin DOMAIN row /\ other \notin DOMAIN row
  BY <1>2, <1>6, <1>10 DEF Twinned
<1> QED BY <1>7, <1>8, <1>9, <1>10

LEMMA UpdateTwins ==
  ASSUME Tables, NEW ids \in Selections, NEW edits \in [DOMAIN ids -> Written],
         UpdateParts(ids, edits), NEW id \in Ids, NEW other \in Ids
  PROVE  ~Twinned(id, other)
<1> DEFINE touched == {ids[k] : k \in DOMAIN ids}
<1>1. \A part \in Ids \ touched : parts'[part] = parts[part] BY EditedParts
<1>2. ASSUME NEW k \in DOMAIN ids
      PROVE  /\ parts'[ids[k]] = edits[k]
             /\ \A part \in Stored \ {ids[k]} : ~SameStock(Edited(ids, edits, k - 1)[part], edits[k])
  <2>1. parts'[ids[k]] = edits[k] BY EditedParts
  <2>2. MayReplace(Edited(ids, edits, k - 1), ids[k], edits[k]) BY EditedParts
  <2> QED BY <2>1, <2>2 DEF MayReplace, Others
<1>3. ASSUME NEW k \in DOMAIN ids, NEW part \in Ids \ touched, parts'[part] # Absent
      PROVE  ~SameStock(parts'[part], parts'[ids[k]])
  <2>1. part \in Stored /\ part # ids[k] BY <1>1, <1>3 DEF Stored
  <2>2. 1..(k - 1) \subseteq DOMAIN ids BY EditedParts
  <2>3. Edited(ids, edits, k - 1)[part] = parts[part] BY <1>3, <2>2 DEF Edited
  <2> QED BY <1>1, <1>2, <2>1, <2>3
<1>4. ASSUME NEW j \in DOMAIN ids, NEW k \in DOMAIN ids, j < k, ids[j] # ids[k]
      PROVE  ~SameStock(parts'[ids[j]], parts'[ids[k]])
  <2>1. j \in Int /\ k \in Int /\ k - 1 \in j..Len(ids) BY <1>4, EditedParts
  <2>2. Edited(ids, edits, k - 1)[ids[j]] = edits[j] BY <2>1, EditedParts
  <2>3. ids[j] \in Stored BY EditedParts
  <2> QED BY <1>2, <1>4, <2>2, <2>3
<1>5. SUFFICES ASSUME Twinned(id, other) PROVE FALSE
  OBVIOUS
<1>6. CASE id \in touched /\ other \in touched
  <2>1. PICK j \in DOMAIN ids : ids[j] = id BY <1>6
  <2>2. PICK k \in DOMAIN ids : ids[k] = other BY <1>6
  <2>3. ids[j] # ids[k] BY <1>5, <2>1, <2>2 DEF Twinned
  <2>4. j < k \/ k < j BY <2>3, EditedParts
  <2>5. ~SameStock(parts'[ids[j]], parts'[ids[k]]) \/ ~SameStock(parts'[ids[k]], parts'[ids[j]])
    BY <1>4, <2>3, <2>4
  <2> QED BY <1>5, <2>1, <2>2, <2>5, SameStockSymmetric DEF Twinned
<1>7. CASE id \in touched /\ other \notin touched
  <2>1. PICK k \in DOMAIN ids : ids[k] = id BY <1>7
  <2> QED BY <1>3, <1>5, <1>7, <2>1, SameStockSymmetric DEF Twinned
<1>8. CASE id \notin touched /\ other \in touched
  <2>1. PICK k \in DOMAIN ids : ids[k] = other BY <1>8
  <2> QED BY <1>3, <1>5, <1>8, <2>1 DEF Twinned
<1>9. CASE id \notin touched /\ other \notin touched
  BY <1>1, <1>5, <1>9 DEF Twinned
<1> QED BY <1>6, <1>7, <1>8, <1>9

LEMMA ApplyTwins ==
  ASSUME Tables, ScreensOK, NEW u \in Users, NEW S \in ProposalSets, ApplyReview(u, S),
         NEW id \in Ids, NEW other \in Ids
  PROVE  ~Twinned(id, other)
<1> DEFINE part == screens[u].id
           p == Accepting(parts[part], S)
<1>1. part \in Ids /\ part \in Stored BY DEF ApplyReview, ScreensOK, Screen
<1>2. parts' = [parts EXCEPT ![part] = p] /\ MayReplace(parts, part, p) BY DEF ApplyReview
<1> HIDE DEF p
<1>3. parts'[part] = p /\ \A q \in Ids \ {part} : parts'[q] = parts[q]
  BY <1>1, <1>2 DEF Tables
<1>4. \A q \in Ids \ {part} : parts'[q] # Absent => ~SameStock(parts'[q], parts'[part])
  BY <1>2, <1>3 DEF MayReplace, Others, Stored
<1> QED BY <1>3, <1>4, SameStockSymmetric DEF Twinned

LEMMA NoTwinning ==
  ASSUME IInv, [Next]_vars, NEW id \in Ids, NEW other \in Ids
  PROVE  ~Twinned(id, other)
<1>0. Tables /\ ScreensOK BY DEF IInv
<1>1. CASE UNCHANGED parts BY <1>1, SameIdentities
<1>2. CASE Creates BY <1>0, <1>2, CreateTwins DEF Creates
<1>3. CASE Counts
  <2>1. ASSUME NEW part \in Ids, parts'[part] # Absent
        PROVE  parts[part] # Absent /\ parts'[part].code = parts[part].code
    <3>1. \/ parts'[part] = parts[part]
          \/ \E n : parts[part] # Absent /\ parts'[part] = Counted(parts[part], n)
      BY <1>0, <1>3 DEF Counts, AddStock, AdjustStock, Stored, Tables
    <3>2. ASSUME NEW n, parts[part] # Absent, parts'[part] = Counted(parts[part], n)
          PROVE  parts'[part].code = parts[part].code
      BY <1>0, <3>2, RowTypes DEF Counted, Part
    <3> QED BY <2>1, <3>1, <3>2
  <2> QED BY <2>1, SameIdentities
<1>4. CASE Edits
  <2>1. PICK ids \in Selections : \E edits \in [DOMAIN ids -> Written] : UpdateParts(ids, edits)
    BY <1>4 DEF Edits
  <2> QED BY <1>0, <2>1, UpdateTwins
<1>5. CASE Deletes
  <2>1. \A part \in Ids : parts'[part] # Absent => parts'[part] = parts[part]
    BY <1>0, <1>5 DEF Deletes, DeletePart, Tables
  <2> QED BY <2>1, SameIdentities
<1>6. CASE NormalizeNominalValues
  <2>1. ASSUME NEW part \in Ids, parts'[part] # Absent
        PROVE  parts[part] # Absent /\ parts'[part].code = parts[part].code
    <3>1. part \in Stored /\ parts'[part] = [parts[part] EXCEPT !.raw = FALSE]
      BY <1>6, <2>1 DEF NormalizeNominalValues
    <3> QED BY <1>0, <3>1, RowTypes DEF Stored, Part
  <2> QED BY <2>1, SameIdentities
<1>7. ASSUME NEW j \in Jobs, Works(j) PROVE ~Twinned(id, other)
  BY <1>1, <1>7, WorksFrame
<1>8. ASSUME NEW u \in Users, Decides(u) PROVE ~Twinned(id, other)
  <2>1. CASE UNCHANGED parts BY <1>1, <2>1
  <2>2. ASSUME NEW S \in ProposalSets, ApplyReview(u, S) PROVE ~Twinned(id, other)
    BY <1>0, <2>2, ApplyTwins
  <2> QED BY <1>8, <2>1, <2>2, DecidesFrame
<1> QED BY <1>1, <1>2, <1>3, <1>4, <1>5, <1>6, <1>7, <1>8 DEF Next, vars, tableVars

(* No creation, edit, review or normalisation makes two records one stock    *)
(* that were not one before, however many rows an array has.                 *)
THEOREM StockStaysDistinct == Spec => NoNewTwins
<1>1. IInv /\ [Next]_vars =>
        [\A id, other \in Ids :
          /\ id # other
          /\ parts'[id] # Absent /\ parts'[other] # Absent
          /\ SameStock(parts'[id], parts'[other])
          => /\ parts[id] # Absent /\ parts[other] # Absent
             /\ SameStock(parts[id], parts[other])]_vars
  BY NoTwinning DEF Twinned
<1> QED BY <1>1, Invariant, PTL DEF Spec, NoNewTwins
=============================================================================
