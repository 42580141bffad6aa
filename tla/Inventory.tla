----------------------------- MODULE Inventory -----------------------------
(***************************************************************************)
(* The inventory: PartsBinService of domain/service.py on the tables of    *)
(* db/postgres/inventory.py.  Each operation on committed rows is one      *)
(* write unit and one action here.  What makes the component hard is       *)
(* outside the units: a lookup or an extraction reads a part, spends       *)
(* minutes with a provider, and only then stages a proposal; a person      *)
(* decides on a review that a screen showed some time ago; meanwhile the   *)
(* part is edited, deleted, counted or normalised.                         *)
(*                                                                         *)
(* A part keeps its identity (`code': an ordering number, a passive's      *)
(* category, value and package, or none), whether its value has the        *)
(* spelling of an earlier release (`raw'), the other metadata evidence is  *)
(* bound to (`maker'), its saved datasheet and its quantity.               *)
(***************************************************************************)
EXTENDS Integers, Sequences, FiniteSets

CONSTANTS
    Numbers,        \* exact ordering codes
    Slots,          \* identities of unnumbered resistors, capacitors, inductors
    Unmarked,       \* unnumbered stock of any other category
    Makers,         \* manufacturer, package, profile: bound but not identifying
    Links,          \* datasheet URLs
    NoLink,
    FactNames,      \* names of electrical facts
    Readings,       \* their values
    Absent,         \* a row that does not exist
    Jobs,           \* lookups and extractions in progress
    JobKinds,       \* what they do
    Users,          \* screens that show a review and decide on it
    MaxParts,       \* bound: parts ever inserted
    MaxQuantity,    \* bound: pieces of one part
    MaxBatch        \* bound: rows of one array mutation

ASSUME DistinctIdentities ==
    /\ Numbers \cap Slots = {} /\ Unmarked \notin Numbers \cup Slots
    /\ NoLink \notin Links
ASSUME KnownJobs == JobKinds \subseteq {"lookup", "refresh", "datasheet", "assert", "cli"}
ASSUME Bounds == MaxParts \in Nat \ {0} /\ MaxQuantity \in Nat \ {0} /\ MaxBatch \in Nat \ {0}

Ids == 1..MaxParts
Codes == Numbers \cup Slots \cup {Unmarked}
Part == [code : Codes, raw : BOOLEAN, maker : Makers, link : Links \cup {NoLink},
         qty : 0..MaxQuantity]
(* _METADATA: what electrical evidence is bound to. *)
Metadata(p) == <<p.code, p.raw, p.maker>>
(* part_identity: two records are one stock; nothing unmarked is. *)
SameStock(p, q) == p.code = q.code /\ p.code # Unmarked
(* validate_fields: a written value gets the canonical spelling. *)
Written == {p \in Part : ~p.raw}

(* A proposed field with the ordering code its evidence is about. *)
Proposal ==
    [field : {"maker"}, value : Makers, of : Codes]
    \cup [field : {"link"}, value : Links, of : Codes]
Proposed(S, f) == {x.value : x \in {y \in S : y.field = f}}
(* At most one proposal of each field. *)
Proposals(S) == \A x, y \in S : x.field = y.field => x = y

(* An electrical fact with the part it was read for. *)
Fact == [name : FactNames, value : Readings, code : Codes, maker : Makers]
OneFactEach(F) == \A f, g \in F : f.name = g.name => f = g
(* part_specification_reviews, and the facts the extraction began with. *)
Review == [facts : SUBSET Fact, meta : Codes \X BOOLEAN \X Makers, was : SUBSET Fact,
           read : SUBSET Fact]

VARIABLES
    parts,          \* parts
    nextId,         \* pb_revision.next_part_id
    pending,        \* part_pending_field_review, by part
    facts,          \* part_specifications, by part
    reviews,        \* part_specification_reviews, by part
    jobs,           \* requests that wait for a provider
    screens         \* what a user was shown, and the approval asked for it

tableVars == <<parts, nextId, pending, facts, reviews>>
vars == <<tableVars, jobs, screens>>

Stored == {id \in Ids : parts[id] # Absent}
Others(id) == Stored \ {id}

(* The pc of a job names what it does next: `fetch' and `reading' read the   *)
(* part for a lookup and an extraction, `facts' reads its accepted facts,    *)
(* and the others wait for the provider and then stage what it returned.     *)
Job ==
    [pc : {"idle", "fetch", "lookup", "reading", "facts", "extracting", "asserting",
           "metadata"},
     kind : JobKinds,
     id : Ids,
     part : Part \cup {Absent},         \* original
     before : SUBSET Fact,              \* before['facts']
     source : Links \cup {NoLink},      \* source_url
     fallback : BOOLEAN]                \* a failure may still ask the supplier
NoJob == Absent
ASSUME AbsentIsNoRow == Absent \notin Part /\ Absent \notin Review /\ Absent \notin Job
Snapshot == [part : Part, pending : SUBSET Proposal, facts : SUBSET Fact,
             review : Review \cup {Absent}]
Screen ==
    [pc : {"blank", "shown", "asked"}, id : Ids, pending : SUBSET Proposal,
     review : Review \cup {Absent}, approve : BOOLEAN, snapshot : Snapshot \cup {Absent}]
Blank == [pc |-> "blank", id |-> 1, pending |-> {}, review |-> Absent, approve |-> FALSE,
          snapshot |-> Absent]

(* Type invariant of the module: it includes that no count is negative, and  *)
(* that each field and each fact name has at most one row.                   *)
TypeOK ==
    /\ parts \in [Ids -> Part \cup {Absent}]
    /\ nextId \in 1..(MaxParts + 1)
    /\ pending \in [Ids -> SUBSET Proposal]
    /\ facts \in [Ids -> SUBSET Fact]
    /\ reviews \in [Ids -> Review \cup {Absent}]
    /\ jobs \in [Jobs -> Job \cup {NoJob}]
    /\ screens \in [Users -> Screen]
    /\ \A id \in Ids : Proposals(pending[id]) /\ OneFactEach(facts[id])

(* The stock of an installation with a history: some unnumbered passives     *)
(* may share an identity, and values may have the old spelling.  Numbers are *)
(* UNIQUE in the schema.                                                     *)
Init ==
    /\ nextId \in 1..(MaxParts + 1)
    /\ parts \in [Ids -> {p \in Part : p.qty = 1} \cup {Absent}]
    /\ \A id \in Ids : parts[id] # Absent <=> id < nextId
    /\ \A id, other \in Stored :
          id # other /\ SameStock(parts[id], parts[other]) => parts[id].code \in Slots
    /\ pending = [id \in Ids |-> {}]
    /\ facts = [id \in Ids |-> {}]
    /\ reviews = [id \in Ids |-> Absent]
    /\ jobs = [j \in Jobs |-> NoJob]
    /\ screens = [u \in Users |-> Blank]

-----------------------------------------------------------------------------
(* Creation and counting.                                                    *)

Twins(p) == {id \in Stored : SameStock(parts[id], p)}

(* Fault: a row that is already stored adds its pieces to the stored record. *)
CreateOrIncrement(items) ==
    /\ Len(items) = 2 /\ nextId <= MaxParts
    /\ Twins(items[1]) = {}
    /\ \A id \in Twins(items[2]) : parts[id].qty + items[2].qty <= MaxQuantity
    /\ nextId' = nextId + 1
    /\ parts' = [id \in Ids |-> IF id = nextId THEN items[1]
                                ELSE IF id \in Twins(items[2])
                                THEN [parts[id] EXCEPT !.qty = @ + items[2].qty] ELSE parts[id]]
    /\ UNCHANGED <<pending, facts, reviews, jobs, screens>>

(* create_parts: rows whose identity is neither stored nor an earlier row of *)
(* the batch are inserted, all or none; add_part is the batch of one row.    *)
CreateParts(items) ==
    LET First(i) == \A k \in 1..(i - 1) : ~SameStock(items[k], items[i])
        added == {i \in DOMAIN items : First(i) /\ Twins(items[i]) = {}}
        last == nextId + Cardinality(added)
    IN  /\ \A i \in DOMAIN items : First(i) => Cardinality(Twins(items[i])) <= 1
        /\ last <= MaxParts + 1
        /\ nextId' = last
        /\ \E row \in [nextId..(last - 1) -> added] :
              /\ \A a, b \in DOMAIN row : a < b => row[a] < row[b]
              /\ parts' = [id \in Ids |-> IF id \in DOMAIN row THEN items[row[id]] ELSE parts[id]]
        /\ UNCHANGED <<pending, facts, reviews, jobs, screens>>

(* increment_stock within the bound of the model. *)
Counted(p, n) == [p EXCEPT !.qty = @ + n]

(* add_stock and add_stock_batch: more pieces of distinct stored parts. *)
AddStock(targets, n) ==
    /\ targets # {} /\ targets \subseteq Stored
    /\ \A id \in targets : parts[id].qty + n <= MaxQuantity
    /\ parts' = [id \in Ids |-> IF id \in targets THEN Counted(parts[id], n) ELSE parts[id]]
    /\ UNCHANGED <<nextId, pending, facts, reviews, jobs, screens>>

(* Fault: the count is not checked in the unit that changes it. *)
AdjustUnchecked(id, delta) ==
    /\ id \in Stored
    /\ parts[id].qty + delta <= MaxQuantity
    /\ parts' = [parts EXCEPT ![id] = Counted(@, delta)]
    /\ UNCHANGED <<nextId, pending, facts, reviews, jobs, screens>>

(* adjust_stock: the count is read and changed in one unit. *)
AdjustStock(id, delta) ==
    /\ id \in Stored
    /\ parts[id].qty + delta \in 0..MaxQuantity
    /\ parts' = [parts EXCEPT ![id] = Counted(@, delta)]
    /\ UNCHANGED <<nextId, pending, facts, reviews, jobs, screens>>

-----------------------------------------------------------------------------
(* Edits.                                                                    *)

(* Faults: a row is compared with the part itself only, or accepted evidence *)
(* does not bind it.                                                         *)
ReplaceUncompared(ps, id, p) ==
    Metadata(p) # Metadata(ps[id]) => facts[id] = {} /\ reviews[id] = Absent
ReplaceUnbound(ps, id, p) ==
    /\ Metadata(p) # Metadata(ps[id]) => reviews[id] = Absent
    /\ \A other \in Others(id) : ~SameStock(ps[other], p)

(* _check_replacement_identities for one part of table ps. *)
MayReplace(ps, id, p) ==
    /\ Metadata(p) # Metadata(ps[id]) => facts[id] = {} /\ reviews[id] = Absent
    /\ \A other \in Others(id) : ~SameStock(ps[other], p)

(* update_part and update_parts: edit k sees the edits before it, all are    *)
(* kept or none, and each dismisses the pending metadata review.             *)
UpdateParts(ids, edits) ==
    LET Edited(k) == [id \in Ids |-> IF \E j \in 1..k : ids[j] = id
                                     THEN edits[CHOOSE j \in 1..k : ids[j] = id]
                                     ELSE parts[id]]
    IN  /\ \A k \in DOMAIN ids : ids[k] \in Stored
        /\ \A j, k \in DOMAIN ids : ids[j] = ids[k] => j = k
        /\ \A k \in DOMAIN ids : MayReplace(Edited(k - 1), ids[k], edits[k])
        /\ parts' = Edited(Len(ids))
        /\ pending' = [id \in Ids |-> IF \E k \in DOMAIN ids : ids[k] = id THEN {}
                                      ELSE pending[id]]
        /\ UNCHANGED <<nextId, facts, reviews, jobs, screens>>

(* delete_part: the row and everything that refers to it; ids are not used   *)
(* again.                                                                    *)
DeletePart(id) ==
    /\ id \in Stored
    /\ parts' = [parts EXCEPT ![id] = Absent]
    /\ pending' = [pending EXCEPT ![id] = {}]
    /\ facts' = [facts EXCEPT ![id] = {}]
    /\ reviews' = [reviews EXCEPT ![id] = Absent]
    /\ UNCHANGED <<nextId, jobs, screens>>

(* normalize_nominal_values: every old spelling at once, unless two records  *)
(* would be one stock; a review that was taken on the row moves with it.     *)
NormalizeNominalValues ==
    LET Canonical(id) == [parts[id] EXCEPT !.raw = FALSE]
        OnRow(id) == /\ reviews[id] # Absent
                     /\ reviews[id].meta = Metadata(parts[id]) /\ reviews[id].was = facts[id]
    IN  /\ \A id, other \in Stored : SameStock(parts[id], parts[other]) => id = other
        /\ parts' = [id \in Ids |-> IF id \in Stored THEN Canonical(id) ELSE Absent]
        /\ reviews' = [id \in Ids |-> IF id \in Stored /\ OnRow(id)
                                      THEN [reviews[id] EXCEPT !.meta = Metadata(Canonical(id))]
                                      ELSE reviews[id]]
        /\ UNCHANGED <<nextId, pending, facts, jobs, screens>>

-----------------------------------------------------------------------------
(* Lookups and extractions.  Between two steps of a job any operation above, *)
(* any decision below and any other job may commit.                          *)

Numbered(id) == id \in Stored /\ parts[id].code \in Numbers
Becomes(j, job) == jobs' = [jobs EXCEPT ![j] = job]
Ends(j) == Becomes(j, NoJob)
At(j, pc) == jobs[j] # NoJob /\ jobs[j].pc = pc
(* A failed extraction of a saved link asks the supplier once. *)
FailedExtraction(j) ==
    IF jobs[j].fallback THEN Becomes(j, [jobs[j] EXCEPT !.pc = "fetch", !.fallback = FALSE])
    ELSE Ends(j)

(* The request arrives; a refresh reads whether the part has a saved link,   *)
(* the others read the part itself.                                          *)
StartJob(j, kind, id) ==
    LET New(pc) == [pc |-> pc, kind |-> kind, id |-> id, part |-> Absent, before |-> {},
                    source |-> NoLink, fallback |-> FALSE]
        OnPart(pc) == [New(pc) EXCEPT !.part = parts[id]]
    IN  /\ jobs[j] = NoJob
        /\ id \in Stored
        /\ \/ kind = "lookup" /\ Becomes(j, New("fetch"))
           \/ kind = "refresh" /\ parts[id].link = NoLink /\ Becomes(j, New("fetch"))
           \/ /\ kind = "refresh" /\ parts[id].link # NoLink
              /\ Becomes(j, [New("reading") EXCEPT !.source = parts[id].link, !.fallback = TRUE])
           \/ /\ kind = "datasheet"
              /\ \E url \in Links : Becomes(j, [New("reading") EXCEPT !.source = url])
           \/ kind = "assert" /\ Becomes(j, OnPart("asserting"))
           \/ /\ kind = "cli" /\ Numbered(id) /\ pending[id] = {}
              /\ Becomes(j, OnPart("metadata"))
        /\ UNCHANGED <<tableVars, screens>>

(* fetch_and_stage_specs, before the await. *)
ReadForLookup(j) ==
    /\ At(j, "fetch")
    /\ IF Numbered(jobs[j].id)
       THEN Becomes(j, [jobs[j] EXCEPT !.pc = "lookup", !.part = parts[jobs[j].id]])
       ELSE Ends(j)
    /\ UNCHANGED <<tableVars, screens>>

(* save_pending_review: what was pending is replaced. *)
SavePendingReview(id, S) ==
    pending' = [pending EXCEPT ![id] = S]

(* Fault: the target is not looked up again. *)
StageLookupBlindly(j, S) ==
    /\ At(j, "lookup") /\ S # {}
    /\ \A x \in S : x.of = jobs[j].part.code
    /\ SavePendingReview(jobs[j].id, S)
    /\ Ends(j)
    /\ UNCHANGED <<parts, nextId, facts, reviews, screens>>

(* fetch_and_stage_specs, after the await; a refresh goes on with a link it  *)
(* has not tried.                                                            *)
StageLookup(j, S) ==
    LET job == jobs[j]
        found == Proposed(S, "link") \ {job.source}
    IN  /\ At(j, "lookup")
        /\ \A x \in S : x.of = job.part.code
        /\ \/ S = {} /\ UNCHANGED pending
           \/ S # {} /\ job.id \in Stored /\ SavePendingReview(job.id, S)
        /\ IF job.kind = "refresh" /\ found # {}
           THEN Becomes(j, [job EXCEPT !.pc = "reading", !.source = CHOOSE url \in found : TRUE])
           ELSE Ends(j)
        /\ UNCHANGED <<parts, nextId, facts, reviews, screens>>

(* The provider fails, or the part is gone when the proposal arrives.        *)
LoseLookup(j) ==
    /\ At(j, "lookup") /\ Ends(j)
    /\ UNCHANGED <<tableVars, screens>>

(* ingest_datasheet reads the part, then its facts; a pending review stops   *)
(* it before anything is paid.                                               *)
ReadForExtraction(j) ==
    /\ At(j, "reading")
    /\ IF Numbered(jobs[j].id)
       THEN Becomes(j, [jobs[j] EXCEPT !.pc = "facts", !.part = parts[jobs[j].id]])
       ELSE FailedExtraction(j)
    /\ UNCHANGED <<tableVars, screens>>
ReadFacts(j) ==
    /\ At(j, "facts")
    /\ IF jobs[j].id \in Stored /\ reviews[jobs[j].id] = Absent
       THEN Becomes(j, [jobs[j] EXCEPT !.pc = "extracting", !.before = facts[jobs[j].id]])
       ELSE Ends(j)
    /\ UNCHANGED <<tableVars, screens>>

(* stage_specifications: the part as it was read is still the stored one and *)
(* no other review is pending.                                               *)
StageSpecifications(id, original, F, read) ==
    /\ id \in Stored
    /\ reviews[id] = Absent
    /\ Metadata(parts[id]) = Metadata(original)
    /\ reviews' = [reviews EXCEPT ![id] = [facts |-> F, meta |-> Metadata(original),
                                           was |-> facts[id], read |-> read]]
AreAbout(F, p) == \A f \in F : f.code = p.code /\ f.maker = p.maker

(* Fault: facts accepted during the extraction are not compared. *)
StageOverFacts(j, F) ==
    /\ At(j, "extracting")
    /\ F # {} /\ AreAbout(F, jobs[j].part)
    /\ StageSpecifications(jobs[j].id, jobs[j].part, F, jobs[j].before)
    /\ Ends(j)
    /\ UNCHANGED <<parts, nextId, pending, facts, screens>>

(* ingest_datasheet, after the await: staged if the accepted facts are the   *)
(* ones read before it.                                                      *)
StageExtraction(j, F) ==
    LET job == jobs[j] IN
    /\ At(j, "extracting")
    /\ F # {} /\ AreAbout(F, job.part)
    /\ facts[job.id] = job.before
    /\ StageSpecifications(job.id, job.part, F, job.before)
    /\ Ends(j)
    /\ UNCHANGED <<parts, nextId, pending, facts, screens>>
(* A conflict ends the request; an extraction without a result may go on.    *)
LoseExtraction(j) ==
    /\ At(j, "extracting")
    /\ FailedExtraction(j) \/ Ends(j)
    /\ UNCHANGED <<tableVars, screens>>

(* stage_specification_review: a user's assertion, read and staged in two    *)
(* units.                                                                    *)
StageAssertion(j, F) ==
    /\ At(j, "asserting")
    /\ F # {} /\ AreAbout(F, jobs[j].part)
    /\ StageSpecifications(jobs[j].id, jobs[j].part, F, facts[jobs[j].id])
    /\ Ends(j)
    /\ UNCHANGED <<parts, nextId, pending, facts, screens>>

(* stage_enrichment of the supplied-source command: unlike fetch_and_stage,  *)
(* only on the metadata it read and never over another review.               *)
StageEnrichment(j, S) ==
    LET job == jobs[j] IN
    /\ At(j, "metadata")
    /\ S # {} /\ \A x \in S : x.of = job.part.code /\ x.field # "link"
    /\ job.id \in Stored
    /\ Metadata(parts[job.id]) = Metadata(job.part)
    /\ pending[job.id] = {}
    /\ SavePendingReview(job.id, S)
    /\ Ends(j)
    /\ UNCHANGED <<parts, nextId, facts, reviews, screens>>

(* Nothing was proposed, or it was refused. *)
LoseProposal(j) ==
    /\ At(j, "asserting") \/ At(j, "metadata")
    /\ Ends(j)
    /\ UNCHANGED <<tableVars, screens>>

-----------------------------------------------------------------------------
(* Reviews and their decisions.                                              *)

Show(u, id) ==
    /\ id \in Stored
    /\ screens' = [screens EXCEPT ![u] = [Blank EXCEPT !.pc = "shown", !.id = id,
                                          !.pending = pending[id], !.review = reviews[id]]]
    /\ UNCHANGED <<tableVars, jobs>>

(* update_with_provenance: proposed fields, as far as they were accepted. *)
Accepting(p, S) ==
    LET Value(field, old) == IF Proposed(S, field) = {} THEN old
                             ELSE CHOOSE v \in Proposed(S, field) : TRUE
    IN  [p EXCEPT !.maker = Value("maker", @), !.link = Value("link", @)]

(* apply_review with the fields a screen shows: the review they came from    *)
(* may have been replaced, but there must be one.                            *)
ApplyReview(u, S) ==
    LET id == screens[u].id IN
    /\ screens[u].pc = "shown"
    /\ S # {} /\ S \subseteq screens[u].pending
    /\ id \in Stored /\ pending[id] # {}
    /\ MayReplace(parts, id, Accepting(parts[id], S))
    /\ parts' = [parts EXCEPT ![id] = Accepting(@, S)]
    /\ pending' = [pending EXCEPT ![id] = {x \in @ : Proposed(S, x.field) = {}}]
    /\ screens' = [screens EXCEPT ![u] = Blank]
    /\ UNCHANGED <<nextId, facts, reviews, jobs>>

RejectReview(u) ==
    /\ screens[u].pc = "shown" /\ screens[u].id \in Stored
    /\ pending' = [pending EXCEPT ![screens[u].id] = {}]
    /\ screens' = [screens EXCEPT ![u] = Blank]
    /\ UNCHANGED <<parts, nextId, facts, reviews, jobs>>

SnapshotOf(id) == [part |-> parts[id], pending |-> pending[id], facts |-> facts[id],
                   review |-> reviews[id]]

(* Fault: the review on the screen is not compared with the stored one. *)
RequestUnseen(u, approve) ==
    LET id == screens[u].id IN
    /\ screens[u].pc = "shown" /\ screens[u].review # Absent
    /\ id \in Stored /\ reviews[id] # Absent
    /\ screens' = [screens EXCEPT ![u].pc = "asked", ![u].approve = approve,
                                  ![u].snapshot = SnapshotOf(id)]
    /\ UNCHANGED <<tableVars, jobs>>

(* decide_specifications: the approval is asked for on what is stored, and   *)
(* declined unless that is the review the screen shows; the effect commits   *)
(* only while nothing of it has changed.                                     *)
RequestDecision(u, approve) ==
    LET id == screens[u].id IN
    /\ screens[u].pc = "shown" /\ screens[u].review # Absent
    /\ id \in Stored
    /\ reviews[id] = screens[u].review
    /\ screens' = [screens EXCEPT ![u].pc = "asked", ![u].approve = approve,
                                  ![u].snapshot = SnapshotOf(id)]
    /\ UNCHANGED <<tableVars, jobs>>

(* apply_specification_review: facts of the same name are replaced. *)
Merged(old, new) == new \cup {f \in old : \A g \in new : f.name # g.name}
ApplySpecificationReview(id) ==
    /\ reviews[id].meta = Metadata(parts[id]) /\ reviews[id].was = facts[id]
    /\ facts' = [facts EXCEPT ![id] = Merged(@, reviews[id].facts)]

ExecuteDecision(u) ==
    LET id == screens[u].id IN
    /\ screens[u].pc = "asked"
    /\ id \in Stored /\ screens[u].snapshot = SnapshotOf(id)
    /\ IF screens[u].approve THEN ApplySpecificationReview(id) ELSE UNCHANGED facts
    /\ reviews' = [reviews EXCEPT ![id] = Absent]
    /\ screens' = [screens EXCEPT ![u] = Blank]
    /\ UNCHANGED <<parts, nextId, pending, jobs>>

(* 409: the screen has to be loaded again. *)
LoseDecision(u) ==
    /\ screens[u].pc = "asked"
    /\ screens[u].id \notin Stored \/ screens[u].snapshot # SnapshotOf(screens[u].id)
    /\ screens' = [screens EXCEPT ![u] = Blank]
    /\ UNCHANGED <<tableVars, jobs>>

-----------------------------------------------------------------------------
(* What callers may send. *)
Rows == UNION {[1..n -> Written] : n \in 1..MaxBatch}
Selections == UNION {[1..n -> Ids] : n \in 1..MaxBatch}
ProposalSets == {S \in SUBSET Proposal : Proposals(S)}
FactSets == {F \in SUBSET Fact : OneFactEach(F)}

Creates == \E items \in Rows : CreateParts(items)
Counts ==
    \/ \E targets \in SUBSET Ids, n \in 1..MaxQuantity : AddStock(targets, n)
    \/ \E id \in Ids, delta \in {1, -1} : AdjustStock(id, delta)
Edits == \E ids \in Selections : \E edits \in [DOMAIN ids -> Written] : UpdateParts(ids, edits)
Deletes == \E id \in Ids : DeletePart(id)
Works(j) ==
    \/ \E kind \in JobKinds, id \in Ids : StartJob(j, kind, id)
    \/ ReadForLookup(j) \/ LoseLookup(j)
    \/ \E S \in ProposalSets : StageLookup(j, S)
    \/ ReadForExtraction(j) \/ ReadFacts(j) \/ LoseExtraction(j)
    \/ \E F \in FactSets : StageExtraction(j, F)
    \/ \E F \in FactSets : StageAssertion(j, F)
    \/ \E S \in ProposalSets : StageEnrichment(j, S)
    \/ LoseProposal(j)
Decides(u) ==
    \/ \E id \in Ids : Show(u, id)
    \/ \E S \in ProposalSets : ApplyReview(u, S)
    \/ RejectReview(u)
    \/ \E approve \in BOOLEAN : RequestDecision(u, approve)
    \/ ExecuteDecision(u) \/ LoseDecision(u)

Next ==
    \/ Creates \/ Counts \/ Edits \/ Deletes \/ NormalizeNominalValues
    \/ \E j \in Jobs : Works(j)
    \/ \E u \in Users : Decides(u)
Spec == Init /\ [][Next]_vars

-----------------------------------------------------------------------------
(* Properties.                                                               *)

(* Deduplication of creation, the collision check of edits, batches and      *)
(* reviews, and the normalisation are all about one thing: no step makes two *)
(* records one stock that were not one before.  Only history has duplicates. *)
NoNewTwins ==
    [][\A id, other \in Ids :
          /\ id # other
          /\ parts'[id] # Absent /\ parts'[other] # Absent
          /\ SameStock(parts'[id], parts'[other])
          => /\ parts[id] # Absent /\ parts[other] # Absent
             /\ SameStock(parts[id], parts[other])]_vars

(* Accepted electrical facts are about the part they are stored with,        *)
(* whatever was edited, normalised or extracted between the reading of the   *)
(* part and the acceptance ("Evidenced identity changes require a separate   *)
(* record").                                                                 *)
FactsFitTheirPart ==
    \A id \in Ids : \A f \in facts[id] :
        parts[id] # Absent /\ f.code = parts[id].code /\ f.maker = parts[id].maker

(* A pending electrical review can be applied: nobody changed the identity   *)
(* it was taken on, and the facts it is merged into are the ones its         *)
(* extraction saw before it asked the provider, so that no reviewed fact is  *)
(* replaced by an extraction that did not know it.                           *)
ReviewsStayApplicable ==
    \A id \in Ids : reviews[id] # Absent =>
        /\ parts[id] # Absent
        /\ reviews[id].meta = Metadata(parts[id])
        /\ reviews[id].was = facts[id] /\ reviews[id].read = facts[id]
        /\ AreAbout(reviews[id].facts, parts[id])

(* A pending electrical review leaves only with its part, or by the decision *)
(* of a user to whom exactly this review was shown.                          *)
DecisionsAreInformed ==
    [][\A id \in Ids :
          /\ reviews[id] # Absent /\ parts'[id] # Absent
          /\ reviews'[id] = Absent \/ reviews'[id].facts # reviews[id].facts
          => \E u \in Users : /\ screens[u].pc = "asked" /\ screens[u].id = id
                              /\ screens[u].review = reviews[id]
                              /\ screens'[u].pc = "blank"]_vars

(* Ids are not used again and a deletion takes every row with it, so an      *)
(* answer that arrives late finds no part to attach to.                      *)
NothingOutlivesItsPart ==
    \A id \in Ids : parts[id] = Absent =>
        pending[id] = {} /\ facts[id] = {} /\ reviews[id] = Absent

(* Creation leaves stock that is already counted alone: an array of rows     *)
(* adds records and changes no other row of the inventory.                   *)
CreationOnlyAdds ==
    [][nextId' # nextId => \A id \in 1..(nextId - 1) :
          /\ parts'[id] = parts[id] /\ pending'[id] = pending[id]
          /\ facts'[id] = facts[id] /\ reviews'[id] = reviews[id]]_vars

(* A pending metadata proposal is evidence about the ordering code its part  *)
(* has ("Preserve exact identity and qualifiers").                           *)
ProposalsFitTheirPart ==
    \A id \in Ids : \A x \in pending[id] : parts[id] # Absent /\ x.of = parts[id].code
=============================================================================
