# Verification of parts-bin

TLA+ models of parts-bin, checked with TLC on small instances and, for the
durable dispatch, the runtime of the tool calls, the browser session, the
inventory and its searches, lookup and enrichment, proved with TLAPS for every
value of the constants: every invariant and action property of a passing run is a
theorem, two of them under a condition that section 5 states.
Every definition is translated from the source lines that `PROJECT.json` (`map`)
names for it. The properties aim at what the tests of the repository can hardly
reach: steps of several actors between two transactions.

## 1. The system

parts-bin keeps a personal electronics inventory in PostgreSQL and lets a
language model work on it through typed tools. The parts that carry the
program's own logic:

| Component | Source | State | Operations | Correct when |
|---|---|---|---|---|
| Execution records | `db/postgres/execution.py` | `agent_executions` (status, context, worker lease), `agent_cancellations`, `agent_operations` | prepare, claim, save, begin_stage, request_cancellation, release | one owner at a time, an outcome never changes |
| Durable dispatch | `db/postgres/dispatch.py`, `agent_runtime/dispatch.py`, `agent_runtime/worker.py` | `agent_dispatch` (due time, lease token, wake version, failure count), `agent_webhook_inbox` | accept, claim, checkpoint, finish, wake, notify, reconcile | no accepted request is forgotten, no wake swallowed, nothing settles unpublished |
| Responses runtime | `agent_runtime/runtime.py`, `agent_runtime/transports.py` | the checkpointed turn: round, pending calls, cursor, approval, submission intent | one model or tool stage per delivery | paid requests are sent once, effects commit once and are published |
| Approvals | `agent_runtime/approval.py`, `db/postgres/records.py` | requests with inventory snapshot, decision and receipt | request, decide, execute, batch | only what was approved is executed, once, on the inventory that was shown |
| Tool registry | `tools/registry.py` | none | validates and runs tools, addition receipts | mutations need a fenced receipt |
| Inventory domain | `domain/service.py`, `db/postgres/inventory.py` | parts, accepted facts, pending metadata and electrical reviews | create, count, edit, normalise, stage, decide | stock identities never merge, evidence stays with the part it is about |
| Lookup | `ingestion/lookup.py` | none | ask the supplier, then pages and documents it links to, then the web; reconcile | a field comes from the most authoritative source, a failure is not an absence |
| Enrichment | `ingestion/supplied_source.py`, `ingestion/electrical_source.py`, `db/postgres/cache.py` | a row per key: result, expiry, lease | acquire, retrieve, extract, decide, save | a paid extraction is not repeated while one is active, an answer is evidence about the part and the document |
| Search and specifications | `domain/search.py`, `domain/specifications.py`, `domain/specification_conditions.py`, `domain/quantities.py`, `domain/nominal.py`, `domain/pagination.py` | none | nominal notations, interval comparison, search, bills of materials, paging | every notation of a value finds it, unknown is never a match, pages cover the result once |
| Conversations | `db/postgres/conversations.py` | event log with sequence numbers | append, append_once, read after | events are numbered without gaps and published once |
| HTTP and browser | `server.py`, `agent_runtime/gateway.py`, `ui/src/agentSession.ts` | progress cursor, drafts | submit, follow, reconnect, resume, approve, cancel | reconnection repeats nothing and misses nothing |

**Atomicity.** Write units are serial: each begins by updating the single
`pb_revision` row under REPEATABLE READ (`db/postgres/connection.py`), so a
method decorated `access(write=True)`, a domain operation decorated `_mutation`,
or a `with transaction()` block, is one atomic step. An action of a module is
one such unit, one provider call, or one publication.

**What is hard.** Nothing inside a unit is concurrent; everything between units
is. Workers die between the effect of a tool and the checkpoint that knows of
it; leases run out under workers that are merely slow and go on; an outcome is
saved in one unit and published in another; callbacks, decisions, cancellations
and resumes arrive in the middle of a stage that will acknowledge what it saw
before; a lookup reads a part, spends minutes with a provider and stages a
proposal on whatever the part has become; a person decides on a screen that
shows an earlier review; two callers share one cached extraction while its lease
and its result run out and the document behind the address changes; a supplier, a
page and the web each answer or fail in their own way. The searches run on
whatever stock such a history left, in whichever notation a value was stored, and
are asked in another. `PROJECT.json` (`hazards`) lists these at their lines
with the properties that cover them.

## 2. Modules

| Module | Models | EXTENDS / composes |
|---|---|---|
| `Executions` | the tables and operations of `execution.py` as operators on `exec` and `cancellations` | |
| `Dispatch` | queue, inbox, deliveries, worker loop, stages as sequences of transactions | `Executions` |
| `DispatchProofs` | types, scheduling, leases and outcomes of `Dispatch`, proved | `Dispatch` |
| `DispatchPublication` | what a settled delivery promises, and payment of a turn, proved | `DispatchProofs` |
| `Approvals` | approval requests, snapshots, decisions, receipts and the parts they change | `Executions` |
| `AgentRuntime` | `_run`: what a run does with the calls of a turn, recovery, cancellation | `Approvals` |
| `ToolPromise` | abstract specification: a call changes a target at most once and is shown truly | refined by `AgentRuntime` |
| `RuntimeProofs` | types, shape of turns and requests, approval before effect, cancellation, proved | `AgentRuntime` |
| `RuntimePromise` | the refinement of `ToolPromise`, what an outcome shows, and payment of lookups, proved | `RuntimeProofs` |
| `Inventory` | `PartsBinService`: stock, edits, reviews, lookups and extractions | |
| `InventoryProofs` | theorems about `Inventory` | `Inventory` |
| `Quantities` | written quantities, the intervals they denote, their comparison | |
| `Nominal` | the notations of a nominal value and its display | `Quantities` |
| `Specifications` | conditions, the contract of facts and requirements, their evaluation | `Quantities` |
| `Search` | the read-only operations of `PartsBinService` over a shelf of parts | `Nominal`, `Specifications` |
| `Catalogue` | `Search` on every stock that `Inventory` reaches | `Inventory`, `Search` |
| `CatalogueProofs` | evaluation, notations, ordered lists, pages and bills of materials, proved | `Catalogue`, `InventoryProofs` |
| `Lookup` | `fetch_specs_detailed`: every call and every reply of its providers | |
| `Extraction` | what becomes of one answer of the model: evidence, identity, outcome | |
| `Enrichment` | `enrich` over the cache, with time, callers and changing documents | `Extraction` |
| `EnrichmentProofs` | theorems about `Enrichment` and `Lookup` | `Enrichment`, `Lookup` |
| `Conversation` | the numbered event log, progress snapshots and streams of `conversations.py`, `dispatch.py` (`progress_state`) and `follow`; deliveries reduced to what these read | |
| `ChatSession` | `AgentSession` of one browser tab and the controls of `Chat.tsx`, the requests and reads in flight | `Conversation` |
| `ChatProofs` | theorems about `ChatSession` | `ChatSession` |
| `MCDispatch`, `MCRuntime`, `MCInventory`, `MCCatalogue`, `MCEnrichment`, `MCChat` | instances for TLC; `MCEnrichment` has `Lookup` and `Enrichment` side by side | |

**Dispatch.** `row` is `agent_dispatch` with one entry per execution,
`inbox`/`consumed` the webhook inbox, `ctx` the part of `context_json` that
decides the next stage, `run` the program counter of every worker or HTTP
process together with its delivery and the wake version that delivery saw.
`submitted`, `finished` and `notified` are the provider; `published`, `paused`
and `notices` the events that count. Times are abstracted to what the SQL
compares: `available_at` is null, in the future or due, `lease_until > now` is
a Boolean that `BecomeDue`, `ExpireDelivery` and `ExpireExecution` change. The
actions of a run follow `run_delivery` and `_run` in their order: claim of the
delivery, claim of the execution, stage authorisation, intent, POST, checkpoint
of the response id, collection, tools, pause, outcome, publication, release,
acknowledgement. After `Crash` or an expired lease another run takes over, and
the slow one continues until a fence stops it.

**Approvals and AgentRuntime.** Dispatch says when a run happens; here any free
worker may start one at any time, and the calls of a turn are spelled out:
additions with receipts, approved updates, batches with one receipt per part,
paid retrievals by two tools (`lookup_part_specs`, `ingest_datasheet`). A run works
on a copy of the checkpoint (`mem`), and `effects` counts, for each call and target,
how often it changed the inventory. An addition may enrich its part: the receipt
then says "interrupted" (`unenriched`) until the unit that saves the retrieved result
(`SaveEnrichment`), and a run that finds the receipt in between takes that for the
result. `lookups` is what `_lookup_interrupted` reads of `exchanges`: the tool, the
part and whether it was interrupted, for both tools and for additions. An
interruption stops later calls of the same tool for the part, and a lost enrichment
later lookups of it, no more: after an interrupted lookup the code lets
`ingest_datasheet` of the part be paid for, and so does the model. A call may name a
part that an earlier call of the execution adds (`AddedPart`), up to `MaxId`.
`AgentRuntime` implements `ToolPromise` under the mapping of its last section.

**Inventory.** A part keeps its identity (`code`), whether its value has an old
spelling, the metadata evidence is bound to, its link and its quantity. Lookups,
refreshes, extractions, assertions and the command-line enrichment are `jobs`
with a program counter at each `await`; `screens` are what users were shown.
A proposal and a fact carry the ordering code (and maker) they are evidence
about: that is how a late answer on a changed part is visible.

`InventoryProofs` uses `RowOK`, one statement per part.

**Quantities, Nominal, Specifications, Search, Catalogue.** A text is what the
code's patterns take from it: a number, a multiplier letter or SI prefix, a unit,
a sign, and whether the letter stands for the decimal point; a range, a
tolerance; or a word. Numbers count fractions of the smallest prefix, so that the
arithmetic is exact, as with `Decimal`. `ParseNominal` tries the notations in the
order of `parse_nominal`. `Evaluate` answers "yes", "no" or "open", the three
lists of `search_specifications`. `Catalogue` gives the abstract identities of
`Inventory` a category and a value and reads its rows as the searches do
(`Row`); its properties are evaluated in every state of the stock. An expression
is a list of nodes that name their children by position (`Meeting`), and a sorted
list is the one function in the order of its keys (`InOrder`): the code compiles
the tree and sorts, and this is what the two promise. `Empty` is the absent
prefix, letter, unit or number. Of the tables of categories the linear regulator
and the capacitor are written out.

**Lookup, Extraction, Enrichment.** `attempts` is `source_attempts`; `stage` is
the call that is made next and `left` how many tries or addresses are left; what
a provider replies is chosen among everything the code distinguishes. Providers
are external, their replies come from the use the code makes of them. `Extraction`
has no state: a model answer claims fields with citations, and `Result` is what
`supplied_source.py` makes of it against the text and the request. In
`Enrichment`, `cache` is the row of one key of `supplied_enrichment_cache`, every caller
has a program counter at each access to the database, the network and the model,
and `now` counts units of about the timeout of an extraction (90 s, of a lease of
300 s). `read` and `at` are ghosts: which version was really retrieved, and when.

**Conversation and ChatSession.** `log` is `agent_events`, a sequence per
conversation; `work` holds what progress reads and streams look at of an
execution and its delivery. `ui` is `AgentSnapshot` (what is on the screen, by
sequence number; `echo` is the unsent-looking message shown before the server
stores it), `main` the operation that holds `pending`, `cancelling` the
cancellation. JavaScript runs one continuation at a time, so an action is the
code between two awaits; the operation, the cancellation and the watcher
interleave there. `reads` holds the GET of each flow, which the server answers
in one step and the browser receives in a later one; `posts` holds requests the
server may handle after the browser has given up on them. `draft` and `synced`
are kept for properties: what the user was told of each text, and how far the
last read reached. The server refuses what it must (`Refused`: a message while another
execution of its conversation goes on, an unknown or cancelled execution) and may
refuse anything else because the database stays busy, before a unit of the request
or after the one that accepts a message (`AcceptThenFail`, `RefuseAccepted`): `access`
gives up after six attempts, and either is a 409, which the browser takes for final.
The other endpoints write in one unit, and a read is never busy under REPEATABLE READ,
so nothing is refused after it was done. `LoseRead(FALSE)` is a read whose answer the
browser cannot take (a status below 500, or what is no event list).

## 3. Runs

| Run | Question | Instance |
|---|---|---|
| `dispatch` | is a delivery lost, swallowed or settled early, and can the slow run harm after a takeover? | 1 execution, 2 processes, 1 crash, 2 expired leases, 1 wake |
| `dispatch_live` | does everything come to rest? | fairness, 2 calls, 1 crash |
| `dispatch_stall` | finding, see section 6 | as small as shows it |
| `runtime` | are effects committed once, shown truly, and never hidden, and retrievals not repeated? | 2 runs, up to 2 calls (addition, approved update, lookup, ingestion), expired lease, cancellation |
| `runtime_batch` | is a resumed batch right? | 2 parts, edits in between, crash and expired lease |
| `runtime_hidden` | finding | batch, crash, cancellation |
| `catalogue` | can two records become one stock, and do the searches tell the truth about whatever stock there is? | up to 3 parts, batches of 2, historical duplicates and old spellings, requests by several notations |
| `inventory_reviews` | does evidence stay with its part, where do late answers go, and who decides? | 1 part, 2 jobs, a deciding user |
| `inventory_lookup` | finding | 1 part, 2 numbers |
| `enrichment` | is an extraction paid for once, is an answer evidence, is a failure kept apart from an absence? | 2 callers of one key, 2 versions of its document; a lookup with 4 fields and every reply |
| `chat` | does the browser show everything, in the right conversation, and judge drafts rightly? | 2 conversations, an own execution that asks for an approval, one from elsewhere that may be parked, 1 lost request, stream or read, busy database, or reload |
| `chat_decision` | finding | the same with 1 conversation |

**Why the bounds are enough.** Rows, checkpoints and receipts of different
executions share no state but the worker processes, so one execution with two
processes shows every interference; the theorems of section 5 do not depend on
it. Two failures (`MaxFailures = 2`) distinguish "counts" from "parks"; the wake
of a callback, decision, cancellation or resume may fall into every point of a
delivery; a second expiry lets a run be overtaken in both of its leases. A hung
worker whose lease expires behaves in `AgentRuntime` like a dead one, except
that it may still move: `runtime`, with `MaxCrashes = 0`, covers a crash by
leaving the worker where it is. Two calls are the fewest for a cursor to move
over an effect, two parts the fewest for a batch to stop in the middle.
`runtime` has one stored part and `MaxId = 2`, so that a retrieval may be for that
part, for the one that the call before it adds, or for none (an addition in the
second place has no call after it), and one content
(`Contents = {c1}`): edits between a request and its execution are the subject of
`runtime_batch`, with two contents. In the
inventory one part suffices for everything about evidence, since jobs and
decisions name their part, and two or three for identities; historical
duplicates and old spellings are in `Init`.
`OneConcern` in `inventory_reviews` lets two jobs race that
extract or assert, or one that refreshes or enriches beside the user: a refresh
and an extraction meet in the tables only, which the other pair shows.
`catalogue` uses a ladder of small prefixes (`SmallLadder`) and
`Fine = 8`: what matters is their order and that a value is exact in the base
unit; one piece per part (`MaxQuantity = 1`) distinguishes stocked from out of
stock, and a bill of materials of two rows is the fewest that compete; three parts
give two pages with a limit of one or two, a match and an alternative at once.
`enrichment` needs `MaxDelay + Timeout < Lease` (1, 1 and 3), which the code's
90 s and 300 s satisfy while the database answers within the difference, and
`Horizon = 5` lets the lease of a failed claim or a result run out, the next claim be
made late, and its work end; the lookup and the extraction do not run at once
since they share nothing. The four fields are two that identify, a description (the longest
wins) and a link (which is never missed).
In `chat` a gap needs an execution whose events the stream of another leaves
out, and an answer in the wrong place a second conversation; `MixedCancels =
FALSE` keeps cancellations and executions from elsewhere in different
behaviours, to keep the state space small: a cancellation concerns one execution.
`MaxLosses` counts whatever fails without need: lost posts, streams and reads,
reloads, and answers of a busy database.
That the tab's own execution is parked and resumed is left to the theorem: an own
execution that asks for an approval and may be parked as well takes the instance
beyond what TLC finishes in minutes.
`CHECK_DEADLOCK FALSE` in the dispatch runs: a settled instance whose bounds are
used up stops; and in `enrichment`: a lookup ends, and time does at `Horizon`.

**Symmetry** is declared over processes, contents, makers, readings, jobs and callers,
never in a run with a liveness property.

## 4. Fairness

`Dispatch!Fairness` assumes what a deployment keeps doing: a process that has
not died takes its next step and the worker loop claims and reconciles
(`worker.py` loops until it is told to stop); the clock makes due times come and
the leases of the dead run out; a response that is being generated ends. Users
owe nothing, a webhook may never come, and a lease of a live worker is never
assumed to expire or to hold. The invariants use no fairness.

## 5. What is proved

| Theorem | Module | Statement |
|---|---|---|
| `TypeCorrect` | `DispatchProofs` | `Spec => []TypeOK` |
| `NothingForgotten` | `DispatchProofs` | `Spec => []UnsettledIsScheduled` |
| `RestIsCurrent` | `DispatchProofs` | `Spec => RestsAfterLastWake` |
| `OutcomeIsFinal` | `DispatchProofs` | `Spec => TerminalIsFinal` |
| `LeasesExclude` | `DispatchProofs` | `Spec => LeasesAreExclusive` |
| `CancellationsDeliver` | `DispatchPublication` | `Spec => []CancellationStaysDeliverable` |
| `PublishedBeforeSettled` | `DispatchPublication` | `~Stalls` implies `Spec => []SettledIsPublished` |
| `TurnsArePaidOnce` | `DispatchPublication` | `Spec => []SubmittedOnce` |
| `TypesHold` | `RuntimeProofs` | `Spec => []TypeOK` |
| `DecisionsFitTheirCall` | `RuntimeProofs` | `Spec => []ApprovalIsForTheCursor` |
| `ChangesAreAsShown` | `RuntimeProofs` | `Spec => ApprovedAsShown` |
| `CancellationStopsCalls` | `RuntimeProofs` | `Spec => []OneCallAfterCancel` |
| `ToolCallsKeepTheirPromise` | `RuntimePromise` | `Spec => EffectsAreOnceAndShownTruly`, the refinement of `ToolPromise` |
| `OutcomesHideNothing` | `RuntimePromise` | `"bulk" \notin Tools` implies `Spec => []NothingHidden` |
| `RetrievalsArePaidOnce` | `RuntimePromise` | `Spec => RetrievalIsNotRepeated` |
| `SessionTypes` | `ChatProofs` | `Spec => []TypeOK` |
| `AnswersStayInTheirConversation` | `ChatProofs` | `Spec => []OneConversation` |
| `ReadsLeaveNoGap` | `ChatProofs` | `Spec => []SyncedIsComplete` |
| `DraftsAreSafe` | `ChatProofs` | `Spec => DraftsAreJudgedRightly` |
| `ObservationIsComplete` | `ChatProofs` | `Spec => []ObservationEndsAtRest` |
| `InventoryTypes` | `InventoryProofs` | `Spec => []TypeOK` |
| `FactsStay` | `InventoryProofs` | `Spec => []FactsFitTheirPart` |
| `ReviewsApply` | `InventoryProofs` | `Spec => []ReviewsStayApplicable` |
| `NothingLeftBehind` | `InventoryProofs` | `Spec => []NothingOutlivesItsPart` |
| `CreationIsAddition` | `InventoryProofs` | `Spec => CreationOnlyAdds` |
| `DecisionsWereShown` | `InventoryProofs` | `Spec => DecisionsAreInformed` |
| `StockStaysDistinct` | `InventoryProofs` | `Spec => NoNewTwins` |
| `EnrichmentTypes` | `EnrichmentProofs` | `Spec => []TypeOK` |
| `OneExtractionAtATime` | `EnrichmentProofs` | `Spec => []ClaimsAreExclusive` |
| `AnswersAreEvidenced` | `EnrichmentProofs` | `Spec => []AnswersFitTheDocument` |
| `FailuresAreToldApart` | `EnrichmentProofs` | `LookupSpec => []FailuresStayDistinct` |
| `AnswersHaveTheirSource` | `EnrichmentProofs` | `LookupSpec => []AnswersAreSourced` |
| `NotationsFind` | `CatalogueProofs` | `Spec => []EverySpellingFinds` |
| `PagesShowEverything` | `CatalogueProofs` | `Spec => []PagesCoverAnswers` |
| `BillsAreServed` | `CatalogueProofs` | `Spec => []NoHiddenShortage` |
| `ConfirmationsAreJustified` | `CatalogueProofs` | `Spec => []ConfirmedForEveryValue` |
| `ConfirmedMeansEveryValue`, `RefutedMeansNoValue` | `CatalogueProofs` | an answer "yes" or "no" of `CompareIntervals` is right for every value of both intervals |
| `MatchesAreConfirmed` | `CatalogueProofs` | `Evaluate(...) = "yes"` has a sourced fact that meets the requirement under all its conditions |

They hold for every number of executions, workers, tools, calls and rounds,
parts, jobs, users, conversations, callers, documents and fields, every content of
the catalogue, list of requirements and notation, and every value of the bounds. The assumptions on constants are those of the modules: the owners are
distinct from `Nobody` and `Lost`, bounds are naturals, `Tools` are tools the model
knows (`KnownTools`), `MaxId` is a natural (`IdsAreNatural`), `Absent`, `Nothing` and `NoThread` are no rows and no
conversations (`SessionAssumption`, `ConversationAssumption`), the fields of an answer
are among those a lookup asks for (`KnownFields`), prefixes are ordered positive
powers and numbers have enough digits for the base unit (`PowersOfTen`,
`Decimals`), and for the cache `WorkFitsLease`, the timeout and the delay of an access
together stay below the lease. TLC evaluates each of them in a run.
`OutcomesHideNothing` leaves out batches: with them the property fails
(`runtime_hidden`, section 6), and `OutcomesHideOnlyOpenBatches` proves, with batches,
that an open batch is all that an outcome can hide. Every strengthening below was an
invariant of a TLC run before it was proved.

The arguments. *Scheduling*: `UnsettledIsScheduled` is inductive with
`BlockedIsFree` (a parked row has no lease); `RowMove` classifies the ways one
step can write a row, and each way either leaves a due time, settles or parks.
*Rest*: a row comes to rest only in `Finish`, whose guard compares token and
wake version. *Outcome*: `OwnerIsRunning` says that the owner of an execution
is a run in a stage of it that found it not terminal, hence every save that
passes the lease check replaces a status that is not final. *Cancellation*:
needs two facts that are not visible in one step, `RunsSaw` (a run never saw a
later wake than the row has) and `CancelledCleansUp` (a run claimed after a
cancellation only cleans up); a run claimed before it saw an older wake version,
so its acknowledgement does not settle. *Publication*: `Settling` strengthens
the property by `ClaimedHolds`, `ApprovalAwaits` and `HolderKnows`: the run that
holds the delivery owns the execution or found it terminal, so nobody else can
change it between what the run publishes and what it acknowledges. Its base,
`ClaimedHolds`, is what `~Stalls` provides and what fails without it: the run
`dispatch_stall` is the counterexample.

*Payment of a turn*: the request to the model has no fence of its own, so
`PaidOnce` follows who can post: only the run whose intent is saved does, every
save passes the lease check, and once an intent is saved nobody saves one for this
round again (`PosterIsAlone`).

*Runtime*: `Shape` says what a run, a checkpoint and an approval look like in each
stage; `OwnerIsCurrent`, that the owner's copy of the checkpoint is the stored
one, makes every write of the owner a step from what is stored. On these rest
`GrantedWasAsked` (an effect that needs consent was decided on the call the cursor
names) and `LateIsOne` (after a cancellation only the call that had begun goes on).
*Promise*: the refinement of `ToolPromise` maps a call to the changes that were
made for it and to the outcome that was shown. `EffectsFit` says where the changes
of a call are recorded: before the cursor reaches it there are none, at the cursor
the receipt or the request has them, and what a recovering run does is what is
missing from the record. `TellingFits` says that a result is final once it is saved
and is shown before the cursor leaves the call, and that every call has been told of
when the execution is over. *Retrievals*: a run asks a supplier only after the
checkpoint or the receipt says that the call began (`Begun`); `SpendsOnce` then
leaves a recovering run nothing but "interrupted", and by `NoneInterrupted` a call
that goes on to pay found no interruption of its tool for its part, nor, if it is a
lookup, a lost enrichment of that part, in what the calls before it left.

*Browser*: three flows meet the server at different times, so `IInv` is about what
outlasts an await. The log only grows and an answer is a part of it, still true of
the log when it arrives (`ReadsFit`); the conversation a flow asked about is the
one on the screen, or is compared with it (`MainFits`, `CancelFits`); a read that
starts at the cursor of a screen without a gap below it leaves none (`ScreenFits`);
and a text is judged by an event that exists only if the server accepted it
(`LogFits`, `RestFits`, `DraftsFit`). `DraftsAreJudgedRightly` is about the steps that
settle a text: a text is cleared only for an accepted message, and it is left with the
user although the message was accepted in three cases only, each named in the
formula. That an ordinary refusal is none of them needs `PostsFit`: a submission still
on its way has not been accepted, since nothing else accepts an execution of this tab
and it is sent once. *Observation*: once work rests nothing but the
notice of its parking is published until somebody wakes it (`WorkFits`, `Stays`), and
an event that ends a stream is the last one there is (`EndIsLast`). So, as long as
nothing was cancelled and every request was handled while its sender waited
(`Undisturbed`), each accepted message of the conversation on a restored screen is in
one of three situations (`Seen`): the last snapshot said that something is active,
and then the watcher runs or an operation is under way (`Watched`); the work rests
and is shown; or the operation follows it, with everything up to the position of its
stream shown. An answer that says "nothing is active" holds all there is to show
of work that rests, and still does when it arrives (`Judges`). *Lookup*: `LookupInv` says that the attempts
are in the order of authority, that what is recorded is what the supplier said, and
that a source is asked only while fields are missing.

*Inventory*: `RowOK` says of each part, its pending reviews and its facts
what the four invariants say, together with what makes it inductive: ids from
`nextId` on are free, a fact that waits in a review is about the part, and the facts
and metadata a review was taken on are still there. `ReplacedTables` carries every
edit, count and accepted proposal, and needs only what `MayReplace` checks: bound
metadata change only without evidence. Nothing is assumed of a job but its type,
since every late answer is compared again before it is staged; that this suffices
for every interleaving is the content of the proof. *Decisions*: `ScreensOK` says
that the snapshot an approval was asked on holds the review that was shown; the
effect requires the snapshot to be the stored one. *Stock*: an array of new rows
inserts first occurrences in order (`CreateInserts`), and edit `k` of an array is
compared with the table that the edits before it left (`EditedParts`): of two
edited parts the later edit was compared with the result of the earlier one.
*Cache*: `Timing` relates the clock, the deadline of a claim and the lease of the
row: a caller that works holds the lease that is stored, which a later `acquire`
sees as live; `Sound` of `EnrichmentProofs` says that everything saved, remembered or returned is a
result of extracting the version it names. *Evaluation*: a written interval has
its endpoints in order (`IntervalHasEnds`); the comparison is then a matter of
its ends, and coverage of conditions is containment at every point
(`CoverageIsPointwise`). A tolerance that joins its center, an older name of a
condition and a text that is no number are told apart by `ComparedNames` and
`ComparedPoints`; hence what is confirmed is justified by the points alone
(`JustifiedConditions`).

*Searches*: the four invariants hold in every state of the right types, so the
theorems are lemmas about the operators and `InventoryTypes`.
*Notations*: whether a row is of an earlier release or of this one, it is read as the
value that was once written (`RowIsRead`): a canonical number beside its stored unit
reads back exactly (`CanonicalIsRead`), and what a text denotes does not change when
the unit it denotes is made known (`SameReading`). The display picks a prefix the
number has one of and its notation reads back (`DisplayIsRead`).
*Lists*: a strict total order of a finite set has one enumeration (`OrderExists`,
`OrderedOnce`); ids order the parts of a shelf, exact fractions and ids the
alternatives (`NearerIsAnOrder`), ranks, fractions and ids the partial matches
(`RankedAreOrdered`). That the shortfall is a fraction for any number of failed
requirements rests on the recursion of `SumOfGaps` over the subsets of a finite set,
by a smallest counterexample (`SumsExist`, `SumsAreFractions`).
*Pages*: a page and the rest behind it are the rest from its offset on
(`PageAndRest`), so from the largest offset backwards every rest is shown
(`PagesShowList`), for each list of an answer since the offset goes on to the end of
the longest. Matches, incomplete and partial matches partition the candidates
because an alternative never has the requested value (`AlternativeDiffers`).
*Bills*: without reported conflicts a record meets the filters of one requirement at
most (`ConflictsAreSeen`), so the record that is enough for it serves it alone.

They assume of the contents (`Contents`, `Notations`, `Resolution`): facts and
requirements state intervals; `Spellings` are texts that denote the value of the
identity; and values have as many digits as their canonical and displayed form need,
as `Decimal` has. `Notations` leaves out "mohm" for categories without a unit: there
the program reads it in two ways (section 6). `Legible` leaves out a displayed
resistance that the program does not read back. TLC evaluates the assumptions in
`catalogue`.

**Only model-checked**: the liveness properties of `dispatch_live`
(`EventuallyRests`, `CancellationEnds`, `ParkedIsAnnounced`), since fairness and
ENABLED are out of the prover's reach.

## 6. Findings

Four runs end in a counterexample to a sentence of the repository's own
documents; `PROJECT.json` (`findings`) quotes them.

- `dispatch_stall`: a process that sleeps through its delivery lease before it
  claims the execution can save an outcome that the acknowledgement of its
  replacement settles before it is published.
- `runtime_hidden`: a batch that is interrupted between two parts and then
  cancelled leaves a changed part no event mentions.
- `inventory_lookup`: a lookup stages what it found for the number it read on a
  part whose number was edited meanwhile. The command-line enrichment compares the
  part again before it stages (`StageEnrichment`); the lookup does not.
- `chat_decision`: after a lost answer, `decide()` reads the events once; a
  decision that is saved, but that the worker has not published yet, is reported
  as not acknowledged and observation stops.

Smaller observations have no run: a callback that is matched between a
collection and the checkpoint of that stage loses its due time to the
thirty-second poll (`Checkpoint`), and a lease conflict parks a delivery whose
last failure was acknowledged after a callback (`Finished`), against
`docs/operations.md:203-204`. A refused token of the supplier is reported like
an absence (`no_match`) and lets the web be searched, although
`docs/adr/0004` keeps failures and absences apart: `FailuresStayDistinct` excepts
it. A message that was accepted is left with the user as if it had not been, in the
three cases `DraftsAreJudgedRightly` names: a 409 after the unit that accepted it
(`runtime.py:131-134`, `server.py:165-166`), a recovery read that is refused, and an
acceptance after that read. Then nothing but the history tells: the session sends
nothing before it has been read (`agentSession.ts:374`), and while the first execution is
unfinished the server refuses another message (`execution.py:50-53`). After a lost
enrichment or an interrupted lookup the other tool, `ingest_datasheet`, may be paid for
the same part in the same execution, since `_lookup_interrupted` compares the tool. A claim clears the result of its row, so an extraction that then fails loses
the result that was saved before. The fields of one lookup may come from
different ordering codes of different tiers, since only sources of one tier are
compared, and a lookup makes one attempt per tier: the conflict rule cannot apply
there. "5 mohm" is read as mega by the shorthand and "5 mΩ" as milli; so in a row of a
category without a unit "5 mohm" means something else once a unit is stored beside it.
A negative number of ohms is not read back from its display, nor is the display of an
old row in ohms of such a category: "10k" denotes nothing there, and a suggestion of
it leads to no part until the row is normalised.

## 7. Not modelled

Presentation and form state of the user interface, parsing of PDF and web
results, photo and OCR calls, telemetry and evaluation, schema setup: data
transformation or I/O without state of their own. Casing, spacing and the Unicode
forms of text; the tables of the categories besides the linear regulator and the
capacitor, which have the same form; the repair of misplaced fields; pages of
pending reviews; the choice of excerpts and the prompts of an extraction, and the
records of its evidence. The retry after a
serialization failure (`RepositoryBusy`) repeats a unit that had no effect.
`add_or_increment` and `add_parts` have no caller. Field provenance rows change
no decision. Of a model request only that it is paid for, of its answer only
the calls it asks for. An accepted review changes maker and link only, a review is
rejected as a whole and not by single fields, and the approval of `update_parts`
over several parts in one unit is left out; `bulk_update_parts`, a unit per part, is
modelled. Of the browser session not: unmounting
(`disconnect`), photos, a failing request to create a conversation, and the list
of conversations, which is read together with the events. Sessions that asked
for a cancellation are excepted from `ObservationEndsAtRest`: a poll or refresh
that was answered before the cancellation may arrive after its confirmation and
set `active` back (`hazards`). Excepted too is the notice of a parked delivery, which
is published after the row is parked: a snapshot between the two ends observation,
as ADR 0031 has it, and a refresh shows the notice. An execution is parked once and
asks for one approval in the model (`Park`, `AskApproval`), so what a stream makes of
the notice of an earlier parking is not covered.

## 8. Plan

1. Gateway and service composition: history bounds, concurrent submissions of
   one conversation, photo intake.
2. Proofs: `ObservationEndsAtRest` for sessions that ask for a cancellation, with
   the exception narrowed to the answer that comes late.
3. `Conversation` and `ChatSession`: two workers that publish for one execution
   (late events reopen it in `unfinishedExecutions`), an abstract specification
   in which the transcript is a subset of the log and complete up to the cursor,
   and its proof.
4. Several keys of one part in the cache (model, manufacturer and category are in
   the key), and the metadata of a part that changes during its extraction: the
   composition of `Enrichment` with `Inventory`.
5. Migration: the copy and verification of `migrate.py`, interrupted and
   repeated.
