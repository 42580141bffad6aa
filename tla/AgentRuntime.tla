---------------------------- MODULE AgentRuntime ----------------------------
(***************************************************************************)
(* OpenAIResponsesRuntime._run of agent_runtime/runtime.py: what a run     *)
(* does with the tool calls of a model turn.  Dispatch.tla models when a   *)
(* run happens; here any free worker may start one on any accepted         *)
(* execution, as the HTTP stream, the queue and a resume do.               *)
(*                                                                         *)
(* A run works on a copy of the checkpoint it restored (mem); every save   *)
(* needs the live lease and makes the copy the checkpoint (ctx).  A run    *)
(* whose lease expired keeps going on its copy until a fence stops it.     *)
(* Each action is one transaction, one provider call or one publication,   *)
(* and between any two the process may die, the lease expire, the user     *)
(* decide or cancel, and any other writer edit the inventory.              *)
(*                                                                         *)
(* The model request is abstracted to the checkpoint it ends with: the     *)
(* submission intent and the background polling are in Dispatch.tla.  Of   *)
(* the event log only results and approval requests are kept.  Tools that  *)
(* only read, and errors without effect, are a turn with fewer calls.      *)
(***************************************************************************)
EXTENDS Approvals

CONSTANTS
    Tools,          \* the kinds of tools the model calls
    MaxId,          \* bound: part ids that a paid retrieval names
    MaxCrashes,     \* bound: processes that die in the middle of a run
    MaxExpiries     \* bound: leases that expire under a running worker

ASSUME IdsAreNatural == MaxId \in Nat
ASSUME KnownTools == Tools \subseteq {"add", "update", "bulk", "lookup", "ingest"}

VARIABLES
    ctx,            \* agent_executions.context_json, by execution
    run,            \* the runs: program counter, copy of the checkpoint
    shown,          \* `tool_result' events: <<step, claims>>
    asked,          \* `approval_request' events: approval numbers
    ended,          \* executions whose `terminal' event is in the log
    paid,           \* retrievals a provider was paid for, by step
    crashes,        \* processes that died so far
    expiries        \* leases that expired under a running worker so far

eventVars == <<shown, asked, ended>>
boundVars == <<crashes, expiries>>
vars == <<executionVars, inventoryVars, ctx, run, eventVars, paid, boundVars>>

-----------------------------------------------------------------------------
NeedsApproval == {"update", "bulk"}     \* _APPROVAL_REQUIRED
Retrievals == {"lookup", "ingest"}      \* lookup_part_specs, ingest_datasheet

(* The id of the part that call i of turn r adds: rows are numbered in turn, *)
(* after those that are there.  The model knows it from the result.          *)
AddedPart(r, i) == NumParts + (r - 1) * MaxCalls + i

(* What the model may ask for: new stock, a change of one part or of all of  *)
(* them, a paid retrieval for a part, be it one that the execution adds.     *)
CallOn(tool, targets) ==
    [tool |-> tool, targets |-> targets, retrieving |-> FALSE, done |-> FALSE, result |-> {}]
CallChoices ==
    {CallOn("add", {Stock}), CallOn("bulk", Parts)}
    \cup {CallOn("update", {p}) : p \in Parts}
    \cup {CallOn(t, {p}) : t \in Retrievals, p \in 1..MaxId}
Turns == UNION {[1..n -> {c \in CallChoices : c.tool \in Tools}] : n \in 0..MaxCalls}

Call ==
    [tool : Tools, targets : SUBSET Nat,
     retrieving : BOOLEAN,              \* retrieval_started
     done : BOOLEAN,                    \* "result" in call
     result : SUBSET Targets]
Context ==
    [round : 0..MaxRounds,              \* model responses saved
     pending : BOOLEAN,                 \* pending is not None
     calls : Seq(Call),
     index : 1..(MaxCalls + 1),         \* call_index, from 1
     approval : 0..MaxRequests,         \* approval_id, 0 for None
     lookups : SUBSET                   \* lookups and additions in exchanges:
        [step : (1..MaxRounds) \X (1..MaxCalls), tool : Tools,
         part : Nat \ {0},
         interrupted : BOOLEAN]]        \* retrieval_interrupted, or enrichment's status
Run ==
    [pc : {"idle", "begin", "work", "requested", "approved", "rejecting", "children",
           "rejectchild", "retrieve", "fetched", "enrich", "enriched", "result", "interrupted",
           "saved", "cursor", "cancelling", "publishing"},
     at : Executions \cup {Nobody},
     mem : Context,                     \* _TurnState
     held : SUBSET Targets,             \* result, before it is saved
     next : Nat]                        \* the position in a loop, or the new approval

Blank == [round |-> 0, pending |-> FALSE, calls |-> <<>>, index |-> 1, approval |-> 0,
          lookups |-> {}]
Idle == [pc |-> "idle", at |-> Nobody, mem |-> Blank, held |-> {}, next |-> 0]

(* Type invariant of the module. *)
TypeOK ==
    /\ ExecutionsTypeOK
    /\ InventoryTypeOK
    /\ ctx \in [Executions -> Context]
    /\ run \in [Workers -> Run]
    /\ \A w \in Workers : run[w].pc # "idle" => run[w].at \in Executions
    /\ shown \subseteq Steps \X SUBSET Targets
    /\ asked \subseteq 1..Len(approvals)
    /\ ended \subseteq Executions
    /\ paid \in [Steps -> Nat]
    /\ crashes \in Nat /\ expiries \in Nat

Init ==
    /\ ExecutionsInit
    /\ InventoryInit
    /\ ctx = [e \in Executions |-> Blank]
    /\ run = [w \in Workers |-> Idle]
    /\ shown = {} /\ asked = {} /\ ended = {}
    /\ paid = [s \in Steps |-> 0]
    /\ crashes = 0 /\ expiries = 0

At(w) == run[w].at
Mem(w) == run[w].mem
Cursor(w) == Mem(w).calls[Mem(w).index]
StepOf(w, i) == <<At(w), Mem(w).round, i>>
Step(w) == StepOf(w, Mem(w).index)

(* Run w moves on, with a result in hand or a position in a loop. *)
Goto(w, pc) == run' = [run EXCEPT ![w].pc = pc]
GotoHolding(w, pc, result) == run' = [run EXCEPT ![w].pc = pc, ![w].held = result]
GotoNext(w, pc, n) == run' = [run EXCEPT ![w].pc = pc, ![w].next = n]

(* save: status and checkpoint, under the lease. *)
Save(w, s, m, pc) ==
    /\ SaveStatus(At(w), w, s)
    /\ ctx' = [ctx EXCEPT ![At(w)] = m]
    /\ run' = [run EXCEPT ![w].mem = m, ![w].pc = pc, ![w].held = {}, ![w].next = 0]
    /\ UNCHANGED cancellations

(* finally: the lease is released and the run is over. *)
EndRun(w) ==
    /\ Release(At(w), w)
    /\ run' = [run EXCEPT ![w] = Idle]
    /\ UNCHANGED cancellations

-----------------------------------------------------------------------------
(* The user, the other writers and the passage of time.                      *)

Accept(e) ==
    /\ Prepare(e)
    /\ UNCHANGED <<cancellations, inventoryVars, ctx, run, eventVars, paid, boundVars>>

Cancel(e) ==
    /\ RecordCancellation(e)
    /\ UNCHANGED <<exec, inventoryVars, ctx, run, eventVars, paid, boundVars>>

(* decide, by a user who was asked: the browser knows the id from the event. *)
Decide(n, decision) ==
    /\ n \in asked
    /\ DecideApproval(n, approvals[n].for[1], decision)
    /\ UNCHANGED <<executionVars, ctx, run, eventVars, paid, boundVars>>

EditPart(p) ==
    /\ Edit(p)
    /\ UNCHANGED <<executionVars, ctx, run, eventVars, paid, boundVars>>

ExpireExecution(e) ==
    /\ ExpireLease(e)
    /\ \/ exec[e].worker_id \notin Workers /\ UNCHANGED expiries
       \/ exec[e].worker_id \in Workers /\ expiries < MaxExpiries /\ expiries' = expiries + 1
    /\ UNCHANGED <<cancellations, inventoryVars, ctx, run, eventVars, paid, crashes>>

Crash(w) ==
    /\ run[w].pc # "idle"
    /\ crashes < MaxCrashes
    /\ crashes' = crashes + 1
    /\ LoseOwner(w)
    /\ run' = [run EXCEPT ![w] = Idle]
    /\ UNCHANGED <<cancellations, inventoryVars, ctx, eventVars, paid, expiries>>

-----------------------------------------------------------------------------
(* A run starts, is authorised stage by stage, and ends.                     *)

(* claim and restore; the outcome of a terminal execution is published again. *)
Start(w, e) ==
    /\ run[w].pc = "idle"
    /\ \/ /\ exec[e].status \in Terminal
          /\ run' = [run EXCEPT ![w] = [Idle EXCEPT !.at = e, !.pc = "publishing"]]
          /\ UNCHANGED exec
       \/ /\ ClaimExecution(e, w)
          /\ run' = [run EXCEPT ![w] = [Idle EXCEPT !.at = e, !.pc = "begin", !.mem = ctx[e]]]
    /\ UNCHANGED <<cancellations, inventoryVars, ctx, eventVars, paid, boundVars>>

(* Fault: a stage starts although its execution is to be cancelled. *)
BeginStageRegardless(w) ==
    /\ run[w].pc = "begin"
    /\ Owns(At(w), w)
    /\ GotoNext(w, "work", 0)
    /\ UNCHANGED <<executionVars, inventoryVars, ctx, eventVars, paid, boundVars>>

(* begin_stage: the next model request or tool call, unless it is cancelled. *)
BeginStage(w) ==
    /\ run[w].pc = "begin"
    /\ Owns(At(w), w)
    /\ GotoNext(w, IF At(w) \in cancellations THEN "cancelling" ELSE "work", 1)
    /\ UNCHANGED <<executionVars, inventoryVars, ctx, eventVars, paid, boundVars>>

(* A run returns after a stage (single_step), or raises wherever it is: a    *)
(* fence that fails, an error of the database or of the provider, shutdown.  *)
Leave(w) ==
    /\ run[w].pc # "idle"
    /\ EndRun(w)
    /\ UNCHANGED <<inventoryVars, ctx, eventVars, paid, boundVars>>

(* terminal: the outcome is published. *)
Publish(w) ==
    /\ run[w].pc = "publishing"
    /\ ended' = ended \cup {At(w)}
    /\ EndRun(w)
    /\ UNCHANGED <<inventoryVars, ctx, shown, asked, paid, boundVars>>

-----------------------------------------------------------------------------
(* The turn: a model response, its calls in order, and how it ends.          *)
NeedsModel(w) == run[w].pc = "work" /\ ~Mem(w).pending
InTurn(w) == run[w].pc = "work" /\ Mem(w).pending

(* Fault: the tool loop has no limit. *)
SaveTurnUnlimited(w) ==
    /\ NeedsModel(w)
    /\ \E calls \in Turns :
          Save(w, "ready", [Mem(w) EXCEPT !.round = @ + 1, !.pending = TRUE,
                                          !.calls = calls, !.index = 1], "begin")
    /\ UNCHANGED <<inventoryVars, eventVars, paid, boundVars>>

(* A model response is saved before any of its calls runs. *)
SaveTurn(w) ==
    /\ NeedsModel(w) /\ Mem(w).round < MaxRounds
    /\ \E calls \in Turns :
          Save(w, "ready", [Mem(w) EXCEPT !.round = @ + 1, !.pending = TRUE,
                                          !.calls = calls, !.index = 1], "begin")
    /\ UNCHANGED <<inventoryVars, eventVars, paid, boundVars>>

(* The loop limit, or a ModelBudgetError, which yields to a cancellation. *)
GiveUp(w) ==
    /\ NeedsModel(w)
    /\ \/ Save(w, "failed", Mem(w), "publishing")
       \/ /\ At(w) \in cancellations
          /\ GotoNext(w, "cancelling", 1)
          /\ UNCHANGED <<executionVars, ctx>>
    /\ UNCHANGED <<inventoryVars, eventVars, paid, boundVars>>

(* A turn without calls completes the execution. *)
Complete(w) ==
    /\ InTurn(w) /\ Mem(w).calls = <<>>
    /\ Save(w, "completed", Mem(w), "publishing")
    /\ UNCHANGED <<inventoryVars, eventVars, paid, boundVars>>

(* Every call is done: the next model request may follow. *)
ClearTurn(w) ==
    /\ InTurn(w) /\ Mem(w).calls # <<>> /\ Mem(w).index > Len(Mem(w).calls)
    /\ Save(w, "ready", [Mem(w) EXCEPT !.pending = FALSE], "begin")
    /\ UNCHANGED <<inventoryVars, eventVars, paid, boundVars>>

AtCall(w) == InTurn(w) /\ Mem(w).index <= Len(Mem(w).calls)
CallIs(w, tool) ==
    AtCall(w) /\ Mem(w).approval = 0 /\ ~Cursor(w).done /\ Cursor(w).tool = tool

-----------------------------------------------------------------------------
(* A call that needs approval: request, pause, decision, effect.             *)

(* The registry refuses; the request and its snapshot are stored. *)
Request(w) ==
    /\ \E tool \in NeedsApproval : CallIs(w, tool)
    /\ RequestApproval(Step(w), Cursor(w).targets)
    /\ GotoNext(w, "requested", Len(approvals) + 1)
    /\ UNCHANGED <<executionVars, ctx, eventVars, paid, boundVars>>

SaveAwaiting(w) ==
    /\ run[w].pc = "requested"
    /\ Save(w, "awaiting_approval", [Mem(w) EXCEPT !.approval = run[w].next], "begin")
    /\ UNCHANGED <<inventoryVars, eventVars, paid, boundVars>>

AwaitsApproval(w) == AtCall(w) /\ Mem(w).approval # 0

(* Nobody decided yet: the request is published and the run is over. *)
Pause(w) ==
    /\ AwaitsApproval(w) /\ approvals[Mem(w).approval].decision = "none"
    /\ asked' = asked \cup {Mem(w).approval}
    /\ EndRun(w)
    /\ UNCHANGED <<inventoryVars, ctx, shown, ended, paid, boundVars>>

(* A stored decision is decided again, which a cancellation refuses; a call  *)
(* that has its result only shows it.                                        *)
Consult(w) ==
    LET decision == approvals[Mem(w).approval].decision
    IN  /\ AwaitsApproval(w) /\ decision # "none"
        /\ At(w) \notin cancellations
        /\ Goto(w, IF Cursor(w).done THEN "saved"
                   ELSE IF decision = "yes" THEN "approved" ELSE "result")
        /\ UNCHANGED <<executionVars, inventoryVars, ctx, eventVars, paid, boundVars>>

Approved(w, tool) == run[w].pc = "approved" /\ Cursor(w).tool = tool

(* _execute_one: the stored result of an earlier attempt, the change, or an  *)
(* error (a conflict with the snapshot among them) that rolls back.          *)
ExecuteOne(w) ==
    LET n == Mem(w).approval
    IN  /\ Approved(w, "update")
        /\ Owns(At(w), w)
        /\ \/ /\ approvals[n].done
              /\ GotoHolding(w, "result", approvals[n].result)
              /\ UNCHANGED inventoryVars
           \/ /\ ApplyApproved(n, Step(w), w)
              /\ GotoHolding(w, "result", Cursor(w).targets)
           \/ /\ ~approvals[n].done
              /\ Goto(w, "rejecting")
              /\ UNCHANGED inventoryVars
        /\ UNCHANGED <<executionVars, ctx, eventVars, paid, boundVars>>

RejectOne(w) ==
    /\ run[w].pc = "rejecting"
    /\ RejectApproved(Mem(w).approval, Step(w), w)
    /\ Goto(w, "result")
    /\ UNCHANGED <<executionVars, ctx, eventVars, paid, boundVars>>

(* _execute_batch: its children are opened in one transaction ... *)
StartBatch(w) ==
    LET n == Mem(w).approval
    IN  /\ Approved(w, "bulk")
        /\ \/ /\ approvals[n].done
              /\ GotoHolding(w, "result", approvals[n].result)
              /\ UNCHANGED inventoryVars
           \/ OpenBatch(n) /\ GotoNext(w, "children", 1)
        /\ UNCHANGED <<executionVars, ctx, eventVars, paid, boundVars>>

(* ... executed one by one, each like a request of its own ... *)
ExecuteChild(w) ==
    LET n == Mem(w).approval
        p == run[w].next
    IN  /\ run[w].pc = "children" /\ p \in Parts
        /\ Owns(At(w), w)
        /\ \/ /\ ~ChildIsOpen(n, p)
              /\ GotoNext(w, "children", p + 1)
              /\ UNCHANGED inventoryVars
           \/ /\ ApplyChild(n, p, Step(w), w)
              /\ GotoNext(w, "children", p + 1)
           \/ /\ ChildIsOpen(n, p)
              /\ Goto(w, "rejectchild")
              /\ UNCHANGED inventoryVars
        /\ UNCHANGED <<executionVars, ctx, eventVars, paid, boundVars>>

RejectedChild(w) ==
    /\ run[w].pc = "rejectchild"
    /\ RejectChild(Mem(w).approval, run[w].next, Step(w), w)
    /\ GotoNext(w, "children", run[w].next + 1)
    /\ UNCHANGED <<executionVars, ctx, eventVars, paid, boundVars>>

(* ... and summed up in a result that names the parts that were changed. *)
EndBatch(w) ==
    LET n == Mem(w).approval
        changed == {p \in Parts : approvals[n].child[p] = "changed"}
    IN  /\ run[w].pc = "children" /\ run[w].next > NumParts
        /\ CloseBatch(n, Step(w), w, changed)
        /\ GotoHolding(w, "result", changed)
        /\ UNCHANGED <<executionVars, ctx, eventVars, paid, boundVars>>

-----------------------------------------------------------------------------
(* The other effects: additions with their receipt, paid lookups.            *)

(* _execute_addition: a new part may be one to enrich; a receipt gives the   *)
(* result it holds, the lost enrichment of an earlier run among them; and a  *)
(* stale run's ExecutionUnavailable is a ValueError, which the registry      *)
(* reports as a result.                                                      *)
ExecuteAddition(w) ==
    /\ CallIs(w, "add")
    /\ \/ Add(Step(w), w, TRUE) /\ Goto(w, "enrich")
       \/ Add(Step(w), w, FALSE) /\ GotoHolding(w, "result", {Stock})
       \/ /\ Owns(At(w), w) /\ Step(w) \in receipts
          /\ GotoHolding(w, IF Step(w) \in unenriched THEN "interrupted" ELSE "result", {Stock})
          /\ UNCHANGED inventoryVars
       \/ /\ ~Owns(At(w), w)
          /\ GotoHolding(w, "result", {})
          /\ UNCHANGED inventoryVars
    /\ UNCHANGED <<executionVars, ctx, eventVars, paid, boundVars>>

(* _enrich_added: a paid retrieval for the new part ... *)
Enrich(w) ==
    /\ run[w].pc = "enrich"
    /\ paid' = [paid EXCEPT ![Step(w)] = @ + 1]
    /\ Goto(w, "enriched")
    /\ UNCHANGED <<executionVars, inventoryVars, ctx, eventVars, boundVars>>

(* ... whose result replaces the one of the receipt. *)
SaveEnrichment(w) ==
    /\ run[w].pc = "enriched"
    /\ SaveEnriched(Step(w))
    /\ GotoHolding(w, "result", {Stock})
    /\ UNCHANGED <<executionVars, ctx, eventVars, paid, boundVars>>

(* Fault: the lost enrichment of an addition is forgotten. *)
InterruptedByName(w) ==
    \/ Cursor(w).retrieving
    \/ \E x \in Mem(w).lookups :
          x.interrupted /\ x.part \in Cursor(w).targets /\ x.tool = Cursor(w).tool

(* retrieval_started, or _lookup_interrupted: in this execution the same     *)
(* tool was interrupted for the part, or the enrichment of its addition,     *)
(* which is what a lookup would do again.                                    *)
Interrupted(w) ==
    \/ Cursor(w).retrieving
    \/ \E x \in Mem(w).lookups :
          /\ x.interrupted /\ x.part \in Cursor(w).targets
          /\ x.tool = Cursor(w).tool \/ (x.tool = "add" /\ Cursor(w).tool = "lookup")

AtRetrieval(w) == \E tool \in Retrievals : CallIs(w, tool)

ReportInterrupted(w) ==
    /\ AtRetrieval(w) /\ Interrupted(w)
    /\ Goto(w, "interrupted")
    /\ UNCHANGED <<executionVars, inventoryVars, ctx, eventVars, paid, boundVars>>

(* The intent to retrieve is saved first. *)
SaveRetrieval(w) ==
    /\ AtRetrieval(w) /\ ~Interrupted(w)
    /\ Save(w, "ready", [Mem(w) EXCEPT !.calls[Mem(w).index].retrieving = TRUE], "retrieve")
    /\ UNCHANGED <<inventoryVars, eventVars, paid, boundVars>>

(* The part is in the inventory: an addition of the execution may have put   *)
(* it there, and the model may name one that is not.                         *)
IsStored(w, p) ==
    p \in Parts \/ \E s \in receipts : s[1] = At(w) /\ p = AddedPart(s[2], s[3])

(* fetch_and_stage_specs, ingest_datasheet: the provider is paid, unless     *)
(* there is no such part ...                                                 *)
Retrieve(w) ==
    /\ run[w].pc = "retrieve"
    /\ \/ /\ \A p \in Cursor(w).targets : IsStored(w, p)
          /\ paid' = [paid EXCEPT ![Step(w)] = @ + 1]
          /\ Goto(w, "fetched")
       \/ /\ \E p \in Cursor(w).targets : ~IsStored(w, p)
          /\ Goto(w, "result")
          /\ UNCHANGED paid
    /\ UNCHANGED <<executionVars, inventoryVars, ctx, eventVars, boundVars>>

(* ... and what it found is staged for review, or nothing was found. *)
StageSpecs(w) ==
    /\ run[w].pc = "fetched"
    /\ \/ \E p \in Parts : p \in Cursor(w).targets /\ StageReview(p)
       \/ UNCHANGED inventoryVars
    /\ Goto(w, "result")
    /\ UNCHANGED <<executionVars, ctx, eventVars, paid, boundVars>>

-----------------------------------------------------------------------------
(* Result, publication, cursor, each durable before the next.                *)

(* What a result puts into the exchanges, as _lookup_interrupted reads it:   *)
(* the tool, the part it was for, or added, and whether it was interrupted.  *)
Exchange(w) ==
    LET part == IF Cursor(w).tool = "add" THEN {AddedPart(Mem(w).round, Mem(w).index)}
                ELSE IF Cursor(w).tool \in Retrievals THEN Cursor(w).targets
                ELSE {}
    IN  {[step |-> <<Mem(w).round, Mem(w).index>>, tool |-> Cursor(w).tool, part |-> p,
          interrupted |-> run[w].pc = "interrupted"] : p \in part}

SaveResult(w) ==
    /\ run[w].pc \in {"result", "interrupted"}
    /\ Save(w, "ready",
            [Mem(w) EXCEPT !.calls[Mem(w).index] =
                               [@ EXCEPT !.done = TRUE, !.result = run[w].held],
                           !.lookups = @ \cup Exchange(w)],
            "saved")
    /\ UNCHANGED <<inventoryVars, eventVars, paid, boundVars>>

(* append_once: the first event under the key of a step stays. *)
Show(step, claims) ==
    IF \E x \in shown : x[1] = step THEN UNCHANGED shown
                                    ELSE shown' = shown \cup {<<step, claims>>}

(* The result is published, by this run or by the one that resumes. *)
ShowResult(w) ==
    /\ run[w].pc = "saved" \/ (AtCall(w) /\ Mem(w).approval = 0 /\ Cursor(w).done)
    /\ Show(Step(w), Cursor(w).result)
    /\ Goto(w, "cursor")
    /\ UNCHANGED <<executionVars, inventoryVars, ctx, asked, ended, paid, boundVars>>

(* Fault: the approval of a call stays for the next one. *)
SaveCursorOnly(w) ==
    /\ run[w].pc = "cursor"
    /\ Save(w, "ready", [Mem(w) EXCEPT !.index = @ + 1], "begin")
    /\ UNCHANGED <<inventoryVars, eventVars, paid, boundVars>>

SaveCursor(w) ==
    /\ run[w].pc = "cursor"
    /\ Save(w, "ready", [Mem(w) EXCEPT !.index = @ + 1, !.approval = 0], "begin")
    /\ UNCHANGED <<inventoryVars, eventVars, paid, boundVars>>

-----------------------------------------------------------------------------
(* cancel: results that were committed are published, no tool runs.          *)

(* Fault: only results in the checkpoint are recovered. *)
CommittedInCheckpoint(w, i) ==
    IF Mem(w).calls[i].done THEN {Mem(w).calls[i].result} ELSE {}

(* The committed result of call i, if it has one: in the checkpoint, as the  *)
(* receipt of an addition, or with the approval of the call at the cursor.   *)
Committed(w, i) ==
    LET m == Mem(w)
    IN  IF m.calls[i].done THEN {m.calls[i].result}
        ELSE IF StepOf(w, i) \in receipts THEN {{Stock}}
        ELSE IF m.approval # 0 /\ i = m.index /\ approvals[m.approval].done
             THEN {approvals[m.approval].result}
        ELSE {}

CancelsCall(w) ==
    run[w].pc = "cancelling" /\ Mem(w).pending /\ run[w].next <= Len(Mem(w).calls)

Recover(w) ==
    LET i == run[w].next
    IN  /\ CancelsCall(w)
        /\ \/ \E claims \in Committed(w, i) : Show(StepOf(w, i), claims)
           \/ Committed(w, i) = {} /\ UNCHANGED shown
        /\ GotoNext(w, "cancelling", i + 1)
        /\ UNCHANGED <<executionVars, inventoryVars, ctx, asked, ended, paid, boundVars>>

SaveCancelled(w) ==
    /\ run[w].pc = "cancelling" /\ ~CancelsCall(w)
    /\ Save(w, "cancelled", Mem(w), "publishing")
    /\ UNCHANGED <<inventoryVars, eventVars, paid, boundVars>>

-----------------------------------------------------------------------------
UserStep ==
    \/ \E e \in Executions : Accept(e) \/ Cancel(e)
    \/ \E n \in 1..Len(approvals), decision \in {"yes", "no"} : Decide(n, decision)

Environment ==
    \/ \E p \in Parts : EditPart(p)
    \/ \E e \in Executions : ExpireExecution(e)
    \/ \E w \in Workers : Crash(w)

TurnStep(w) ==
    SaveTurn(w) \/ GiveUp(w) \/ Complete(w) \/ ClearTurn(w)

ApprovalStep(w) ==
    \/ Request(w) \/ SaveAwaiting(w) \/ Pause(w) \/ Consult(w) \/ ExecuteOne(w) \/ RejectOne(w)
    \/ StartBatch(w) \/ ExecuteChild(w) \/ RejectedChild(w) \/ EndBatch(w)

EffectStep(w) ==
    \/ ExecuteAddition(w) \/ Enrich(w) \/ SaveEnrichment(w)
    \/ ReportInterrupted(w) \/ SaveRetrieval(w) \/ Retrieve(w) \/ StageSpecs(w)

ResultStep(w) ==
    SaveResult(w) \/ ShowResult(w) \/ SaveCursor(w) \/ Recover(w) \/ SaveCancelled(w)

RunStep(w) ==
    \/ BeginStage(w) \/ Leave(w) \/ Publish(w)
    \/ \E e \in Executions : Start(w, e)
    \/ TurnStep(w) \/ ApprovalStep(w) \/ EffectStep(w) \/ ResultStep(w)

Next == UserStep \/ Environment \/ \E w \in Workers : RunStep(w)

Spec == Init /\ [][Next]_vars

-----------------------------------------------------------------------------
(* What the runtime promises of its tool calls (ToolPromise.tla): each call  *)
(* changes a target at most once, although runs die between an effect, the   *)
(* checkpoint that knows of it and the event that shows it, and although a   *)
(* run that lost its lease goes on; what is shown is what was changed; and   *)
(* nothing is changed or shown once the outcome is saved.                    *)
Promise == INSTANCE ToolPromise WITH
    Calls <- Steps, ExecutionOf <- [s \in Steps |-> s[1]],
    changed <- effects, told <- shown,
    over <- {e \in Executions : exec[e].status \in Terminal}

EffectsAreOnceAndShownTruly == Promise!Spec

(* A part is changed by an approved call only as the user was shown it: the  *)
(* request was published, granted, and the part is still the same, whatever  *)
(* edits and staged reviews came between the request and the effect.         *)
ApprovedAsShown ==
    [][\A s \in Steps, p \in Parts : effects'[<<s, p>>] # effects[<<s, p>>] =>
          \E n \in asked : /\ approvals[n].for = s /\ approvals[n].decision = "yes"
                           /\ p \in approvals[n].targets
                           /\ approvals[n].snapshot[p] = content[p]]_effects

(* An outcome hides nothing: when an execution ends, the conversation shows  *)
(* the result of every call that changed something, also when it was         *)
(* cancelled between the effect and the checkpoint that knows of it.         *)
NothingHidden ==
    \A s \in Steps, t \in Targets :
        exec[s[1]].status \in Terminal /\ effects[<<s, t>>] > 0 =>
            \E x \in shown : x[1] = s

(* A stage authorised before the cancellation may finish, no later one       *)
(* starts: after a cancellation at most one call still changes something.    *)
OneCallAfterCancel ==
    \A s1, s2 \in late : s1[1] = s2[1] => s1 = s2

(* The approval of a checkpoint is that of the call at its cursor, so the    *)
(* decision of one call never executes another.                              *)
ApprovalIsForTheCursor ==
    \A e \in Executions :
        ctx[e].approval # 0 =>
            /\ approvals[ctx[e].approval].for = <<e, ctx[e].round, ctx[e].index>>
            /\ ctx[e].pending /\ ctx[e].index <= Len(ctx[e].calls)
            /\ approvals[ctx[e].approval].targets = ctx[e].calls[ctx[e].index].targets

(* No paid retrieval is repeated behind the user's back: a call is paid for  *)
(* at most once; and once a tool was interrupted for a part, no later call   *)
(* of that tool in the execution pays for it, in this turn or in a later     *)
(* one, nor does a lookup of a part whose enrichment was lost.               *)
RetrievalIsNotRepeated ==
    [][\A w \in Workers, s \in Steps :
          Step(w) = s /\ paid'[s] # paid[s] =>
              /\ paid[s] = 0
              /\ \A x \in ctx[At(w)].lookups :
                    x.interrupted /\ x.part \in Cursor(w).targets
                    /\ (x.tool = Cursor(w).tool \/ (x.tool = "add" /\ Cursor(w).tool = "lookup"))
                    => x.step[1] > s[2] \/ (x.step[1] = s[2] /\ x.step[2] >= s[3])]_paid
=============================================================================
