------------------------------ MODULE Dispatch ------------------------------
(***************************************************************************)
(* Durable stage delivery: the agent_dispatch queue and webhook inbox of   *)
(* db/postgres/dispatch.py, the deliveries of agent_runtime/dispatch.py,   *)
(* and the workers that advance one stage of the runtime per delivery.     *)
(*                                                                         *)
(* A stage is one call of OpenAIResponsesRuntime._run with single_step, in *)
(* live or in background mode.  What it computes (which tools, which       *)
(* effects) is left to AgentRuntime; kept here are its claim, its stage    *)
(* authorisations, its checkpoints, its publications and its release, in   *)
(* their order, each of which is a transaction of its own between which    *)
(* every other actor may move, a lease may expire or the process may die.  *)
(*                                                                         *)
(* Times are abstracted to what the SQL compares: available_at is NULL, in *)
(* the future or due, and lease_until > now is a Boolean.                  *)
(***************************************************************************)
EXTENDS Executions, Naturals

CONSTANTS
    MaxFailures,    \* MAX_FAILURES: consecutive failures that park a row
    MaxRounds,      \* max_tool_turns: model responses of one execution
    MaxCalls,       \* bound: tool calls in one model response
    MaxWakes,       \* bound: wake_version
    MaxCrashes,     \* bound: processes that die in the middle of a delivery
    MaxExpiries,    \* bound: leases that expire under a running worker
    Stalls          \* may a process sleep through its whole delivery lease
                    \* between claiming a delivery and claiming its execution

ASSUME BoundsAreNatural ==
    /\ MaxFailures \in Nat \ {0}
    /\ MaxRounds \in Nat \ {0}
    /\ MaxCalls \in Nat
    /\ MaxWakes \in Nat
    /\ MaxCrashes \in Nat
    /\ MaxExpiries \in Nat
    /\ Stalls \in BOOLEAN

VARIABLES
    row,            \* agent_dispatch, one row per enrolled execution
    inbox,          \* agent_webhook_inbox: <<execution, response>> received
    consumed,       \* the inbox rows with consumed = 1
    ctx,            \* the part of context_json that decides the next stage
    submitted,      \* provider: responses started for an execution
    finished,       \* provider: <<execution, response>> with a final status
    notified,       \* provider: <<execution, response>> it called back about
    published,      \* executions whose `terminal' event is in the log
    paused,         \* <<execution, round, call>> whose `paused' event is
    notices,        \* <<execution, wake_version>> whose `blocked' event is
    run,            \* the runs: program counter, delivery, local values
    crashes,        \* processes that died so far
    expiries        \* leases that expired under a running worker so far

rowVars == <<row, inbox, consumed>>
providerVars == <<submitted, finished, notified>>
eventVars == <<published, paused, notices>>
boundVars == <<crashes, expiries>>
vars == <<executionVars, rowVars, ctx, providerVars, eventVars, run, boundVars>>

(* Where a run can be inside run_delivery and _run; "noticing" is the       *)
(* worker publishing the parked rows.                                      *)
Delivering == {"reserved", "claimed", "begin", "working", "posting", "posted",
               "collected", "waiting", "answered", "resulted", "spent", "advanced",
               "completing", "failing", "savefailed", "pausing", "cancelling", "publishing",
               "returning", "raising", "acking", "nacking", "busy"}
Idle == [pc |-> "idle", at |-> Nobody, seen |-> 0, holding |-> 0]

DispatchRow ==
    [enrolled : BOOLEAN, available_at : {"null", "later", "due"},
     token : Owner, leased : BOOLEAN, wake_version : Nat, failures : Nat,
     blocked : BOOLEAN, settled : BOOLEAN, response_id : Nat]
Context ==
    [started : BOOLEAN,                         \* model_submission_started
     round : Nat,                               \* model responses saved
     pending : {"none", "calls",                \* pending: calls are left,
                "spent", "answer"},             \* every call is done, no calls
     call_index : Nat,                          \* the cursor in its calls
     result : BOOLEAN,                          \* the call at the cursor has one
     approval : {"none", "pending", "decided"}] \* approval_id and its decision
Run ==
    [pc : Delivering \cup {"idle", "noticing"},
     at : Executions \cup {Nobody},     \* delivery.execution_id
     seen : Nat,            \* delivery.wake_version
     holding : Nat]         \* the response id it was given or asks about

RowsTypeOK ==
    /\ row \in [Executions -> DispatchRow]
    /\ inbox \subseteq Executions \X Nat
    /\ consumed \subseteq inbox
ContextTypeOK == ctx \in [Executions -> Context]
ProviderTypeOK ==
    /\ submitted \in [Executions -> Nat]
    /\ finished \subseteq Executions \X Nat
    /\ notified \subseteq finished
EventsTypeOK ==
    /\ published \subseteq Executions
    /\ paused \subseteq Executions \X Nat \X Nat
    /\ notices \subseteq Executions \X Nat
RunsTypeOK ==
    /\ run \in [Workers -> Run]
    /\ \A w \in Workers : run[w].pc \in Delivering => run[w].at \in Executions

(* Type invariant of the module. *)
TypeOK ==
    /\ ExecutionsTypeOK
    /\ RowsTypeOK
    /\ ContextTypeOK
    /\ ProviderTypeOK
    /\ EventsTypeOK
    /\ RunsTypeOK
    /\ crashes \in Nat /\ expiries \in Nat

Init ==
    /\ ExecutionsInit
    /\ row = [e \in Executions |->
                [enrolled |-> FALSE, available_at |-> "null", token |-> Nobody,
                 leased |-> FALSE, wake_version |-> 0, failures |-> 0,
                 blocked |-> FALSE, settled |-> FALSE, response_id |-> 0]]
    /\ inbox = {} /\ consumed = {}
    /\ ctx = [e \in Executions |->
                [started |-> FALSE, round |-> 0, pending |-> "none", call_index |-> 0,
                 result |-> FALSE, approval |-> "none"]]
    /\ submitted = [e \in Executions |-> 0]
    /\ finished = {} /\ notified = {}
    /\ published = {} /\ paused = {} /\ notices = {}
    /\ run = [w \in Workers |-> Idle]
    /\ crashes = 0 /\ expiries = 0

(* Run w moves on within its delivery. *)
Goto(w, pc) == run' = [run EXCEPT ![w] = [@ EXCEPT !.pc = pc]]
GotoHolding(w, pc, n) == run' = [run EXCEPT ![w] = [@ EXCEPT !.pc = pc, !.holding = n]]
Take(w, e, pc, v) == run' = [run EXCEPT ![w] = [pc |-> pc, at |-> e, seen |-> v, holding |-> 0]]
At(w) == run[w].at

-----------------------------------------------------------------------------
(* Fragments of db/postgres/dispatch.py: methods called inside another unit. *)

(* The INSERT of accept: a row that is due, reserved for the host that holds *)
(* the photo when there is one.                                              *)
EnrolledRow(owner) ==
    [enrolled |-> TRUE, available_at |-> "due", token |-> owner,
     leased |-> owner # Nobody, wake_version |-> 0, failures |-> 0,
     blocked |-> FALSE, settled |-> FALSE, response_id |-> 0]

(* Fault: a notification is consumed without being looked for. *)
CheckpointConsumesBlindly(e, response, s) ==
    /\ row' = [row EXCEPT ![e] = [@ EXCEPT
                 !.response_id = response,
                 !.available_at = IF s = "waiting_model" THEN "later" ELSE "due",
                 !.settled = FALSE]]
    /\ consumed' = consumed \cup {<<e, response>>}
    /\ UNCHANGED inbox

(* checkpoint, called by save.  Runs reach save only through a delivery, so  *)
(* the row exists.  An unconsumed notification for the saved response makes  *)
(* the row due and is consumed.                                              *)
Checkpoint(e, response, s) ==
    LET early == response # 0 /\ <<e, response>> \in inbox \ consumed
        polls == s = "waiting_model" /\ e \notin cancellations /\ ~early
    IN  /\ row' = [row EXCEPT ![e] = [@ EXCEPT
                     !.response_id = response,
                     !.available_at = IF polls THEN "later" ELSE "due",
                     !.settled = FALSE]]
        /\ consumed' = IF early THEN consumed \cup {<<e, response>>} ELSE consumed
        /\ UNCHANGED inbox

(* Fault: a wake that trusts the row to be due already. *)
WokenWithoutDue(r) ==
    [r EXCEPT !.enrolled = TRUE, !.blocked = FALSE, !.wake_version = @ + 1,
              !.failures = 0, !.settled = FALSE]

(* wake: enrols a missing row, makes it due, invalidates running deliveries' *)
(* acknowledgements.  Token and lease of a running delivery stay.            *)
Woken(r) ==
    [r EXCEPT !.enrolled = TRUE, !.available_at = "due", !.blocked = FALSE,
              !.wake_version = @ + 1, !.failures = 0, !.settled = FALSE]

(* _match: a notification wakes the row waiting for its response. *)
Matches(e, response) ==
    row[e].enrolled /\ row[e].response_id = response /\ ~row[e].blocked
Matched(r) == [r EXCEPT !.available_at = "due", !.wake_version = @ + 1]

(* save: checkpoint and next delivery in one unit. *)
Save(w, s, response) ==
    /\ SaveStatus(At(w), w, s)
    /\ Checkpoint(At(w), response, s)
    /\ UNCHANGED cancellations

-----------------------------------------------------------------------------
(* Intake and the user's operations: server.py and DurableDispatch.          *)

(* submit without a photo: prepare and the dispatch row in one unit.  An     *)
(* execution prepared earlier without delivery is enrolled by its repeat.    *)
Submit(e) ==
    /\ \/ Prepare(e)
       \/ exec[e].status # "absent" /\ ~row[e].enrolled /\ UNCHANGED exec
    /\ row' = [row EXCEPT ![e] = EnrolledRow(Nobody)]
    /\ UNCHANGED <<cancellations, inbox, consumed, ctx, providerVars, eventVars, run, boundVars>>

(* submit with a photo: the row is reserved for HTTP host w. *)
SubmitPhoto(e, w) ==
    /\ run[w] = Idle
    /\ Prepare(e)
    /\ row' = [row EXCEPT ![e] = EnrolledRow(w)]
    /\ Take(w, e, "reserved", 0)
    /\ UNCHANGED <<cancellations, inbox, consumed, ctx, providerVars, eventVars, boundVars>>

(* gateway.prepare without durable delivery: an execution with no row. *)
PrepareOnly(e) ==
    /\ Prepare(e)
    /\ UNCHANGED <<cancellations, rowVars, ctx, providerVars, eventVars, run, boundVars>>

(* resume: refused once cancellation is requested. *)
Resume(e) ==
    /\ exec[e].status # "absent"
    /\ e \notin cancellations
    /\ row[e].wake_version < MaxWakes
    /\ row' = [row EXCEPT ![e] = Woken(@)]
    /\ UNCHANGED <<executionVars, inbox, consumed, ctx, providerVars, eventVars, run, boundVars>>

(* resume with a photo: wake and claim in one unit, by HTTP host w; a row    *)
(* whose lease is live is only woken.                                        *)
ResumePhoto(e, w) ==
    /\ run[w] = Idle
    /\ exec[e].status # "absent"
    /\ e \notin cancellations
    /\ row[e].wake_version < MaxWakes
    /\ ~row[e].leased
    /\ row' = [row EXCEPT ![e] = [Woken(@) EXCEPT !.token = w, !.leased = TRUE]]
    /\ Take(w, e, "claimed", row[e].wake_version + 1)
    /\ UNCHANGED <<executionVars, inbox, consumed, ctx, providerVars, eventVars, boundVars>>

(* decide: decision and wake in one unit, on the approval the execution has  *)
(* saved.  Repeating a decision only wakes, which is Resume.                 *)
Decide(e) ==
    /\ ctx[e].approval = "pending"
    /\ e \notin cancellations
    /\ row[e].wake_version < MaxWakes
    /\ ctx' = [ctx EXCEPT ![e] = [@ EXCEPT !.approval = "decided"]]
    /\ row' = [row EXCEPT ![e] = Woken(@)]
    /\ UNCHANGED <<executionVars, inbox, consumed, providerVars, eventVars, run, boundVars>>

(* Fault: the request to cancel is recorded without waking the delivery. *)
CancelWithoutWake(e) ==
    /\ RecordCancellation(e)
    /\ UNCHANGED <<exec, rowVars, ctx, providerVars, eventVars, run, boundVars>>

(* cancel: request_cancellation, its event and the wake in one unit; a       *)
(* repeated request wakes again.                                             *)
Cancel(e) ==
    /\ RecordCancellation(e)
    /\ row[e].wake_version < MaxWakes
    /\ row' = [row EXCEPT ![e] = Woken(@)]
    /\ UNCHANGED <<exec, inbox, consumed, ctx, providerVars, eventVars, run, boundVars>>

-----------------------------------------------------------------------------
(* The provider and its callbacks (external), and the passage of time.       *)

(* A background response reaches a final status. *)
ProviderFinish(e, n) ==
    /\ n \in 1..submitted[e] /\ <<e, n>> \notin finished
    /\ finished' = finished \cup {<<e, n>>}
    /\ UNCHANGED <<executionVars, rowVars, ctx, submitted, notified, eventVars, run, boundVars>>

(* notify: the inbox row and the matching wake in one unit.  A response      *)
(* nobody waits for yet waits in the inbox.  The provider retries a callback *)
(* under the same event id for days, less than the inbox keeps it: a repeat  *)
(* changes nothing.                                                          *)
Notify(e, n) ==
    /\ <<e, n>> \in finished \ notified
    /\ row[e].wake_version < MaxWakes
    /\ notified' = notified \cup {<<e, n>>}
    /\ inbox' = inbox \cup {<<e, n>>}
    /\ \/ /\ Matches(e, n)
          /\ row' = [row EXCEPT ![e] = Matched(@)]
          /\ consumed' = consumed \cup {<<e, n>>}
       \/ ~Matches(e, n) /\ UNCHANGED <<row, consumed>>
    /\ UNCHANGED <<executionVars, ctx, submitted, finished, eventVars, run, boundVars>>

(* available_at passes. *)
BecomeDue(e) ==
    /\ row[e].available_at = "later"
    /\ row' = [row EXCEPT ![e] = [@ EXCEPT !.available_at = "due"]]
    /\ UNCHANGED <<executionVars, inbox, consumed, ctx, providerVars, eventVars, run, boundVars>>

(* lease_until of a delivery passes, under a dead or a slow process. *)
ExpireDelivery(e) ==
    /\ row[e].leased
    /\ \/ row[e].token \notin Workers /\ UNCHANGED expiries
       \/ /\ row[e].token \in Workers /\ expiries < MaxExpiries
          /\ Stalls \/ run[row[e].token].pc # "claimed"
          /\ expiries' = expiries + 1
    /\ row' = [row EXCEPT ![e] = [@ EXCEPT !.leased = FALSE]]
    /\ UNCHANGED <<executionVars, inbox, consumed, ctx, providerVars, eventVars, run, crashes>>

(* lease_until of an execution passes. *)
ExpireExecution(e) ==
    /\ ExpireLease(e)
    /\ \/ exec[e].worker_id \notin Workers /\ UNCHANGED expiries
       \/ exec[e].worker_id \in Workers /\ expiries < MaxExpiries /\ expiries' = expiries + 1
    /\ UNCHANGED <<cancellations, rowVars, ctx, providerVars, eventVars, run, crashes>>

(* The process of run w dies; its token and worker_id name nobody any more. *)
Crash(w) ==
    /\ run[w] # Idle
    /\ crashes < MaxCrashes
    /\ crashes' = crashes + 1
    /\ LoseOwner(w)
    /\ row' = [e \in Executions |-> IF row[e].token = w THEN [row[e] EXCEPT !.token = Lost]
                                                        ELSE row[e]]
    /\ run' = [run EXCEPT ![w] = Idle]
    /\ UNCHANGED <<cancellations, inbox, consumed, ctx, providerVars, eventVars, expiries>>

-----------------------------------------------------------------------------
(* Claiming a delivery and starting the runtime.                             *)

(* claim with the reservation token: the host runs the stage it reserved,    *)
(* unless the reservation expired meanwhile.                                 *)
ClaimReserved(w) ==
    LET e == At(w)
    IN  /\ run[w].pc = "reserved"
        /\ \/ /\ row[e].token = w /\ row[e].leased
              /\ Take(w, e, "claimed", row[e].wake_version)
           \/ /\ ~(row[e].token = w /\ row[e].leased)
              /\ run' = [run EXCEPT ![w] = Idle]
        /\ UNCHANGED <<executionVars, rowVars, ctx, providerVars, eventVars, boundVars>>

(* run_once: has_due and claim of a row that is due and not leased. *)
Deliverable(e) ==
    /\ row[e].enrolled /\ ~row[e].blocked
    /\ row[e].available_at = "due" /\ ~row[e].leased
ClaimDelivery(w, e) ==
    /\ run[w] = Idle
    /\ Deliverable(e)
    /\ row' = [row EXCEPT ![e] = [@ EXCEPT !.token = w, !.leased = TRUE]]
    /\ Take(w, e, "claimed", row[e].wake_version)
    /\ UNCHANGED <<executionVars, inbox, consumed, ctx, providerVars, eventVars, boundVars>>

(* executions.claim at the start of _run: a terminal record is only          *)
(* published again, a live lease raises ExecutionBusy.                       *)
StartRun(w) ==
    LET e == At(w)
    IN  /\ run[w].pc = "claimed"
        /\ \/ exec[e].status \in Terminal /\ Goto(w, "publishing") /\ UNCHANGED exec
           \/ exec[e].status \notin Terminal /\ Busy(e) /\ Goto(w, "busy") /\ UNCHANGED exec
           \/ ClaimExecution(e, w) /\ Goto(w, "begin")
        /\ UNCHANGED <<cancellations, rowVars, ctx, providerVars, eventVars, boundVars>>

(* Fault: a stage starts although its execution is to be cancelled. *)
BeginStageRegardless(w) ==
    LET e == At(w)
    IN  /\ run[w].pc = "begin"
        /\ Owns(e, w)
        /\ Goto(w, IF ctx[e].pending = "answer" THEN "completing"
                   ELSE IF ctx[e].approval = "pending" THEN "pausing"
                   ELSE "working")
        /\ UNCHANGED <<executionVars, rowVars, ctx, providerVars, eventVars, boundVars>>

(* The begin_stage calls at the start of a stage and the reads that follow:  *)
(* a turn without calls completes, an undecided approval pauses.             *)
BeginStage(w) ==
    LET e == At(w)
    IN  /\ run[w].pc = "begin"
        /\ Owns(e, w)
        /\ Goto(w, IF e \in cancellations THEN "cancelling"
                   ELSE IF ctx[e].pending = "answer" THEN "completing"
                   ELSE IF ctx[e].approval = "pending" THEN "pausing"
                   ELSE "working")
        /\ UNCHANGED <<executionVars, rowVars, ctx, providerVars, eventVars, boundVars>>

-----------------------------------------------------------------------------
(* One stage of _run: a model response is needed or a call is pending.       *)
NeedsModel(w) == run[w].pc = "working" /\ ctx[At(w)].pending = "none"
NeedsTool(w) == run[w].pc = "working" /\ ctx[At(w)].pending = "calls"

(* Fault: an intent found in the checkpoint is posted again. *)
SaveIntentAgain(w) ==
    LET e == At(w)
    IN  /\ NeedsModel(w) /\ ctx[e].round < MaxRounds
        /\ Save(w, "ready", 0)
        /\ ctx' = [ctx EXCEPT ![e] = [@ EXCEPT !.started = TRUE]]
        /\ Goto(w, "posting")
        /\ UNCHANGED <<providerVars, eventVars, boundVars>>

(* Model stage, first half: submission intent is saved before the POST. *)
SaveIntent(w) ==
    LET e == At(w)
    IN  /\ NeedsModel(w) /\ ~ctx[e].started /\ ctx[e].round < MaxRounds
        /\ Save(w, "ready", 0)
        /\ ctx' = [ctx EXCEPT ![e] = [@ EXCEPT !.started = TRUE]]
        /\ Goto(w, "posting")
        /\ UNCHANGED <<providerVars, eventVars, boundVars>>

(* transport.start returns a response id, transport.complete a turn; a       *)
(* request over budget or a response that did not complete is a              *)
(* ModelBudgetError.                                                         *)
Post(w) ==
    LET e == At(w)
    IN  /\ run[w].pc = "posting"
        /\ \/ /\ submitted' = [submitted EXCEPT ![e] = @ + 1]
              /\ GotoHolding(w, "posted", submitted[e] + 1)
           \/ Goto(w, "collected") /\ UNCHANGED submitted
           \/ Goto(w, "failing") /\ UNCHANGED submitted
        /\ UNCHANGED <<executionVars, rowVars, ctx, finished, notified, eventVars, boundVars>>

(* Model stage, second half: transport.retrieve of the saved response.  An   *)
(* intent without a response id, or a response the provider no longer has or *)
(* did not complete, is a ModelBudgetError: it is never posted again.        *)
Collect(w) ==
    LET e == At(w)
        n == row[e].response_id
    IN  /\ NeedsModel(w) /\ ctx[e].started
        /\ \/ n # 0 /\ <<e, n>> \in finished /\ Goto(w, "collected")
           \/ n # 0 /\ <<e, n>> \notin finished /\ GotoHolding(w, "waiting", n)
           \/ Goto(w, "failing")
        /\ UNCHANGED <<executionVars, rowVars, ctx, providerVars, eventVars, boundVars>>

(* The response id, or the fact that it is still generating, is saved. *)
SaveWaiting(w) ==
    /\ run[w].pc \in {"posted", "waiting"}
    /\ Save(w, "waiting_model", run[w].holding)
    /\ Goto(w, "returning")
    /\ UNCHANGED <<ctx, providerVars, eventVars, boundVars>>

(* The model output is saved before any tool runs. *)
SaveTurn(w) ==
    LET e == At(w)
    IN  /\ run[w].pc = "collected"
        /\ Save(w, "ready", 0)
        /\ \E kind \in {"calls", "answer"} :
             /\ kind = "calls" => MaxCalls > 0
             /\ ctx' = [ctx EXCEPT ![e] = [@ EXCEPT
                          !.started = FALSE, !.round = ctx[e].round + 1, !.pending = kind,
                          !.call_index = 0]]
        /\ Goto(w, "answered")
        /\ UNCHANGED <<providerVars, eventVars, boundVars>>

(* Tool stage: the result is saved before it is published.  The intent a     *)
(* paid retrieval saves first changes nothing the next delivery looks at.    *)
SaveResult(w) ==
    LET e == At(w)
    IN  /\ NeedsTool(w)
        /\ IF ctx[e].result
           THEN UNCHANGED <<executionVars, rowVars, ctx>>
           ELSE /\ Save(w, "ready", 0)
                /\ ctx' = [ctx EXCEPT ![e] = [@ EXCEPT !.result = TRUE]]
        /\ Goto(w, "resulted")
        /\ UNCHANGED <<providerVars, eventVars, boundVars>>

(* The cursor passes the call and its approval is used up.                   *)
SaveCursor(w) ==
    LET e == At(w)
    IN  /\ run[w].pc = "resulted"
        /\ Save(w, "ready", 0)
        /\ \E kind \in {"calls", "spent"} :
             /\ kind = "calls" => ctx[e].call_index + 1 < MaxCalls
             /\ ctx' = [ctx EXCEPT ![e] = [@ EXCEPT
                          !.pending = kind, !.call_index = ctx[e].call_index + 1, !.result = FALSE,
                          !.approval = "none"]]
             /\ Goto(w, IF kind = "calls" THEN "advanced" ELSE "spent")
        /\ UNCHANGED <<providerVars, eventVars, boundVars>>

(* After the last call of a response the turn is cleared in a save of its    *)
(* own; a delivery that starts with it goes on to ask the model.             *)
ClearTurn(w) ==
    LET e == At(w)
    IN  /\ run[w].pc = "spent" \/ (run[w].pc = "working" /\ ctx[e].pending = "spent")
        /\ Save(w, "ready", 0)
        /\ ctx' = [ctx EXCEPT ![e] = [@ EXCEPT !.pending = "none"]]
        /\ Goto(w, IF run[w].pc = "spent" THEN "advanced" ELSE "begin")
        /\ UNCHANGED <<providerVars, eventVars, boundVars>>

(* A tool that needs approval: the request is saved, the loop starts over. *)
SaveAwaiting(w) ==
    LET e == At(w)
    IN  /\ NeedsTool(w) /\ ctx[e].approval = "none" /\ ~ctx[e].result
        /\ Save(w, "awaiting_approval", 0)
        /\ ctx' = [ctx EXCEPT ![e] = [@ EXCEPT !.approval = "pending"]]
        /\ Goto(w, "begin")
        /\ UNCHANGED <<providerVars, eventVars, boundVars>>

(* The begin_stage after a stage: a turn without calls completes, otherwise  *)
(* single_step returns.                                                      *)
Continue(w) ==
    LET e == At(w)
    IN  /\ run[w].pc \in {"answered", "advanced"}
        /\ Owns(e, w)
        /\ Goto(w, IF e \in cancellations THEN "cancelling"
                   ELSE IF ctx[e].pending = "answer" THEN "completing"
                   ELSE "returning")
        /\ UNCHANGED <<executionVars, rowVars, ctx, providerVars, eventVars, boundVars>>

SaveCompleted(w) ==
    /\ run[w].pc = "completing"
    /\ Save(w, "completed", 0)
    /\ Goto(w, "publishing")
    /\ UNCHANGED <<ctx, providerVars, eventVars, boundVars>>

(* The tool-loop limit fails the execution; so does, before the first        *)
(* submission, a photo nobody holds any more, and one that differs from the  *)
(* accepted photo is a ModelBudgetError.                                     *)
GiveUp(w) ==
    LET e == At(w)
    IN  /\ NeedsModel(w) /\ ~ctx[e].started
        /\ \/ ctx[e].round >= MaxRounds /\ Goto(w, "savefailed")
           \/ ctx[e].round = 0 /\ \E pc \in {"savefailed", "failing"} : Goto(w, pc)
        /\ UNCHANGED <<executionVars, rowVars, ctx, providerVars, eventVars, boundVars>>

(* except ModelBudgetError: a requested cancellation goes first. *)
HandleBudgetError(w) ==
    LET e == At(w)
    IN  /\ run[w].pc = "failing"
        /\ \/ e \in cancellations /\ Goto(w, "cancelling")
           \/ e \notin cancellations /\ Goto(w, "savefailed")
        /\ UNCHANGED <<executionVars, rowVars, ctx, providerVars, eventVars, boundVars>>

SaveFailed(w) ==
    /\ run[w].pc = "savefailed"
    /\ Save(w, "failed", row[At(w)].response_id)
    /\ Goto(w, "publishing")
    /\ UNCHANGED <<ctx, providerVars, eventVars, boundVars>>

(* cancel(): a known response is cancelled at the provider, then the outcome *)
(* is saved with its response id kept.                                       *)
SaveCancelled(w) ==
    /\ run[w].pc = "cancelling"
    /\ Save(w, "cancelled", row[At(w)].response_id)
    /\ Goto(w, "publishing")
    /\ UNCHANGED <<ctx, providerVars, eventVars, boundVars>>

-----------------------------------------------------------------------------
(* Publication, release and acknowledgement.                                 *)

(* terminal(): append_once of the final event. *)
PublishTerminal(w) ==
    /\ run[w].pc = "publishing"
    /\ published' = published \cup {At(w)}
    /\ Goto(w, "returning")
    /\ UNCHANGED <<executionVars, rowVars, ctx, providerVars, paused, notices, boundVars>>

(* approval_request and the paused `completed' event. *)
PublishPause(w) ==
    /\ run[w].pc = "pausing"
    /\ paused' = paused \cup {<<At(w), ctx[At(w)].round, ctx[At(w)].call_index>>}
    /\ Goto(w, "returning")
    /\ UNCHANGED <<executionVars, rowVars, ctx, providerVars, published, notices, boundVars>>

(* Any exception: provider, storage, a lease another worker took over. *)
Raise(w) ==
    /\ run[w].pc \in {"begin", "working", "posting", "posted", "collected", "waiting",
                      "answered", "resulted", "spent", "advanced", "completing", "failing",
                      "savefailed", "pausing", "cancelling", "publishing"}
    /\ Goto(w, "raising")
    /\ UNCHANGED <<executionVars, rowVars, ctx, providerVars, eventVars, boundVars>>

(* finally: release. *)
EndRun(w) ==
    /\ run[w].pc \in {"returning", "raising"}
    /\ Release(At(w), w)
    /\ Goto(w, IF run[w].pc = "returning" THEN "acking" ELSE "nacking")
    /\ UNCHANGED <<cancellations, rowVars, ctx, providerVars, eventVars, boundVars>>

(* Fault: an acknowledgement settles the row whatever came since its claim. *)
FinishedWhateverCame(r, w, e) ==
    LET over == run[w].pc = "acking"
                  /\ exec[e].status \in Terminal \cup {"awaiting_approval"}
    IN  [r EXCEPT !.token = Nobody, !.leased = FALSE, !.settled = @ \/ over,
                  !.available_at = IF over THEN "null" ELSE @]

(* Fault: a failed delivery backs off without being counted. *)
FinishedUncounted(r, w, e) ==
    LET current == r.wake_version = run[w].seen
        over == run[w].pc = "acking" /\ current
                  /\ exec[e].status \in Terminal \cup {"awaiting_approval"}
    IN  [r EXCEPT !.token = Nobody, !.leased = FALSE, !.blocked = FALSE, !.settled = @ \/ over,
                  !.available_at = IF over THEN "null"
                                   ELSE IF run[w].pc # "acking" /\ current THEN "later" ELSE @]

(* finish: an acknowledgement counts only under its own live lease, and      *)
(* settles, backs off or parks the row only if no wake came since the claim. *)
Finished(r, w, e) ==
    LET pc == run[w].pc
        f == CASE pc = "acking"  -> 0
               [] pc = "nacking" -> r.failures + 1
               [] OTHER          -> r.failures
        current == r.wake_version = run[w].seen
        parked == f >= MaxFailures /\ current
        over == pc = "acking" /\ current
                  /\ exec[e].status \in Terminal \cup {"awaiting_approval"}
    IN  [r EXCEPT !.token = Nobody, !.leased = FALSE, !.failures = f,
                  !.blocked = parked, !.settled = @ \/ over,
                  !.available_at = IF over \/ parked THEN "null"
                                   ELSE IF pc # "acking" /\ current THEN "later" ELSE @]

(* Fault: a late acknowledgement clears the lease of a replacement. *)
FinishUnfenced(w) ==
    LET e == At(w)
    IN  /\ run[w].pc \in {"acking", "nacking", "busy"}
        /\ row' = [row EXCEPT ![e] = Finished(@, w, e)]
        /\ run' = [run EXCEPT ![w] = Idle]
        /\ UNCHANGED <<executionVars, inbox, consumed, ctx, providerVars, eventVars, boundVars>>

(* A row that this failure parked is announced by the run that parked it.    *)
Finish(w) ==
    LET e == At(w)
        holds == row[e].token = w /\ row[e].leased
    IN  /\ run[w].pc \in {"acking", "nacking", "busy"}
        /\ row' = IF holds THEN [row EXCEPT ![e] = Finished(@, w, e)] ELSE row
        /\ run' = [run EXCEPT ![w] = IF run[w].pc = "nacking" /\ holds /\ row'[e].blocked
                                     THEN [Idle EXCEPT !.pc = "noticing"] ELSE Idle]
        /\ UNCHANGED <<executionVars, inbox, consumed, ctx, providerVars, eventVars, boundVars>>

(* publish_blocked: one notice per parked row and wake version. *)
ParkedNotices == {<<e, row[e].wake_version>> : e \in {f \in Executions : row[f].blocked}}
PublishBlocked(w) ==
    /\ run[w].pc = "noticing"
    /\ notices' = notices \cup ParkedNotices
    /\ run' = [run EXCEPT ![w] = Idle]
    /\ UNCHANGED <<executionVars, rowVars, ctx, providerVars, published, paused, boundVars>>

(* Fault: parked rows are announced only by the worker that parked them. *)
ReconcileSilently(w, old) ==
    /\ run[w] = Idle /\ old # {}
    /\ inbox' = inbox \ old /\ consumed' = consumed \ old
    /\ UNCHANGED <<executionVars, row, ctx, providerVars, eventVars, run, boundVars>>

(* reconcile by an idle worker: unconsumed notifications are matched, a row  *)
(* without a due time is repaired, notifications past their retention (any   *)
(* set of old ones) are deleted, then the parked rows are published.  A pass *)
(* with nothing to do is no step.                                            *)
Overdue == {e \in Executions : /\ row[e].enrolled /\ row[e].available_at = "null"
                               /\ ~row[e].blocked /\ ~row[e].settled}
Unmatched == {p \in inbox \ consumed : /\ Matches(p[1], p[2])
                                       /\ row[p[1]].wake_version < MaxWakes}
Reconcile(w, old) ==
    LET woken == {p[1] : p \in Unmatched}
    IN  /\ run[w] = Idle
        /\ old # {} \/ Unmatched # {} \/ ~(ParkedNotices \subseteq notices)
        /\ row' = [e \in Executions |->
                     IF e \in woken THEN Matched(row[e])
                     ELSE IF e \in Overdue THEN [row[e] EXCEPT !.available_at = "due"]
                     ELSE row[e]]
        /\ consumed' = (consumed \cup Unmatched) \ old
        /\ inbox' = inbox \ old
        /\ run' = [run EXCEPT ![w] = [Idle EXCEPT !.pc = "noticing"]]
        /\ UNCHANGED <<executionVars, ctx, providerVars, eventVars, boundVars>>

-----------------------------------------------------------------------------
(* A running process takes its next step. *)
RunStep(w) ==
    \/ ClaimReserved(w) \/ StartRun(w) \/ BeginStage(w)
    \/ SaveIntent(w) \/ Post(w) \/ Collect(w) \/ SaveWaiting(w) \/ SaveTurn(w)
    \/ SaveResult(w) \/ SaveCursor(w) \/ ClearTurn(w) \/ SaveAwaiting(w) \/ Continue(w)
    \/ SaveCompleted(w) \/ GiveUp(w) \/ HandleBudgetError(w) \/ SaveFailed(w) \/ SaveCancelled(w)
    \/ PublishTerminal(w) \/ PublishPause(w) \/ Raise(w) \/ EndRun(w)
    \/ Finish(w) \/ PublishBlocked(w)

(* An idle worker's loop. *)
WorkerLoop(w) ==
    \/ \E e \in Executions : ClaimDelivery(w, e)
    \/ \E old \in SUBSET inbox : Reconcile(w, old)

UserStep(e) ==
    \/ Submit(e) \/ PrepareOnly(e) \/ Resume(e) \/ Decide(e) \/ Cancel(e)
    \/ \E w \in Workers : SubmitPhoto(e, w) \/ ResumePhoto(e, w)

(* The provider and the clock. *)
Environment(e) ==
    \/ \E n \in 1..submitted[e] : ProviderFinish(e, n) \/ Notify(e, n)
    \/ BecomeDue(e) \/ ExpireDelivery(e) \/ ExpireExecution(e)

Next ==
    \/ \E e \in Executions : UserStep(e) \/ Environment(e)
    \/ \E w \in Workers : RunStep(w) \/ WorkerLoop(w) \/ Crash(w)

Spec == Init /\ [][Next]_vars

(* What the deployment keeps doing: processes that have not died take their  *)
(* next step, the worker loop claims due rows and reconciles, time passes    *)
(* for due times and for the leases of the dead, and a response the provider *)
(* is generating ends.  Users owe nothing, and a webhook may never come.     *)
Fairness ==
    /\ \A w \in Workers : WF_vars(RunStep(w)) /\ WF_vars(WorkerLoop(w))
    /\ \A e \in Executions :
         /\ WF_vars(BecomeDue(e))
         /\ WF_vars(ExpireDelivery(e) /\ row[e].token = Lost)
         /\ WF_vars(ExpireExecution(e) /\ exec[e].worker_id = Lost)
         /\ WF_vars(\E n \in 1..submitted[e] : ProviderFinish(e, n))

FairSpec == Spec /\ Fairness

-----------------------------------------------------------------------------
(* Correctness.                                                              *)

(* A settled row has nothing left to deliver: its execution is terminal and  *)
(* the final event is in the log, or it waits for a decision nobody made yet *)
(* and the pause is in the log.  ADR 0031: "A settled delivery already       *)
(* published its final event"; progress readers stop at settled rows.        *)
SettledIsPublished ==
    \A e \in Executions : row[e].settled =>
        \/ exec[e].status \in Terminal /\ e \in published
        \/ /\ exec[e].status = "awaiting_approval"
           /\ ctx[e].approval = "pending"
           /\ <<e, ctx[e].round, ctx[e].call_index>> \in paused

(* No enrolled execution is forgotten: a row that is neither parked nor      *)
(* settled has a due time, whatever crashes, stale acknowledgements and      *)
(* wakes came in between (so the repair in reconcile finds nothing to do).   *)
UnsettledIsScheduled ==
    \A e \in Executions :
        row[e].enrolled /\ ~row[e].settled /\ ~row[e].blocked => row[e].available_at # "null"

(* A cancellation is never parked by a late acknowledgement: until its       *)
(* execution is terminal the row stays unsettled.  ADR 0032: the request and *)
(* its wake commit together.                                                 *)
CancellationStaysDeliverable ==
    \A e \in cancellations : exec[e].status \notin Terminal =>
        row[e].enrolled /\ ~row[e].settled

(* A paid model request is never repeated: one response is started for each  *)
(* model turn, although a process may die, or go on without its lease,       *)
(* between the intent, the POST and the checkpoint of the response id.       *)
SubmittedOnce ==
    \A e \in Executions :
        submitted[e] <= ctx[e].round + (IF ctx[e].started THEN 1 ELSE 0)

(* The outcome of an execution never changes once saved, although a worker   *)
(* that lost its lease may still try to save another one.                    *)
TerminalIsFinal ==
    [][\A e \in Executions : exec[e].status \in Terminal =>
         exec'[e].status = exec[e].status]_vars

(* A live lease on a delivery or on an execution ends only by a step of its  *)
(* own holder (death included) or by the clock: claims, reservations,        *)
(* releases and late acknowledgements of the other runs leave it alone.      *)
LeasesAreExclusive ==
    [][\A e \in Executions, v \in Workers :
         run'[v] # run[v] \/ expiries' # expiries \/
           /\ row[e].token = v /\ row[e].leased => row'[e].token = v /\ row'[e].leased
           /\ Owns(e, v) => Owns(e, v)']_vars

(* A delivery comes to rest (settled or parked) only by the acknowledgement  *)
(* of the run that holds it and that was claimed after the last wake, so no  *)
(* resume, decision, cancellation or callback is swallowed by a delivery     *)
(* that started before it.                                                   *)
RestsAfterLastWake ==
    [][\A e \in Executions :
         (~(row[e].settled \/ row[e].blocked) /\ (row'[e].settled \/ row'[e].blocked)) =>
           \E w \in Workers : /\ At(w) = e /\ row[e].token = w
                              /\ run[w].seen = row[e].wake_version]_vars

(* Every accepted execution comes to rest: it is settled or parked, however  *)
(* its workers crash, lose leases or fail.                                   *)
EventuallyRests ==
    \A e \in Executions : row[e].enrolled ~> (row[e].settled \/ row[e].blocked)

(* A requested cancellation reaches a terminal outcome unless cleanup keeps  *)
(* failing until the row is parked.                                          *)
CancellationEnds ==
    \A e \in Executions : e \in cancellations ~>
        (exec[e].status \in Terminal \/ row[e].blocked)

(* A parked row is announced in the conversation, also when the worker that  *)
(* parked it died before it could.                                           *)
ParkedIsAnnounced ==
    \A e \in Executions : row[e].blocked ~>
        (~row[e].blocked \/ <<e, row[e].wake_version>> \in notices)
=============================================================================
