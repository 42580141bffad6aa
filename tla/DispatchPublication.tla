------------------------- MODULE DispatchPublication --------------------------
(***************************************************************************)
(* What a delivery that came to rest promises, for every number of         *)
(* executions and workers: a cancellation is never settled early, what is  *)
(* settled was published, and no turn of a model was paid for twice.       *)
(***************************************************************************)
EXTENDS DispatchProofs

(***************************************************************************)
(* Why a cancelled execution is never settled early, for every number of   *)
(* executions and workers: a run that was claimed after the cancellation   *)
(* only cleans up, and one that was claimed before it saw an older wake    *)
(* version than the row has.                                               *)
(***************************************************************************)

(* A run works on an enrolled row and saw no later wake than the row has.    *)
RunsSaw ==
    \A w \in Workers : run[w].pc \in Delivering =>
        row[At(w)].enrolled /\ run[w].seen <= row[At(w)].wake_version

(* A run claimed after the last wake of a cancelled execution cleans up, or  *)
(* leaves a terminal execution behind.                                       *)
Cleaning == {"reserved", "claimed", "begin", "cancelling", "raising", "nacking", "busy"}
CancelledCleansUp ==
    \A w \in Workers :
        /\ run[w].pc \in Delivering /\ At(w) \in cancellations
        /\ run[w].seen = row[At(w)].wake_version
        => run[w].pc \in Cleaning \/ exec[At(w)].status \in Terminal

(* The inductive invariant behind CancellationStaysDeliverable. *)
Cancellable ==
    /\ RunsSaw
    /\ CancelledCleansUp
    /\ CancellationStaysDeliverable

(* What is proved of every reachable state above and in DispatchProofs. *)
Sound == TypeOK /\ OwnerIsRunning /\ AbsentHasNoRow

(* The ways one step can move run w. *)
RunChange(w) ==
    \/ run'[w] = run[w]
    \/ run'[w].pc \notin Delivering
    \/ /\ run[w].pc \in Delivering /\ RunStep(w)
       /\ run'[w].at = run[w].at /\ run'[w].seen = run[w].seen
    \/ LET f == run'[w].at
       IN  /\ f \in Executions /\ run'[w].pc \in {"reserved", "claimed"}
           /\ row'[f].enrolled /\ row'[f].token = w /\ row'[f].leased
           /\ run'[w].seen = row'[f].wake_version

(* A row stays enrolled and its wake version never falls. *)
LEMMA WakesGrow ==
  ASSUME TypeOK, AbsentHasNoRow, [Next]_vars, NEW e \in Executions, row[e].enrolled
  PROVE  row'[e].enrolled /\ row[e].wake_version <= row'[e].wake_version
<1> DEFINE Goal == row'[e].enrolled /\ row[e].wake_version <= row'[e].wake_version
<1>1. row[e] \in DispatchRow BY DEF TypeOK, RowsTypeOK
<1>2. RowMove(e) BY RowMoves
<1>3. exec[e].status # "absent" BY DEF AbsentHasNoRow
<1>4. row[e].wake_version \in Nat BY <1>1 DEF DispatchRow
<1>5. CASE row'[e] = Woken(row[e]) BY <1>1, <1>4, <1>5 DEF Woken, DispatchRow
<1>6. ASSUME NEW w, row'[e] = [Woken(row[e]) EXCEPT !.token = w, !.leased = TRUE] PROVE Goal
  BY <1>1, <1>4, <1>6 DEF Woken, DispatchRow
<1>7. CASE row'[e] = Matched(row[e]) BY <1>1, <1>4, <1>7 DEF Matched, DispatchRow
<1>8. CASE \/ row'[e] = [row[e] EXCEPT !.available_at = "due"]
           \/ row'[e] = [row[e] EXCEPT !.leased = FALSE]
           \/ row'[e] = [row[e] EXCEPT !.token = Lost]
  BY <1>1, <1>4, <1>8 DEF DispatchRow
<1>9. ASSUME NEW n, NEW due, row'[e] = Checkpointed(row[e], n, due) PROVE Goal
  BY <1>1, <1>4, <1>9 DEF Checkpointed, DispatchRow
<1>10. ASSUME NEW w, row'[e] = Finished(row[e], w, e) PROVE Goal
  BY <1>1, <1>4, <1>10 DEF Finished, DispatchRow
<1>11. CASE row'[e] = row[e] BY <1>4, <1>11
<1>12. ASSUME NEW w, row'[e] = [row[e] EXCEPT !.token = w, !.leased = TRUE] PROVE Goal
  BY <1>1, <1>4, <1>12 DEF DispatchRow
<1> QED BY <1>2, <1>3, <1>5, <1>6, <1>7, <1>8, <1>9, <1>10, <1>11, <1>12 DEF RowMove

(* Within a delivery a run keeps its execution and the wake version it saw. *)
LEMMA GotoKeeps ==
  ASSUME TypeOK, NEW w \in Workers
  PROVE  /\ \A pc : Goto(w, pc) => /\ run'[w].at = run[w].at /\ run'[w].seen = run[w].seen
                                   /\ run'[w].pc = pc
         /\ \A pc, n : GotoHolding(w, pc, n) =>
              /\ run'[w].at = run[w].at /\ run'[w].seen = run[w].seen /\ run'[w].pc = pc
<1>1. run[w] \in Run /\ run \in [Workers -> Run] BY DEF TypeOK, RunsTypeOK
<1>2. ASSUME NEW pc, Goto(w, pc)
      PROVE  run'[w].at = run[w].at /\ run'[w].seen = run[w].seen /\ run'[w].pc = pc
  <2>1. run'[w] = [run[w] EXCEPT !.pc = pc] BY <1>1, <1>2 DEF Goto
  <2> QED BY <1>1, <2>1 DEF Run
<1>3. ASSUME NEW pc, NEW n, GotoHolding(w, pc, n)
      PROVE  run'[w].at = run[w].at /\ run'[w].seen = run[w].seen /\ run'[w].pc = pc
  <2>1. run'[w] = [run[w] EXCEPT !.pc = pc, !.holding = n] BY <1>1, <1>3 DEF GotoHolding
  <2> QED BY <1>1, <2>1 DEF Run
<1> QED BY <1>2, <1>3

(* A reserved row is leased by its host. *)
LEMMA EnrolledHolds ==
  ASSUME NEW w \in Workers
  PROVE  /\ EnrolledRow(w).enrolled /\ EnrolledRow(w).leased
         /\ EnrolledRow(w).token = w /\ EnrolledRow(w).wake_version = 0
<1>1. w # Nobody BY OwnersAreDistinct
<1>2. EnrolledRow(w).leased = (w # Nobody) BY DEF EnrolledRow
<1>3. EnrolledRow(w).enrolled = TRUE BY DEF EnrolledRow
<1>4. EnrolledRow(w).token = w /\ EnrolledRow(w).wake_version = 0 BY DEF EnrolledRow
<1> QED BY <1>1, <1>2, <1>3, <1>4

(* A claim or a reservation shows the run the wake version of its row. *)
LEMMA TakeTakes ==
  ASSUME TypeOK, NEW w \in Workers, NEW e, NEW pc, NEW v, Take(w, e, pc, v)
  PROVE  run'[w].at = e /\ run'[w].seen = v /\ run'[w].pc = pc
<1>1. run'[w] = [pc |-> pc, at |-> e, seen |-> v, holding |-> 0]
  BY DEF Take, TypeOK, RunsTypeOK
<1> QED BY <1>1

(* Every step moves every run in one of the ways of RunChange. *)
LEMMA RunChanges ==
  ASSUME TypeOK, RunsSaw, [Next]_vars, NEW w \in Workers
  PROVE  RunChange(w)
<1>1. run \in [Workers -> Run] /\ row \in [Executions -> DispatchRow]
  BY DEF TypeOK, RunsTypeOK, RowsTypeOK
<1>2. UNCHANGED run => RunChange(w) BY DEF RunChange
<1>3. ASSUME NEW v \in Workers, v # w, NEW x, run' = [run EXCEPT ![v] = x] PROVE RunChange(w)
  BY <1>1, <1>3 DEF RunChange
<1>4. CASE UNCHANGED vars BY <1>2, <1>4 DEF vars
<1>5. ASSUME NEW e \in Executions, UserStep(e) PROVE RunChange(w)
  <2>1. ASSUME NEW v \in Workers, SubmitPhoto(e, v) PROVE RunChange(w)
    <3>1. Take(v, e, "reserved", 0) BY <2>1 DEF SubmitPhoto
    <3>2. row'[e] = EnrolledRow(v) BY <1>1, <2>1 DEF SubmitPhoto
    <3>3. row'[e].enrolled /\ row'[e].token = v /\ row'[e].leased /\ row'[e].wake_version = 0
      BY <3>2, EnrolledHolds
    <3>4. CASE v = w BY <3>1, <3>3, <3>4, TakeTakes DEF RunChange
    <3>5. CASE v # w BY <1>3, <3>1, <3>5 DEF Take
    <3> QED BY <3>4, <3>5
  <2>2. ASSUME NEW v \in Workers, ResumePhoto(e, v) PROVE RunChange(w)
    <3>1. Take(v, e, "claimed", row[e].wake_version + 1) BY <2>2 DEF ResumePhoto
    <3>2. row'[e] = [Woken(row[e]) EXCEPT !.token = v, !.leased = TRUE]
      BY <1>1, <2>2 DEF ResumePhoto
    <3>3. /\ row'[e].enrolled /\ row'[e].token = v /\ row'[e].leased
          /\ row'[e].wake_version = row[e].wake_version + 1
      BY <1>1, <3>2 DEF Woken, DispatchRow
    <3>4. CASE v = w BY <3>1, <3>3, <3>4, TakeTakes DEF RunChange
    <3>5. CASE v # w BY <1>3, <3>1, <3>5 DEF Take
    <3> QED BY <3>4, <3>5
  <2> QED BY <1>2, <1>5, <2>1, <2>2 DEF UserStep, Submit, PrepareOnly, Resume, Decide, Cancel
<1>6. ASSUME NEW e \in Executions, Environment(e) PROVE RunChange(w)
  BY <1>2, <1>6
  DEF Environment, ProviderFinish, Notify, BecomeDue, ExpireDelivery, ExpireExecution
<1>7. ASSUME NEW v \in Workers, WorkerLoop(v) PROVE RunChange(w)
  <2>1. ASSUME NEW e \in Executions, ClaimDelivery(v, e) PROVE RunChange(w)
    <3>1. Take(v, e, "claimed", row[e].wake_version) BY <2>1 DEF ClaimDelivery
    <3>2. row'[e] = [row[e] EXCEPT !.token = v, !.leased = TRUE] BY <1>1, <2>1 DEF ClaimDelivery
    <3>3. /\ row'[e].enrolled /\ row'[e].token = v /\ row'[e].leased
          /\ row'[e].wake_version = row[e].wake_version
      BY <1>1, <2>1, <3>2 DEF ClaimDelivery, Deliverable, DispatchRow
    <3>4. CASE v = w BY <3>1, <3>3, <3>4, TakeTakes DEF RunChange
    <3>5. CASE v # w BY <1>3, <3>1, <3>5 DEF Take
    <3> QED BY <3>4, <3>5
  <2>2. ASSUME NEW old, Reconcile(v, old) PROVE RunChange(w)
    <3>1. CASE v = w BY <1>1, <2>2, <3>1 DEF Reconcile, RunChange, Idle, Delivering
    <3>2. CASE v # w BY <1>3, <2>2, <3>2 DEF Reconcile
    <3> QED BY <3>1, <3>2
  <2> QED BY <1>7, <2>1, <2>2 DEF WorkerLoop
<1>8. ASSUME NEW v \in Workers, Crash(v) PROVE RunChange(w)
  <2>1. CASE v = w BY <1>1, <1>8, <2>1 DEF Crash, RunChange, Idle, Delivering
  <2>2. CASE v # w BY <1>3, <1>8, <2>2 DEF Crash
  <2> QED BY <2>1, <2>2
<1>9. ASSUME NEW v \in Workers, RunStep(v), v # w PROVE RunChange(w)
  <2>1. \E x : run' = [run EXCEPT ![v] = x]
    BY <1>9
    DEF RunStep, ClaimReserved, StartRun, BeginStage, SaveIntent, Post, Collect, SaveWaiting,
        SaveTurn, SaveResult, SaveCursor, ClearTurn, SaveAwaiting, Continue, SaveCompleted, GiveUp,
        HandleBudgetError, SaveFailed, SaveCancelled, PublishTerminal, PublishPause, Raise,
        EndRun, Finish, PublishBlocked, Goto, GotoHolding, Take
  <2> QED BY <1>3, <1>9, <2>1
<1>10. ASSUME RunStep(w) PROVE RunChange(w)
  <2>1. CASE ClaimReserved(w)
    <3>1. CASE row[At(w)].token = w /\ row[At(w)].leased
      <4>1. Take(w, At(w), "claimed", row[At(w)].wake_version) /\ row' = row
        BY <2>1, <3>1 DEF ClaimReserved, rowVars
      <4>2. At(w) \in Executions /\ row[At(w)].enrolled
        BY <2>1 DEF ClaimReserved, TypeOK, RunsTypeOK, At, Delivering, RunsSaw
      <4> QED BY <3>1, <4>1, <4>2, TakeTakes DEF RunChange
    <3>2. CASE ~(row[At(w)].token = w /\ row[At(w)].leased)
      BY <1>1, <2>1, <3>2 DEF ClaimReserved, RunChange, Idle, Delivering
    <3> QED BY <3>1, <3>2
  <2>2. CASE Finish(w) \/ PublishBlocked(w)
    BY <1>1, <2>2 DEF Finish, PublishBlocked, RunChange, Idle, Delivering
  <2>3. ASSUME run[w].pc \in Delivering,
               (\E pc : Goto(w, pc)) \/ (\E pc, n : GotoHolding(w, pc, n))
        PROVE  RunChange(w)
    BY <1>10, <2>3, GotoKeeps DEF RunChange
  <2>4. CASE \/ StartRun(w) \/ BeginStage(w) \/ SaveIntent(w) \/ Post(w) \/ Collect(w)
             \/ SaveWaiting(w) \/ SaveTurn(w) \/ SaveResult(w) \/ SaveCursor(w) \/ ClearTurn(w)
             \/ SaveAwaiting(w) \/ Continue(w) \/ SaveCompleted(w)
             \/ HandleBudgetError(w) \/ SaveFailed(w) \/ SaveCancelled(w)
             \/ PublishTerminal(w) \/ PublishPause(w) \/ Raise(w) \/ EndRun(w)
    BY <2>3, <2>4
    DEF StartRun, BeginStage, SaveIntent, Post, Collect, SaveWaiting, SaveTurn, SaveResult,
        SaveCursor, ClearTurn, SaveAwaiting, Continue, SaveCompleted, HandleBudgetError, SaveFailed,
        SaveCancelled, PublishTerminal, PublishPause, Raise, EndRun, NeedsModel, NeedsTool,
        Delivering
  <2>5. CASE GiveUp(w) BY <2>3, <2>5 DEF GiveUp, NeedsModel, Delivering
  <2> QED BY <1>10, <2>1, <2>2, <2>4, <2>5 DEF RunStep
<1> QED BY <1>4, <1>5, <1>6, <1>7, <1>8, <1>9, <1>10 DEF Next

(* RunsSaw is inductive. *)
LEMMA RunsSawKept ==
  ASSUME Sound, RunsSaw, [Next]_vars
  PROVE  RunsSaw'
<1> SUFFICES ASSUME NEW w \in Workers, run'[w].pc \in Delivering
             PROVE  /\ row'[run'[w].at].enrolled
                    /\ run'[w].seen <= row'[run'[w].at].wake_version
  BY DEF RunsSaw, At
<1>1. row' \in [Executions -> DispatchRow] /\ row \in [Executions -> DispatchRow]
  BY TypeStep DEF Sound, TypeOK, RowsTypeOK
<1>2. RunChange(w) BY RunChanges DEF Sound
<1>3. CASE run[w].pc \in Delivering /\ run'[w].at = run[w].at /\ run'[w].seen = run[w].seen
  <2>1. At(w) \in Executions /\ run[w].seen \in Nat
    BY <1>3 DEF Sound, TypeOK, RunsTypeOK, At, Run
  <2>2. row[At(w)].enrolled /\ run[w].seen <= row[At(w)].wake_version BY <1>3 DEF RunsSaw
  <2>3. row'[At(w)].enrolled /\ row[At(w)].wake_version <= row'[At(w)].wake_version
    BY <2>1, <2>2, WakesGrow DEF Sound
  <2>4. row[At(w)].wake_version \in Nat /\ row'[At(w)].wake_version \in Nat
    BY <1>1, <2>1 DEF DispatchRow
  <2>5. run[w].seen <= row'[At(w)].wake_version BY <2>1, <2>2, <2>3, <2>4
  <2> QED BY <1>3, <2>3, <2>5 DEF At
<1>4. CASE /\ run'[w].at \in Executions /\ row'[run'[w].at].enrolled
           /\ run'[w].seen = row'[run'[w].at].wake_version
  <2>1. row'[run'[w].at].wake_version \in Nat BY <1>1, <1>4 DEF DispatchRow
  <2> QED BY <1>4, <2>1
<1> QED BY <1>2, <1>3, <1>4 DEF RunChange

(* A request to cancel is recorded together with its wake. *)
LEMMA CancelWakes ==
  ASSUME TypeOK, [Next]_vars, NEW e \in Executions, e \notin cancellations, e \in cancellations'
  PROVE  /\ Cancel(e) /\ row'[e] = Woken(row[e]) /\ UNCHANGED run
<1>1. cancellations' # cancellations OBVIOUS
<1>2. ASSUME NEW f \in Executions, UserStep(f) PROVE Cancel(e)
  <2>1. Cancel(f) BY <1>1, <1>2
          DEF UserStep, Submit, PrepareOnly, Resume, Decide, SubmitPhoto, ResumePhoto,
              executionVars
  <2>2. f = e BY <2>1 DEF Cancel, RecordCancellation
  <2> QED BY <2>1, <2>2
<1>3. ASSUME NEW f \in Executions, Environment(f) PROVE FALSE
  BY <1>1, <1>3
  DEF Environment, ProviderFinish, Notify, BecomeDue, ExpireDelivery, ExpireExecution,
      executionVars
<1>4. ASSUME NEW w \in Workers, WorkerLoop(w) \/ Crash(w) PROVE FALSE
  BY <1>1, <1>4 DEF WorkerLoop, ClaimDelivery, Reconcile, Crash, executionVars
<1>5. ASSUME NEW w \in Workers, RunStep(w) PROVE FALSE
  BY <1>1, <1>5
  DEF RunStep, ClaimReserved, StartRun, BeginStage, SaveIntent, Post, Collect, SaveWaiting,
      SaveTurn, SaveResult, SaveCursor, ClearTurn, SaveAwaiting, Continue, SaveCompleted, GiveUp,
      HandleBudgetError, SaveFailed, SaveCancelled, PublishTerminal, PublishPause, Raise,
      EndRun, Finish, PublishBlocked, Save, executionVars
<1>6. Cancel(e) BY <1>1, <1>2, <1>3, <1>4, <1>5 DEF Next, vars, executionVars
<1>7. row'[e] = Woken(row[e]) /\ UNCHANGED run
  BY <1>6 DEF Cancel, TypeOK, RowsTypeOK
<1> QED BY <1>6, <1>7

(* The steps of a run that saw the last wake of its cancelled execution. *)
LEMMA CleanupStep ==
  ASSUME Sound, NEW w \in Workers, run[w].pc \in Cleaning, At(w) \in cancellations, RunStep(w),
         run'[w].pc \in Delivering
  PROVE  run'[w].pc \in Cleaning \/ exec'[At(w)].status \in Terminal
<1> USE DEF Sound
<1>1. \A pc : Goto(w, pc) => run'[w].pc = pc BY GotoKeeps
<1>2. At(w) \in Executions /\ exec[At(w)] \in ExecutionRow
  BY DEF Cleaning, Delivering, At, TypeOK, RunsTypeOK, ExecutionsTypeOK
<1>3. CASE ClaimReserved(w)
  <2>1. \/ run' = [run EXCEPT ![w] = Idle]
        \/ Take(w, At(w), "claimed", row[At(w)].wake_version)
    BY <1>3 DEF ClaimReserved
  <2>2. run' # [run EXCEPT ![w] = Idle] BY DEF TypeOK, RunsTypeOK, Idle, Delivering
  <2> QED BY <2>1, <2>2, TakeTakes DEF Cleaning
<1>4. CASE StartRun(w) BY <1>1, <1>4 DEF StartRun, Cleaning
<1>5. CASE BeginStage(w)
  <2>1. Goto(w, "cancelling") BY <1>5 DEF BeginStage
  <2> QED BY <1>1, <2>1 DEF Cleaning
<1>6. CASE SaveCancelled(w)
  <2>1. exec'[At(w)] = [exec[At(w)] EXCEPT !.status = "cancelled"]
    BY <1>2, <1>6 DEF SaveCancelled, Save, SaveStatus, TypeOK, ExecutionsTypeOK
  <2> QED BY <1>2, <2>1 DEF ExecutionRow, Terminal
<1>7. CASE Raise(w) \/ EndRun(w) BY <1>1, <1>7 DEF Raise, EndRun, Cleaning
<1>8. CASE Finish(w)
  <2>1. run'[w] \in {Idle, [Idle EXCEPT !.pc = "noticing"]}
    BY <1>8 DEF Finish, TypeOK, RunsTypeOK
  <2>2. run'[w].pc \in {"idle", "noticing"} BY <2>1 DEF Idle
  <2> QED BY <2>2 DEF Delivering
<1> QED
  BY <1>3, <1>4, <1>5, <1>6, <1>7, <1>8
  DEF RunStep, Cleaning, SaveIntent, Post, Collect, SaveWaiting, SaveTurn, SaveResult,
      SaveCursor, ClearTurn, SaveAwaiting, Continue, SaveCompleted, GiveUp, HandleBudgetError, SaveFailed,
      PublishTerminal, PublishPause, PublishBlocked, NeedsModel, NeedsTool

(* CancelledCleansUp is inductive. *)
LEMMA CleansUpKept ==
  ASSUME Sound, RunsSaw, CancelledCleansUp, [Next]_vars
  PROVE  CancelledCleansUp'
<1> SUFFICES ASSUME NEW w \in Workers, run'[w].pc \in Delivering, run'[w].at \in cancellations',
                    run'[w].seen = row'[run'[w].at].wake_version
             PROVE  run'[w].pc \in Cleaning \/ exec'[run'[w].at].status \in Terminal
  BY DEF CancelledCleansUp, At
<1> DEFINE e == run'[w].at
<1>1. row' \in [Executions -> DispatchRow] /\ row \in [Executions -> DispatchRow]
  BY TypeStep DEF Sound, TypeOK, RowsTypeOK
<1>2. RunChange(w) BY RunChanges DEF Sound
<1>3. CASE run[w].pc \in Delivering /\ e = run[w].at /\ run'[w].seen = run[w].seen
  <2>1. At(w) = e /\ e \in Executions /\ run[w].seen \in Nat
    BY <1>3 DEF Sound, TypeOK, RunsTypeOK, At, Run
  <2>2. row[e].enrolled /\ run[w].seen <= row[e].wake_version BY <1>3, <2>1 DEF RunsSaw
  <2>3. row[e].wake_version <= row'[e].wake_version BY <2>1, <2>2, WakesGrow DEF Sound
  <2>4. row[e].wake_version \in Nat /\ row'[e].wake_version \in Nat
    BY <1>1, <2>1 DEF DispatchRow
  <2>5. run[w].seen = row[e].wake_version BY <1>3, <2>1, <2>2, <2>3, <2>4
  <2>6. e \in cancellations
    <3> SUFFICES ASSUME e \notin cancellations PROVE FALSE OBVIOUS
    <3>1. row'[e] = Woken(row[e]) BY <2>1, CancelWakes DEF Sound
    <3>2. row'[e].wake_version = row[e].wake_version + 1
      BY <1>1, <2>1, <3>1 DEF Woken, DispatchRow
    <3> QED BY <1>3, <2>4, <2>5, <3>2
  <2>7. run[w].pc \in Cleaning \/ exec[e].status \in Terminal
    BY <1>3, <2>1, <2>5, <2>6 DEF CancelledCleansUp
  <2>8. CASE exec[e].status \in Terminal BY <2>1, <2>8, TerminalStays DEF Sound
  <2>9. CASE run[w].pc \in Cleaning /\ run'[w] = run[w] BY <2>9
  <2>10. CASE run[w].pc \in Cleaning /\ RunStep(w) BY <2>1, <2>6, <2>10, CleanupStep
  <2>11. run'[w] = run[w] \/ RunStep(w) \/ run'[w].pc \in {"reserved", "claimed"}
    BY <1>2 DEF RunChange
  <2> QED BY <2>7, <2>8, <2>9, <2>10, <2>11 DEF Cleaning
<1>4. CASE run'[w].pc \in {"reserved", "claimed"} BY <1>4 DEF Cleaning
<1> QED BY <1>2, <1>3, <1>4 DEF RunChange

(* CancellationStaysDeliverable is kept by every step. *)
LEMMA DeliverableKept ==
  ASSUME Sound, RunsSaw, CancelledCleansUp, CancellationStaysDeliverable, [Next]_vars
  PROVE  CancellationStaysDeliverable'
<1> SUFFICES ASSUME NEW e \in cancellations', exec'[e].status \notin Terminal
             PROVE  row'[e].enrolled /\ ~row'[e].settled
  BY DEF CancellationStaysDeliverable
<1>1. e \in Executions BY TypeStep DEF Sound, TypeOK, ExecutionsTypeOK
<1>2. row[e] \in DispatchRow /\ exec[e] \in ExecutionRow
  BY <1>1 DEF Sound, TypeOK, RowsTypeOK, ExecutionsTypeOK
<1>3. CASE e \notin cancellations
  <2>1. row'[e] = Woken(row[e]) BY <1>1, <1>3, CancelWakes DEF Sound
  <2> QED BY <1>2, <2>1 DEF Woken, DispatchRow
<1>4. CASE e \in cancellations
  <2>1. exec[e].status \notin Terminal BY <1>1, TerminalStays DEF Sound
  <2>2. row[e].enrolled /\ ~row[e].settled BY <1>4, <2>1 DEF CancellationStaysDeliverable
  <2>3. row'[e].enrolled BY <1>1, <2>2, WakesGrow DEF Sound
  <2>4. ASSUME row'[e].settled PROVE FALSE
    <3>1. PICK w \in Workers : At(w) = e /\ Finish(w) /\ row'[e] = Finished(row[e], w, e)
      BY <1>1, <2>2, <2>4, SettlesByFinish DEF Sound
    <3>2. run[w].pc = "acking" /\ row[e].wake_version = run[w].seen
      BY <1>2, <2>2, <2>4, <3>1 DEF Finished, DispatchRow
    <3>3. run[w].pc \in Cleaning
      BY <1>4, <2>1, <3>1, <3>2 DEF CancelledCleansUp, Delivering
    <3> QED BY <3>2, <3>3 DEF Cleaning
  <2> QED BY <2>3, <2>4
<1> QED BY <1>3, <1>4

(* A requested cancellation is never put to rest by an acknowledgement that  *)
(* did not see it, for every number of workers, crashes and wakes.           *)
THEOREM CancellationsDeliver == Spec => []CancellationStaysDeliverable
<1>1. Init => Cancellable
  BY DEF Init, ExecutionsInit, Cancellable, RunsSaw, CancelledCleansUp,
         CancellationStaysDeliverable, Idle, Delivering
<1>2. Sound /\ Cancellable /\ [Next]_vars => Cancellable'
  BY RunsSawKept, CleansUpKept, DeliverableKept DEF Cancellable
<1>3. Spec => []Sound BY TypeCorrect, OwnersRun, AbsentHolds, PTL DEF Sound
<1>4. Cancellable => CancellationStaysDeliverable BY DEF Cancellable
<1> QED BY <1>1, <1>2, <1>3, <1>4, PTL DEF Spec

-----------------------------------------------------------------------------
(***************************************************************************)
(* Why a settled delivery was published, for every number of executions    *)
(* and workers, provided no process sleeps through its whole delivery      *)
(* lease before it claims the execution: then the run that holds the       *)
(* delivery is the only one that can still change what it acknowledges.    *)
(***************************************************************************)

(* Run w holds the live lease on its delivery. *)
Holds(w) == /\ run[w].pc \in Delivering
            /\ row[At(w)].token = w /\ row[At(w)].leased

(* A run that claimed its delivery still holds it when it claims the         *)
(* execution.                                                                *)
ClaimedHolds == \A w \in Workers : run[w].pc = "claimed" => Holds(w)

(* An undecided approval belongs to an execution that waits for it, and the  *)
(* owner of an execution that is in a stage has none.                        *)
ApprovalAwaits ==
    /\ \A e \in Executions : ctx[e].approval = "pending" =>
         exec[e].status \in Terminal \cup {"awaiting_approval"}
    /\ \A w \in Workers : run[w].pc \in Stage /\ exec[At(w)].worker_id = w =>
         ctx[At(w)].approval # "pending"

(* What e came to is in the log, as far as a run that saw wake version n can *)
(* tell.                                                                     *)
SaidSo(e, n) ==
    /\ exec[e].status \in Terminal => e \in published
    /\ exec[e].status = "awaiting_approval" /\ n = row[e].wake_version =>
         /\ ctx[e].approval = "pending"
         /\ <<e, ctx[e].round, ctx[e].call_index>> \in paused

(* What the holder of a delivery knows of its execution e: it owns it or     *)
(* found it terminal, so nobody else can change it, and what it came to when *)
(* the run returns is published.                                             *)
Knows(w, e, pc, n) ==
    /\ pc \in Owning => exec[e].worker_id = w \/ (exec[e].status \in Terminal /\ pc \in Ending)
    /\ pc = "acking" => exec[e].worker_id \notin Workers \/ exec[e].status \in Terminal
    /\ pc = "publishing" => exec[e].status \in Terminal
    /\ pc \in {"answered", "advanced"} => exec[e].status = "ready"
    /\ pc = "pausing" => /\ exec[e].status = "awaiting_approval"
                         /\ n = row[e].wake_version => ctx[e].approval = "pending"
    /\ pc \in {"returning", "acking"} => SaidSo(e, n)
HolderKnows == \A w \in Workers : Holds(w) => Knows(w, At(w), run[w].pc, run[w].seen)

(* The inductive invariant behind SettledIsPublished. *)
Settling == ClaimedHolds /\ ApprovalAwaits /\ HolderKnows /\ SettledIsPublished

(* The ways one step can write the checkpointed context of e. *)
CtxMove(e) ==
    \/ ctx'[e] = ctx[e]
    \/ /\ Decide(e) /\ row'[e] = Woken(row[e])
       /\ ctx'[e].approval = "decided"
    \/ \E w \in Workers : /\ Owns(e, w) /\ At(w) = e /\ run[w].pc \in Stage
                          /\ run'[w] # run[w] /\ ~row'[e].settled
                          /\ \/ ctx'[e].approval # "pending"
                             \/ ctx'[e].approval = ctx[e].approval
                             \/ exec'[e].status = "awaiting_approval" /\ run'[w].pc = "begin"
-----------------------------------------------------------------------------
(* A save of a stage with a new context for its own execution. *)
LEMMA SaveMovesCtx ==
  ASSUME TypeOK, NEW w \in Workers, run[w].pc \in Stage, NEW s, NEW n, Save(w, s, n),
         NEW pc, run[w].pc # pc, Goto(w, pc), NEW c \in Context,
         ctx' = [ctx EXCEPT ![At(w)] = c],
         \/ c.approval # "pending"
         \/ c.approval = ctx[At(w)].approval
         \/ s = "awaiting_approval" /\ pc = "begin",
         NEW e \in Executions
  PROVE  CtxMove(e)
<1>1. ctx \in [Executions -> Context] /\ exec \in [Executions -> ExecutionRow]
  BY DEF TypeOK, ContextTypeOK, ExecutionsTypeOK
<1>2. CASE e = At(w)
  <2>1. ctx'[e] = c BY <1>1, <1>2
  <2>2. Owns(e, w) BY <1>2 DEF Save, SaveStatus
  <2>3. run'[w] # run[w] /\ run'[w].pc = pc BY GotoMoves
  <2>4. ~row'[e].settled BY <1>2, SaveUnsettles
  <2>5. exec'[e].status = s
    <3>1. exec'[e] = [exec[e] EXCEPT !.status = s] BY <1>1, <1>2 DEF Save, SaveStatus
    <3> QED BY <1>1, <3>1 DEF ExecutionRow
  <2> QED BY <1>2, <2>1, <2>2, <2>3, <2>4, <2>5 DEF CtxMove
<1>3. CASE e # At(w) BY <1>1, <1>3 DEF CtxMove
<1> QED BY <1>2, <1>3

(* Every step writes every context in one of the ways of CtxMove. *)
LEMMA CtxMoves ==
  ASSUME TypeOK, [Next]_vars, NEW e \in Executions
  PROVE  CtxMove(e)
<1>1. ctx \in [Executions -> Context] BY DEF TypeOK, ContextTypeOK
<1>2. UNCHANGED ctx => CtxMove(e) BY DEF CtxMove
<1>3. CASE UNCHANGED vars BY <1>2, <1>3 DEF vars
<1>4. ASSUME NEW f \in Executions, UserStep(f) PROVE CtxMove(e)
  <2>1. CASE Decide(f)
    <3>1. CASE e = f
      <4>1. ctx'[e] = [ctx[e] EXCEPT !.approval = "decided"] /\ row'[e] = Woken(row[e])
        BY <1>1, <2>1, <3>1 DEF Decide, TypeOK, RowsTypeOK
      <4>2. ctx'[e].approval = "decided" BY <1>1, <4>1 DEF Context
      <4> QED BY <2>1, <3>1, <4>1, <4>2 DEF CtxMove
    <3>2. CASE e # f BY <1>1, <2>1, <3>2 DEF Decide, CtxMove
    <3> QED BY <3>1, <3>2
  <2> QED BY <1>2, <1>4, <2>1
          DEF UserStep, Submit, PrepareOnly, Resume, Cancel, SubmitPhoto, ResumePhoto
<1>5. ASSUME NEW f \in Executions, Environment(f) PROVE CtxMove(e)
  BY <1>2, <1>5
  DEF Environment, ProviderFinish, Notify, BecomeDue, ExpireDelivery, ExpireExecution
<1>6. ASSUME NEW w \in Workers, WorkerLoop(w) \/ Crash(w) PROVE CtxMove(e)
  BY <1>2, <1>6 DEF WorkerLoop, ClaimDelivery, Reconcile, Crash
<1>7. ASSUME NEW w \in Workers, RunStep(w) PROVE CtxMove(e)
  <2> DEFINE c == ctx[At(w)]
  <2>1. run[w].pc \in Delivering => c \in Context
    BY <1>1 DEF TypeOK, RunsTypeOK, At
  <2>2. ASSUME NEW s, NEW n, Save(w, s, n), run[w].pc \in Stage, NEW d \in Context,
               ctx' = [ctx EXCEPT ![At(w)] = d], NEW pc, run[w].pc # pc, Goto(w, pc),
               \/ d.approval = c.approval \/ d.approval = "none"
               \/ s = "awaiting_approval" /\ pc = "begin"
        PROVE  CtxMove(e)
    BY <2>2, SaveMovesCtx
  <2>3. ContextTypeOK' BY TypeStep DEF TypeOK
  <2>4. ASSUME NEW d, ctx' = [ctx EXCEPT ![At(w)] = d], run[w].pc \in Delivering
        PROVE  d \in Context
    BY <1>1, <2>3, <2>4 DEF ContextTypeOK, TypeOK, RunsTypeOK, At
  <2>5. CASE SaveIntent(w)
    <3> DEFINE d == [c EXCEPT !.started = TRUE]
    <3>1. ctx' = [ctx EXCEPT ![At(w)] = d] /\ run[w].pc = "working" /\ Goto(w, "posting")
      BY <2>5 DEF SaveIntent, NeedsModel
    <3>2. d.approval = c.approval BY <2>1, <3>1 DEF Delivering, Context
    <3> HIDE DEF d
    <3>3. d \in Context BY <2>4, <3>1 DEF Delivering
    <3> QED BY <2>2, <2>5, <3>1, <3>2, <3>3 DEF SaveIntent, Stage
  <2>6. CASE SaveTurn(w)
    <3>1. PICK kind \in {"calls", "answer"} :
            ctx' = [ctx EXCEPT ![At(w)] = [c EXCEPT
                      !.started = FALSE, !.round = c.round + 1, !.pending = kind,
                      !.call_index = 0]]
      BY <2>6 DEF SaveTurn
    <3> DEFINE d == [c EXCEPT !.started = FALSE, !.round = c.round + 1, !.pending = kind,
                              !.call_index = 0]
    <3>2. run[w].pc = "collected" /\ Goto(w, "answered") BY <2>6 DEF SaveTurn
    <3>3. d.approval = c.approval BY <2>1, <3>2 DEF Delivering, Context
    <3>4. ctx' = [ctx EXCEPT ![At(w)] = d] BY <3>1
    <3> HIDE DEF d
    <3>5. d \in Context BY <2>4, <3>2, <3>4 DEF Delivering
    <3> QED BY <2>2, <2>6, <3>2, <3>3, <3>4, <3>5 DEF SaveTurn, Stage
  <2>7. CASE SaveResult(w)
    <3> DEFINE d == [c EXCEPT !.result = TRUE]
    <3>1. run[w].pc = "working" /\ Goto(w, "resulted") BY <2>7 DEF SaveResult, NeedsTool
    <3>2. CASE c.result BY <1>2, <2>7, <3>2 DEF SaveResult
    <3>3. CASE ~c.result
      <4>1. ctx' = [ctx EXCEPT ![At(w)] = d] /\ Save(w, "ready", 0)
        BY <2>7, <3>3 DEF SaveResult
      <4>2. d.approval = c.approval BY <2>1, <3>1 DEF Delivering, Context
      <4> HIDE DEF d
      <4>3. d \in Context BY <2>4, <3>1, <4>1 DEF Delivering
      <4> QED BY <2>2, <3>1, <4>1, <4>2, <4>3 DEF Stage
    <3> QED BY <3>2, <3>3
  <2>8. CASE SaveCursor(w)
    <3>1. PICK kind \in {"calls", "spent"} :
            ctx' = [ctx EXCEPT ![At(w)] = [c EXCEPT
                      !.pending = kind, !.call_index = c.call_index + 1, !.result = FALSE,
                      !.approval = "none"]]
      BY <2>8 DEF SaveCursor
    <3> DEFINE d == [c EXCEPT !.pending = kind, !.call_index = c.call_index + 1,
                              !.result = FALSE, !.approval = "none"]
    <3>2. run[w].pc = "resulted" /\ (Goto(w, "advanced") \/ Goto(w, "spent"))
      BY <2>8 DEF SaveCursor
    <3>3. d.approval = "none" BY <2>1, <3>2 DEF Delivering, Context
    <3>4. ctx' = [ctx EXCEPT ![At(w)] = d] BY <3>1
    <3> HIDE DEF d
    <3>5. d \in Context BY <2>4, <3>2, <3>4 DEF Delivering
    <3> QED BY <2>2, <2>8, <3>2, <3>3, <3>4, <3>5 DEF SaveCursor, Stage
  <2>9. CASE SaveAwaiting(w)
    <3> DEFINE d == [c EXCEPT !.approval = "pending"]
    <3>1. ctx' = [ctx EXCEPT ![At(w)] = d] /\ run[w].pc = "working" /\ Goto(w, "begin")
      BY <2>9 DEF SaveAwaiting, NeedsTool
    <3> HIDE DEF d
    <3>2. d \in Context BY <2>4, <3>1 DEF Delivering
    <3> QED BY <2>2, <2>9, <3>1, <3>2 DEF SaveAwaiting, Stage
  <2>10. CASE ClearTurn(w)
    <3> DEFINE d == [c EXCEPT !.pending = "none"]
    <3>1. /\ ctx' = [ctx EXCEPT ![At(w)] = d] /\ run[w].pc \in {"spent", "working"}
          /\ \E pc \in {"advanced", "begin"} : Goto(w, pc)
      BY <2>10 DEF ClearTurn
    <3>2. d.approval = c.approval BY <2>1, <3>1 DEF Delivering, Context
    <3> HIDE DEF d
    <3>3. d \in Context BY <2>4, <3>1 DEF Delivering
    <3> QED BY <2>2, <2>10, <3>1, <3>2, <3>3 DEF ClearTurn, Stage
  <2> QED
    BY <1>2, <1>7, <2>5, <2>6, <2>7, <2>8, <2>9, <2>10
    DEF RunStep, ClaimReserved, StartRun, BeginStage, Post, Collect, SaveWaiting, Continue,
        SaveCompleted, GiveUp, HandleBudgetError, SaveFailed, SaveCancelled, PublishTerminal,
        PublishPause, Raise, EndRun, Finish, PublishBlocked
<1> QED BY <1>3, <1>4, <1>5, <1>6, <1>7 DEF Next

(* The log only grows. *)
LEMMA EventsGrow ==
  ASSUME [Next]_vars
  PROVE  published \subseteq published' /\ paused \subseteq paused'
<1> DEFINE Goal == published \subseteq published' /\ paused \subseteq paused'
<1>1. UNCHANGED eventVars => Goal BY DEF eventVars
<1>2. ASSUME NEW f \in Executions, UserStep(f) PROVE Goal
  BY <1>1, <1>2
  DEF UserStep, Submit, PrepareOnly, Resume, Decide, Cancel, SubmitPhoto, ResumePhoto
<1>3. ASSUME NEW f \in Executions, Environment(f) PROVE Goal
  BY <1>1, <1>3
  DEF Environment, ProviderFinish, Notify, BecomeDue, ExpireDelivery, ExpireExecution
<1>4. ASSUME NEW w \in Workers, WorkerLoop(w) \/ Crash(w) PROVE Goal
  BY <1>1, <1>4 DEF WorkerLoop, ClaimDelivery, Reconcile, Crash
<1>5. ASSUME NEW w \in Workers, RunStep(w) PROVE Goal
  <2>1. CASE PublishTerminal(w) \/ PublishPause(w) \/ PublishBlocked(w)
    BY <2>1 DEF PublishTerminal, PublishPause, PublishBlocked
  <2> QED
    BY <1>1, <1>5, <2>1
    DEF RunStep, ClaimReserved, StartRun, BeginStage, SaveIntent, Post, Collect, SaveWaiting,
        SaveTurn, SaveResult, SaveCursor, ClearTurn, SaveAwaiting, Continue, SaveCompleted,
        GiveUp, HandleBudgetError, SaveFailed, SaveCancelled, Raise, EndRun, Finish
<1> QED BY <1>1, <1>2, <1>3, <1>4, <1>5 DEF Next, vars

-----------------------------------------------------------------------------
(* A delivery that holds its row is of an accepted execution. *)
LEMMA DeliveryIsAccepted ==
  ASSUME Sound, RunsSaw, NEW w \in Workers, run[w].pc \in Delivering
  PROVE  /\ At(w) \in Executions /\ row[At(w)] \in DispatchRow /\ exec[At(w)] \in ExecutionRow
         /\ row[At(w)].enrolled /\ exec[At(w)].status # "absent"
         /\ run[w].seen \in Nat /\ run[w].seen <= row[At(w)].wake_version
         /\ row[At(w)].wake_version \in Nat /\ run[w] # Idle
<1>1. At(w) \in Executions /\ run[w] \in Run BY DEF Sound, TypeOK, RunsTypeOK, At
<1>2. row[At(w)] \in DispatchRow /\ exec[At(w)] \in ExecutionRow
  BY <1>1 DEF Sound, TypeOK, RowsTypeOK, ExecutionsTypeOK
<1>3. row[At(w)].enrolled /\ run[w].seen <= row[At(w)].wake_version BY DEF RunsSaw
<1>4. exec[At(w)].status # "absent" BY <1>1, <1>3 DEF Sound, AbsentHasNoRow
<1>5. run[w].seen \in Nat /\ row[At(w)].wake_version \in Nat BY <1>1, <1>2 DEF Run, DispatchRow
<1>6. run[w] # Idle BY DEF Idle, Delivering
<1> QED BY <1>1, <1>2, <1>3, <1>4, <1>5, <1>6

(* The ways one step can move the lease on an accepted row. *)
LeaseMove(e) ==
    \/ row'[e].token = row[e].token /\ row'[e].leased = row[e].leased
    \/ /\ row[e].leased /\ ~row'[e].leased
       /\ row[e].token \in Workers => Stalls \/ run[row[e].token].pc # "claimed"
    \/ \E w \in Workers : row[e].token = w /\ run'[w] # run[w] /\ row'[e].token = Lost
    \/ \E w \in Workers : run[w] = Idle /\ ~row[e].leased /\ row'[e].token = w
    \/ \E w \in Workers : row[e].token = w /\ Finish(w) /\ ~row'[e].leased
(* Every step moves every lease in one of the ways of LeaseMove. *)
LEMMA LeaseMoves ==
  ASSUME TypeOK, [Next]_vars, NEW e \in Executions, row[e].enrolled, exec[e].status # "absent"
  PROVE  LeaseMove(e)
<1> DEFINE Kept == row'[e].token = row[e].token /\ row'[e].leased = row[e].leased
<1>1. row[e] \in DispatchRow BY DEF TypeOK, RowsTypeOK
<1>2. RowMove(e) BY RowMoves
<1>3. row'[e] = Woken(row[e]) => Kept BY <1>1 DEF Woken, DispatchRow
<1>4. row'[e] = Matched(row[e]) => Kept BY <1>1 DEF Matched, DispatchRow
<1>5. row'[e] = [row[e] EXCEPT !.available_at = "due"] => Kept BY <1>1 DEF DispatchRow
<1>6. \A n, due : row'[e] = Checkpointed(row[e], n, due) => Kept
  BY <1>1 DEF Checkpointed, DispatchRow
<1>7. row'[e] = [row[e] EXCEPT !.leased = FALSE] => ~row'[e].leased BY <1>1 DEF DispatchRow
<1>8. row'[e] = [row[e] EXCEPT !.token = Lost] => row'[e].token = Lost
  BY <1>1 DEF DispatchRow
<1>9. \A w : row'[e] = [row[e] EXCEPT !.token = w, !.leased = TRUE] => row'[e].token = w
  BY <1>1 DEF DispatchRow
<1>10. \A w : row'[e] = [Woken(row[e]) EXCEPT !.token = w, !.leased = TRUE] =>
                row'[e].token = w
  BY <1>1 DEF Woken, DispatchRow
<1>11. \A w : row'[e] = Finished(row[e], w, e) => ~row'[e].leased
  BY <1>1 DEF Finished, DispatchRow
<1>12. row'[e] = row[e] => Kept OBVIOUS
<1> HIDE DEF Kept
<1>13. Kept => LeaseMove(e) BY DEF Kept, LeaseMove
<1>14. ASSUME NEW w \in Workers, run[w] = Idle, ~row[e].leased, row'[e].token = w
       PROVE  LeaseMove(e)
  BY <1>14 DEF LeaseMove
<1>15. CASE \E w \in Workers : /\ run[w] = Idle /\ ~row[e].leased
                               /\ row'[e] = [Woken(row[e]) EXCEPT !.token = w, !.leased = TRUE]
  BY <1>10, <1>14, <1>15
<1>16. CASE \E w \in Workers : /\ run[w] = Idle /\ Deliverable(e)
                               /\ row'[e] = [row[e] EXCEPT !.token = w, !.leased = TRUE]
  BY <1>9, <1>14, <1>16 DEF Deliverable
<1>17. CASE \E w \in Workers : /\ row[e].token = w /\ run'[w] # run[w]
                               /\ row'[e] = [row[e] EXCEPT !.token = Lost]
  BY <1>8, <1>17 DEF LeaseMove
<1>18. CASE \E w \in Workers : /\ At(w) = e /\ row[e].token = w /\ row[e].leased
                               /\ Finish(w) /\ row'[e] = Finished(row[e], w, e)
  BY <1>11, <1>18 DEF LeaseMove
<1>19. CASE /\ row[e].leased /\ row'[e] = [row[e] EXCEPT !.leased = FALSE]
            /\ row[e].token \in Workers => /\ expiries' # expiries
                                           /\ Stalls \/ run[row[e].token].pc # "claimed"
  BY <1>7, <1>19 DEF LeaseMove
<1> QED BY <1>2, <1>3, <1>4, <1>5, <1>6, <1>12, <1>13, <1>15, <1>16, <1>17, <1>18, <1>19
        DEF RowMove

(* A run inside a delivery never gains its lease back. *)
LEMMA HeldBefore ==
  ASSUME Sound, RunsSaw, [Next]_vars, NEW w \in Workers, run[w].pc \in Delivering,
         NEW e \in Executions, At(w) = e, row'[e].token = w, row'[e].leased
  PROVE  Holds(w)
<1>1. row[e].enrolled /\ exec[e].status # "absent" /\ run[w] # Idle
  BY DeliveryIsAccepted
<1>2. LeaseMove(e) BY <1>1, LeaseMoves DEF Sound
<1>3. w # Lost BY OwnersAreDistinct
<1> QED BY <1>1, <1>2, <1>3 DEF LeaseMove, Holds

(* ClaimedHolds is inductive when processes do not sleep through a lease. *)
LEMMA ClaimedKept ==
  ASSUME Sound, RunsSaw, ClaimedHolds, ~Stalls, [Next]_vars
  PROVE  ClaimedHolds'
<1> SUFFICES ASSUME NEW w \in Workers, run'[w].pc = "claimed"
             PROVE  row'[run'[w].at].token = w /\ row'[run'[w].at].leased
  BY DEF ClaimedHolds, Holds, At, Delivering
<1>1. RunChange(w) BY RunChanges DEF Sound
<1>2. CASE run'[w] = run[w]
  <2>1. run[w].pc \in Delivering BY <1>2 DEF Delivering
  <2> PICK e \in Executions : e = At(w) BY <2>1, DeliveryIsAccepted
  <2>2. /\ row[e] \in DispatchRow /\ row[e].enrolled /\ exec[e].status # "absent"
    BY <2>1, DeliveryIsAccepted
  <2>3. row[e].token = w /\ row[e].leased BY <1>2 DEF ClaimedHolds, Holds
  <2>4. LeaseMove(e) BY <2>2, LeaseMoves DEF Sound
  <2>5. ASSUME NEW v \in Workers, row[e].token = v, Finish(v) PROVE FALSE
    BY <1>2, <2>3, <2>5 DEF Finish
  <2>6. row'[e].token = row[e].token /\ row'[e].leased = row[e].leased
    BY <1>2, <2>3, <2>4, <2>5 DEF LeaseMove
  <2>7. run'[w].at = e BY <1>2 DEF At
  <2> QED BY <2>3, <2>6, <2>7
<1>3. CASE run[w].pc \in Delivering /\ RunStep(w)
  <2>1. \A pc : Goto(w, pc) => run'[w].pc = pc BY GotoKeeps DEF Sound
  <2>2. \A pc, n : GotoHolding(w, pc, n) => run'[w].pc = pc BY GotoKeeps DEF Sound
  <2>3. CASE ClaimReserved(w)
    <3>1. CASE row[At(w)].token = w /\ row[At(w)].leased
      <4>1. Take(w, At(w), "claimed", row[At(w)].wake_version) /\ row' = row
        BY <2>3, <3>1 DEF ClaimReserved, rowVars
      <4> QED BY <3>1, <4>1, TakeTakes DEF Sound
    <3>2. CASE ~(row[At(w)].token = w /\ row[At(w)].leased)
      BY <2>3, <3>2 DEF ClaimReserved, Sound, TypeOK, RunsTypeOK, Idle
    <3> QED BY <3>1, <3>2
  <2>4. CASE StartRun(w) \/ EndRun(w) BY <2>1, <2>4 DEF StartRun, EndRun
  <2>5. CASE BeginStage(w) \/ Continue(w) BY <2>1, <2>5 DEF BeginStage, Continue
  <2>6. CASE Finish(w) \/ PublishBlocked(w)
    BY <2>6 DEF Finish, PublishBlocked, Sound, TypeOK, RunsTypeOK, Idle
  <2>7. CASE Post(w) \/ Collect(w) \/ GiveUp(w) \/ HandleBudgetError(w)
    BY <2>1, <2>2, <2>7 DEF Post, Collect, GiveUp, HandleBudgetError
  <2>8. CASE \/ SaveIntent(w) \/ SaveWaiting(w) \/ SaveTurn(w) \/ SaveResult(w)
             \/ SaveCursor(w) \/ ClearTurn(w) \/ SaveAwaiting(w) \/ SaveCompleted(w)
             \/ SaveFailed(w) \/ SaveCancelled(w) \/ PublishTerminal(w) \/ PublishPause(w) \/ Raise(w)
    BY <2>1, <2>8
    DEF SaveIntent, SaveWaiting, SaveTurn, SaveResult, SaveCursor, ClearTurn, SaveAwaiting,
        SaveCompleted, SaveFailed, SaveCancelled, PublishTerminal, PublishPause, Raise
  <2> QED BY <1>3, <2>3, <2>4, <2>5, <2>6, <2>7, <2>8 DEF RunStep
<1>4. CASE row'[run'[w].at].token = w /\ row'[run'[w].at].leased BY <1>4
<1> QED BY <1>1, <1>2, <1>3, <1>4 DEF RunChange, Delivering

(* ApprovalAwaits is inductive. *)
LEMMA ApprovalKept ==
  ASSUME Sound, ApprovalAwaits, [Next]_vars
  PROVE  ApprovalAwaits'
<1> USE DEF Sound
<1>1. ASSUME NEW e \in Executions, ctx'[e].approval = "pending"
      PROVE  exec'[e].status \in Terminal \cup {"awaiting_approval"}
  <2>1. CtxMove(e) /\ ExecMove(e) BY CtxMoves, ExecMoves
  <2>2. exec[e] \in ExecutionRow BY DEF TypeOK, ExecutionsTypeOK
  <2>3. CASE ctx[e].approval # "pending"
    BY <1>1, <2>1, <2>3 DEF CtxMove
  <2>4. CASE ctx[e].approval = "pending"
    <3>1. exec[e].status \in Terminal \cup {"awaiting_approval"} BY <2>4 DEF ApprovalAwaits
    <3>2. ASSUME NEW w \in Workers, Owns(e, w), At(w) = e PROVE run[w].pc \notin Stage
      BY <2>4, <3>2 DEF ApprovalAwaits, Owns
    <3>3. CASE exec[e].status \in Terminal BY <3>3, TerminalStays
    <3>4. CASE exec[e].status = "awaiting_approval"
      <4>1. exec'[e].status \in Terminal \/ exec'[e].status = exec[e].status
        BY <2>1, <2>2, <3>2, <3>4 DEF ExecMove, ExecutionRow
      <4> QED BY <3>4, <4>1
    <3> QED BY <3>1, <3>3, <3>4
  <2> QED BY <2>3, <2>4
<1>2. ASSUME NEW w \in Workers, run'[w].pc \in Stage, exec'[run'[w].at].worker_id = w
      PROVE  ctx'[run'[w].at].approval # "pending"
  <2> DEFINE e == run'[w].at
  <2>1. run \in [Workers -> Run] /\ run' \in [Workers -> Run]
    BY TypeStep DEF TypeOK, RunsTypeOK
  <2>2. e \in Executions BY <1>2, TypeStep DEF TypeOK, RunsTypeOK, Stage, Delivering
  <2>3. CtxMove(e) /\ ExecMove(e) BY <2>2, CtxMoves, ExecMoves
  <2>4. exec[e] \in ExecutionRow BY <2>2 DEF TypeOK, ExecutionsTypeOK
  <2>5. w # Nobody /\ w # Lost BY OwnersAreDistinct
  <2>6. exec[e].worker_id = w
    <3>1. run'[w] # [run[w] EXCEPT !.pc = "begin"]
      <4> SUFFICES ASSUME run'[w] = [run[w] EXCEPT !.pc = "begin"] PROVE FALSE OBVIOUS
      <4>1. run'[w].pc = "begin" BY <2>1 DEF Run
      <4> QED BY <1>2, <4>1 DEF Stage
    <3> QED BY <1>2, <2>3, <2>4, <2>5, <3>1 DEF ExecMove, ExecutionRow
  <2>7. At(w) = e /\ run[w].pc \in Owning BY <2>2, <2>6 DEF OwnerIsRunning
  <2>8. ctx[e].approval # "pending" => ctx'[e].approval # "pending"
    <3>1. ASSUME NEW v \in Workers, Owns(e, v), run'[v].pc = "begin" PROVE FALSE
      BY <1>2, <2>6, <3>1 DEF Owns, Stage
    <3> QED BY <2>3, <3>1 DEF CtxMove
  <2>9. CASE run[w].pc \in Stage BY <2>6, <2>7, <2>8, <2>9 DEF ApprovalAwaits
  <2>10. CASE run[w].pc \notin Stage
    <3>1. run'[w] # run[w] BY <1>2, <2>10
    <3>2. RunStep(w)
      <4>1. RunStep(w) \/ Crash(w) BY <2>7, <3>1, OwnStep
      <4>2. ~Crash(w) BY <1>2 DEF Crash, TypeOK, RunsTypeOK, Idle, Stage
      <4> QED BY <4>1, <4>2
    <3>3. \A pc : Goto(w, pc) => run'[w].pc = pc BY GotoKeeps
    <3>4. BeginStage(w)
      <4>1. ASSUME Raise(w) \/ EndRun(w) \/ PublishTerminal(w) \/ PublishPause(w)
                     \/ SaveCompleted(w) \/ SaveFailed(w) \/ SaveCancelled(w)
            PROVE  FALSE
        BY <1>2, <3>3, <4>1
        DEF Raise, EndRun, PublishTerminal, PublishPause, SaveCompleted, SaveFailed,
            SaveCancelled, Stage
      <4>2. ASSUME HandleBudgetError(w) PROVE FALSE
        BY <1>2, <3>3, <4>2 DEF HandleBudgetError, Stage
      <4>3. ASSUME Finish(w) \/ PublishBlocked(w) \/ ClaimReserved(w) \/ StartRun(w) PROVE FALSE
        BY <2>7, <4>3 DEF Finish, PublishBlocked, ClaimReserved, StartRun, Owning
      <4>4. ASSUME \/ SaveIntent(w) \/ Post(w) \/ Collect(w) \/ SaveWaiting(w) \/ SaveTurn(w)
                   \/ SaveResult(w) \/ SaveCursor(w) \/ ClearTurn(w) \/ SaveAwaiting(w) \/ Continue(w)
                   \/ GiveUp(w)
            PROVE  FALSE
        BY <2>10, <4>4
        DEF SaveIntent, Post, Collect, SaveWaiting, SaveTurn, SaveResult, SaveCursor, ClearTurn,
            SaveAwaiting, Continue, GiveUp, NeedsModel, NeedsTool, Stage
      <4> QED BY <3>2, <4>1, <4>2, <4>3, <4>4 DEF RunStep
    <3>5. ctx[e].approval # "pending" BY <1>2, <2>7, <3>3, <3>4 DEF BeginStage, Stage
    <3> QED BY <2>8, <3>5
  <2> QED BY <2>9, <2>10
<1> QED BY <1>1, <1>2 DEF ApprovalAwaits, At

(* While the holder of a delivery stands still, nobody else changes what its *)
(* execution came to.                                                        *)
LEMMA OthersLeaveIt ==
  ASSUME Sound, RunsSaw, ClaimedHolds, [Next]_vars, NEW w \in Workers, NEW e \in Executions,
         At(w) = e, run'[w] = run[w], run[w].pc \in Owning \cup {"acking"}, Holds(w),
         Knows(w, e, run[w].pc, run[w].seen)
  PROVE  /\ exec'[e].status = exec[e].status
         /\ exec[e].worker_id = w => exec'[e].worker_id = w
         /\ exec[e].worker_id \notin Workers => exec'[e].worker_id \notin Workers
         /\ \/ ctx'[e] = ctx[e]
            \/ row'[e].wake_version # run[w].seen
<1> USE DEF Sound
<1>1. run[w].pc \in Delivering BY DEF Owning, Delivering
<1>2. /\ row[e] \in DispatchRow /\ exec[e] \in ExecutionRow /\ exec[e].status # "absent"
      /\ run[w].seen \in Nat /\ row[e].wake_version \in Nat
      /\ run[w].seen <= row[e].wake_version
  BY <1>1, DeliveryIsAccepted
<1>3. ASSUME NEW v \in Workers, At(v) = e, run[v].pc = "claimed",
             run'[v] = [run[v] EXCEPT !.pc = "begin"]
      PROVE  FALSE
  <2>1. v = w BY <1>3 DEF ClaimedHolds, Holds
  <2>2. run'[v].pc = "begin" BY <1>3 DEF TypeOK, RunsTypeOK, Run
  <2> QED BY <1>3, <2>1, <2>2
<1>4. ASSUME NEW v \in Workers, Owns(e, v), run[v].pc \in Owning \ Ending, run'[v] # run[v]
      PROVE  FALSE
  <2>1. v # w /\ exec[e].worker_id = v /\ exec[e].status \notin Terminal
    BY <1>4 DEF Owns, OwnerIsRunning
  <2> QED BY <2>1 DEF Knows
<1>5. ExecMove(e) BY ExecMoves
<1>6. exec'[e].status = exec[e].status
  BY <1>2, <1>3, <1>4, <1>5 DEF ExecMove, ExecutionRow
<1>7. exec[e].worker_id = w => exec'[e].worker_id = w
  <2>1. w # Nobody /\ w # Lost BY OwnersAreDistinct
  <2> QED BY <1>2, <1>3, <1>4, <1>5, <2>1 DEF ExecMove, ExecutionRow
<1>8. exec[e].worker_id \notin Workers => exec'[e].worker_id \notin Workers
  BY <1>2, <1>3, <1>5, OwnersAreDistinct DEF ExecMove, ExecutionRow
<1>9. ctx'[e] = ctx[e] \/ row'[e].wake_version # run[w].seen
  <2>1. CtxMove(e) BY CtxMoves
  <2>2. row'[e] = Woken(row[e]) => row'[e].wake_version = row[e].wake_version + 1
    BY <1>2 DEF Woken, DispatchRow
  <2>3. row'[e] = Woken(row[e]) => row'[e].wake_version # run[w].seen BY <1>2, <2>2
  <2>4. Stage \subseteq Owning \ Ending BY DEF Stage, Owning, Ending
  <2> QED BY <1>4, <2>1, <2>3, <2>4 DEF CtxMove
<1> QED BY <1>6, <1>7, <1>8, <1>9

(* What the holder knows stays true while it stands still. *)
LEMMA KnowledgeStays ==
  ASSUME Sound, RunsSaw, ClaimedHolds, [Next]_vars, NEW w \in Workers, NEW e \in Executions,
         At(w) = e, run'[w] = run[w], run[w].pc \in Delivering, Holds(w),
         Knows(w, e, run[w].pc, run[w].seen)
  PROVE  Knows(w, e, run[w].pc, run[w].seen)'
<1> DEFINE pc == run[w].pc
           n == run[w].seen
<1>0. CASE pc \notin Owning \cup {"acking"}
  BY <1>0 DEF Knows, Owning
<1>1. CASE pc \in Owning \cup {"acking"}
  <2>1. /\ exec'[e].status = exec[e].status
        /\ exec[e].worker_id = w => exec'[e].worker_id = w
        /\ exec[e].worker_id \notin Workers => exec'[e].worker_id \notin Workers
        /\ ctx'[e] = ctx[e] \/ row'[e].wake_version # n
    BY <1>1, OthersLeaveIt
  <2>2. n = row'[e].wake_version => n = row[e].wake_version
    <3>1. /\ row[e].enrolled /\ n \in Nat /\ row[e].wake_version \in Nat
          /\ n <= row[e].wake_version
      BY DeliveryIsAccepted
    <3>2. row[e].wake_version <= row'[e].wake_version BY <3>1, WakesGrow DEF Sound
    <3> QED BY <3>1, <3>2
  <2>3. published \subseteq published' /\ paused \subseteq paused' BY EventsGrow
  <2>4. SaidSo(e, n) => SaidSo(e, n)' BY <2>1, <2>2, <2>3 DEF SaidSo
  <2>5. pc' = pc /\ n' = n OBVIOUS
  <2> QED BY <2>1, <2>2, <2>4, <2>5 DEF Knows
<1> QED BY <1>0, <1>1

(* What a save leaves of the execution it writes. *)
LEMMA SaveLeaves ==
  ASSUME TypeOK, NEW w \in Workers, NEW e \in Executions, At(w) = e, NEW s, NEW n, Save(w, s, n)
  PROVE  exec'[e].worker_id = w /\ exec'[e].status = s
<1>1. exec[e] \in ExecutionRow /\ exec[e].worker_id = w
  BY DEF TypeOK, ExecutionsTypeOK, Save, SaveStatus, Owns
<1>2. exec'[e] = [exec[e] EXCEPT !.status = s]
  BY DEF TypeOK, ExecutionsTypeOK, Save, SaveStatus
<1> QED BY <1>1, <1>2 DEF ExecutionRow

(* What the holder of a delivery learns by its own step. *)
LEMMA KnowledgeGained ==
  ASSUME Sound, RunsSaw, ApprovalAwaits, [Next]_vars, NEW w \in Workers, NEW e \in Executions,
         At(w) = e, run'[w].at = e, run'[w].seen = run[w].seen, run[w].pc \in Delivering,
         run'[w].pc \in Delivering, RunStep(w), Holds(w),
         Knows(w, e, run[w].pc, run[w].seen)
  PROVE  Knows(w, e, run[w].pc, run[w].seen)'
<1> USE DEF Sound
<1> DEFINE n == run[w].seen
           Goal == Knows(w, e, run[w].pc, n)'
<1>1. \A pc : Goto(w, pc) => run'[w].pc = pc BY GotoKeeps
<1>2. \A pc, i : GotoHolding(w, pc, i) => run'[w].pc = pc BY GotoKeeps
<1>3. n = row'[e].wake_version => n = row[e].wake_version
  <2>1. /\ row[e].enrolled /\ n \in Nat /\ row[e].wake_version \in Nat
        /\ n <= row[e].wake_version
    BY DeliveryIsAccepted
  <2>2. row[e].wake_version <= row'[e].wake_version BY <2>1, WakesGrow
  <2> QED BY <2>1, <2>2
<1>4. run[w].pc \in Owning \ Ending => exec[e].worker_id = w BY DEF Knows
<1>5. exec[e] \in ExecutionRow /\ exec \in [Executions -> ExecutionRow]
  BY DEF TypeOK, ExecutionsTypeOK
<1>6. n' = n OBVIOUS
<1> DEFINE Early == {"reserved", "claimed", "nacking", "busy"}
           Inside == Owning \ {"publishing", "answered", "advanced", "pausing", "returning"}
<1>7. run'[w].pc \in Early => Goal BY DEF Knows, Owning
<1>8. run'[w].pc \in Inside /\ exec'[e].worker_id = w => Goal BY DEF Knows, Owning
<1>9. CASE ClaimReserved(w)
  <2>1. run' # [run EXCEPT ![w] = Idle] BY DEF TypeOK, RunsTypeOK, Idle, Delivering
  <2>2. run'[w].pc = "claimed" BY <1>9, <2>1, TakeTakes DEF ClaimReserved
  <2> QED BY <1>7, <2>2
<1>10. CASE StartRun(w)
  <2>1. CASE exec[e].status \in Terminal /\ Goto(w, "publishing") /\ UNCHANGED exec
    BY <1>1, <2>1 DEF Knows, Owning, Ending
  <2>2. CASE Goto(w, "busy") BY <1>1, <1>7, <2>2
  <2>3. CASE ClaimExecution(e, w) /\ Goto(w, "begin")
    <3>1. exec'[e].worker_id = w BY <1>5, <2>3 DEF ClaimExecution, ExecutionRow
    <3> QED BY <1>1, <1>8, <2>3, <3>1 DEF Owning
  <2> QED BY <1>10, <2>1, <2>2, <2>3 DEF StartRun
<1>11. CASE BeginStage(w)
  <2>1. exec[e].worker_id = w /\ exec' = exec /\ ctx' = ctx
    BY <1>11 DEF BeginStage, Owns, executionVars
  <2>2. CASE run'[w].pc = "pausing"
    <3>1. ctx[e].approval = "pending" BY <1>1, <1>11, <2>2 DEF BeginStage
    <3>2. exec[e].status = "awaiting_approval"
      BY <1>11, <2>1, <3>1 DEF ApprovalAwaits, OwnerIsRunning, BeginStage, Ending
    <3> QED BY <2>1, <2>2, <3>1, <3>2 DEF Knows
  <2>3. CASE run'[w].pc \in {"cancelling", "completing", "working"}
    BY <1>8, <2>1, <2>3 DEF Owning
  <2> QED BY <1>1, <1>11, <2>2, <2>3 DEF BeginStage
<1>12. CASE Post(w) \/ Collect(w) \/ GiveUp(w) \/ HandleBudgetError(w)
  <2>1. exec' = exec /\ run[w].pc \in Owning \ Ending
    BY <1>12 DEF Post, Collect, GiveUp, HandleBudgetError, NeedsModel, Owning, Ending,
                 executionVars
  <2>2. run'[w].pc \in {"posted", "collected", "failing", "waiting", "savefailed", "cancelling"}
    BY <1>1, <1>2, <1>12 DEF Post, Collect, GiveUp, HandleBudgetError
  <2> QED BY <1>4, <1>8, <2>1, <2>2 DEF Owning
<1>13. CASE SaveIntent(w) \/ SaveAwaiting(w)
  <2>1. exec'[e].worker_id = w BY <1>13, SaveLeaves DEF SaveIntent, SaveAwaiting
  <2>2. run'[w].pc \in {"posting", "begin"} BY <1>1, <1>13 DEF SaveIntent, SaveAwaiting
  <2> QED BY <1>8, <2>1, <2>2 DEF Owning
<1>14. CASE SaveResult(w)
  <2>1. run[w].pc \in Owning \ Ending BY <1>14 DEF SaveResult, NeedsTool, Owning, Ending
  <2>2. exec'[e].worker_id = w
    BY <1>4, <1>14, <2>1, SaveLeaves DEF SaveResult, executionVars
  <2>3. run'[w].pc = "resulted" BY <1>1, <1>14 DEF SaveResult
  <2> QED BY <1>8, <2>2, <2>3 DEF Owning
<1>15. CASE SaveTurn(w) \/ (SaveCursor(w) /\ run'[w].pc # "spent")
  <2>1. exec'[e].worker_id = w /\ exec'[e].status = "ready"
    BY <1>15, SaveLeaves DEF SaveTurn, SaveCursor
  <2>2. run'[w].pc \in {"answered", "advanced"} BY <1>1, <1>15 DEF SaveTurn, SaveCursor
  <2> QED BY <2>1, <2>2 DEF Knows
<1>16. CASE SaveWaiting(w)
  <2>1. exec'[e].worker_id = w /\ exec'[e].status = "waiting_model"
    BY <1>16, SaveLeaves DEF SaveWaiting
  <2>2. run'[w].pc = "returning" BY <1>1, <1>16 DEF SaveWaiting
  <2> QED BY <2>1, <2>2 DEF Knows, SaidSo, Terminal
<1>17. CASE Continue(w)
  <2>1. exec[e].worker_id = w /\ exec' = exec /\ exec[e].status = "ready"
    BY <1>17 DEF Continue, Owns, executionVars, Knows
  <2>2. run'[w].pc \in {"cancelling", "completing", "returning"}
    BY <1>1, <1>17 DEF Continue
  <2> QED BY <2>1, <2>2 DEF Knows, SaidSo, Terminal
<1>18. CASE SaveCompleted(w) \/ SaveFailed(w) \/ SaveCancelled(w)
  <2>1. exec'[e].worker_id = w /\ exec'[e].status \in Terminal
    BY <1>18, SaveLeaves DEF SaveCompleted, SaveFailed, SaveCancelled, Terminal
  <2>2. run'[w].pc = "publishing" BY <1>1, <1>18 DEF SaveCompleted, SaveFailed, SaveCancelled
  <2> QED BY <2>1, <2>2 DEF Knows
<1>19. CASE PublishTerminal(w)
  <2>1. exec' = exec /\ exec[e].status \in Terminal /\ e \in published'
    BY <1>19 DEF PublishTerminal, executionVars, Knows
  <2>2. run'[w].pc = "returning" BY <1>1, <1>19 DEF PublishTerminal
  <2> QED BY <2>1, <2>2 DEF Knows, SaidSo, Terminal, Ending
<1>20. CASE PublishPause(w)
  <2>1. /\ exec' = exec /\ ctx' = ctx /\ exec[e].status = "awaiting_approval"
        /\ exec[e].worker_id = w
        /\ n = row[e].wake_version => ctx[e].approval = "pending"
        /\ <<e, ctx[e].round, ctx[e].call_index>> \in paused'
    BY <1>20 DEF PublishPause, executionVars, Knows, Owning, Ending, Terminal
  <2>2. run'[w].pc = "returning" BY <1>1, <1>20 DEF PublishPause
  <2> QED BY <1>3, <2>1, <2>2 DEF Knows, SaidSo, Terminal
<1>21. CASE Raise(w)
  <2>1. exec' = exec /\ run[w].pc \in Owning BY <1>21 DEF Raise, executionVars, Owning
  <2>2. run'[w].pc = "raising" BY <1>1, <1>21 DEF Raise
  <2> QED BY <2>1, <2>2 DEF Knows, Ending
<1>22. CASE EndRun(w)
  <2>1. CASE run[w].pc = "raising"
    <3>1. run'[w].pc = "nacking" BY <1>1, <1>22, <2>1 DEF EndRun
    <3> QED BY <1>7, <3>1
  <2>2. CASE run[w].pc = "returning"
    <3>1. run'[w].pc = "acking" BY <1>1, <1>22, <2>2 DEF EndRun
    <3>2. exec'[e].status = exec[e].status BY <1>5, <1>22 DEF EndRun, Release, ExecutionRow
    <3>3. exec[e].worker_id = w => exec'[e].worker_id = Nobody
      BY <1>5, <1>22 DEF EndRun, Release, ExecutionRow
    <3>4. exec[e].worker_id = w \/ exec[e].status \in Terminal
      BY <2>2 DEF Knows, Owning
    <3>5. exec'[e].worker_id \notin Workers \/ exec'[e].status \in Terminal
      BY <3>2, <3>3, <3>4, OwnersAreDistinct
    <3>6. SaidSo(e, n) /\ ctx' = ctx /\ published' = published /\ paused' = paused
      BY <1>22, <2>2 DEF EndRun, Knows, eventVars
    <3>7. SaidSo(e, n)' BY <1>3, <3>2, <3>6 DEF SaidSo
    <3> QED BY <3>1, <3>5, <3>7 DEF Knows, Owning
  <2> QED BY <1>22, <2>1, <2>2 DEF EndRun
<1>23. CASE Finish(w) \/ PublishBlocked(w)
  BY <1>23 DEF Finish, PublishBlocked, TypeOK, RunsTypeOK, Idle, Delivering
<1>24. CASE SaveCursor(w) /\ run'[w].pc = "spent"
  <2>1. exec'[e].worker_id = w BY <1>24, SaveLeaves DEF SaveCursor
  <2> QED BY <1>8, <1>24, <2>1 DEF Owning
<1>25. CASE ClearTurn(w)
  <2>1. exec'[e].worker_id = w /\ exec'[e].status = "ready"
    BY <1>25, SaveLeaves DEF ClearTurn
  <2>2. run'[w].pc \in {"advanced", "begin"} BY <1>1, <1>25 DEF ClearTurn
  <2> QED BY <2>1, <2>2 DEF Knows
<1> QED
  BY <1>9, <1>10, <1>11, <1>12, <1>13, <1>14, <1>15, <1>16, <1>17, <1>18, <1>19, <1>20, <1>21,
     <1>22, <1>23, <1>24, <1>25
  DEF RunStep

(* HolderKnows is inductive when processes do not sleep through a lease. *)
LEMMA HolderKept ==
  ASSUME Sound, RunsSaw, ClaimedHolds, ApprovalAwaits, HolderKnows, [Next]_vars
  PROVE  HolderKnows'
<1> SUFFICES ASSUME NEW w \in Workers, Holds(w)'
             PROVE  Knows(w, At(w), run[w].pc, run[w].seen)'
  BY DEF HolderKnows
<1>1. run'[w].pc \in Delivering /\ row'[run'[w].at].token = w /\ row'[run'[w].at].leased
  BY DEF Holds, At
<1>2. RunChange(w) BY RunChanges DEF Sound
<1>3. CASE run'[w].pc \in {"reserved", "claimed"} BY <1>3 DEF Knows, Owning
<1>4. ASSUME run[w].pc \in Delivering, run'[w].at = run[w].at,
             run'[w] = run[w] \/ (RunStep(w) /\ run'[w].seen = run[w].seen)
      PROVE  Knows(w, At(w), run[w].pc, run[w].seen)'
  <2> PICK e \in Executions : e = At(w) BY <1>4, DeliveryIsAccepted
  <2>1. At(w)' = e BY <1>4 DEF At
  <2>2. row'[e].token = w /\ row'[e].leased BY <1>1, <1>4 DEF At
  <2>3. Holds(w) BY <1>4, <2>2, HeldBefore
  <2>4. Knows(w, e, run[w].pc, run[w].seen) BY <2>3 DEF HolderKnows
  <2>5. Knows(w, e, run[w].pc, run[w].seen)'
    <3>1. CASE run'[w] = run[w] BY <1>4, <2>3, <2>4, <3>1, KnowledgeStays
    <3>2. CASE RunStep(w) /\ run'[w].seen = run[w].seen
      <4>1. run'[w].at = e BY <2>1 DEF At
      <4> QED BY <1>1, <1>4, <2>3, <2>4, <3>2, <4>1, KnowledgeGained
    <3> QED BY <1>4, <3>1, <3>2
  <2> QED BY <2>1, <2>5
<1> QED BY <1>1, <1>2, <1>3, <1>4 DEF RunChange

(* What settles was published, and what was published and settled stays so. *)
LEMMA SettledKept ==
  ASSUME Sound, HolderKnows, SettledIsPublished, [Next]_vars
  PROVE  SettledIsPublished'
<1> USE DEF Sound
<1> SUFFICES ASSUME NEW e \in Executions, row'[e].settled
             PROVE  \/ exec'[e].status \in Terminal /\ e \in published'
                    \/ /\ exec'[e].status = "awaiting_approval"
                       /\ ctx'[e].approval = "pending"
                       /\ <<e, ctx'[e].round, ctx'[e].call_index>> \in paused'
  BY DEF SettledIsPublished
<1>1. exec[e] \in ExecutionRow /\ row[e] \in DispatchRow
  BY DEF TypeOK, ExecutionsTypeOK, RowsTypeOK
<1>2. published \subseteq published' /\ paused \subseteq paused' BY EventsGrow
<1>3. CASE row[e].settled
  <2>1. CASE exec[e].status \in Terminal /\ e \in published
    BY <1>2, <2>1, TerminalStays
  <2>2. CASE /\ exec[e].status = "awaiting_approval" /\ ctx[e].approval = "pending"
             /\ <<e, ctx[e].round, ctx[e].call_index>> \in paused
    <3>1. exec'[e].status = "awaiting_approval"
      <4>1. ExecMove(e) BY ExecMoves
      <4> QED BY <1>1, <2>2, <4>1 DEF ExecMove, ExecutionRow
    <3>2. ctx'[e] = ctx[e]
      <4>1. CtxMove(e) BY CtxMoves
      <4>2. row'[e] # Woken(row[e]) BY <1>1 DEF Woken, DispatchRow
      <4> QED BY <4>1, <4>2 DEF CtxMove
    <3> QED BY <1>2, <2>2, <3>1, <3>2
  <2> QED BY <1>3, <2>1, <2>2 DEF SettledIsPublished
<1>4. CASE ~row[e].settled
  <2>1. PICK w \in Workers : /\ At(w) = e /\ row[e].token = w /\ row[e].leased
                             /\ Finish(w) /\ row'[e] = Finished(row[e], w, e)
    BY <1>4, SettlesByFinish
  <2>2. /\ run[w].pc = "acking" /\ row[e].wake_version = run[w].seen
        /\ exec[e].status \in Terminal \cup {"awaiting_approval"}
    BY <1>1, <1>4, <2>1 DEF Finished, DispatchRow
  <2>3. Holds(w) BY <2>1, <2>2 DEF Holds, Delivering
  <2>4. SaidSo(e, run[w].seen) BY <2>1, <2>2, <2>3 DEF HolderKnows, Knows
  <2>5. UNCHANGED <<exec, ctx, published, paused>> BY <2>1 DEF Finish, executionVars, eventVars
  <2> QED BY <2>2, <2>4, <2>5 DEF SaidSo
<1> QED BY <1>3, <1>4

(* ADR 0031 and operations.md: a settled delivery already published its      *)
(* final event or its pause, for every number of executions and workers,     *)
(* when no process sleeps through its delivery lease before it claims the    *)
(* execution.                                                                *)
THEOREM PublishedBeforeSettled ==
  ASSUME ~Stalls
  PROVE  Spec => []SettledIsPublished
<1> DEFINE IInv == RunsSaw /\ Settling
<1>1. Init => IInv
  BY OwnersAreDistinct
  DEF Init, ExecutionsInit, RunsSaw, Settling, ClaimedHolds, ApprovalAwaits, HolderKnows, Holds,
      SettledIsPublished, Idle, Delivering, Stage
<1>2. TypeOK /\ OwnerIsRunning /\ AbsentHasNoRow /\ IInv /\ [Next]_vars => IInv'
  BY RunsSawKept, ClaimedKept, ApprovalKept, HolderKept, SettledKept DEF Sound, Settling
<1>3. IInv => SettledIsPublished BY DEF Settling
<1>4. Spec => []TypeOK BY TypeCorrect
<1>5. Spec => []OwnerIsRunning BY OwnersRun
<1>6. Spec => []AbsentHasNoRow BY AbsentHolds
<1> QED BY <1>1, <1>2, <1>3, <1>4, <1>5, <1>6, PTL DEF Spec

-----------------------------------------------------------------------------
(* Why a model request is never paid for twice, for every number of          *)
(* executions and workers and with or without stalls: the POST has no fence, *)
(* so that a run without its lease may still make it, but only the run whose *)
(* intent is in the checkpoint ever does, and nobody can save a turn of this *)
(* round before.                                                             *)

(* The program counters from which a turn or a response id is saved. *)
Answering == {"posted", "waiting", "collected"}

(* A run on its way to the POST has the round to itself: its intent is       *)
(* saved, nothing was sent for this round, no response id is known, and no   *)
(* other run at the execution can post, or save an answer.                   *)
PosterIsAlone ==
    \A w \in Workers : run[w].pc = "posting" =>
        /\ ctx[At(w)].started /\ submitted[At(w)] <= ctx[At(w)].round
        /\ row[At(w)].response_id = 0
        /\ \A v \in Workers \ {w} : At(v) = At(w) =>
             /\ run[v].pc # "posting"
             /\ exec[At(w)].worker_id = v => run[v].pc \notin Answering

(* The inductive invariant behind SubmittedOnce. *)
PaidOnce == PosterIsAlone /\ SubmittedOnce

(* The ways one step can change what was submitted for e, or its intent. *)
PayMove(e) ==
    \/ /\ submitted'[e] = submitted[e] /\ ctx'[e].round = ctx[e].round
       /\ ctx'[e].started = ctx[e].started
    \/ \E w \in Workers : /\ Post(w) /\ At(w) = e /\ run'[w].pc # "posting"
                          /\ submitted'[e] = submitted[e] + 1 /\ ctx'[e] = ctx[e]
    \/ \E w \in Workers : /\ SaveIntent(w) /\ At(w) = e
                          /\ submitted'[e] = submitted[e] /\ ctx'[e].round = ctx[e].round
                          /\ ~ctx[e].started /\ ctx'[e].started
    \/ \E w \in Workers : /\ SaveTurn(w) /\ At(w) = e
                          /\ submitted'[e] = submitted[e] /\ ctx'[e].round = ctx[e].round + 1
                          /\ ~ctx'[e].started

(* Every step changes the submissions of e in one of the ways of PayMove. *)
LEMMA PayMoves ==
  ASSUME TypeOK, [Next]_vars, NEW e \in Executions
  PROVE  PayMove(e)
<1>1. ctx \in [Executions -> Context] BY DEF TypeOK, ContextTypeOK
<1>2. submitted \in [Executions -> Nat] BY DEF TypeOK, ProviderTypeOK
<1>3. UNCHANGED <<submitted, ctx>> => PayMove(e) BY DEF PayMove
<1>4. ASSUME NEW f, NEW a, UNCHANGED submitted,
             ctx' = [ctx EXCEPT ![f] = [@ EXCEPT !.approval = a]]
      PROVE  PayMove(e)
  BY <1>1, <1>4 DEF PayMove, Context
<1>5. CASE UNCHANGED vars BY <1>3, <1>5 DEF vars, providerVars
<1>6. ASSUME NEW f \in Executions, UserStep(f) PROVE PayMove(e)
  BY <1>3, <1>4, <1>6
  DEF UserStep, Submit, PrepareOnly, Resume, Decide, Cancel, SubmitPhoto, ResumePhoto, providerVars
<1>7. ASSUME NEW f \in Executions, Environment(f) PROVE PayMove(e)
  BY <1>3, <1>7
  DEF Environment, ProviderFinish, Notify, BecomeDue, ExpireDelivery, ExpireExecution, providerVars
<1>8. ASSUME NEW w \in Workers, WorkerLoop(w) \/ Crash(w) PROVE PayMove(e)
  BY <1>3, <1>8 DEF WorkerLoop, ClaimDelivery, Reconcile, Crash, providerVars
<1>9. ASSUME NEW w \in Workers, RunStep(w) PROVE PayMove(e)
  <2>1. CASE Post(w)
    <3>1. CASE UNCHANGED submitted BY <1>3, <2>1, <3>1 DEF Post
    <3>2. CASE submitted' # submitted
      <4>1. /\ submitted' = [submitted EXCEPT ![At(w)] = @ + 1] /\ UNCHANGED ctx
            /\ GotoHolding(w, "posted", submitted[At(w)] + 1) /\ run[w].pc = "posting"
        BY <2>1, <3>2 DEF Post
      <4>2. run'[w].pc = "posted" BY <4>1, GotoMoves
      <4>3. CASE e = At(w) BY <1>2, <2>1, <4>1, <4>2, <4>3 DEF PayMove
      <4>4. CASE e # At(w) BY <1>2, <4>1, <4>4 DEF PayMove
      <4> QED BY <4>3, <4>4
    <3> QED BY <3>1, <3>2
  <2>2. CASE SaveIntent(w)
    BY <1>1, <2>2 DEF SaveIntent, NeedsModel, PayMove, Context, providerVars
  <2>3. CASE SaveTurn(w)
    <3>1. PICK kind \in {"calls", "answer"} :
            ctx' = [ctx EXCEPT ![At(w)] = [@ EXCEPT
                      !.started = FALSE, !.round = ctx[At(w)].round + 1, !.pending = kind,
                      !.call_index = 0]]
      BY <2>3 DEF SaveTurn
    <3>2. UNCHANGED submitted BY <2>3 DEF SaveTurn, providerVars
    <3>3. CASE e = At(w) BY <1>1, <2>3, <3>1, <3>2, <3>3 DEF PayMove, Context
    <3>4. CASE e # At(w) BY <1>1, <3>1, <3>2, <3>4 DEF PayMove
    <3> QED BY <3>3, <3>4
  <2>4. ASSUME UNCHANGED submitted, NEW f, NEW c,
               ctx' = [ctx EXCEPT ![f] = c],
               f \in Executions => c.round = ctx[f].round /\ c.started = ctx[f].started
        PROVE  PayMove(e)
    BY <1>1, <2>4 DEF PayMove
  <2>5. run[w].pc \in Delivering => ctx[At(w)] \in Context
    BY <1>1 DEF TypeOK, RunsTypeOK, At
  <2>6. CASE SaveResult(w)
    BY <1>3, <2>4, <2>5, <2>6 DEF SaveResult, NeedsTool, Delivering, Context, providerVars
  <2>7. CASE SaveCursor(w)
    <3>1. PICK kind \in {"calls", "spent"} :
            ctx' = [ctx EXCEPT ![At(w)] = [@ EXCEPT
                      !.pending = kind, !.call_index = ctx[At(w)].call_index + 1,
                      !.result = FALSE, !.approval = "none"]]
      BY <2>7 DEF SaveCursor
    <3> QED BY <2>4, <2>5, <2>7, <3>1 DEF SaveCursor, Delivering, Context, providerVars
  <2>8. CASE ClearTurn(w) \/ SaveAwaiting(w)
    BY <2>4, <2>5, <2>8
    DEF ClearTurn, SaveAwaiting, NeedsTool, Delivering, Context, providerVars
  <2> QED
    BY <1>3, <1>9, <2>1, <2>2, <2>3, <2>6, <2>7, <2>8
    DEF RunStep, ClaimReserved, StartRun, BeginStage, Collect, SaveWaiting, Continue,
        SaveCompleted, GiveUp, HandleBudgetError, SaveFailed, SaveCancelled, PublishTerminal,
        PublishPause, Raise, EndRun, Finish, PublishBlocked, providerVars
<1> QED BY <1>5, <1>6, <1>7, <1>8, <1>9 DEF Next

(* A response id is learned only by the save of a run that waits for it.     *)
LEMMA ResponseIsLearned ==
  ASSUME TypeOK, [Next]_vars, NEW e \in Executions, row[e].response_id = 0,
         row'[e].response_id # 0
  PROVE  \E w \in Workers : SaveWaiting(w) /\ At(w) = e
<1>1. row[e] \in DispatchRow BY DEF TypeOK, RowsTypeOK
<1>2. RowMove(e) BY RowMoves
<1>3. \A o : EnrolledRow(o).response_id = 0 BY DEF EnrolledRow
<1>4. Woken(row[e]).response_id = 0 /\ Matched(row[e]).response_id = 0
  BY <1>1 DEF Woken, Matched, DispatchRow
<1>5. \A o : [Woken(row[e]) EXCEPT !.token = o, !.leased = TRUE].response_id = 0
  BY <1>1 DEF Woken, DispatchRow
<1>6. \A w : Finished(row[e], w, e).response_id = 0 BY <1>1 DEF Finished, DispatchRow
<1>7. /\ [row[e] EXCEPT !.available_at = "due"].response_id = 0
      /\ [row[e] EXCEPT !.leased = FALSE].response_id = 0
      /\ [row[e] EXCEPT !.token = Lost].response_id = 0
      /\ \A o : [row[e] EXCEPT !.token = o, !.leased = TRUE].response_id = 0
  BY <1>1 DEF DispatchRow
<1>8. CASE row'[e].response_id \in {0, row[e].response_id} BY <1>8
<1>9. CASE \/ row'[e] = row[e]
           \/ \E o : row'[e] \in {EnrolledRow(o), Woken(row[e]), Matched(row[e]),
                                 [Woken(row[e]) EXCEPT !.token = o, !.leased = TRUE]}
  BY <1>3, <1>4, <1>5, <1>9
<1>10. CASE \E w : row'[e] \in {Finished(row[e], w, e),
                                [row[e] EXCEPT !.token = w, !.leased = TRUE],
                                [row[e] EXCEPT !.token = Lost],
                                [row[e] EXCEPT !.leased = FALSE],
                                [row[e] EXCEPT !.available_at = "due"]}
  BY <1>6, <1>7, <1>10
<1> QED BY <1>2, <1>8, <1>9, <1>10, Zenon DEF RowMove

(* Nobody but the intent, the POST and the collection leads to the POST or   *)
(* to an answer.                                                             *)
LEMMA ArrivesAtAnswer ==
  ASSUME Sound, RunsSaw, [Next]_vars, NEW v \in Workers, run'[v] # run[v],
         run'[v].pc \in Answering \cup {"posting"}
  PROVE  /\ run'[v].at = run[v].at
         /\ \/ SaveIntent(v) /\ run'[v].pc = "posting"
            \/ Post(v) /\ run[v].pc = "posting"
            \/ Collect(v) /\ run'[v].pc \in {"collected", "waiting"}
<1>1. RunChange(v) BY RunChanges DEF Sound
<1>2. RunStep(v) /\ run'[v].at = run[v].at /\ run[v].pc \in Delivering
  BY <1>1 DEF RunChange, Delivering, Answering
<1>3. \A pc : run[v].pc # pc /\ Goto(v, pc) => run'[v].pc = pc BY GotoMoves DEF Sound
<1>4. \A pc, n : run[v].pc # pc /\ GotoHolding(v, pc, n) => run'[v].pc = pc
  BY GotoMoves DEF Sound
<1>5. CASE SaveIntent(v) BY <1>2, <1>3, <1>5 DEF SaveIntent, NeedsModel
<1>6. CASE Post(v) BY <1>2, <1>6 DEF Post
<1>7. CASE Collect(v)
  BY <1>2, <1>3, <1>4, <1>7 DEF Collect, NeedsModel, Answering
<1>8. CASE ClaimReserved(v) \/ StartRun(v) \/ Finish(v) \/ PublishBlocked(v)
  BY <1>1, <1>2, <1>3, <1>8
  DEF ClaimReserved, StartRun, Finish, PublishBlocked, Answering, Idle, Take, Sound, TypeOK,
      RunsTypeOK
<1>9. CASE BeginStage(v) \/ Continue(v)
  BY <1>3, <1>9 DEF BeginStage, Continue, Answering
<1>10. CASE SaveWaiting(v) \/ SaveTurn(v) \/ SaveResult(v) \/ SaveCursor(v) \/ ClearTurn(v)
            \/ SaveAwaiting(v)
  BY <1>3, <1>10
  DEF SaveWaiting, SaveTurn, SaveResult, SaveCursor, ClearTurn, SaveAwaiting, NeedsTool, Answering
<1>11. CASE SaveCompleted(v) \/ GiveUp(v) \/ HandleBudgetError(v) \/ SaveFailed(v)
            \/ SaveCancelled(v) \/ PublishTerminal(v) \/ PublishPause(v) \/ Raise(v) \/ EndRun(v)
  BY <1>3, <1>11
  DEF SaveCompleted, GiveUp, NeedsModel, HandleBudgetError, SaveFailed, SaveCancelled,
      PublishTerminal, PublishPause, Raise, EndRun, Answering
<1> QED
  BY <1>2, <1>5, <1>6, <1>7, <1>8, <1>9, <1>10, <1>11 DEF RunStep

(* A run becomes the owner of an execution only where it claims it.          *)
LEMMA OwnerWasOwner ==
  ASSUME TypeOK, [Next]_vars, NEW e \in Executions, NEW v \in Workers,
         exec'[e].worker_id = v
  PROVE  exec[e].worker_id = v \/ run'[v].pc = "begin"
<1>1. exec[e] \in ExecutionRow BY DEF TypeOK, ExecutionsTypeOK
<1>2. ExecMove(e) BY ExecMoves
<1>3. v # Nobody /\ v # Lost BY OwnersAreDistinct
<1>4. ASSUME NEW w \in Workers, exec'[e] = [exec[e] EXCEPT !.worker_id = w, !.leased = TRUE],
             run'[w] = [run[w] EXCEPT !.pc = "begin"]
      PROVE  exec[e].worker_id = v \/ run'[v].pc = "begin"
  BY <1>1, <1>4 DEF ExecutionRow, TypeOK, RunsTypeOK, Run
<1>5. ASSUME NEW s, exec'[e] = [exec[e] EXCEPT !.status = s] PROVE exec[e].worker_id = v
  BY <1>1, <1>5 DEF ExecutionRow
<1>6. ASSUME exec'[e] = [exec[e] EXCEPT !.leased = FALSE] PROVE exec[e].worker_id = v
  BY <1>1, <1>6 DEF ExecutionRow
<1>7. exec'[e] # [exec[e] EXCEPT !.worker_id = Nobody, !.leased = FALSE]
  BY <1>1, <1>3 DEF ExecutionRow
<1>8. exec'[e] # [exec[e] EXCEPT !.worker_id = Lost] BY <1>1, <1>3 DEF ExecutionRow
<1> QED BY <1>2, <1>4, <1>5, <1>6, <1>7, <1>8 DEF ExecMove

(* A run stays alone on its way to the POST.                                 *)
LEMMA PosterKept ==
  ASSUME Sound, RunsSaw, PaidOnce, [Next]_vars
  PROVE  PosterIsAlone'
<1> USE DEF Sound
<1> SUFFICES ASSUME NEW w \in Workers, run'[w].pc = "posting"
             PROVE  LET e == run'[w].at
                    IN  /\ ctx'[e].started /\ submitted'[e] <= ctx'[e].round
                        /\ row'[e].response_id = 0
                        /\ \A v \in Workers \ {w} : run'[v].at = e =>
                             /\ run'[v].pc # "posting"
                             /\ exec'[e].worker_id = v => run'[v].pc \notin Answering
  BY DEF PosterIsAlone, At
<1>1. /\ ctx \in [Executions -> Context] /\ submitted \in [Executions -> Nat]
      /\ exec \in [Executions -> ExecutionRow] /\ run \in [Workers -> Run]
      /\ \A v \in Workers : run[v].pc \in Delivering => At(v) \in Executions
  BY DEF TypeOK, ContextTypeOK, ProviderTypeOK, ExecutionsTypeOK, RunsTypeOK, At
<1>2. CASE run'[w] # run[w]
  <2>1. run'[w].at = At(w) /\ SaveIntent(w)
    <3>1. \A pc : run[w].pc # pc /\ Goto(w, pc) => run'[w].pc = pc BY GotoMoves
    <3>2. \A pc, n : run[w].pc # pc /\ GotoHolding(w, pc, n) => run'[w].pc = pc BY GotoMoves
    <3>3. ~(Post(w) /\ run[w].pc = "posting") BY <3>1, <3>2 DEF Post
    <3> QED BY <1>2, <3>3, ArrivesAtAnswer DEF At
  <2> DEFINE e == At(w)
  <2>2. e \in Executions /\ ~ctx[e].started
    BY <1>1, <2>1 DEF SaveIntent, NeedsModel, Delivering
  <2>3. /\ ctx'[e] = [ctx[e] EXCEPT !.started = TRUE] /\ submitted' = submitted
        /\ Save(w, "ready", 0) /\ Goto(w, "posting")
    BY <1>1, <2>1, <2>2 DEF SaveIntent, providerVars
  <2>4. ctx'[e].started /\ ctx'[e].round = ctx[e].round
    BY <1>1, <2>2, <2>3 DEF Context
  <2>5. submitted'[e] <= ctx'[e].round
    <3>1. ctx[e].round \in Nat /\ submitted[e] \in Nat BY <1>1, <2>2 DEF Context
    <3>2. submitted[e] <= ctx[e].round + 0 BY <2>2 DEF PaidOnce, SubmittedOnce
    <3> QED BY <2>3, <2>4, <3>1, <3>2
  <2>6. row'[e].response_id = 0
    <3>1. row'[e] = [row[e] EXCEPT !.response_id = 0, !.available_at = "due", !.settled = FALSE]
      BY <2>2, <2>3 DEF Save, Checkpoint, TypeOK, RowsTypeOK
    <3>2. row[e] \in DispatchRow BY <2>2 DEF TypeOK, RowsTypeOK
    <3> QED BY <3>1, <3>2 DEF DispatchRow
  <2>7. exec'[e].worker_id = w
    <3>1. exec[e].worker_id = w /\ exec'[e] = [exec[e] EXCEPT !.status = "ready"]
      BY <1>1, <2>2, <2>3 DEF Save, SaveStatus, Owns
    <3> QED BY <1>1, <2>2, <3>1 DEF ExecutionRow
  <2>8. ASSUME NEW v \in Workers \ {w}, run'[v].at = e PROVE run'[v].pc # "posting"
    <3>1. run'[v] = run[v] BY <1>1, <2>3, <2>8 DEF Goto
    <3> QED BY <2>2, <2>8, <3>1 DEF PaidOnce, PosterIsAlone, At
  <2> QED BY <2>1, <2>4, <2>5, <2>6, <2>7, <2>8
<1>3. CASE run'[w] = run[w]
  <2> DEFINE e == At(w)
  <2>1. e \in Executions /\ run'[w].at = e BY <1>1, <1>3 DEF Delivering, At
  <2>2. /\ ctx[e].started /\ submitted[e] <= ctx[e].round /\ row[e].response_id = 0
        /\ \A v \in Workers \ {w} : At(v) = e =>
             /\ run[v].pc # "posting"
             /\ exec[e].worker_id = v => run[v].pc \notin Answering
    BY <1>3 DEF PaidOnce, PosterIsAlone
  <2> HIDE DEF e
  <2>3. /\ ~\E u \in Workers : Post(u) /\ At(u) = e /\ run'[u].pc # "posting"
        /\ ~\E u \in Workers : SaveTurn(u) /\ At(u) = e
    <3>1. ASSUME NEW u \in Workers, Post(u), At(u) = e, run'[u].pc # "posting" PROVE FALSE
      BY <2>2, <3>1 DEF Post
    <3>2. ASSUME NEW u \in Workers, SaveTurn(u), At(u) = e PROVE FALSE
      <4>1. run[u].pc = "collected" /\ exec[e].worker_id = u
        BY <3>2 DEF SaveTurn, Save, SaveStatus, Owns
      <4> QED BY <1>3, <2>2, <3>2, <4>1 DEF Answering
    <3> QED BY <3>1, <3>2
  <2>4. submitted'[e] = submitted[e] /\ ctx'[e].round = ctx[e].round /\ ctx'[e].started
    <3>1. PayMove(e) BY <2>1, PayMoves
    <3> QED BY <2>2, <2>3, <3>1 DEF PayMove
  <2>5. row'[e].response_id = 0
    <3> SUFFICES ASSUME row'[e].response_id # 0 PROVE FALSE OBVIOUS
    <3>1. PICK u \in Workers : SaveWaiting(u) /\ At(u) = e
      BY <2>1, <2>2, ResponseIsLearned
    <3>2. run[u].pc \in Answering /\ exec[e].worker_id = u
      BY <3>1 DEF SaveWaiting, Save, SaveStatus, Owns, Answering
    <3> QED BY <1>3, <2>2, <3>1, <3>2 DEF Answering
  <2>6. ASSUME NEW v \in Workers \ {w}, run'[v].at = e
        PROVE  /\ run'[v].pc # "posting"
               /\ exec'[e].worker_id = v => run'[v].pc \notin Answering
    <3>1. CASE run'[v] = run[v]
      <4>1. At(v) = e BY <2>6, <3>1 DEF At
      <4>2. exec'[e].worker_id = v => exec[e].worker_id = v \/ run'[v].pc = "begin"
        BY <2>1, OwnerWasOwner
      <4> QED BY <2>2, <3>1, <4>1, <4>2 DEF Answering
    <3>2. CASE run'[v] # run[v] /\ run'[v].pc \in Answering \cup {"posting"}
      <4>1. /\ At(v) = e
            /\ \/ SaveIntent(v)
               \/ Post(v) /\ run[v].pc = "posting"
               \/ Collect(v) /\ run'[v].pc \in {"collected", "waiting"}
        BY <2>6, <3>2, ArrivesAtAnswer DEF At
      <4>2. ~SaveIntent(v) BY <2>2, <4>1 DEF SaveIntent
      <4>3. ~(Post(v) /\ run[v].pc = "posting") BY <2>2, <4>1
      <4>4. Collect(v) => run'[v].pc = "failing"
        BY <2>2, <4>1, GotoMoves DEF Collect, NeedsModel
      <4> QED BY <4>1, <4>2, <4>3, <4>4
    <3> QED BY <3>1, <3>2
  <2> QED BY <2>1, <2>2, <2>4, <2>5, <2>6
<1> QED BY <1>2, <1>3

(* Every step submits only what the checkpoint announced.                    *)
LEMMA SubmittedKept ==
  ASSUME TypeOK, PaidOnce, [Next]_vars
  PROVE  SubmittedOnce'
<1> SUFFICES ASSUME NEW e \in Executions
             PROVE  submitted'[e] <= ctx'[e].round + (IF ctx'[e].started THEN 1 ELSE 0)
  BY DEF SubmittedOnce
<1>1. submitted[e] \in Nat /\ ctx[e].round \in Nat /\ ctx[e].started \in BOOLEAN
  BY DEF TypeOK, ContextTypeOK, ProviderTypeOK, Context
<1>2. submitted[e] <= ctx[e].round + (IF ctx[e].started THEN 1 ELSE 0)
  BY DEF PaidOnce, SubmittedOnce
<1>3. PayMove(e) BY PayMoves
<1>4. ASSUME NEW w \in Workers, Post(w), At(w) = e
      PROVE  ctx[e].started /\ submitted[e] <= ctx[e].round
  BY <1>4 DEF PaidOnce, PosterIsAlone, Post
<1>5. CASE /\ submitted'[e] = submitted[e] /\ ctx'[e].round = ctx[e].round
           /\ ctx'[e].started = ctx[e].started
  BY <1>2, <1>5
<1>6. CASE \E w \in Workers : /\ Post(w) /\ At(w) = e
                               /\ submitted'[e] = submitted[e] + 1 /\ ctx'[e] = ctx[e]
  BY <1>1, <1>4, <1>6
<1>7. CASE /\ submitted'[e] = submitted[e] /\ ctx'[e].round = ctx[e].round
           /\ ~ctx[e].started /\ ctx'[e].started
  BY <1>1, <1>2, <1>7
<1>8. CASE /\ submitted'[e] = submitted[e] /\ ctx'[e].round = ctx[e].round + 1
           /\ ~ctx'[e].started
  BY <1>1, <1>2, <1>8
<1> QED BY <1>3, <1>5, <1>6, <1>7, <1>8 DEF PayMove

(* ADR 0030, "Submission intent remains fenced before the paid POST": for    *)
(* every number of executions, workers, crashes and expired leases, and also *)
(* when processes sleep through their leases, one response is started for    *)
(* each model turn.                                                          *)
THEOREM TurnsArePaidOnce == Spec => []SubmittedOnce
<1> DEFINE IInv == RunsSaw /\ PaidOnce
<1>1. Init => IInv
  BY DEF Init, RunsSaw, PaidOnce, PosterIsAlone, SubmittedOnce, Idle, Delivering
<1>2. TypeOK /\ OwnerIsRunning /\ AbsentHasNoRow /\ IInv /\ [Next]_vars => IInv'
  BY RunsSawKept, PosterKept, SubmittedKept DEF Sound, PaidOnce
<1>3. IInv => SubmittedOnce BY DEF PaidOnce
<1>4. Spec => []TypeOK BY TypeCorrect
<1>5. Spec => []OwnerIsRunning BY OwnersRun
<1>6. Spec => []AbsentHasNoRow BY AbsentHolds
<1> QED BY <1>1, <1>2, <1>3, <1>4, <1>5, <1>6, PTL DEF Spec
=============================================================================
