---------------------------- MODULE DispatchProofs ----------------------------
(***************************************************************************)
(* What holds of the deliveries for every number of executions and workers *)
(* and every value of the bounds: the types, the scheduling of the rows,   *)
(* the two leases.                                                         *)
(***************************************************************************)
EXTENDS Dispatch, TLAPS

(* Type correctness. *)

(* The initial state has the types. *)
LEMMA InitType == Init => TypeOK
<1> SUFFICES ASSUME Init PROVE TypeOK OBVIOUS
<1>1. ExecutionsTypeOK
  BY DEF Init, ExecutionsInit, ExecutionsTypeOK, ExecutionRow, Owner, Status
<1>2. RowsTypeOK
  BY DEF Init, RowsTypeOK, DispatchRow, Owner
<1>3. ContextTypeOK
  BY DEF Init, ContextTypeOK, Context
<1>4. ProviderTypeOK /\ EventsTypeOK
  BY DEF Init, ProviderTypeOK, EventsTypeOK
<1>5. RunsTypeOK
  BY DEF Init, RunsTypeOK, Run, Idle, Delivering
<1>6. crashes \in Nat /\ expiries \in Nat
  BY DEF Init
<1> QED BY <1>1, <1>2, <1>3, <1>4, <1>5, <1>6 DEF TypeOK

(* What the methods of the queue make of a row is a row. *)
LEMMA RowTypes ==
  ASSUME NEW r \in DispatchRow
  PROVE  /\ Woken(r) \in DispatchRow
         /\ Matched(r) \in DispatchRow
         /\ \A due \in {"null", "later", "due"} :
              [r EXCEPT !.available_at = due] \in DispatchRow
         /\ [r EXCEPT !.leased = FALSE] \in DispatchRow
         /\ [r EXCEPT !.token = Lost] \in DispatchRow
         /\ \A w \in Workers : [r EXCEPT !.token = w, !.leased = TRUE] \in DispatchRow
<1>1. r.wake_version + 1 \in Nat /\ 0 \in Nat BY DEF DispatchRow
<1>2. Woken(r) \in DispatchRow BY <1>1, Zenon DEF Woken, DispatchRow
<1>3. Matched(r) \in DispatchRow BY <1>1, Zenon DEF Matched, DispatchRow
<1>4. \A due \in {"null", "later", "due"} : [r EXCEPT !.available_at = due] \in DispatchRow
  BY Zenon DEF DispatchRow
<1>5. [r EXCEPT !.leased = FALSE] \in DispatchRow BY Zenon DEF DispatchRow
<1>6. [r EXCEPT !.token = Lost] \in DispatchRow BY Zenon DEF DispatchRow, Owner
<1>7. \A w \in Workers : [r EXCEPT !.token = w, !.leased = TRUE] \in DispatchRow
  BY Zenon DEF DispatchRow, Owner
<1> QED BY <1>2, <1>3, <1>4, <1>5, <1>6, <1>7, Zenon

(* A variable that a step leaves alone keeps its type. *)
LEMMA Unchanged ==
  ASSUME TypeOK
  PROVE  /\ UNCHANGED executionVars => ExecutionsTypeOK'
         /\ UNCHANGED rowVars => RowsTypeOK'
         /\ UNCHANGED ctx => ContextTypeOK'
         /\ UNCHANGED providerVars => ProviderTypeOK'
         /\ UNCHANGED eventVars => EventsTypeOK'
         /\ UNCHANGED run => RunsTypeOK'
         /\ UNCHANGED boundVars => crashes' \in Nat /\ expiries' \in Nat
<1> USE DEF TypeOK
<1>1. UNCHANGED executionVars => ExecutionsTypeOK' BY DEF executionVars, ExecutionsTypeOK
<1>2. UNCHANGED rowVars => RowsTypeOK' BY DEF rowVars, RowsTypeOK
<1>3. UNCHANGED ctx => ContextTypeOK' BY DEF ContextTypeOK
<1>4. UNCHANGED providerVars => ProviderTypeOK' BY DEF providerVars, ProviderTypeOK
<1>5. UNCHANGED eventVars => EventsTypeOK' BY DEF eventVars, EventsTypeOK
<1>6. UNCHANGED run => RunsTypeOK' BY DEF RunsTypeOK
<1>7. UNCHANGED boundVars => crashes' \in Nat /\ expiries' \in Nat BY DEF boundVars
<1> QED BY <1>1, <1>2, <1>3, <1>4, <1>5, <1>6, <1>7

(* A move within a delivery keeps the types of the runs. *)
LEMMA GotoType ==
  ASSUME RunsTypeOK, NEW w \in Workers, run[w].pc \in Delivering,
         NEW pc \in Delivering, NEW n \in Nat
  PROVE  /\ Goto(w, pc) => RunsTypeOK'
         /\ GotoHolding(w, pc, n) => RunsTypeOK'
<1>1. run[w] \in Run BY DEF RunsTypeOK
<1>2. [run[w] EXCEPT !.pc = pc] \in Run BY <1>1, Zenon DEF Run
<1>3. [run[w] EXCEPT !.pc = pc, !.holding = n] \in Run BY <1>1, Zenon DEF Run
<1>4. ASSUME Goto(w, pc) PROVE RunsTypeOK'
  <2>1. run' \in [Workers -> Run] BY <1>2, <1>4 DEF Goto, RunsTypeOK
  <2>2. run'[w].at = run[w].at BY <1>1, <1>4 DEF Goto, RunsTypeOK, Run
  <2> QED BY <2>1, <2>2, <1>4 DEF Goto, RunsTypeOK
<1>5. ASSUME GotoHolding(w, pc, n) PROVE RunsTypeOK'
  <2>1. run' \in [Workers -> Run] BY <1>3, <1>5 DEF GotoHolding, RunsTypeOK
  <2>2. run'[w].at = run[w].at BY <1>1, <1>5 DEF GotoHolding, RunsTypeOK, Run
  <2> QED BY <2>1, <2>2, <1>5 DEF GotoHolding, RunsTypeOK
<1> QED BY <1>4, <1>5

(* A claim or a reservation keeps the types of the runs. *)
LEMMA TakeType ==
  ASSUME RunsTypeOK, NEW w \in Workers, NEW e \in Executions,
         NEW pc \in Delivering, NEW v \in Nat, Take(w, e, pc, v)
  PROVE  RunsTypeOK'
<1>1. [pc |-> pc, at |-> e, seen |-> v, holding |-> 0] \in Run
  BY Zenon, 0 \in Nat DEF Run
<1>2. run' \in [Workers -> Run] BY <1>1 DEF Take, RunsTypeOK
<1> QED BY <1>2 DEF Take, RunsTypeOK

(* The end of a delivery keeps the types of the runs. *)
LEMMA IdleType ==
  ASSUME RunsTypeOK, NEW w \in Workers, NEW pc \in {"idle", "noticing"},
         run' = [run EXCEPT ![w] = [Idle EXCEPT !.pc = pc]]
  PROVE  RunsTypeOK'
<1>1. [Idle EXCEPT !.pc = pc] \in Run BY Zenon, 0 \in Nat DEF Idle, Run
<1>2. run' \in [Workers -> Run] BY <1>1 DEF RunsTypeOK
<1>3. [Idle EXCEPT !.pc = pc].pc = pc BY DEF Idle
<1> QED BY <1>2, <1>3 DEF RunsTypeOK, Delivering

(* What the methods of the execution store make of a row is a row. *)
LEMMA ExecTypes ==
  ASSUME NEW x \in ExecutionRow
  PROVE  /\ \A s \in Status : [x EXCEPT !.status = s] \in ExecutionRow
         /\ \A w \in Owner : [x EXCEPT !.worker_id = w] \in ExecutionRow
         /\ \A w \in Owner, b \in BOOLEAN :
              [x EXCEPT !.worker_id = w, !.leased = b] \in ExecutionRow
         /\ [x EXCEPT !.leased = FALSE] \in ExecutionRow
  BY Zenon DEF ExecutionRow

(* A save keeps the types of the execution row and its dispatch row. *)
LEMMA SaveTypes ==
  ASSUME TypeOK, NEW w \in Workers, At(w) \in Executions,
         NEW s \in Status, NEW n \in Nat, Save(w, s, n)
  PROVE  ExecutionsTypeOK' /\ RowsTypeOK'
<1> DEFINE e == At(w)
           early == n # 0 /\ <<e, n>> \in inbox \ consumed
           polls == s = "waiting_model" /\ e \notin cancellations /\ ~early
           r == [row[e] EXCEPT !.response_id = n,
                               !.available_at = IF polls THEN "later" ELSE "due",
                               !.settled = FALSE]
<1>1. ExecutionsTypeOK'
  <2>1. [exec[e] EXCEPT !.status = s] \in ExecutionRow
    BY ExecTypes DEF TypeOK, ExecutionsTypeOK
  <2> QED BY <2>1 DEF Save, SaveStatus, TypeOK, ExecutionsTypeOK
<1>2. row' \in [Executions -> DispatchRow]
  <2>1. r \in DispatchRow
    <3>1. row[e] \in DispatchRow BY DEF TypeOK, RowsTypeOK
    <3> QED BY <3>1, Zenon DEF DispatchRow
  <2>2. row' = [row EXCEPT ![e] = r] BY DEF Save, Checkpoint
  <2> QED BY <2>1, <2>2 DEF TypeOK, RowsTypeOK
<1>3. inbox' \subseteq Executions \X Nat /\ consumed' \subseteq inbox'
  <2>1. inbox' = inbox BY DEF Save, Checkpoint
  <2>2. consumed' = IF early THEN consumed \cup {<<e, n>>} ELSE consumed
    BY DEF Save, Checkpoint
  <2> QED BY <2>1, <2>2 DEF TypeOK, RowsTypeOK
<1> QED BY <1>1, <1>2, <1>3 DEF RowsTypeOK

(* Intake and the operations of the user keep the types. *)
LEMMA UserStepTypes ==
  ASSUME TypeOK, NEW e \in Executions, UserStep(e)
  PROVE  TypeOK'
<1> USE Unchanged
<1>1. row[e] \in DispatchRow /\ exec[e] \in ExecutionRow /\ ctx[e] \in Context
  BY DEF TypeOK, RowsTypeOK, ExecutionsTypeOK, ContextTypeOK
<1>2. Woken(row[e]) \in DispatchRow BY <1>1, RowTypes
<1>3. \A o \in Workers \cup {Nobody} : EnrolledRow(o) \in DispatchRow
  BY OwnersAreDistinct, 0 \in Nat, Zenon DEF EnrolledRow, DispatchRow, Owner
<1>4. Prepare(e) => exec' \in [Executions -> ExecutionRow]
  <2>1. [exec[e] EXCEPT !.status = "ready"] \in ExecutionRow
    BY <1>1, ExecTypes DEF Status
  <2> QED BY <2>1 DEF Prepare, TypeOK, ExecutionsTypeOK
<1>5. CASE Submit(e)
  <2>1. RowsTypeOK'
    <3>1. row' = [row EXCEPT ![e] = EnrolledRow(Nobody)] /\ UNCHANGED <<inbox, consumed>>
      BY <1>5 DEF Submit
    <3> QED BY <3>1, <1>3 DEF TypeOK, RowsTypeOK
  <2>2. ExecutionsTypeOK' BY <1>5, <1>4 DEF Submit, TypeOK, ExecutionsTypeOK
  <2> QED BY <2>1, <2>2, <1>5 DEF Submit, TypeOK
<1>6. CASE PrepareOnly(e)
  <2>1. ExecutionsTypeOK' BY <1>6, <1>4 DEF PrepareOnly, TypeOK, ExecutionsTypeOK
  <2> QED BY <2>1, <1>6 DEF PrepareOnly, TypeOK
<1>7. CASE Resume(e)
  <2>1. RowsTypeOK' BY <1>7, <1>2 DEF Resume, TypeOK, RowsTypeOK
  <2> QED BY <2>1, <1>7 DEF Resume, TypeOK
<1>8. CASE Decide(e)
  <2>1. RowsTypeOK' BY <1>8, <1>2 DEF Decide, TypeOK, RowsTypeOK
  <2>2. [ctx[e] EXCEPT !.approval = "decided"] \in Context BY <1>1, Zenon DEF Context
  <2>3. ContextTypeOK' BY <1>8, <2>2 DEF Decide, TypeOK, ContextTypeOK
  <2> QED BY <2>1, <2>3, <1>8 DEF Decide, TypeOK
<1>9. CASE Cancel(e)
  <2>1. RowsTypeOK' BY <1>9, <1>2 DEF Cancel, TypeOK, RowsTypeOK
  <2>2. ExecutionsTypeOK'
    BY <1>9 DEF Cancel, RecordCancellation, TypeOK, ExecutionsTypeOK
  <2> QED BY <2>1, <2>2, <1>9 DEF Cancel, TypeOK
<1>10. ASSUME NEW w \in Workers, SubmitPhoto(e, w) PROVE TypeOK'
  <2>1. RowsTypeOK'
    <3>1. row' = [row EXCEPT ![e] = EnrolledRow(w)] /\ UNCHANGED <<inbox, consumed>>
      BY <1>10 DEF SubmitPhoto
    <3> QED BY <3>1, <1>3 DEF TypeOK, RowsTypeOK
  <2>2. ExecutionsTypeOK' BY <1>10, <1>4 DEF SubmitPhoto, TypeOK, ExecutionsTypeOK
  <2>3. RunsTypeOK' BY <1>10, TakeType, 0 \in Nat DEF SubmitPhoto, TypeOK, Delivering
  <2> QED BY <2>1, <2>2, <2>3, <1>10 DEF SubmitPhoto, TypeOK
<1>11. ASSUME NEW w \in Workers, ResumePhoto(e, w) PROVE TypeOK'
  <2>1. RowsTypeOK'
    <3>1. [Woken(row[e]) EXCEPT !.token = w, !.leased = TRUE] \in DispatchRow
      BY <1>2, RowTypes
    <3> QED BY <3>1, <1>11 DEF ResumePhoto, TypeOK, RowsTypeOK
  <2>2. row[e].wake_version + 1 \in Nat BY <1>1 DEF DispatchRow
  <2>3. RunsTypeOK' BY <1>11, <2>2, TakeType DEF ResumePhoto, TypeOK, Delivering
  <2> QED BY <2>1, <2>3, <1>11 DEF ResumePhoto, TypeOK
<1> QED BY <1>5, <1>6, <1>7, <1>8, <1>9, <1>10, <1>11 DEF UserStep

(* The provider and the clock keep the types. *)
LEMMA EnvironmentTypes ==
  ASSUME TypeOK, NEW e \in Executions, Environment(e)
  PROVE  TypeOK'
<1> USE Unchanged
<1>1. row[e] \in DispatchRow /\ exec[e] \in ExecutionRow
  BY DEF TypeOK, RowsTypeOK, ExecutionsTypeOK
<1>2. Matched(row[e]) \in DispatchRow BY <1>1, RowTypes
<1>3. submitted[e] \in Nat BY DEF TypeOK, ProviderTypeOK
<1>4. expiries + 1 \in Nat BY DEF TypeOK
<1>5. ASSUME NEW n \in 1..submitted[e], ProviderFinish(e, n) PROVE TypeOK'
  <2>1. n \in Nat BY <1>3
  <2>2. ProviderTypeOK' BY <1>5, <2>1 DEF ProviderFinish, TypeOK, ProviderTypeOK
  <2> QED BY <2>2, <1>5 DEF ProviderFinish, TypeOK
<1>6. ASSUME NEW n \in 1..submitted[e], Notify(e, n) PROVE TypeOK'
  <2>1. n \in Nat BY <1>3
  <2>2. ProviderTypeOK' BY <1>6, <2>1 DEF Notify, TypeOK, ProviderTypeOK
  <2>3. row' \in [Executions -> DispatchRow]
    BY <1>6, <1>2 DEF Notify, TypeOK, RowsTypeOK
  <2>4. RowsTypeOK' BY <1>6, <2>1, <2>3 DEF Notify, TypeOK, RowsTypeOK
  <2> QED BY <2>2, <2>4, <1>6 DEF Notify, TypeOK
<1>7. CASE BecomeDue(e)
  <2>1. [row[e] EXCEPT !.available_at = "due"] \in DispatchRow BY <1>1, RowTypes
  <2>2. RowsTypeOK' BY <1>7, <2>1 DEF BecomeDue, TypeOK, RowsTypeOK
  <2> QED BY <2>2, <1>7 DEF BecomeDue, TypeOK
<1>8. CASE ExpireDelivery(e)
  <2>1. [row[e] EXCEPT !.leased = FALSE] \in DispatchRow BY <1>1, RowTypes
  <2>2. RowsTypeOK' BY <1>8, <2>1 DEF ExpireDelivery, TypeOK, RowsTypeOK
  <2>3. expiries' \in Nat BY <1>8, <1>4 DEF ExpireDelivery, TypeOK
  <2> QED BY <2>2, <2>3, <1>8 DEF ExpireDelivery, TypeOK
<1>9. CASE ExpireExecution(e)
  <2>1. [exec[e] EXCEPT !.leased = FALSE] \in ExecutionRow BY <1>1, ExecTypes
  <2>2. ExecutionsTypeOK'
    BY <1>9, <2>1 DEF ExpireExecution, ExpireLease, TypeOK, ExecutionsTypeOK
  <2>3. expiries' \in Nat BY <1>9, <1>4 DEF ExpireExecution, TypeOK
  <2> QED BY <2>2, <2>3, <1>9 DEF ExpireExecution, TypeOK
<1> QED BY <1>5, <1>6, <1>7, <1>8, <1>9 DEF Environment

(* An acknowledged row is a row. *)
LEMMA FinishedType ==
  ASSUME NEW r \in DispatchRow, NEW w, NEW e
  PROVE  Finished(r, w, e) \in DispatchRow
<1> DEFINE f == CASE run[w].pc = "acking"  -> 0
                  [] run[w].pc = "nacking" -> r.failures + 1
                  [] OTHER                 -> r.failures
           current == r.wake_version = run[w].seen
           parked == f >= MaxFailures /\ current
           over == run[w].pc = "acking" /\ current
                     /\ exec[e].status \in Terminal \cup {"awaiting_approval"}
           due == IF over \/ parked THEN "null"
                  ELSE IF run[w].pc # "acking" /\ current THEN "later" ELSE r.available_at
<1>1. f \in Nat BY DEF DispatchRow
<1>2. parked \in BOOLEAN /\ (r.settled \/ over) \in BOOLEAN BY Zenon
<1>3. due \in {"null", "later", "due"}
  <2>1. r.available_at \in {"null", "later", "due"} BY Zenon DEF DispatchRow
  <2> QED BY <2>1
<1>4. Finished(r, w, e) = [r EXCEPT !.token = Nobody, !.leased = FALSE, !.failures = f,
                                    !.blocked = parked, !.settled = r.settled \/ over,
                                    !.available_at = due]
  BY Zenon DEF Finished
<1> HIDE DEF f, parked, over, due
<1> QED BY <1>1, <1>2, <1>3, <1>4, Zenon DEF DispatchRow, Owner

(* Every step of a run keeps the types. *)
LEMMA RunStepTypes ==
  ASSUME TypeOK, NEW w \in Workers, RunStep(w)
  PROVE  TypeOK'
<1> DEFINE e == At(w)
<1> USE Unchanged
<1>1. run[w] \in Run BY DEF TypeOK, RunsTypeOK
<1>2. run[w].holding \in Nat BY <1>1 DEF Run
<1>3. run[w].pc \in Delivering => /\ e \in Executions
                                 /\ row[e] \in DispatchRow
                                 /\ exec[e] \in ExecutionRow
                                 /\ ctx[e] \in Context
  BY DEF At, TypeOK, RunsTypeOK, RowsTypeOK, ExecutionsTypeOK, ContextTypeOK
<1>4. row[e] \in DispatchRow => /\ row[e].response_id \in Nat
                               /\ row[e].wake_version \in Nat
                               /\ row[e].failures + 1 \in Nat
  BY DEF DispatchRow
<1>5. ctx[e] \in Context => /\ ctx[e].round \in Nat /\ ctx[e].round + 1 \in Nat
                           /\ ctx[e].call_index \in Nat /\ ctx[e].call_index + 1 \in Nat
  BY DEF Context
<1>6. CASE ClaimReserved(w)
  <2>1. run[w].pc \in Delivering BY <1>6 DEF ClaimReserved, Delivering
  <2>2. RunsTypeOK'
    <3>1. CASE row[e].token = w /\ row[e].leased
      BY <1>6, <3>1, <2>1, <1>3, <1>4, TakeType DEF ClaimReserved, TypeOK, Delivering
    <3>2. CASE ~(row[e].token = w /\ row[e].leased)
      <4>1. run' = [run EXCEPT ![w] = Idle] BY <1>6, <3>2 DEF ClaimReserved
      <4>2. Idle = [Idle EXCEPT !.pc = "idle"] BY DEF Idle
      <4> QED BY <4>1, <4>2, IdleType DEF TypeOK
    <3> QED BY <3>1, <3>2
  <2> QED BY <2>2, <1>6 DEF ClaimReserved, TypeOK
<1>7. CASE StartRun(w)
  <2>1. run[w].pc \in Delivering BY <1>7 DEF StartRun, Delivering
  <2>2. ExecutionsTypeOK'
    <3>1. [exec[e] EXCEPT !.worker_id = w, !.leased = TRUE] \in ExecutionRow
      BY <2>1, <1>3, ExecTypes DEF Owner
    <3> QED BY <3>1, <1>7 DEF StartRun, ClaimExecution, TypeOK, ExecutionsTypeOK
  <2>3. RunsTypeOK' BY <1>7, <2>1, GotoType, 0 \in Nat DEF StartRun, TypeOK, Delivering
  <2> QED BY <2>2, <2>3, <1>7 DEF StartRun, TypeOK
<1>8. CASE BeginStage(w)
  <2>1. run[w].pc \in Delivering BY <1>8 DEF BeginStage, Delivering
  <2>2. RunsTypeOK' BY <1>8, <2>1, GotoType, 0 \in Nat DEF BeginStage, TypeOK, Delivering
  <2> QED BY <2>2, <1>8 DEF BeginStage, TypeOK
<1>9. CASE SaveIntent(w)
  <2>1. run[w].pc \in Delivering BY <1>9 DEF SaveIntent, NeedsModel, NeedsTool, Delivering
  <2>2. ExecutionsTypeOK' /\ RowsTypeOK'
    BY <1>9, <2>1, <1>2, <1>3, <1>4, SaveTypes, 0 \in Nat DEF SaveIntent, Status, Terminal
  <2>3. RunsTypeOK' BY <1>9, <2>1, GotoType, 0 \in Nat DEF SaveIntent, TypeOK, Delivering
  <2>4. [ctx[e] EXCEPT !.started = TRUE] \in Context
    BY <2>1, <1>3, Zenon DEF Context
  <2>5. ContextTypeOK' BY <1>9, <2>4 DEF SaveIntent, TypeOK, ContextTypeOK
  <2> QED BY <2>2, <2>3, <2>5, <1>9 DEF SaveIntent, TypeOK
<1>10. CASE Post(w)
  <2>1. run[w].pc \in Delivering BY <1>10 DEF Post, Delivering
  <2>2. submitted[e] + 1 \in Nat BY <2>1, <1>3 DEF TypeOK, ProviderTypeOK
  <2>3. ProviderTypeOK' BY <1>10, <2>2 DEF Post, TypeOK, ProviderTypeOK
  <2>4. RunsTypeOK' BY <1>10, <2>1, <2>2, GotoType, 0 \in Nat DEF Post, TypeOK, Delivering
  <2> QED BY <2>3, <2>4, <1>10 DEF Post, TypeOK
<1>11. CASE Collect(w)
  <2>1. run[w].pc \in Delivering BY <1>11 DEF Collect, NeedsModel, NeedsTool, Delivering
  <2>2. RunsTypeOK' BY <1>11, <2>1, <1>2, <1>3, <1>4, GotoType DEF Collect, TypeOK, Delivering
  <2> QED BY <2>2, <1>11 DEF Collect, TypeOK
<1>12. CASE SaveWaiting(w)
  <2>1. run[w].pc \in Delivering BY <1>12 DEF SaveWaiting, NeedsModel, NeedsTool, Delivering
  <2>2. ExecutionsTypeOK' /\ RowsTypeOK'
    BY <1>12, <2>1, <1>2, <1>3, <1>4, SaveTypes, 0 \in Nat DEF SaveWaiting, Status, Terminal
  <2>3. RunsTypeOK' BY <1>12, <2>1, GotoType, 0 \in Nat DEF SaveWaiting, TypeOK, Delivering
  <2> QED BY <2>2, <2>3, <1>12 DEF SaveWaiting, TypeOK
<1>13. CASE SaveTurn(w)
  <2>1. run[w].pc \in Delivering BY <1>13 DEF SaveTurn, NeedsModel, NeedsTool, Delivering
  <2>2. ExecutionsTypeOK' /\ RowsTypeOK'
    BY <1>13, <2>1, <1>2, <1>3, <1>4, SaveTypes, 0 \in Nat DEF SaveTurn, Status, Terminal
  <2>3. RunsTypeOK' BY <1>13, <2>1, GotoType, 0 \in Nat DEF SaveTurn, TypeOK, Delivering
  <2>4. PICK kind \in {"calls", "answer"} :
          ctx' = [ctx EXCEPT ![e] = [@ EXCEPT
                   !.started = FALSE, !.round = ctx[e].round + 1, !.pending = kind,
                     !.call_index = 0]]
    BY <1>13 DEF SaveTurn
  <2> DEFINE c == [ctx[e] EXCEPT
                    !.started = FALSE, !.round = ctx[e].round + 1, !.pending = kind,
                     !.call_index = 0]
  <2>5. c \in Context BY <2>1, <1>3, <1>5, 0 \in Nat, Zenon DEF Context
  <2>6. ctx' = [ctx EXCEPT ![e] = c] BY <2>4
  <2> HIDE DEF c
  <2>7. ContextTypeOK' BY <2>5, <2>6 DEF TypeOK, ContextTypeOK
  <2> QED BY <2>2, <2>3, <2>7, <1>13 DEF SaveTurn, TypeOK
<1>14. CASE SaveResult(w)
  <2>1. run[w].pc \in Delivering BY <1>14 DEF SaveResult, NeedsTool, Delivering
  <2>2. ExecutionsTypeOK' /\ RowsTypeOK'
    BY <1>14, <2>1, <1>3, SaveTypes, 0 \in Nat DEF SaveResult, Status
  <2>3. RunsTypeOK' BY <1>14, <2>1, GotoType, 0 \in Nat DEF SaveResult, TypeOK, Delivering
  <2>4. [ctx[e] EXCEPT !.result = TRUE] \in Context
    BY <2>1, <1>3, Zenon DEF Context
  <2>5. ContextTypeOK' BY <1>14, <2>4 DEF SaveResult, TypeOK, ContextTypeOK
  <2> QED BY <2>2, <2>3, <2>5, <1>14 DEF SaveResult, TypeOK
<1>15. CASE SaveCursor(w)
  <2>1. run[w].pc \in Delivering BY <1>15 DEF SaveCursor, NeedsModel, NeedsTool, Delivering
  <2>2. ExecutionsTypeOK' /\ RowsTypeOK'
    BY <1>15, <2>1, <1>2, <1>3, <1>4, SaveTypes, 0 \in Nat DEF SaveCursor, Status, Terminal
  <2>3. RunsTypeOK' BY <1>15, <2>1, GotoType, 0 \in Nat DEF SaveCursor, TypeOK, Delivering
  <2>4. PICK kind \in {"calls", "spent"} :
          ctx' = [ctx EXCEPT ![e] = [@ EXCEPT
                   !.pending = kind, !.call_index = ctx[e].call_index + 1, !.result = FALSE,
                   !.approval = "none"]]
    BY <1>15 DEF SaveCursor
  <2> DEFINE c == [ctx[e] EXCEPT
                    !.pending = kind, !.call_index = ctx[e].call_index + 1, !.result = FALSE,
                    !.approval = "none"]
  <2>5. c \in Context BY <2>1, <1>3, <1>5, 0 \in Nat, Zenon DEF Context
  <2>6. ctx' = [ctx EXCEPT ![e] = c] BY <2>4
  <2> HIDE DEF c
  <2>7. ContextTypeOK' BY <2>5, <2>6 DEF TypeOK, ContextTypeOK
  <2> QED BY <2>2, <2>3, <2>7, <1>15 DEF SaveCursor, TypeOK
<1>16. CASE SaveAwaiting(w)
  <2>1. run[w].pc \in Delivering BY <1>16 DEF SaveAwaiting, NeedsModel, NeedsTool, Delivering
  <2>2. ExecutionsTypeOK' /\ RowsTypeOK'
    BY <1>16, <2>1, <1>2, <1>3, <1>4, SaveTypes, 0 \in Nat DEF SaveAwaiting, Status, Terminal
  <2>3. RunsTypeOK' BY <1>16, <2>1, GotoType, 0 \in Nat DEF SaveAwaiting, TypeOK, Delivering
  <2>4. [ctx[e] EXCEPT !.approval = "pending"] \in Context
    BY <2>1, <1>3, Zenon DEF Context
  <2>5. ContextTypeOK' BY <1>16, <2>4 DEF SaveAwaiting, TypeOK, ContextTypeOK
  <2> QED BY <2>2, <2>3, <2>5, <1>16 DEF SaveAwaiting, TypeOK
<1>17. CASE Continue(w)
  <2>1. run[w].pc \in Delivering BY <1>17 DEF Continue, NeedsModel, NeedsTool, Delivering
  <2>2. RunsTypeOK' BY <1>17, <2>1, <1>2, <1>3, <1>4, GotoType DEF Continue, TypeOK, Delivering
  <2> QED BY <2>2, <1>17 DEF Continue, TypeOK
<1>18. CASE SaveCompleted(w)
  <2>1. run[w].pc \in Delivering BY <1>18 DEF SaveCompleted, NeedsModel, NeedsTool, Delivering
  <2>2. ExecutionsTypeOK' /\ RowsTypeOK'
    BY <1>18, <2>1, <1>2, <1>3, <1>4, SaveTypes, 0 \in Nat DEF SaveCompleted, Status, Terminal
  <2>3. RunsTypeOK' BY <1>18, <2>1, GotoType, 0 \in Nat DEF SaveCompleted, TypeOK, Delivering
  <2> QED BY <2>2, <2>3, <1>18 DEF SaveCompleted, TypeOK
<1>19. CASE GiveUp(w)
  <2>1. run[w].pc \in Delivering BY <1>19 DEF GiveUp, NeedsModel, NeedsTool, Delivering
  <2>2. RunsTypeOK' BY <1>19, <2>1, <1>2, <1>3, <1>4, GotoType DEF GiveUp, TypeOK, Delivering
  <2> QED BY <2>2, <1>19 DEF GiveUp, TypeOK
<1>20. CASE HandleBudgetError(w)
  <2>1. run[w].pc \in Delivering BY <1>20 DEF HandleBudgetError, NeedsModel, NeedsTool, Delivering
  <2>2. RunsTypeOK'
    BY <1>20, <2>1, <1>2, <1>3, <1>4, GotoType DEF HandleBudgetError, TypeOK, Delivering
  <2> QED BY <2>2, <1>20 DEF HandleBudgetError, TypeOK
<1>21. CASE SaveFailed(w)
  <2>1. run[w].pc \in Delivering BY <1>21 DEF SaveFailed, NeedsModel, NeedsTool, Delivering
  <2>2. ExecutionsTypeOK' /\ RowsTypeOK'
    BY <1>21, <2>1, <1>2, <1>3, <1>4, SaveTypes, 0 \in Nat DEF SaveFailed, Status, Terminal
  <2>3. RunsTypeOK' BY <1>21, <2>1, GotoType, 0 \in Nat DEF SaveFailed, TypeOK, Delivering
  <2> QED BY <2>2, <2>3, <1>21 DEF SaveFailed, TypeOK
<1>22. CASE SaveCancelled(w)
  <2>1. run[w].pc \in Delivering BY <1>22 DEF SaveCancelled, NeedsModel, NeedsTool, Delivering
  <2>2. ExecutionsTypeOK' /\ RowsTypeOK'
    BY <1>22, <2>1, <1>2, <1>3, <1>4, SaveTypes, 0 \in Nat DEF SaveCancelled, Status, Terminal
  <2>3. RunsTypeOK' BY <1>22, <2>1, GotoType, 0 \in Nat DEF SaveCancelled, TypeOK, Delivering
  <2> QED BY <2>2, <2>3, <1>22 DEF SaveCancelled, TypeOK
<1>23. CASE PublishTerminal(w)
  <2>1. run[w].pc \in Delivering BY <1>23 DEF PublishTerminal, Delivering
  <2>2. EventsTypeOK' BY <1>23, <2>1, <1>3 DEF PublishTerminal, TypeOK, EventsTypeOK
  <2>3. RunsTypeOK' BY <1>23, <2>1, GotoType, 0 \in Nat DEF PublishTerminal, TypeOK, Delivering
  <2> QED BY <2>2, <2>3, <1>23 DEF PublishTerminal, TypeOK
<1>24. CASE PublishPause(w)
  <2>1. run[w].pc \in Delivering BY <1>24 DEF PublishPause, Delivering
  <2>2. EventsTypeOK' BY <1>24, <2>1, <1>3, <1>5 DEF PublishPause, TypeOK, EventsTypeOK
  <2>3. RunsTypeOK' BY <1>24, <2>1, GotoType, 0 \in Nat DEF PublishPause, TypeOK, Delivering
  <2> QED BY <2>2, <2>3, <1>24 DEF PublishPause, TypeOK
<1>25. CASE Raise(w)
  <2>1. run[w].pc \in Delivering BY <1>25 DEF Raise, NeedsModel, NeedsTool, Delivering
  <2>2. RunsTypeOK' BY <1>25, <2>1, <1>2, <1>3, <1>4, GotoType DEF Raise, TypeOK, Delivering
  <2> QED BY <2>2, <1>25 DEF Raise, TypeOK
<1>26. CASE EndRun(w)
  <2>1. run[w].pc \in Delivering BY <1>26 DEF EndRun, Delivering
  <2>2. ExecutionsTypeOK'
    <3>1. [exec[e] EXCEPT !.worker_id = Nobody, !.leased = FALSE] \in ExecutionRow
      BY <2>1, <1>3, ExecTypes DEF Owner
    <3> QED BY <3>1, <1>26 DEF EndRun, Release, TypeOK, ExecutionsTypeOK
  <2>3. RunsTypeOK' BY <1>26, <2>1, GotoType, 0 \in Nat DEF EndRun, TypeOK, Delivering
  <2> QED BY <2>2, <2>3, <1>26 DEF EndRun, TypeOK
<1>27. CASE Finish(w)
  <2>1. run[w].pc \in Delivering BY <1>27 DEF Finish, Delivering
  <2>2. Finished(row[e], w, e) \in DispatchRow
    BY <2>1, <1>3, FinishedType
  <2>3. RowsTypeOK' BY <1>27, <2>2 DEF Finish, TypeOK, RowsTypeOK
  <2>4. RunsTypeOK'
    <3>1. Idle = [Idle EXCEPT !.pc = "idle"] BY DEF Idle
    <3>2. \/ run' = [run EXCEPT ![w] = [Idle EXCEPT !.pc = "noticing"]]
          \/ run' = [run EXCEPT ![w] = [Idle EXCEPT !.pc = "idle"]]
      BY <1>27, <3>1 DEF Finish
    <3> QED BY <3>2, IdleType DEF TypeOK
  <2> QED BY <2>3, <2>4, <1>27 DEF Finish, TypeOK
<1>28. CASE PublishBlocked(w)
  <2>1. EventsTypeOK'
    BY <1>28 DEF PublishBlocked, ParkedNotices, DispatchRow, TypeOK, RowsTypeOK, EventsTypeOK
  <2>2. Idle = [Idle EXCEPT !.pc = "idle"] BY DEF Idle
  <2>3. RunsTypeOK' BY <1>28, <2>2, IdleType DEF PublishBlocked, TypeOK
  <2> QED BY <2>1, <2>3, <1>28 DEF PublishBlocked, TypeOK
<1>29. CASE ClearTurn(w)
  <2>1. run[w].pc \in Delivering BY <1>29 DEF ClearTurn, Delivering
  <2>2. ExecutionsTypeOK' /\ RowsTypeOK'
    BY <1>29, <2>1, <1>3, SaveTypes, 0 \in Nat DEF ClearTurn, Status
  <2>3. RunsTypeOK' BY <1>29, <2>1, GotoType, 0 \in Nat DEF ClearTurn, TypeOK, Delivering
  <2>4. [ctx[e] EXCEPT !.pending = "none"] \in Context BY <2>1, <1>3, Zenon DEF Context
  <2>5. ContextTypeOK' BY <1>29, <2>4 DEF ClearTurn, TypeOK, ContextTypeOK
  <2> QED BY <2>2, <2>3, <2>5, <1>29 DEF ClearTurn, TypeOK
<1> QED
  BY <1>6, <1>7, <1>8, <1>9, <1>10, <1>11, <1>12, <1>13, <1>14, <1>15, <1>16, <1>17, <1>18,
     <1>19, <1>20, <1>21, <1>22, <1>23, <1>24, <1>25, <1>26, <1>27, <1>28, <1>29
  DEF RunStep

(* The loop of an idle worker keeps the types. *)
LEMMA WorkerLoopTypes ==
  ASSUME TypeOK, NEW w \in Workers, WorkerLoop(w)
  PROVE  TypeOK'
<1> USE Unchanged
<1>1. \A e \in Executions : row[e] \in DispatchRow BY DEF TypeOK, RowsTypeOK
<1>2. ASSUME NEW e \in Executions, ClaimDelivery(w, e) PROVE TypeOK'
  <2>1. [row[e] EXCEPT !.token = w, !.leased = TRUE] \in DispatchRow BY <1>1, RowTypes
  <2>2. RowsTypeOK' BY <1>2, <2>1 DEF ClaimDelivery, TypeOK, RowsTypeOK
  <2>3. row[e].wake_version \in Nat BY <1>1 DEF DispatchRow
  <2>4. RunsTypeOK' BY <1>2, <2>3, TakeType DEF ClaimDelivery, TypeOK, Delivering
  <2> QED BY <2>2, <2>4, <1>2 DEF ClaimDelivery, TypeOK
<1>3. ASSUME NEW old \in SUBSET inbox, Reconcile(w, old) PROVE TypeOK'
  <2>1. \A e \in Executions : /\ Matched(row[e]) \in DispatchRow
                              /\ [row[e] EXCEPT !.available_at = "due"] \in DispatchRow
    BY <1>1, RowTypes
  <2>2. row' \in [Executions -> DispatchRow] BY <1>1, <1>3, <2>1 DEF Reconcile
  <2>3. RowsTypeOK' BY <1>3, <2>2 DEF Reconcile, Unmatched, TypeOK, RowsTypeOK
  <2>4. RunsTypeOK' BY <1>3, IdleType DEF Reconcile, TypeOK
  <2> QED BY <2>3, <2>4, <1>3 DEF Reconcile, TypeOK
<1> QED BY <1>2, <1>3 DEF WorkerLoop

(* The death of a process keeps the types. *)
LEMMA CrashTypes ==
  ASSUME TypeOK, NEW w \in Workers, Crash(w)
  PROVE  TypeOK'
<1> USE Unchanged
<1>1. ExecutionsTypeOK'
  <2>1. \A e \in Executions : [exec[e] EXCEPT !.worker_id = Lost] \in ExecutionRow
    BY ExecTypes DEF Owner, TypeOK, ExecutionsTypeOK
  <2> QED BY <2>1 DEF Crash, LoseOwner, TypeOK, ExecutionsTypeOK
<1>2. RowsTypeOK'
  <2>1. \A e \in Executions : [row[e] EXCEPT !.token = Lost] \in DispatchRow
    BY RowTypes DEF TypeOK, RowsTypeOK
  <2> QED BY <2>1 DEF Crash, TypeOK, RowsTypeOK
<1>3. RunsTypeOK'
  <2>1. Idle = [Idle EXCEPT !.pc = "idle"] BY DEF Idle
  <2> QED BY <2>1, IdleType DEF Crash, TypeOK
<1>4. crashes' \in Nat BY DEF Crash, TypeOK
<1> QED BY <1>1, <1>2, <1>3, <1>4 DEF Crash, TypeOK

(* One step keeps the types. *)
LEMMA TypeStep ==
  ASSUME TypeOK, [Next]_vars
  PROVE  TypeOK'
<1>1. CASE UNCHANGED vars BY <1>1, Unchanged DEF vars, TypeOK, boundVars
<1>2. CASE Next
  BY <1>2, UserStepTypes, EnvironmentTypes, RunStepTypes, WorkerLoopTypes, CrashTypes DEF Next
<1> QED BY <1>1, <1>2

(* Every reachable state is well typed, and a run inside a delivery always   *)
(* has an execution.                                                         *)
THEOREM TypeCorrect == Spec => []TypeOK
BY InitType, TypeStep, PTL DEF Spec

-----------------------------------------------------------------------------
(***************************************************************************)
(* What the delivery rows promise for every number of executions and       *)
(* workers.  A row is written in few ways only (RowMoves); the invariant   *)
(* Scheduled and two action properties are then decided move by move.      *)
(***************************************************************************)

(* The checkpoint of a save by the run that holds the execution. *)
Checkpointed(r, n, due) ==
    [r EXCEPT !.response_id = n, !.available_at = due, !.settled = FALSE]

(* The ways one step can write the row of e. *)
RowMove(e) ==
    \/ row'[e] = row[e]
    \/ \E o \in Workers \cup {Nobody} : /\ exec[e].status = "absent" \/ ~row[e].enrolled
                                       /\ exec'[e].status # "absent"
                                       /\ row'[e] = EnrolledRow(o)
    \/ /\ exec[e].status # "absent" \/ ctx[e].approval # "none"
       /\ row'[e] = Woken(row[e])
    \/ \E w \in Workers : /\ run[w] = Idle /\ ~row[e].leased /\ exec[e].status # "absent"
                          /\ row'[e] = [Woken(row[e]) EXCEPT !.token = w, !.leased = TRUE]
    \/ row[e].enrolled /\ ~row[e].blocked /\ row'[e] = Matched(row[e])
    \/ row'[e] = [row[e] EXCEPT !.available_at = "due"]
    \/ /\ row[e].leased /\ row'[e] = [row[e] EXCEPT !.leased = FALSE]
       /\ row[e].token \in Workers => /\ expiries' # expiries
                                      /\ Stalls \/ run[row[e].token].pc # "claimed"
    \/ \E w \in Workers : /\ row[e].token = w /\ run'[w] # run[w]
                          /\ row'[e] = [row[e] EXCEPT !.token = Lost]
    \/ \E w \in Workers : /\ run[w] = Idle /\ Deliverable(e)
                          /\ row'[e] = [row[e] EXCEPT !.token = w, !.leased = TRUE]
    \/ /\ row'[e].response_id \in Nat /\ row'[e].available_at \in {"later", "due"}
       /\ row'[e] = Checkpointed(row[e], row'[e].response_id, row'[e].available_at)
       /\ \/ row'[e].response_id \in {0, row[e].response_id}
          \/ \E w \in Workers : SaveWaiting(w) /\ At(w) = e
    \/ \E w \in Workers : /\ At(w) = e /\ row[e].token = w /\ row[e].leased
                          /\ Finish(w)
                          /\ row'[e] = Finished(row[e], w, e)

(* Parking a row clears its lease, and nothing claims a parked row. *)
BlockedIsFree == \A e \in Executions : row[e].blocked => ~row[e].leased

(* The inductive invariant of the delivery rows. *)
Scheduled == TypeOK /\ BlockedIsFree /\ UnsettledIsScheduled
-----------------------------------------------------------------------------
(* A save writes the row of its own execution, as a checkpoint. *)
LEMMA SaveMovesRow ==
  ASSUME TypeOK, NEW w \in Workers, run[w].pc \in Delivering,
         NEW s, NEW n \in Nat, Save(w, s, n), NEW e \in Executions,
         n \in {0, row[At(w)].response_id} \/ SaveWaiting(w)
  PROVE  RowMove(e)
<1> DEFINE early == n # 0 /\ <<At(w), n>> \in inbox \ consumed
           polls == s = "waiting_model" /\ At(w) \notin cancellations /\ ~early
           due == IF polls THEN "later" ELSE "due"
<1>1. At(w) \in Executions BY DEF TypeOK, RunsTypeOK, At
<1>2. row' = [row EXCEPT ![At(w)] = Checkpointed(row[At(w)], n, due)]
  BY Zenon DEF Save, Checkpoint, Checkpointed
<1>3. due \in {"later", "due"} OBVIOUS
<1> HIDE DEF due
<1>4. CASE e = At(w)
  <2>1. row'[e] = Checkpointed(row[e], n, due)
    BY <1>1, <1>2, <1>4 DEF TypeOK, RowsTypeOK
  <2>2. row[e] \in DispatchRow BY DEF TypeOK, RowsTypeOK
  <2>3. row'[e].response_id = n /\ row'[e].available_at = due
    BY <2>1, <2>2 DEF Checkpointed, DispatchRow
  <2>4. \/ row'[e].response_id \in {0, row[e].response_id}
        \/ \E v \in Workers : SaveWaiting(v) /\ At(v) = e
    BY <1>4, <2>3
  <2> QED BY <2>1, <2>3, <2>4, <1>3 DEF RowMove
<1>5. CASE e # At(w)
  BY <1>2, <1>5 DEF RowMove, TypeOK, RowsTypeOK
<1> QED BY <1>4, <1>5

(* A run moves a row by a save or by its acknowledgement. *)
LEMMA RunMovesRow ==
  ASSUME TypeOK, NEW w \in Workers, RunStep(w), NEW e \in Executions
  PROVE  RowMove(e)
<1>1. run[w] \in Run BY DEF TypeOK, RunsTypeOK
<1>2. run[w].holding \in Nat BY <1>1 DEF Run
<1>3. run[w].pc \in Delivering => row[At(w)].response_id \in Nat
  BY DEF At, TypeOK, RunsTypeOK, RowsTypeOK, DispatchRow
<1>4. UNCHANGED row => RowMove(e) BY DEF RowMove
<1>5. ASSUME \/ SaveIntent(w) \/ SaveTurn(w) \/ SaveCursor(w) \/ ClearTurn(w)
             \/ SaveAwaiting(w) \/ SaveCompleted(w)
      PROVE  RowMove(e)
  BY <1>5, SaveMovesRow, 0 \in Nat
  DEF SaveIntent, SaveTurn, SaveCursor, ClearTurn, SaveAwaiting, SaveCompleted, NeedsModel,
      NeedsTool, Delivering
<1>6. CASE SaveWaiting(w) BY <1>2, <1>6, SaveMovesRow DEF SaveWaiting, Delivering
<1>7. CASE SaveFailed(w) BY <1>3, <1>7, SaveMovesRow DEF SaveFailed, Delivering
<1>8. CASE SaveCancelled(w) BY <1>3, <1>8, SaveMovesRow DEF SaveCancelled, Delivering
<1>9. CASE SaveResult(w)
  BY <1>4, <1>9, SaveMovesRow, 0 \in Nat DEF SaveResult, NeedsTool, Delivering, rowVars
<1>10. CASE Finish(w)
  <2>1. CASE row' = row BY <1>4, <2>1
  <2>2. CASE row' # row
    <3>1. /\ row[At(w)].token = w /\ row[At(w)].leased
          /\ row' = [row EXCEPT ![At(w)] = Finished(row[At(w)], w, At(w))]
      BY <1>10, <2>2 DEF Finish
    <3>2. At(w) \in Executions BY <1>10 DEF Finish, TypeOK, RunsTypeOK, At, Delivering
    <3>3. CASE e = At(w)
      BY <1>10, <3>1, <3>2, <3>3 DEF RowMove, TypeOK, RowsTypeOK
    <3>4. CASE e # At(w) BY <3>1, <3>4 DEF RowMove, TypeOK, RowsTypeOK
    <3> QED BY <3>3, <3>4
  <2> QED BY <2>1, <2>2
<1>11. CASE \/ ClaimReserved(w) \/ StartRun(w) \/ BeginStage(w) \/ Post(w) \/ Collect(w)
            \/ Continue(w) \/ GiveUp(w) \/ HandleBudgetError(w) \/ PublishTerminal(w)
            \/ PublishPause(w) \/ Raise(w) \/ EndRun(w) \/ PublishBlocked(w)
  BY <1>4, <1>11
  DEF ClaimReserved, StartRun, BeginStage, Post, Collect, Continue, GiveUp, HandleBudgetError,
      PublishTerminal, PublishPause, Raise, EndRun, PublishBlocked, rowVars
<1> QED BY <1>5, <1>6, <1>7, <1>8, <1>9, <1>10, <1>11 DEF RunStep

(* Intake accepts an execution. *)
LEMMA PrepareAccepts ==
  ASSUME TypeOK, NEW e \in Executions, Prepare(e)
  PROVE  exec'[e].status # "absent"
<1>1. exec'[e] = [exec[e] EXCEPT !.status = "ready"] BY DEF Prepare, TypeOK, ExecutionsTypeOK
<1>2. exec[e] \in ExecutionRow BY DEF TypeOK, ExecutionsTypeOK
<1> QED BY <1>1, <1>2 DEF ExecutionRow

(* Users, the provider and the clock. *)
LEMMA OutsideMovesRow ==
  ASSUME TypeOK, NEW f \in Executions, UserStep(f) \/ Environment(f),
         NEW e \in Executions
  PROVE  RowMove(e)
<1> USE DEF RowMove
<1>1. row \in [Executions -> DispatchRow] BY DEF TypeOK, RowsTypeOK
<1>2. UNCHANGED row => RowMove(e) OBVIOUS
<1>3. CASE Submit(f)
  <2>1. exec'[f].status # "absent" BY <1>3, PrepareAccepts DEF Submit
  <2> QED BY <1>1, <1>3, <2>1 DEF Submit, Prepare
<1>4. CASE Resume(f) \/ Decide(f) \/ Cancel(f)
    BY <1>1, <1>4 DEF Resume, Decide, Cancel, RecordCancellation
<1>5. CASE PrepareOnly(f) BY <1>5 DEF PrepareOnly, rowVars
<1>6. ASSUME NEW w \in Workers, SubmitPhoto(f, w) PROVE RowMove(e)
  BY <1>1, <1>6, PrepareAccepts DEF SubmitPhoto, Prepare
<1>7. ASSUME NEW w \in Workers, ResumePhoto(f, w) PROVE RowMove(e)
  BY <1>1, <1>7 DEF ResumePhoto
<1>8. ASSUME NEW n, ProviderFinish(f, n) \/ Notify(f, n) PROVE RowMove(e)
  BY <1>1, <1>8 DEF ProviderFinish, Notify, Matches, rowVars
<1>9. CASE BecomeDue(f) BY <1>1, <1>9 DEF BecomeDue
<1>10. CASE ExpireDelivery(f)
  <2>1. row[f].token \in Workers => /\ expiries' # expiries
                                    /\ Stalls \/ run[row[f].token].pc # "claimed"
    BY <1>10 DEF ExpireDelivery, TypeOK
  <2> QED BY <1>1, <1>10, <2>1 DEF ExpireDelivery
<1>11. CASE ExpireExecution(f) BY <1>11 DEF ExpireExecution, rowVars
<1> QED BY <1>3, <1>4, <1>5, <1>6, <1>7, <1>8, <1>9, <1>10, <1>11 DEF UserStep, Environment

(* Every step writes every row in one of the ways of RowMove. *)
LEMMA RowMoves ==
  ASSUME TypeOK, [Next]_vars, NEW e \in Executions
  PROVE  RowMove(e)
<1>1. row \in [Executions -> DispatchRow] BY DEF TypeOK, RowsTypeOK
<1>2. CASE UNCHANGED vars BY <1>2 DEF vars, rowVars, RowMove
<1>3. ASSUME NEW w \in Workers, WorkerLoop(w) PROVE RowMove(e)
  <2>1. ASSUME NEW f \in Executions, ClaimDelivery(w, f) PROVE RowMove(e)
    BY <1>1, <2>1 DEF ClaimDelivery, RowMove
  <2>2. ASSUME NEW old, Reconcile(w, old) PROVE RowMove(e)
    BY <1>1, <2>2 DEF Reconcile, Unmatched, Matches, RowMove
  <2> QED BY <1>3, <2>1, <2>2 DEF WorkerLoop
<1>4. ASSUME NEW w \in Workers, Crash(w) PROVE RowMove(e)
  <2>1. run'[w] # run[w] BY <1>4 DEF Crash, TypeOK, RunsTypeOK
  <2> QED BY <1>1, <1>4, <2>1 DEF Crash, RowMove
<1> QED BY <1>2, <1>3, <1>4, RunMovesRow, OutsideMovesRow DEF Next
-----------------------------------------------------------------------------
(* The last three ways of RowMove are the only ones that touch a due time    *)
(* downwards: a checkpoint sets one, and an acknowledgement clears it only   *)
(* in a row it settles or parks.                                             *)
LEMMA MoveKeepsSchedule ==
  ASSUME TypeOK, BlockedIsFree, UnsettledIsScheduled, NEW e \in Executions, RowMove(e)
  PROVE  /\ row'[e].blocked => ~row'[e].leased
         /\ row'[e].enrolled /\ ~row'[e].settled /\ ~row'[e].blocked
              => row'[e].available_at # "null"
<1> DEFINE Goal(r) == /\ r.blocked => ~r.leased
                      /\ r.enrolled /\ ~r.settled /\ ~r.blocked => r.available_at # "null"
<1>1. row[e] \in DispatchRow BY DEF TypeOK, RowsTypeOK
<1>2. Goal(row[e]) BY DEF BlockedIsFree, UnsettledIsScheduled
<1>3. ASSUME NEW o \in Workers \cup {Nobody}, row'[e] = EnrolledRow(o) PROVE Goal(row'[e])
  BY <1>3 DEF EnrolledRow
<1>4. CASE row'[e] = Woken(row[e]) BY <1>1, <1>4 DEF Woken, DispatchRow
<1>5. ASSUME NEW w \in Workers, row'[e] = [Woken(row[e]) EXCEPT !.token = w, !.leased = TRUE]
      PROVE  Goal(row'[e])
  BY <1>1, <1>5 DEF Woken, DispatchRow
<1>6. CASE row'[e] = Matched(row[e]) BY <1>1, <1>2, <1>6 DEF Matched, DispatchRow
<1>7. CASE row'[e] = [row[e] EXCEPT !.available_at = "due"]
  BY <1>1, <1>2, <1>7 DEF DispatchRow
<1>8. CASE row'[e] = [row[e] EXCEPT !.leased = FALSE] BY <1>1, <1>2, <1>8 DEF DispatchRow
<1>9. CASE row'[e] = [row[e] EXCEPT !.token = Lost] BY <1>1, <1>2, <1>9 DEF DispatchRow
<1>10. ASSUME NEW w \in Workers, Deliverable(e),
              row'[e] = [row[e] EXCEPT !.token = w, !.leased = TRUE]
       PROVE  Goal(row'[e])
  BY <1>1, <1>10 DEF Deliverable, DispatchRow
<1>11. ASSUME NEW n, NEW due \in {"later", "due"}, row[e].blocked => ~row[e].leased,
              row'[e] = Checkpointed(row[e], n, due)
       PROVE  Goal(row'[e])
  BY <1>1, <1>2, <1>11 DEF Checkpointed, DispatchRow
<1>12. ASSUME NEW w \in Workers, row[e].leased, row'[e] = Finished(row[e], w, e)
       PROVE  Goal(row'[e])
  <2>1. ~row[e].blocked BY <1>2, <1>12
  <2>2. ~row'[e].leased BY <1>1, <1>12 DEF Finished, DispatchRow
  <2>3. row'[e].available_at = "null" =>
          row'[e].settled \/ row'[e].blocked \/ row[e].available_at = "null"
    BY <1>1, <1>12 DEF Finished, DispatchRow
  <2>4. row[e].settled => row'[e].settled BY <1>1, <1>12 DEF Finished, DispatchRow
  <2>5. row'[e].enrolled = row[e].enrolled BY <1>1, <1>12 DEF Finished, DispatchRow
  <2> QED BY <1>2, <2>1, <2>2, <2>3, <2>4, <2>5
<1> QED
  BY <1>2, <1>3, <1>4, <1>5, <1>6, <1>7, <1>8, <1>9, <1>10, <1>11, <1>12 DEF RowMove

(* No accepted execution is ever forgotten by the queue, for every number of *)
(* executions, workers, crashes, expiries and wakes: a row that is neither   *)
(* settled nor parked has a due time.                                        *)
THEOREM NothingForgotten == Spec => []UnsettledIsScheduled
<1>1. Init => Scheduled
  BY InitType DEF Init, Scheduled, BlockedIsFree, UnsettledIsScheduled
<1>2. TypeOK /\ Scheduled /\ [Next]_vars => BlockedIsFree' /\ UnsettledIsScheduled'
  BY RowMoves, MoveKeepsSchedule DEF Scheduled, BlockedIsFree, UnsettledIsScheduled
<1>3. TypeOK /\ TypeOK' /\ Scheduled /\ [Next]_vars => Scheduled'
  BY <1>2 DEF Scheduled
<1>4. Scheduled => UnsettledIsScheduled BY DEF Scheduled
<1> QED BY <1>1, <1>3, <1>4, TypeCorrect, PTL DEF Spec

(* The moves that can settle a row: the acknowledgement only. *)
LEMMA SettlesByFinish ==
  ASSUME TypeOK, [Next]_vars, NEW e \in Executions, ~row[e].settled, row'[e].settled
  PROVE  \E w \in Workers : /\ At(w) = e /\ row[e].token = w /\ row[e].leased
                            /\ Finish(w) /\ row'[e] = Finished(row[e], w, e)
<1>1. row[e] \in DispatchRow BY DEF TypeOK, RowsTypeOK
<1>2. RowMove(e) BY RowMoves
<1>3. \A o : row'[e] # EnrolledRow(o) BY DEF EnrolledRow
<1>4. row'[e] # Woken(row[e]) BY <1>1 DEF Woken, DispatchRow
<1>5. \A w : row'[e] # [Woken(row[e]) EXCEPT !.token = w, !.leased = TRUE]
  BY <1>1 DEF Woken, DispatchRow
<1>6. row'[e] # row[e] OBVIOUS
<1>7. row'[e] # Matched(row[e]) BY <1>1 DEF Matched, DispatchRow
<1>8. /\ row'[e] # [row[e] EXCEPT !.available_at = "due"]
      /\ row'[e] # [row[e] EXCEPT !.leased = FALSE]
      /\ row'[e] # [row[e] EXCEPT !.token = Lost]
      /\ \A w : row'[e] # [row[e] EXCEPT !.token = w, !.leased = TRUE]
  BY <1>1 DEF DispatchRow
<1>9. \A n, due : row'[e] # Checkpointed(row[e], n, due)
  BY <1>1 DEF Checkpointed, DispatchRow
<1> QED BY <1>2, <1>3, <1>4, <1>5, <1>6, <1>7, <1>8, <1>9, Zenon DEF RowMove

(* A delivery settles or parks only by the acknowledgement of the run that   *)
(* holds it and that was claimed after the last wake.                        *)
THEOREM RestIsCurrent == Spec => RestsAfterLastWake
<1>1. ASSUME TypeOK, [Next]_vars, NEW e \in Executions,
             ~(row[e].settled \/ row[e].blocked), row'[e].settled \/ row'[e].blocked
      PROVE  \E w \in Workers : /\ At(w) = e /\ row[e].token = w
                                /\ run[w].seen = row[e].wake_version
  <2>1. row[e] \in DispatchRow BY <1>1 DEF TypeOK, RowsTypeOK
  <2>2. PICK w \in Workers : /\ At(w) = e /\ row[e].token = w
                             /\ row'[e] = Finished(row[e], w, e)
    <3>1. RowMove(e) BY <1>1, RowMoves
    <3>2. \A o : row'[e] # EnrolledRow(o) BY <1>1 DEF EnrolledRow
    <3>3. row'[e] # Woken(row[e]) BY <1>1, <2>1 DEF Woken, DispatchRow
    <3>4. \A w : row'[e] # [Woken(row[e]) EXCEPT !.token = w, !.leased = TRUE]
      BY <1>1, <2>1 DEF Woken, DispatchRow
    <3>5. row'[e] # row[e] BY <1>1
    <3>6. row'[e] # Matched(row[e]) BY <1>1, <2>1 DEF Matched, DispatchRow
    <3>7. /\ row'[e] # [row[e] EXCEPT !.available_at = "due"]
          /\ row'[e] # [row[e] EXCEPT !.leased = FALSE]
          /\ row'[e] # [row[e] EXCEPT !.token = Lost]
          /\ \A w : row'[e] # [row[e] EXCEPT !.token = w, !.leased = TRUE]
      BY <1>1, <2>1 DEF DispatchRow
    <3>8. \A n, due : row'[e] # Checkpointed(row[e], n, due)
      BY <1>1, <2>1 DEF Checkpointed, DispatchRow
    <3> QED BY <3>1, <3>2, <3>3, <3>4, <3>5, <3>6, <3>7, <3>8, Zenon DEF RowMove
  <2>3. (row'[e].settled \/ row'[e].blocked) => row[e].wake_version = run[w].seen
    BY <1>1, <2>1, <2>2 DEF Finished, DispatchRow
  <2> QED BY <1>1, <2>2, <2>3
<1>2. TypeOK /\ [Next]_vars =>
        [\A e \in Executions :
           (~(row[e].settled \/ row[e].blocked) /\ (row'[e].settled \/ row'[e].blocked)) =>
             \E w \in Workers : /\ At(w) = e /\ row[e].token = w
                                /\ run[w].seen = row[e].wake_version]_vars
  BY <1>1
<1> QED BY <1>2, TypeCorrect, PTL DEF Spec, RestsAfterLastWake

-----------------------------------------------------------------------------
(***************************************************************************)
(* What the two leases promise for every number of executions and workers: *)
(* an execution row names only a run that is inside its _run, so an        *)
(* outcome is saved at most once, and nobody but its holder or the clock   *)
(* ends a live lease.                                                      *)
(***************************************************************************)

(* Program counters between executions.claim and the finally of _run. *)
Owning == {"begin", "working", "posting", "posted", "collected", "waiting", "answered",
           "resulted", "spent", "advanced", "completing", "failing", "savefailed",
           "pausing", "cancelling", "publishing", "returning", "raising"}

(* Of those, the ones that follow the save of an outcome. *)
Ending == {"publishing", "returning", "raising"}

(* Those in which the runtime asks the model or runs a tool. *)
Stage == {"working", "posting", "posted", "collected", "waiting", "answered", "resulted",
          "spent", "advanced"}

(* The ways one step can write the execution row of e. *)
ExecMove(e) ==
    \/ exec'[e] = exec[e]
    \/ exec[e].status = "absent" /\ exec'[e] = [exec[e] EXCEPT !.status = "ready"]
    \/ \E w \in Workers : /\ exec[e].status \notin Terminal \cup {"absent"} /\ ~Busy(e)
                          /\ exec'[e] = [exec[e] EXCEPT !.worker_id = w, !.leased = TRUE]
                          /\ At(w) = e /\ run[w].pc = "claimed"
                          /\ run'[w] = [run[w] EXCEPT !.pc = "begin"]
    \/ \E w \in Workers : /\ Owns(e, w) /\ At(w) = e /\ run[w].pc \in Owning \ Ending
                          /\ exec'[e].status \notin {"absent"}
                          /\ exec'[e] = [exec[e] EXCEPT !.status = exec'[e].status]
                          /\ IF exec'[e].status \in Terminal THEN run'[w].pc = "publishing"
                                                          ELSE run[w].pc \in Stage
                          /\ run'[w] # run[w] /\ ~row'[e].settled
    \/ \E w \in Workers : /\ exec[e].worker_id = w /\ run'[w] # run[w]
                          /\ exec'[e] = [exec[e] EXCEPT !.worker_id = Nobody, !.leased = FALSE]
    \/ /\ exec[e].leased /\ exec'[e] = [exec[e] EXCEPT !.leased = FALSE]
       /\ exec[e].worker_id \in Workers => expiries' # expiries
    \/ \E w \in Workers : /\ exec[e].worker_id = w /\ run'[w] # run[w]
                          /\ exec'[e] = [exec[e] EXCEPT !.worker_id = Lost]

(* A worker_id that names a live run names one inside the _run of that       *)
(* execution; after an outcome is saved it only publishes and releases.      *)
OwnerIsRunning ==
    \A e \in Executions, w \in Workers : exec[e].worker_id = w =>
        /\ At(w) = e /\ run[w].pc \in Owning
        /\ exec[e].status \in Terminal => run[w].pc \in Ending

(* An execution that was never accepted has no row, no approval and no lease. *)
AbsentHasNoRow ==
    \A e \in Executions :
        /\ exec[e].status = "absent" => ~row[e].enrolled /\ ctx[e].approval = "none"
        /\ ~row[e].enrolled => ~row[e].leased
-----------------------------------------------------------------------------
(* A run that takes a step inside a delivery changes its own entry. *)
LEMMA GotoMoves ==
  ASSUME TypeOK, NEW w \in Workers, NEW pc, run[w].pc # pc
  PROVE  /\ Goto(w, pc) => /\ run'[w] = [run[w] EXCEPT !.pc = pc]
                           /\ run'[w] # run[w] /\ run'[w].pc = pc /\ run'[w].at = run[w].at
         /\ \A n : GotoHolding(w, pc, n) => run'[w].pc = pc /\ run'[w].at = run[w].at
<1>1. run[w] \in Run BY DEF TypeOK, RunsTypeOK
<1>2. Goto(w, pc) => run'[w] = [run[w] EXCEPT !.pc = pc]
  BY DEF Goto, TypeOK, RunsTypeOK
<1>3. [run[w] EXCEPT !.pc = pc].pc = pc /\ [run[w] EXCEPT !.pc = pc].at = run[w].at
  BY <1>1 DEF Run
<1>4. ASSUME NEW n, GotoHolding(w, pc, n) PROVE run'[w].pc = pc /\ run'[w].at = run[w].at
  <2>1. run'[w] = [run[w] EXCEPT !.pc = pc, !.holding = n]
    BY <1>4 DEF GotoHolding, TypeOK, RunsTypeOK
  <2> QED BY <1>1, <2>1 DEF Run
<1> QED BY <1>2, <1>3, <1>4

(* A save makes its delivery unsettled. *)
LEMMA SaveUnsettles ==
  ASSUME TypeOK, NEW w \in Workers, At(w) \in Executions, NEW s, NEW n, Save(w, s, n)
  PROVE  ~row'[At(w)].settled
<1> DEFINE early == n # 0 /\ <<At(w), n>> \in inbox \ consumed
           polls == s = "waiting_model" /\ At(w) \notin cancellations /\ ~early
           due == IF polls THEN "later" ELSE "due"
<1>1. row' = [row EXCEPT ![At(w)] = Checkpointed(row[At(w)], n, due)]
  BY Zenon DEF Save, Checkpoint, Checkpointed
<1> HIDE DEF due
<1>2. row'[At(w)] = Checkpointed(row[At(w)], n, due) BY <1>1 DEF TypeOK, RowsTypeOK
<1>3. row[At(w)] \in DispatchRow BY DEF TypeOK, RowsTypeOK
<1> QED BY <1>2, <1>3 DEF Checkpointed, DispatchRow

(* A save writes the status of the execution its run owns. *)
LEMMA SaveMovesExec ==
  ASSUME TypeOK, NEW w \in Workers, run[w].pc \in Owning \ Ending, NEW s \in Status \ {"absent"},
         NEW n, Save(w, s, n), NEW pc, run[w].pc # pc, Goto(w, pc),
         IF s \in Terminal THEN pc = "publishing" ELSE run[w].pc \in Stage,
         NEW e \in Executions
  PROVE  ExecMove(e)
<1>1. /\ Owns(At(w), w)
      /\ exec' = [exec EXCEPT ![At(w)] = [exec[At(w)] EXCEPT !.status = s]]
  BY DEF Save, SaveStatus
<1>2. CASE e = At(w)
  <2>1. exec'[e] = [exec[e] EXCEPT !.status = s]
    BY <1>1, <1>2 DEF TypeOK, ExecutionsTypeOK
  <2>2. exec[e] \in ExecutionRow BY DEF TypeOK, ExecutionsTypeOK
  <2>3. exec'[e].status = s BY <2>1, <2>2 DEF ExecutionRow
  <2>4. run'[w] # run[w] /\ run'[w].pc = pc BY GotoMoves
  <2>5. ~row'[e].settled BY <1>2, SaveUnsettles
  <2> QED BY <1>1, <1>2, <2>1, <2>3, <2>4, <2>5 DEF ExecMove
<1>3. CASE e # At(w) BY <1>1, <1>3 DEF ExecMove, TypeOK, ExecutionsTypeOK
<1> QED BY <1>2, <1>3

(* The steps of a run on the execution rows. *)
LEMMA RunMovesExec ==
  ASSUME TypeOK, NEW w \in Workers, RunStep(w), NEW e \in Executions
  PROVE  ExecMove(e)
<1>1. exec \in [Executions -> ExecutionRow] /\ run \in [Workers -> Run]
  BY DEF TypeOK, ExecutionsTypeOK, RunsTypeOK
<1>2. UNCHANGED exec => ExecMove(e) BY DEF ExecMove
<1>3. Terminal \subseteq Status \ {"absent"} BY DEF Terminal, Status
<1>4. CASE StartRun(w)
  <2>1. run[w].pc = "claimed" BY <1>4 DEF StartRun
  <2>2. CASE ClaimExecution(At(w), w) /\ Goto(w, "begin")
    <3>1. run'[w] = [run[w] EXCEPT !.pc = "begin"] BY <2>1, <2>2, GotoMoves
    <3>2. CASE e = At(w)
      <4>1. exec[e].status \notin Terminal \cup {"absent"} /\ ~Busy(e)
        BY <2>2, <3>2 DEF ClaimExecution
      <4>2. e \in Executions /\ exec'[e] = [exec[e] EXCEPT !.worker_id = w, !.leased = TRUE]
        BY <1>1, <2>2, <3>2 DEF ClaimExecution
      <4> QED BY <2>1, <3>1, <3>2, <4>1, <4>2 DEF ExecMove
    <3>3. CASE e # At(w) BY <1>1, <2>2, <3>3 DEF ClaimExecution, ExecMove
    <3> QED BY <3>2, <3>3
  <2> QED BY <1>2, <1>4, <2>2 DEF StartRun
<1>5. CASE SaveIntent(w)
  BY <1>5, SaveMovesExec DEF SaveIntent, NeedsModel, Owning, Ending, Stage, Status, Terminal
<1>6. CASE SaveWaiting(w)
  BY <1>6, SaveMovesExec DEF SaveWaiting, Owning, Ending, Stage, Status, Terminal
<1>7. CASE SaveTurn(w)
  BY <1>7, SaveMovesExec DEF SaveTurn, Owning, Ending, Stage, Status, Terminal
<1>8. CASE SaveResult(w)
  <2>1. CASE Save(w, "ready", 0)
    BY <1>8, <2>1, SaveMovesExec
    DEF SaveResult, NeedsTool, Owning, Ending, Stage, Status, Terminal
  <2> QED BY <1>2, <1>8, <2>1 DEF SaveResult, executionVars
<1>9. CASE SaveCursor(w) \/ ClearTurn(w)
  BY <1>9, SaveMovesExec DEF SaveCursor, ClearTurn, Owning, Ending, Stage, Status, Terminal
<1>10. CASE SaveAwaiting(w)
  BY <1>10, SaveMovesExec DEF SaveAwaiting, NeedsTool, Owning, Ending, Stage, Status, Terminal
<1>11. CASE SaveCompleted(w)
  BY <1>11, SaveMovesExec DEF SaveCompleted, Owning, Ending, Stage, Status, Terminal
<1>12. CASE SaveFailed(w)
  BY <1>12, SaveMovesExec DEF SaveFailed, Owning, Ending, Stage, Status, Terminal
<1>13. CASE SaveCancelled(w)
  BY <1>13, SaveMovesExec DEF SaveCancelled, Owning, Ending, Stage, Status, Terminal
<1>14. CASE EndRun(w)
  <2>1. run'[w] # run[w] BY <1>14, GotoMoves DEF EndRun
  <2>2. CASE exec[At(w)].worker_id = w /\ e = At(w)
    BY <1>1, <1>14, <2>1, <2>2 DEF EndRun, Release, ExecMove
  <2>3. CASE ~(exec[At(w)].worker_id = w /\ e = At(w))
    BY <1>1, <1>14, <2>3 DEF EndRun, Release, ExecMove
  <2> QED BY <2>2, <2>3
<1>15. CASE \/ ClaimReserved(w) \/ BeginStage(w) \/ Post(w) \/ Collect(w) \/ Continue(w)
            \/ GiveUp(w) \/ HandleBudgetError(w) \/ PublishTerminal(w) \/ PublishPause(w)
            \/ Raise(w) \/ Finish(w) \/ PublishBlocked(w)
  BY <1>2, <1>15
  DEF ClaimReserved, BeginStage, Post, Collect, Continue, GiveUp, HandleBudgetError,
      PublishTerminal, PublishPause, Raise, Finish, PublishBlocked, executionVars
<1> QED BY <1>4, <1>5, <1>6, <1>7, <1>8, <1>9, <1>10, <1>11, <1>12, <1>13, <1>14, <1>15 DEF RunStep

(* Every step writes every execution row in one of the ways of ExecMove. *)
LEMMA ExecMoves ==
  ASSUME TypeOK, [Next]_vars, NEW e \in Executions
  PROVE  ExecMove(e)
<1>1. exec \in [Executions -> ExecutionRow] BY DEF TypeOK, ExecutionsTypeOK
<1>2. UNCHANGED exec => ExecMove(e) BY DEF ExecMove
<1>3. CASE UNCHANGED vars BY <1>2, <1>3 DEF vars, executionVars
<1>4. ASSUME NEW f \in Executions, UserStep(f) PROVE ExecMove(e)
  <2>1. Prepare(f) => ExecMove(e) BY <1>1 DEF Prepare, ExecMove
  <2> QED BY <1>2, <1>4, <2>1
          DEF UserStep, Submit, PrepareOnly, Resume, Decide, Cancel, SubmitPhoto, ResumePhoto,
              executionVars
<1>5. ASSUME NEW f \in Executions, Environment(f) PROVE ExecMove(e)
  <2>1. CASE ExpireExecution(f)
    <3>1. exec[f].worker_id \in Workers => expiries' # expiries
      BY <2>1 DEF ExpireExecution, TypeOK
    <3> QED BY <1>1, <2>1, <3>1 DEF ExpireExecution, ExpireLease, ExecMove
  <2> QED BY <1>2, <1>5, <2>1
          DEF Environment, ProviderFinish, Notify, BecomeDue, ExpireDelivery, executionVars
<1>6. ASSUME NEW w \in Workers, WorkerLoop(w) PROVE ExecMove(e)
  BY <1>2, <1>6 DEF WorkerLoop, ClaimDelivery, Reconcile, executionVars
<1>7. ASSUME NEW w \in Workers, Crash(w) PROVE ExecMove(e)
  <2>1. run'[w] # run[w] BY <1>7 DEF Crash, TypeOK, RunsTypeOK
  <2> QED BY <1>1, <1>7, <2>1 DEF Crash, LoseOwner, ExecMove
<1> QED BY <1>3, <1>4, <1>5, <1>6, <1>7, RunMovesExec DEF Next
-----------------------------------------------------------------------------
(* Only a run itself, or its death, moves a run that is inside a delivery. *)
LEMMA OwnStep ==
  ASSUME TypeOK, [Next]_vars, NEW v \in Workers, run[v].pc \in Owning, run'[v] # run[v]
  PROVE  RunStep(v) \/ Crash(v)
<1>1. run \in [Workers -> Run] BY DEF TypeOK, RunsTypeOK
<1>2. run[v] # Idle BY DEF Idle, Owning
<1>3. ASSUME NEW w \in Workers, RunStep(w), w # v PROVE FALSE
  <2>1. \E x : run' = [run EXCEPT ![w] = x]
    BY <1>3
    DEF RunStep, ClaimReserved, StartRun, BeginStage, SaveIntent, Post, Collect, SaveWaiting,
        SaveTurn, SaveResult, SaveCursor, ClearTurn, SaveAwaiting, Continue, SaveCompleted, GiveUp,
        HandleBudgetError, SaveFailed, SaveCancelled, PublishTerminal, PublishPause, Raise,
        EndRun, Finish, PublishBlocked, Goto, GotoHolding, Take
  <2> QED BY <1>1, <1>3, <2>1
<1>4. ASSUME NEW w \in Workers, WorkerLoop(w) PROVE FALSE
  <2>1. run[w] = Idle /\ \E x : run' = [run EXCEPT ![w] = x]
    BY <1>4 DEF WorkerLoop, ClaimDelivery, Reconcile, Take
  <2> QED BY <1>1, <1>2, <2>1
<1>5. ASSUME NEW w \in Workers, Crash(w), w # v PROVE FALSE BY <1>1, <1>5 DEF Crash
<1>6. ASSUME NEW e \in Executions, UserStep(e) PROVE FALSE
  <2>1. CASE UNCHANGED run BY <2>1
  <2>2. CASE \E w \in Workers : run[w] = Idle /\ \E x : run' = [run EXCEPT ![w] = x]
    BY <1>1, <1>2, <2>2
  <2> QED
    BY <1>6, <2>1, <2>2
    DEF UserStep, Submit, PrepareOnly, Resume, Decide, Cancel, SubmitPhoto, ResumePhoto, Take
<1>7. ASSUME NEW e \in Executions, Environment(e) PROVE FALSE
  BY <1>7
  DEF Environment, ProviderFinish, Notify, BecomeDue, ExpireDelivery, ExpireExecution
<1> QED BY <1>3, <1>4, <1>5, <1>6, <1>7 DEF Next, vars

(* A run moves its program counter within its delivery, or ends it. *)
RunMove(w) ==
    \/ \E pc \in Owning : /\ run'[w].at = run[w].at /\ run'[w].pc = pc
                          /\ run[w].pc \in Ending => pc \in Ending
    \/ exec'[At(w)].worker_id # w

(* The steps of a run that owns its execution keep it inside its _run, until *)
(* the release; a run that saved an outcome does no stage any more.          *)
LEMMA OwnerMoves ==
  ASSUME TypeOK, NEW w \in Workers, run[w].pc \in Owning, RunStep(w)
  PROVE  RunMove(w)
<1>1. \A pc : run[w].pc # pc /\ Goto(w, pc) => run'[w].pc = pc /\ run'[w].at = run[w].at
  BY GotoMoves
<1>2. \A pc, n : run[w].pc # pc /\ GotoHolding(w, pc, n) =>
                  run'[w].pc = pc /\ run'[w].at = run[w].at
  BY GotoMoves
<1>3. ASSUME NEW pc \in Owning, run[w].pc # pc,
             Goto(w, pc) \/ \E n : GotoHolding(w, pc, n),
             run[w].pc \notin Ending \/ pc \in Ending
      PROVE  RunMove(w)
  BY <1>1, <1>2, <1>3 DEF RunMove
<1>4. CASE BeginStage(w) BY <1>3, <1>4 DEF BeginStage, Owning, Ending
<1>5. CASE SaveIntent(w) \/ SaveResult(w) \/ SaveAwaiting(w)
  BY <1>3, <1>5 DEF SaveIntent, SaveResult, SaveAwaiting, NeedsModel, NeedsTool, Owning, Ending
<1>6. CASE Post(w) BY <1>3, <1>6 DEF Post, Owning, Ending
<1>7. CASE Collect(w) BY <1>3, <1>7 DEF Collect, NeedsModel, Owning, Ending
<1>8. CASE SaveWaiting(w) \/ SaveTurn(w) \/ SaveCursor(w) \/ ClearTurn(w)
  BY <1>3, <1>8 DEF SaveWaiting, SaveTurn, SaveCursor, ClearTurn, Owning, Ending
<1>9. CASE Continue(w) BY <1>3, <1>9 DEF Continue, Owning, Ending
<1>10. CASE SaveCompleted(w) \/ SaveFailed(w) \/ SaveCancelled(w)
  BY <1>3, <1>10 DEF SaveCompleted, SaveFailed, SaveCancelled, Owning, Ending
<1>11. CASE GiveUp(w) BY <1>3, <1>11 DEF GiveUp, NeedsModel, Owning, Ending
<1>12. CASE HandleBudgetError(w) BY <1>3, <1>12 DEF HandleBudgetError, Owning, Ending
<1>13. CASE PublishTerminal(w) \/ PublishPause(w) \/ Raise(w)
  BY <1>3, <1>13 DEF PublishTerminal, PublishPause, Raise, Owning, Ending
<1>14. CASE EndRun(w)
  <2>1. At(w) \in Executions BY <1>14 DEF EndRun, TypeOK, RunsTypeOK, At, Delivering
  <2>2. w # Nobody BY OwnersAreDistinct
  <2>3. exec[At(w)] \in ExecutionRow BY <2>1 DEF TypeOK, ExecutionsTypeOK
  <2>4. exec'[At(w)].worker_id # w
    BY <1>14, <2>1, <2>2, <2>3 DEF EndRun, Release, TypeOK, ExecutionsTypeOK, ExecutionRow
  <2> QED BY <2>4 DEF RunMove
<1>15. CASE ClaimReserved(w) \/ StartRun(w) \/ Finish(w) \/ PublishBlocked(w)
  BY <1>15 DEF ClaimReserved, StartRun, Finish, PublishBlocked, Owning
<1> QED
  BY <1>4, <1>5, <1>6, <1>7, <1>8, <1>9, <1>10, <1>11, <1>12, <1>13, <1>14, <1>15 DEF RunStep

(* OwnerIsRunning is inductive. *)
LEMMA OwnerKept ==
  ASSUME TypeOK, OwnerIsRunning, [Next]_vars
  PROVE  OwnerIsRunning'
<1> SUFFICES ASSUME NEW e \in Executions, NEW v \in Workers, exec'[e].worker_id = v
             PROVE  /\ run'[v].at = e /\ run'[v].pc \in Owning
                    /\ exec'[e].status \in Terminal => run'[v].pc \in Ending
  BY DEF OwnerIsRunning, At
<1>1. exec[e] \in ExecutionRow /\ run[v] \in Run BY DEF TypeOK, ExecutionsTypeOK, RunsTypeOK
<1>2. ExecMove(e) BY ExecMoves
<1>3. v # Nobody /\ v # Lost BY OwnersAreDistinct
<1>4. CASE exec[e].worker_id # v
  <2>1. /\ exec[e].status \notin Terminal
        /\ exec'[e] = [exec[e] EXCEPT !.worker_id = v, !.leased = TRUE]
        /\ At(v) = e /\ run'[v] = [run[v] EXCEPT !.pc = "begin"]
    BY <1>1, <1>2, <1>3, <1>4 DEF ExecMove, ExecutionRow
  <2>2. exec'[e].status = exec[e].status BY <1>1, <2>1 DEF ExecutionRow
  <2>3. run'[v].at = run[v].at /\ run'[v].pc = "begin" BY <1>1, <2>1 DEF Run
  <2> QED BY <2>1, <2>2, <2>3 DEF At, Owning
<1>5. CASE exec[e].worker_id = v
  <2>1. /\ At(v) = e /\ run[v].pc \in Owning
        /\ exec[e].status \in Terminal => run[v].pc \in Ending
    BY <1>5 DEF OwnerIsRunning
  <2>2. exec'[e].status = exec[e].status \/ exec'[e].status \notin Terminal
          \/ (run'[v].pc = "publishing" /\ run'[v] # run[v])
    BY <1>1, <1>2, <1>5 DEF ExecMove, ExecutionRow, Terminal, Owns
  <2>3. CASE run'[v] = run[v] BY <2>1, <2>2, <2>3 DEF At
  <2>4. CASE run'[v] # run[v]
    <3>1. RunStep(v) \/ Crash(v) BY <2>1, <2>4, OwnStep
    <3>2. ~Crash(v)
      <4> SUFFICES ASSUME Crash(v) PROVE exec'[e].worker_id # v OBVIOUS
      <4> QED BY <1>1, <1>3, <1>5 DEF Crash, LoseOwner, ExecutionRow
    <3>3. RunMove(v) BY <2>1, <3>1, <3>2, OwnerMoves
    <3> QED BY <2>1, <2>2, <3>3 DEF RunMove, At, Ending
  <2> QED BY <2>3, <2>4
<1> QED BY <1>4, <1>5

(* Ownership of an execution row always names a run that is inside its _run. *)
THEOREM OwnersRun == Spec => []OwnerIsRunning
<1>1. Init => OwnerIsRunning
  BY OwnersAreDistinct DEF Init, ExecutionsInit, OwnerIsRunning
<1> QED BY <1>1, OwnerKept, TypeCorrect, PTL DEF Spec

(* One step keeps a terminal status. *)
LEMMA TerminalStays ==
  ASSUME TypeOK, OwnerIsRunning, [Next]_vars, NEW e \in Executions,
         exec[e].status \in Terminal
  PROVE  exec'[e].status = exec[e].status
<1>1. exec[e] \in ExecutionRow BY DEF TypeOK, ExecutionsTypeOK
<1>2. ExecMove(e) BY ExecMoves
<1>3. \A w \in Workers : Owns(e, w) => run[w].pc \in Ending BY DEF OwnerIsRunning, Owns
<1>4. exec[e].status # "absent" BY DEF Terminal
<1> QED BY <1>1, <1>2, <1>3, <1>4 DEF ExecMove, ExecutionRow

(* The outcome of an execution never changes once saved, for every number of *)
(* slow, crashed or replaced workers: only the owner saves, and an owner     *)
(* that saved an outcome is past its saves.                                  *)
THEOREM OutcomeIsFinal == Spec => TerminalIsFinal
<1>1. TypeOK /\ OwnerIsRunning /\ [Next]_vars =>
        [\A e \in Executions : exec[e].status \in Terminal =>
           exec'[e].status = exec[e].status]_vars
  BY TerminalStays
<1> QED BY <1>1, OwnersRun, TypeCorrect, PTL DEF Spec, TerminalIsFinal

-----------------------------------------------------------------------------
(* An approval is requested by the owner of an accepted execution. *)
LEMMA ApprovalNeedsExecution ==
  ASSUME TypeOK, [Next]_vars, NEW e \in Executions,
         exec[e].status # "absent" => exec'[e].status # "absent",
         ctx'[e].approval # "none"
  PROVE  ctx[e].approval # "none" \/ exec'[e].status # "absent"
<1>1. ctx \in [Executions -> Context] BY DEF TypeOK, ContextTypeOK
<1>2. SUFFICES ASSUME ctx[e].approval = "none" PROVE exec'[e].status # "absent" OBVIOUS
<1>3. ctx' # ctx BY <1>2
<1>4. ASSUME NEW f \in Executions, UserStep(f) PROVE FALSE
  BY <1>1, <1>2, <1>3, <1>4
  DEF UserStep, Submit, PrepareOnly, Resume, Decide, Cancel, SubmitPhoto, ResumePhoto, Context
<1>5. ASSUME NEW f \in Executions, Environment(f) PROVE FALSE
  BY <1>3, <1>5
  DEF Environment, ProviderFinish, Notify, BecomeDue, ExpireDelivery, ExpireExecution
<1>6. ASSUME NEW w \in Workers, WorkerLoop(w) \/ Crash(w) PROVE FALSE
  BY <1>3, <1>6 DEF WorkerLoop, ClaimDelivery, Reconcile, Crash
<1>7. ASSUME NEW w \in Workers, RunStep(w) PROVE exec'[e].status # "absent"
  <2>1. CASE SaveAwaiting(w)
    <3>1. e = At(w) BY <1>1, <1>2, <2>1 DEF SaveAwaiting
    <3>2. exec'[e] = [exec[e] EXCEPT !.status = "awaiting_approval"]
      BY <2>1, <3>1 DEF SaveAwaiting, Save, SaveStatus, TypeOK, ExecutionsTypeOK
    <3>3. exec[e] \in ExecutionRow BY DEF TypeOK, ExecutionsTypeOK
    <3> QED BY <3>2, <3>3 DEF ExecutionRow
  <2>2. CASE SaveIntent(w)
    <3>1. ctx'[e].approval = ctx[e].approval BY <1>1, <2>2 DEF SaveIntent, Context
    <3> QED BY <1>2, <3>1
  <2>3. CASE SaveTurn(w)
    <3>1. ctx'[e].approval = ctx[e].approval BY <1>1, <2>3 DEF SaveTurn, Context
    <3> QED BY <1>2, <3>1
  <2>4. CASE SaveResult(w)
    <3>1. ctx'[e].approval = ctx[e].approval BY <1>1, <2>4 DEF SaveResult, Context
    <3> QED BY <1>2, <3>1
  <2>5. CASE SaveCursor(w)
    <3>1. ctx'[e].approval \in {ctx[e].approval, "none"}
      BY <1>1, <2>5 DEF SaveCursor, Context
    <3> QED BY <1>2, <3>1
  <2>6. CASE ClearTurn(w)
    <3>1. ctx'[e].approval = ctx[e].approval BY <1>1, <2>6 DEF ClearTurn, Context
    <3> QED BY <1>2, <3>1
  <2> QED
    BY <1>3, <1>7, <2>1, <2>2, <2>3, <2>4, <2>5, <2>6
    DEF RunStep, ClaimReserved, StartRun, BeginStage, Post, Collect, SaveWaiting, Continue,
        SaveCompleted, GiveUp, HandleBudgetError, SaveFailed, SaveCancelled, PublishTerminal,
        PublishPause, Raise, EndRun, Finish, PublishBlocked
<1> QED BY <1>3, <1>4, <1>5, <1>6, <1>7 DEF Next, vars

(* AbsentHasNoRow is inductive. *)
LEMMA AbsentKept ==
  ASSUME TypeOK, AbsentHasNoRow, [Next]_vars
  PROVE  AbsentHasNoRow'
<1> SUFFICES ASSUME NEW e \in Executions
             PROVE  /\ exec'[e].status = "absent" =>
                         ~row'[e].enrolled /\ ctx'[e].approval = "none"
                    /\ ~row'[e].enrolled => ~row'[e].leased
  BY DEF AbsentHasNoRow
<1>1. row[e] \in DispatchRow /\ exec[e] \in ExecutionRow
  BY DEF TypeOK, RowsTypeOK, ExecutionsTypeOK
<1>2. RowMove(e) /\ ExecMove(e) BY RowMoves, ExecMoves
<1>3. exec[e].status # "absent" => exec'[e].status # "absent"
  BY <1>1, <1>2 DEF ExecMove, ExecutionRow
<1>4. ctx'[e].approval # "none" /\ exec'[e].status = "absent" => ctx[e].approval # "none"
  BY <1>3, ApprovalNeedsExecution
<1>5. exec[e].status = "absent" => ~row[e].enrolled /\ ctx[e].approval = "none"
  BY DEF AbsentHasNoRow
<1>6. ~row[e].enrolled => ~row[e].leased BY DEF AbsentHasNoRow
<1> DEFINE Goal == /\ row'[e].enrolled /\ ~row[e].enrolled => exec'[e].status # "absent"
                   /\ ~row'[e].enrolled => ~row'[e].leased
<1>7. Goal
  <2>1. CASE row'[e] = row[e] BY <1>6, <2>1
  <2>2. ASSUME NEW o, row'[e] = EnrolledRow(o), exec'[e].status # "absent"
        PROVE  Goal
    BY <2>2 DEF EnrolledRow
  <2>3. CASE /\ exec[e].status # "absent" \/ ctx[e].approval # "none"
             /\ row'[e] = Woken(row[e])
    BY <1>1, <1>3, <1>5, <2>3 DEF Woken, DispatchRow
  <2>4. ASSUME NEW w, exec[e].status # "absent",
               row'[e] = [Woken(row[e]) EXCEPT !.token = w, !.leased = TRUE]
        PROVE  Goal
    BY <1>1, <1>3, <2>4 DEF Woken, DispatchRow
  <2>5. CASE row'[e] = Matched(row[e]) BY <1>1, <1>6, <2>5 DEF Matched, DispatchRow
  <2>6. CASE \/ row'[e] = [row[e] EXCEPT !.available_at = "due"]
             \/ row'[e] = [row[e] EXCEPT !.leased = FALSE]
             \/ row'[e] = [row[e] EXCEPT !.token = Lost]
    BY <1>1, <1>6, <2>6 DEF DispatchRow
  <2>7. ASSUME NEW w, Deliverable(e), row'[e] = [row[e] EXCEPT !.token = w, !.leased = TRUE]
        PROVE  Goal
    BY <1>1, <2>7 DEF Deliverable, DispatchRow
  <2>8. ASSUME NEW n, NEW due, row'[e] = Checkpointed(row[e], n, due) PROVE Goal
    BY <1>1, <1>6, <2>8 DEF Checkpointed, DispatchRow
  <2>9. ASSUME NEW w, row'[e] = Finished(row[e], w, e) PROVE Goal
    BY <1>1, <1>6, <2>9 DEF Finished, DispatchRow
  <2> QED
    BY <1>2, <2>1, <2>2, <2>3, <2>4, <2>5, <2>6, <2>7, <2>8, <2>9 DEF RowMove
<1> QED BY <1>3, <1>4, <1>5, <1>7

(* The third invariant the other theorems rest on. *)
THEOREM AbsentHolds == Spec => []AbsentHasNoRow
<1>1. Init => AbsentHasNoRow
  <2> SUFFICES ASSUME Init, NEW e \in Executions
               PROVE  ~row[e].enrolled /\ ctx[e].approval = "none" /\ ~row[e].leased
    BY DEF AbsentHasNoRow
  <2> QED BY DEF Init
<1> QED BY <1>1, AbsentKept, TypeCorrect, PTL DEF Spec

(* A live lease outlives every step but one of its holder and of the clock. *)
LEMMA LeaseKept ==
  ASSUME TypeOK, AbsentHasNoRow, [Next]_vars,
         NEW e \in Executions, NEW v \in Workers, run'[v] = run[v], expiries' = expiries
  PROVE  /\ row[e].token = v /\ row[e].leased => row'[e].token = v /\ row'[e].leased
         /\ Owns(e, v) => Owns(e, v)'
<1>1. row[e] \in DispatchRow /\ exec[e] \in ExecutionRow
  BY DEF TypeOK, RowsTypeOK, ExecutionsTypeOK
<1>2. RowMove(e) /\ ExecMove(e) BY RowMoves, ExecMoves
<1>3. v # Nobody BY OwnersAreDistinct
<1>4. ASSUME Owns(e, v) PROVE exec'[e].worker_id = v /\ exec'[e].leased
  <2>1. exec[e].worker_id = v /\ exec[e].leased BY <1>4 DEF Owns
  <2> QED BY <1>1, <1>2, <1>3, <2>1 DEF ExecMove, ExecutionRow, Owns, Busy
<1>5. ASSUME row[e].token = v, row[e].leased PROVE row'[e].token = v /\ row'[e].leased
  <2>1. exec[e].status # "absent" /\ row[e].enrolled BY <1>5 DEF AbsentHasNoRow
  <2>2. CASE row'[e] = Woken(row[e]) BY <1>1, <1>5, <2>2 DEF Woken, DispatchRow
  <2>3. CASE row'[e] = Matched(row[e]) BY <1>1, <1>5, <2>3 DEF Matched, DispatchRow
  <2>4. CASE row'[e] = [row[e] EXCEPT !.available_at = "due"]
    BY <1>1, <1>5, <2>4 DEF DispatchRow
  <2>5. ASSUME NEW n, NEW due, row'[e] = Checkpointed(row[e], n, due)
        PROVE  row'[e].token = v /\ row'[e].leased
    BY <1>1, <1>5, <2>5 DEF Checkpointed, DispatchRow
  <2>6. ASSUME NEW w \in Workers, At(w) = e, row[e].token = w, Finish(w) PROVE FALSE
    <3>1. w = v BY <1>5, <2>6
    <3>2. run[v].pc \in {"acking", "nacking", "busy"} /\ run'[v].pc \in {"idle", "noticing"}
      BY <2>6, <3>1 DEF Finish, TypeOK, RunsTypeOK, Idle
    <3> QED BY <3>2
  <2> QED BY <1>2, <1>5, <2>1, <2>2, <2>3, <2>4, <2>5, <2>6 DEF RowMove, Deliverable
<1> QED BY <1>4, <1>5 DEF Owns

(* Nobody but its holder or the clock ends a live lease, for every number of *)
(* workers: not a claim, a reservation, a wake, nor the late save, release   *)
(* or acknowledgement of a run that was replaced.                            *)
THEOREM LeasesExclude == Spec => LeasesAreExclusive
<1>1. TypeOK /\ AbsentHasNoRow /\ [Next]_vars =>
        [\A e \in Executions, v \in Workers :
           run'[v] # run[v] \/ expiries' # expiries \/
             /\ row[e].token = v /\ row[e].leased => row'[e].token = v /\ row'[e].leased
             /\ Owns(e, v) => Owns(e, v)']_vars
  BY LeaseKept
<1> QED BY <1>1, AbsentHolds, TypeCorrect, PTL DEF Spec, LeasesAreExclusive
=============================================================================
