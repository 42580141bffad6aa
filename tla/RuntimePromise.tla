--------------------------- MODULE RuntimePromise ---------------------------
(***************************************************************************)
(* The runtime keeps what ToolPromise states of the tool calls: the        *)
(* refinement, step by step, for every value of the constants.  And it     *)
(* pays a provider for a call at most once.                                *)
(*                                                                         *)
(* The argument follows a call.  Before the checkpoint reaches it, it has  *)
(* changed nothing; while the checkpoint is at it, the receipt or the      *)
(* request records what it changed, and only the owner of the lease can    *)
(* add to that; once its result is saved, no run changes or contradicts    *)
(* it, and the result is shown before the checkpoint leaves it.  A call is *)
(* paid for only after the checkpoint or a receipt says that it began, so  *)
(* a run that lost its lease can pay for what it announced, and only then. *)
(***************************************************************************)
EXTENDS RuntimeProofs

(* What a call changed, and whether the conversation shows a result of it. *)
Did(s) == {t \in Targets : effects[<<s, t>>] > 0}
Told(s) == \E x \in shown : x[1] = s

(* A checkpoint left the call at step s, or is at it. *)
Beyond(c, s) == c.round > s[2] \/ (c.round = s[2] /\ c.index > s[3])
AtStep(c, s) == c.round = s[2] /\ c.index = s[3] /\ s[3] <= Len(c.calls)
StepAt(e) == <<e, ctx[e].round, ctx[e].index>>

(* The receipts record the additions; a call ahead changed nothing.        *)
ReceiptsFit == \A s \in Steps : Stock \in Did(s) <=> s \in receipts
UntouchedAhead ==
    \A s \in Steps : Beyond(ctx[s[1]], s) \/ AtStep(ctx[s[1]], s) \/ Did(s) = {}

(* What request a records of call c at step s. *)
Changed(a) == {p \in Parts : a.child[p] = "changed"}
RequestDid(a, s, c) ==
    /\ c.tool = "update" => Did(s) = a.result /\ (Did(s) # {} => a.done)
    /\ c.tool = "bulk" => Did(s) = Changed(a) /\ (a.done => a.result = Did(s))

(* What the call at the cursor changed is in its receipt or its request.   *)
CallDid(c, s) ==
    /\ s \in receipts => CallOf(c).tool = "add"
    /\ c.approval = 0 => Did(s) \subseteq {Stock}
    /\ c.approval # 0 => RequestDid(approvals[c.approval], s, CallOf(c))
CursorDid ==
    \A e \in Executions : ctx[e].index <= Len(ctx[e].calls) => CallDid(ctx[e], StepAt(e))

(* No request records a change its call did not make. *)
RequestsDid ==
    \A n \in 1..Len(approvals) :
        LET a == approvals[n]
        IN  /\ a.result \subseteq Did(a.for) /\ Changed(a) \subseteq Did(a.for)
            /\ a.decision # "yes" => ~a.done /\ a.result = {} /\ Changed(a) = {}

(* The owner holds what its call changed, and closes a batch only once. *)
OwnerDid ==
    \A w \in Workers : Owns(At(w), w) =>
        /\ run[w].pc \in {"result", "interrupted"} => run[w].held = Did(Step(w))
        /\ run[w].pc \in {"children", "rejectchild"} => ~approvals[Mem(w).approval].done
Enriching == {"enrich", "enriched"}
Enriched == \A w \in Workers : run[w].pc \in Enriching => Step(w) \in receipts

Basis == TypeOK /\ Shape /\ OwnerIsCurrent
EffectsFit ==
    ReceiptsFit /\ UntouchedAhead /\ CursorDid /\ RequestsDid /\ OwnerDid /\ Enriched

-----------------------------------------------------------------------------
(* How checkpoints move.                                                     *)

Onward(c, d) ==
    \/ d.round = c.round /\ d.index = c.index /\ Len(d.calls) = Len(c.calls)
    \/ /\ d.round = c.round /\ d.index = c.index + 1 /\ Len(d.calls) = Len(c.calls)
       /\ c.index <= Len(c.calls)
    \/ d.round = c.round + 1 /\ d.index = 1 /\ c.index = Len(c.calls) + 1

LEMMA OnwardSteps ==
  ASSUME NEW c \in Context, NEW d \in Context, Onward(c, d), NEW s \in Steps
  PROVE  /\ Beyond(c, s) => Beyond(d, s) /\ ~AtStep(d, s)
         /\ AtStep(c, s) => AtStep(d, s) \/ Beyond(d, s)
         /\ AtStep(c, s) => ~Beyond(c, s)
<1>1. /\ c.round \in Nat /\ c.index \in Nat /\ d.round \in Nat /\ d.index \in Nat
      /\ Len(c.calls) \in Nat /\ Len(d.calls) \in Nat /\ s[2] \in Nat /\ s[3] \in Nat
  BY LenProperties, SizesAreNatural DEF Context, Steps
<1> QED BY <1>1 DEF Onward, Beyond, AtStep

(* The save that moves a checkpoint from c to d, by its owner w. *)
Written(w, e, c, d) ==
    \/ \E calls \in Turns : /\ SaveTurn(w) /\ d = NewTurn(c, calls)
                            /\ ~c.pending /\ c.round < MaxRounds
    \/ ClearTurn(w) /\ d = Cleared(c) /\ c.index > Len(c.calls)
    \/ SaveAwaiting(w) /\ d = Awaiting(c, run[w].next)
    \/ SaveRetrieval(w) /\ d = Retrieving(c)
    \/ SaveResult(w) /\ d = Resulting(c, run[w].held, Exchange(w))
    \/ SaveCursor(w) /\ d = Advanced(c)

LEMMA ContextsMove ==
  ASSUME Basis, [Next]_vars, NEW e \in Executions
  PROVE  \/ ctx'[e] = ctx[e]
         \/ \E w \in Workers : /\ Owns(e, w) /\ At(w) = e /\ Mem(w) = ctx[e]
                               /\ UNCHANGED <<content, approvals, receipts, effects, late, shown>>
                               /\ Written(w, e, ctx[e], ctx'[e])
<1> DEFINE good == \/ ctx'[e] = ctx[e]
                   \/ \E w \in Workers :
                        /\ Owns(e, w) /\ At(w) = e /\ Mem(w) = ctx[e]
                        /\ UNCHANGED <<content, approvals, receipts, effects, late, shown>>
                        /\ Written(w, e, ctx[e], ctx'[e])
<1>1. ctx \in [Executions -> Context] BY DEF Basis, TypeOK
<1>2. ASSUME NEW w \in Workers, NEW s, NEW m, NEW pc, Save(w, s, m, pc)
      PROVE  \/ ctx'[e] = ctx[e]
             \/ Owns(e, w) /\ At(w) = e /\ Mem(w) = ctx[e] /\ ctx'[e] = m
  BY <1>1, <1>2 DEF Save, SaveStatus, Owns, Basis, OwnerIsCurrent
<1>3. UNCHANGED ctx => good OBVIOUS
<1>4. ASSUME NEW w \in Workers, NEW s, NEW pc, Save(w, s, Mem(w), pc) PROVE good
  BY <1>2, <1>4
<1>5. ASSUME NEW w \in Workers, TurnStep(w) PROVE good
  <2>1. CASE SaveTurn(w)
    <3>1. PICK calls \in Turns : Save(w, "ready", NewTurn(Mem(w), calls), "begin")
      BY <2>1 DEF SaveTurn, NewTurn
    <3>2. ~Mem(w).pending /\ Mem(w).round < MaxRounds
          /\ UNCHANGED <<inventoryVars, shown>>
      BY <2>1 DEF SaveTurn, NeedsModel, eventVars
    <3> QED BY <1>2, <2>1, <3>1, <3>2 DEF Written, inventoryVars
  <2>2. CASE ClearTurn(w)
    <3>1. Save(w, "ready", Cleared(Mem(w)), "begin") /\ Mem(w).index > Len(Mem(w).calls)
          /\ UNCHANGED <<inventoryVars, shown>>
      BY <2>2 DEF ClearTurn, Cleared, eventVars
    <3> QED BY <1>2, <2>2, <3>1 DEF Written, inventoryVars
  <2>3. CASE GiveUp(w) \/ Complete(w) BY <1>3, <1>4, <2>3 DEF GiveUp, Complete
  <2> QED BY <1>5, <2>1, <2>2, <2>3 DEF TurnStep
<1>6. ASSUME NEW w \in Workers, ApprovalStep(w) PROVE good
  <2>1. CASE SaveAwaiting(w)
    <3>1. Save(w, "awaiting_approval", Awaiting(Mem(w), run[w].next), "begin")
          /\ UNCHANGED <<inventoryVars, shown>>
      BY <2>1 DEF SaveAwaiting, Awaiting, eventVars
    <3> QED BY <1>2, <2>1, <3>1 DEF Written, inventoryVars
  <2> QED
    BY <1>3, <1>6, <2>1
    DEF ApprovalStep, Request, Pause, Consult, ExecuteOne, RejectOne, StartBatch,
        ExecuteChild, RejectedChild, EndBatch
<1>7. ASSUME NEW w \in Workers, EffectStep(w) PROVE good
  <2>1. CASE SaveRetrieval(w)
    <3>1. Save(w, "ready", Retrieving(Mem(w)), "retrieve") /\ UNCHANGED <<inventoryVars, shown>>
      BY <2>1 DEF SaveRetrieval, Retrieving, eventVars
    <3> QED BY <1>2, <2>1, <3>1 DEF Written, inventoryVars
  <2> QED
    BY <1>3, <1>7, <2>1
    DEF EffectStep, ExecuteAddition, Enrich, SaveEnrichment, SaveEnriched, ReportInterrupted, Retrieve, StageSpecs
<1>8. ASSUME NEW w \in Workers, ResultStep(w) PROVE good
  <2>1. CASE SaveResult(w)
    <3>1. Save(w, "ready", Resulting(Mem(w), run[w].held, Exchange(w)), "saved")
          /\ UNCHANGED <<inventoryVars, shown>>
      BY <2>1 DEF SaveResult, Resulting, eventVars
    <3> QED BY <1>2, <2>1, <3>1 DEF Written, inventoryVars
  <2>2. CASE SaveCursor(w)
    <3>1. Save(w, "ready", Advanced(Mem(w)), "begin") /\ UNCHANGED <<inventoryVars, shown>>
      BY <2>2 DEF SaveCursor, Advanced, eventVars
    <3> QED BY <1>2, <2>2, <3>1 DEF Written, inventoryVars
  <2>3. CASE SaveCancelled(w) BY <1>4, <2>3 DEF SaveCancelled
  <2>4. CASE ShowResult(w) \/ Recover(w) BY <1>3, <2>4 DEF ShowResult, Recover
  <2> QED BY <1>8, <2>1, <2>2, <2>3, <2>4 DEF ResultStep
<1>9. ASSUME NEW w \in Workers, RunStep(w) PROVE good
  BY <1>3, <1>5, <1>6, <1>7, <1>8, <1>9 DEF RunStep, BeginStage, Leave, Publish, Start
<1>10. CASE UserStep \/ Environment BY <1>3, <1>10, OthersMove DEF Basis
<1> QED BY <1>3, <1>9, <1>10 DEF Next, vars

(* What stays of a checkpoint, and where it moves on. *)
LEMMA ContextsMoveOn ==
  ASSUME Basis, [Next]_vars, NEW e \in Executions
  PROVE  ctx[e] \in Context /\ ctx'[e] \in Context /\ Onward(ctx[e], ctx'[e])
<1> DEFINE c == ctx[e]
           d == ctx'[e]
<1>1. c \in Context /\ d \in Context /\ TurnIsProper(c)
  BY ShapeKept DEF Basis, TypeOK, Shape
<1>2. /\ c.round \in Nat /\ c.index \in Nat /\ c.calls \in Seq(Call) /\ Len(c.calls) \in Nat
  BY <1>1, LenProperties DEF Context
<1> HIDE DEF c, d
<1>3. ASSUME d = c PROVE Onward(c, d) BY <1>3 DEF Onward
<1>4. ASSUME NEW w \in Workers, Owns(e, w), At(w) = e, Mem(w) = c, Written(w, e, c, d)
      PROVE  Onward(c, d)
  <2>1. ASSUME SaveTurn(w), NEW calls \in Turns, d = NewTurn(c, calls), ~c.pending
        PROVE  Onward(c, d)
    <3>1. d.round = c.round + 1 /\ d.index = 1 BY <1>1, <2>1 DEF NewTurn, Context
    <3>2. c.index = Len(c.calls) + 1 BY <1>1, <2>1 DEF TurnIsProper
    <3> QED BY <3>1, <3>2 DEF Onward
  <2>2. CASE ClearTurn(w) /\ d = Cleared(c)
    BY <1>1, <2>2 DEF Cleared, Context, Onward
  <2>3. CASE SaveAwaiting(w) /\ d = Awaiting(c, run[w].next)
    BY <1>1, <2>3 DEF Awaiting, Context, Onward
  <2>4. CASE SaveRetrieval(w) /\ d = Retrieving(c)
    <3>1. d.calls = [c.calls EXCEPT ![c.index] = [CallOf(c) EXCEPT !.retrieving = TRUE]]
      BY <1>1, <2>4 DEF Retrieving, Context, CallOf
    <3>2. d.round = c.round /\ d.index = c.index BY <1>1, <2>4 DEF Retrieving, Context
    <3>3. Len(d.calls) = Len(c.calls) BY <1>1, <3>1 DEF Context
    <3> QED BY <3>2, <3>3 DEF Onward
  <2>5. CASE SaveResult(w) /\ d = Resulting(c, run[w].held, Exchange(w))
    <3>1. d.calls = [c.calls EXCEPT ![c.index] =
                       [CallOf(c) EXCEPT !.done = TRUE, !.result = run[w].held]]
      BY <1>1, <2>5 DEF Resulting, Context, CallOf
    <3>2. d.round = c.round /\ d.index = c.index BY <1>1, <2>5 DEF Resulting, Context
    <3>3. Len(d.calls) = Len(c.calls) BY <1>1, <3>1 DEF Context
    <3> QED BY <3>2, <3>3 DEF Onward
  <2>6. CASE SaveCursor(w) /\ d = Advanced(c)
    <3>1. run[w].pc \in Working \cup Showing BY <2>6 DEF SaveCursor, Showing
    <3>2. Mem(w).index \in 1..Len(Mem(w).calls) BY <3>1, AtItsCall, Zenon DEF Basis
    <3>3. c.index <= Len(c.calls) BY <1>2, <1>4, <3>2
    <3>4. d.round = c.round /\ d.index = c.index + 1 /\ d.calls = c.calls
      BY <1>1, <2>6 DEF Advanced, Context
    <3> QED BY <3>3, <3>4 DEF Onward
  <2> QED BY <1>4, <2>1, <2>2, <2>3, <2>4, <2>5, <2>6 DEF Written
<1>5. d = c \/ \E w \in Workers : /\ Owns(e, w) /\ At(w) = e /\ Mem(w) = c
                                  /\ Written(w, e, c, d)
  BY ContextsMove DEF c, d
<1>6. Onward(c, d) BY <1>3, <1>4, <1>5
<1> QED BY <1>1, <1>6 DEF c, d

-----------------------------------------------------------------------------
(* How requests and effects move.                                            *)

(* Request a is amended to b: decided, its batch opened or a part of it      *)
(* refused, its result saved by the owner of its call, or a part of the      *)
(* batch changed.                                                            *)
Same(a, b) == b.done = a.done /\ b.result = a.result /\ Changed(b) = Changed(a)
Settled(n, a, b) ==
    \E w \in Workers :
        /\ n = Mem(w).approval /\ Owns(At(w), w) /\ run[w].pc \in Deciding
        /\ ~a.done /\ b.done /\ Changed(b) = Changed(a) /\ b.decision = a.decision
        /\ \/ ChangesOne(w) /\ Cursor(w).tool = "update" /\ b.result = Cursor(w).targets
           \/ RejectOne(w) /\ b.result = {}
           \/ EndBatch(w) /\ b.result = Changed(a)
PartChanged(n, a, b) ==
    \E w \in Workers :
        /\ n = Mem(w).approval /\ ChangesChild(w)
        /\ b.done = a.done /\ b.result = a.result /\ b.decision = a.decision
        /\ Changed(b) = Changed(a) \cup {run[w].next}
Amends(n, a, b) ==
    \/ Same(a, b) /\ (b.decision = a.decision \/ a.decision = "none")
         /\ UNCHANGED <<receipts, effects>>
    \/ a.decision = "yes" /\ Settled(n, a, b)
    \/ a.decision = "yes" /\ PartChanged(n, a, b)

(* A request is made of the call at the cursor of a run. *)
Clean(a) == a.decision = "none" /\ ~a.done /\ a.result = {} /\ Changed(a) = {}
RequestIsMade ==
    /\ Len(approvals') = Len(approvals) + 1 /\ Clean(approvals'[Len(approvals')])
    /\ \A n \in 1..Len(approvals) : approvals'[n] = approvals[n]
    /\ UNCHANGED <<receipts, effects>>
RequestIsAmended ==
    /\ Len(approvals') = Len(approvals)
    /\ \E n \in 1..Len(approvals) :
         /\ \A k \in 1..Len(approvals) \ {n} : approvals'[k] = approvals[k]
         /\ approvals'[n].for = approvals[n].for
         /\ Amends(n, approvals[n], approvals'[n])

(* One request is amended. *)
LEMMA AmendsOne ==
  ASSUME Basis, NEW n \in 1..Len(approvals), NEW b, b.for = approvals[n].for,
         approvals' = [approvals EXCEPT ![n] = b], Amends(n, approvals[n], b)
  PROVE  RequestIsAmended
<1>1. approvals \in [1..Len(approvals) -> Approval] /\ Len(approvals) \in Nat
  BY LenProperties DEF Basis, TypeOK, InventoryTypeOK
<1>2. approvals'[n] = b /\ \A k \in 1..Len(approvals) \ {n} : approvals'[k] = approvals[k]
  BY <1>1
<1>3. Len(approvals') = Len(approvals) BY <1>1
<1> QED BY <1>2, <1>3, Zenon DEF RequestIsAmended

LEMMA RequestsMove ==
  ASSUME Basis, [Next]_vars
  PROVE  UNCHANGED approvals \/ RequestIsMade \/ RequestIsAmended
<1> DEFINE good == UNCHANGED approvals \/ RequestIsMade \/ RequestIsAmended
<1>1. /\ approvals \in Seq(Approval) /\ Len(approvals) \in Nat
      /\ \A n \in 1..Len(approvals) : approvals[n] \in Approval
  BY LenProperties, ElementOfSeq DEF Basis, TypeOK, InventoryTypeOK
<1>2. UNCHANGED approvals => good OBVIOUS
<1>3. ASSUME NEW n, NEW d, Decide(n, d), d \in {"yes", "no"} PROVE good
  <2>1. n \in 1..Len(approvals) BY <1>3 DEF Decide, Basis, TypeOK
  <2> DEFINE a == approvals[n]
             b == Decided(a, d)
  <2>2. approvals' = [approvals EXCEPT ![n] = b] /\ a.decision = "none"
        /\ UNCHANGED <<receipts, effects>>
    BY <1>1, <1>3, <2>1, RequestWrites DEF Decide, DecideApproval
  <2>3. b.for = a.for /\ b.done = a.done /\ b.result = a.result /\ b.child = a.child
    BY <1>1, <1>3, <2>1, DecidedRequest
  <2> HIDE DEF b
  <2>4. Amends(n, a, b) BY <2>2, <2>3 DEF Amends, Same, Changed
  <2> QED BY <2>1, <2>2, <2>3, <2>4, AmendsOne
<1>4. ASSUME NEW w \in Workers, Request(w) PROVE good
  <2> DEFINE a == [for |-> Step(w), targets |-> Cursor(w).targets, snapshot |-> content,
                   decision |-> "none", done |-> FALSE, result |-> {},
                   child |-> [p \in Parts |-> "absent"]]
  <2>1. approvals' = Append(approvals, a) /\ UNCHANGED <<receipts, effects>>
    BY <1>4 DEF Request, RequestApproval
  <2>2. Clean(a) BY DEF Clean, Changed
  <2> HIDE DEF a
  <2>3. /\ Len(approvals') = Len(approvals) + 1 /\ approvals'[Len(approvals')] = a
        /\ \A n \in 1..Len(approvals) : approvals'[n] = approvals[n]
    BY <1>1, <2>1
  <2> QED BY <2>1, <2>2, <2>3 DEF RequestIsMade
<1>5. ASSUME NEW w \in Workers, run[w].pc \in Deciding
      PROVE  /\ Mem(w).approval \in 1..Len(approvals)
             /\ approvals[Mem(w).approval] \in Approval
             /\ approvals[Mem(w).approval].decision = "yes"
             /\ approvals[Mem(w).approval].targets = Cursor(w).targets /\ IsProper(Cursor(w))
  <2>1. Mem(w).approval # 0 BY <1>5 DEF Basis, Shape, RunFits, Mem
  <2>2. run[w].pc \in Working BY <1>5 DEF Working
  <2>3. IsProper(Cursor(w)) BY <2>2, AtItsCall, Zenon DEF Basis
  <2> QED BY <1>5, <2>1, <2>3, AtItsRequest DEF Basis
<1> DEFINE n(w) == Mem(w).approval
           a(w) == approvals[n(w)]
<1>6. ASSUME NEW w \in Workers, run[w].pc \in Deciding, NEW r, r \subseteq Parts,
             SaveOutcome(n(w), r), Finished(a(w), r).done /\ Changed(Finished(a(w), r)) = Changed(a(w))
               /\ Finished(a(w), r).result = r
               /\ Finished(a(w), r).decision = a(w).decision => Settled(n(w), a(w), Finished(a(w), r))
      PROVE  good
  <2> DEFINE b == Finished(a(w), r)
  <2>1. /\ n(w) \in 1..Len(approvals) /\ a(w) \in Approval /\ a(w).decision = "yes"
    BY <1>5, <1>6
  <2>2. approvals' = [approvals EXCEPT ![n(w)] = b] BY <1>1, <1>6, <2>1, RequestWrites
  <2>3. b.for = a(w).for /\ b.done /\ b.result = r /\ b.child = a(w).child
        /\ b.decision = a(w).decision
    BY <1>6, <2>1, FinishedRequest
  <2>4. Changed(b) = Changed(a(w)) BY <2>3 DEF Changed
  <2>5. Settled(n(w), a(w), b) BY <1>6, <2>3, <2>4
  <2> HIDE DEF b, n
  <2>6. Amends(n(w), approvals[n(w)], b) BY <2>1, <2>5 DEF Amends
  <2>7. RequestIsAmended BY <2>1, <2>2, <2>3, <2>6, AmendsOne
  <2> QED BY <2>7
<1>7. ASSUME NEW w \in Workers, run[w].pc \in Deciding,
             NEW f \in [Parts -> {"absent", "open", "changed", "rejected"}],
             approvals' = [approvals EXCEPT ![n(w)] = WithChildren(a(w), f)],
             LET b == WithChildren(a(w), f)
             IN  b.done = a(w).done /\ b.result = a(w).result /\ b.decision = a(w).decision
                   /\ b.child = f
                   => Amends(n(w), a(w), b)
      PROVE  good
  <2> DEFINE b == WithChildren(a(w), f)
  <2>1. n(w) \in 1..Len(approvals) /\ a(w) \in Approval BY <1>5, <1>7
  <2>2. b.for = a(w).for /\ b.done = a(w).done /\ b.result = a(w).result /\ b.child = f
        /\ b.decision = a(w).decision
    BY <2>1, ChildrenRequest
  <2>3. Amends(n(w), a(w), b) BY <1>7, <2>2
  <2> HIDE DEF b, n
  <2>4. RequestIsAmended BY <1>7, <2>1, <2>2, <2>3, AmendsOne DEF b
  <2> QED BY <2>4
<1>8. ASSUME NEW w \in Workers, ExecuteOne(w) PROVE good
  <2>1. CASE UNCHANGED inventoryVars BY <2>1 DEF inventoryVars
  <2>2. CASE ApplyApproved(n(w), Step(w), w)
    <3>1. run[w].pc \in Deciding /\ Cursor(w).tool = "update" /\ ChangesOne(w)
      BY <1>8, <2>2 DEF ExecuteOne, Approved, Deciding, ChangesOne
    <3>2. PICK p \in Parts : a(w).targets = {p} /\ Cursor(w).targets = {p}
      BY <1>5, <3>1 DEF IsProper
    <3>3. (CHOOSE q \in a(w).targets : TRUE) = p BY <3>2
    <3>4. /\ SaveOutcome(n(w), {p}) /\ ~a(w).done
      BY <2>2, <3>3 DEF ApplyApproved
    <3>5. Owns(At(w), w) BY <1>8 DEF ExecuteOne
    <3>6. {p} \subseteq Parts OBVIOUS
    <3> QED BY <1>6, <3>1, <3>2, <3>4, <3>5, <3>6 DEF Settled
  <2> QED BY <1>8, <2>1, <2>2 DEF ExecuteOne
<1>9. ASSUME NEW w \in Workers, RejectOne(w) PROVE good
  <2>1. run[w].pc \in Deciding /\ run[w].pc \in Working
    BY <1>9 DEF RejectOne, Deciding, Working
  <2>2. SaveOutcome(n(w), {}) /\ ~a(w).done /\ Owns(Step(w)[1], w)
    BY <1>9 DEF RejectOne, RejectApproved
  <2>3. Owns(At(w), w) BY <2>2 DEF Step, StepOf
  <2>4. {} \subseteq Parts OBVIOUS
  <2>5. ASSUME NEW b, b.done, Changed(b) = Changed(a(w)), b.result = {},
               b.decision = a(w).decision
        PROVE  Settled(n(w), a(w), b)
    BY <1>9, <2>1, <2>2, <2>3, <2>5 DEF Settled
  <2> QED BY <1>6, <2>1, <2>2, <2>4, <2>5
<1>10. ASSUME NEW w \in Workers, EndBatch(w) PROVE good
  <2> DEFINE changed == {p \in Parts : approvals[n(w)].child[p] = "changed"}
  <2>1. run[w].pc \in Deciding BY <1>10 DEF EndBatch, Deciding
  <2>2. SaveOutcome(n(w), changed) /\ ~a(w).done /\ Owns(Step(w)[1], w)
    BY <1>10 DEF EndBatch, CloseBatch
  <2>3. Owns(At(w), w) BY <2>2 DEF Step, StepOf
  <2>4. changed = Changed(a(w)) /\ changed \subseteq Parts BY DEF Changed
  <2> HIDE DEF changed
  <2> QED BY <1>6, <1>10, <2>1, <2>2, <2>3, <2>4 DEF Settled
<1>11. ASSUME NEW w \in Workers, StartBatch(w) PROVE good
  <2>1. CASE UNCHANGED inventoryVars BY <2>1 DEF inventoryVars
  <2>2. CASE OpenBatch(n(w))
    <3>1. run[w].pc \in Deciding BY <1>11 DEF StartBatch, Approved, Deciding
    <3>2. UNCHANGED <<receipts, effects>> BY <2>2 DEF OpenBatch
    <3> DEFINE f == Opened(a(w).child)
    <3>3. n(w) \in 1..Len(approvals) /\ a(w) \in Approval BY <1>5, <3>1
    <3>4. a(w).child \in [Parts -> {"absent", "open", "changed", "rejected"}]
      BY <3>3 DEF Approval
    <3>5. f \in [Parts -> {"absent", "open", "changed", "rejected"}]
          /\ \A p \in Parts : f[p] = "changed" <=> a(w).child[p] = "changed"
      BY <3>4 DEF Opened
    <3>6. approvals' = [approvals EXCEPT ![n(w)] = WithChildren(a(w), f)]
      BY <1>1, <2>2, <3>3, RequestWrites
    <3> HIDE DEF f
    <3>7. \A b : b.child = f => Changed(b) = Changed(a(w)) BY <3>5 DEF Changed
    <3> QED BY <1>7, <3>1, <3>2, <3>5, <3>6, <3>7 DEF Amends, Same
  <2> QED BY <1>11, <2>1, <2>2 DEF StartBatch
<1>12. ASSUME NEW w \in Workers, run[w].pc \in Deciding, NEW p \in Parts,
              NEW s \in {"changed", "rejected"},
              approvals' = [approvals EXCEPT ![n(w)].child[p] = s]
       PROVE  LET f == [a(w).child EXCEPT ![p] = s]
              IN  /\ f \in [Parts -> {"absent", "open", "changed", "rejected"}]
                  /\ approvals' = [approvals EXCEPT ![n(w)] = WithChildren(a(w), f)]
                  /\ \A q \in Parts : f[q] = IF q = p THEN s ELSE a(w).child[q]
  <2>1. a(w) \in Approval BY <1>5, <1>12
  <2>2. a(w).child \in [Parts -> {"absent", "open", "changed", "rejected"}]
    BY <2>1 DEF Approval
  <2> QED BY <1>12, <2>2 DEF WithChildren
<1>13. ASSUME NEW w \in Workers, ExecuteChild(w) PROVE good
  <2> DEFINE p == run[w].next
  <2>1. CASE UNCHANGED inventoryVars BY <2>1 DEF inventoryVars
  <2>2. CASE ApplyChild(n(w), p, Step(w), w)
    <3>1. run[w].pc \in Deciding /\ p \in Parts /\ ChangesChild(w)
      BY <1>13, <2>2 DEF ExecuteChild, Deciding, ChangesChild
    <3> DEFINE f == [a(w).child EXCEPT ![p] = "changed"]
    <3>2. approvals' = [approvals EXCEPT ![n(w)].child[p] = "changed"]
      BY <2>2 DEF ApplyChild
    <3>3. /\ f \in [Parts -> {"absent", "open", "changed", "rejected"}]
          /\ approvals' = [approvals EXCEPT ![n(w)] = WithChildren(a(w), f)]
          /\ \A q \in Parts : f[q] = IF q = p THEN "changed" ELSE a(w).child[q]
      BY <1>12, <3>1, <3>2
    <3>4. a(w).decision = "yes" BY <1>5, <3>1
    <3> HIDE DEF f
    <3>5. \A b : b.child = f => Changed(b) = Changed(a(w)) \cup {p} BY <3>1, <3>3 DEF Changed
    <3>6. \A b : b.done = a(w).done /\ b.result = a(w).result /\ b.decision = a(w).decision
                   /\ b.child = f => PartChanged(n(w), a(w), b)
      BY <3>1, <3>5 DEF PartChanged
    <3> QED BY <1>7, <3>1, <3>3, <3>4, <3>6 DEF Amends
  <2> QED BY <1>13, <2>1, <2>2 DEF ExecuteChild
<1>14. ASSUME NEW w \in Workers, RejectedChild(w) PROVE good
  <2> DEFINE p == run[w].next
  <2>1. run[w].pc \in Deciding /\ p \in Parts
    BY <1>14 DEF RejectedChild, Deciding, Basis, Shape, RunFits
  <2>2. /\ approvals' = [approvals EXCEPT ![n(w)].child[p] = "rejected"]
        /\ a(w).child[p] = "open" /\ UNCHANGED <<receipts, effects>>
    BY <1>14 DEF RejectedChild, RejectChild, ChildIsOpen
  <2> DEFINE f == [a(w).child EXCEPT ![p] = "rejected"]
  <2>3. /\ f \in [Parts -> {"absent", "open", "changed", "rejected"}]
        /\ approvals' = [approvals EXCEPT ![n(w)] = WithChildren(a(w), f)]
        /\ \A q \in Parts : f[q] = IF q = p THEN "rejected" ELSE a(w).child[q]
    BY <1>12, <2>1, <2>2
  <2> HIDE DEF f
  <2>4. \A b : b.child = f => Changed(b) = Changed(a(w)) BY <2>2, <2>3 DEF Changed
  <2> QED BY <1>7, <2>1, <2>2, <2>3, <2>4 DEF Amends, Same
<1> HIDE DEF good
<1>15. UNCHANGED inventoryVars => good BY <1>2 DEF inventoryVars
<1>16. ASSUME NEW w \in Workers, ApprovalStep(w) PROVE good
  BY <1>4, <1>8, <1>9, <1>10, <1>11, <1>13, <1>14, <1>15, <1>16
  DEF ApprovalStep, SaveAwaiting, Pause, Consult
<1>17. UserStep => good BY <1>3, <1>15 DEF UserStep, Accept, Cancel
<1>18. Environment => good
  BY <1>2, <1>15 DEF Environment, EditPart, Edit, ExpireExecution, Crash
<1>19. ASSUME NEW w \in Workers, RunStep(w) PROVE good
  <2>1. CASE ApprovalStep(w) BY <1>16, <2>1
  <2>2. CASE EffectStep(w)
    BY <1>2, <1>15, <2>2
    DEF EffectStep, ExecuteAddition, Add, Enrich, SaveEnrichment, SaveEnriched, ReportInterrupted,
        SaveRetrieval, Retrieve, StageSpecs, StageReview
  <2> QED
    BY <1>15, <1>19, <2>1, <2>2
    DEF RunStep, BeginStage, Leave, Publish, Start, TurnStep, SaveTurn, GiveUp, Complete,
        ClearTurn, ResultStep, SaveResult, ShowResult, SaveCursor, Recover, SaveCancelled
<1> QED BY <1>2, <1>17, <1>18, <1>19 DEF Next, vars, inventoryVars, good

(* Who changes what: the owner of an execution, at the call at its cursor,   *)
(* which is not done; an addition leaves a receipt.                          *)
Changer(w, t) ==
    /\ Adds(w) \/ ChangesOne(w) \/ ChangesChild(w)
    /\ Owns(At(w), w) /\ At(w) \in Executions /\ Mem(w) = ctx[At(w)]
    /\ Step(w) = StepAt(At(w)) /\ Step(w) \in Steps
    /\ AtStep(ctx[At(w)], Step(w)) /\ ~CallOf(ctx[At(w)]).done
    /\ run[w].pc \in {"work", "approved", "children"}
    /\ UNCHANGED <<ctx, shown, exec>>
    /\ effects' = [effects EXCEPT ![<<Step(w), t>>] = effects[<<Step(w), t>>] + 1]
    /\ \A s \in Steps : Did(s)' = IF s = Step(w) THEN Did(s) \cup {t} ELSE Did(s)

LEMMA ChangersAre ==
  ASSUME Basis, NEW w \in Workers
  PROVE  /\ Adds(w) => /\ Changer(w, Stock) /\ Cursor(w).tool = "add" /\ UNCHANGED approvals
                       /\ receipts' = receipts \cup {Step(w)} /\ Step(w) \notin receipts
                       /\ Mem(w).approval = 0
         /\ ChangesOne(w) => /\ \E p \in Parts : Changer(w, p) /\ Cursor(w).targets = {p}
                             /\ Cursor(w).tool = "update" /\ UNCHANGED receipts
                             /\ Mem(w).approval # 0
         /\ ChangesChild(w) => /\ run[w].next \in Parts /\ Changer(w, run[w].next)
                               /\ approvals[Mem(w).approval].child[run[w].next] = "open"
                               /\ Cursor(w).tool = "bulk" /\ UNCHANGED receipts
                               /\ Mem(w).approval # 0
<1>1. effects \in [Steps \X Targets -> Nat] BY DEF Basis, TypeOK, InventoryTypeOK
<1>2. ASSUME NEW s \in Steps, NEW t \in Targets, Changes(s, t)
      PROVE  /\ effects' = [effects EXCEPT ![<<s, t>>] = effects[<<s, t>>] + 1]
             /\ \A r \in Steps : Did(r)' = IF r = s THEN Did(r) \cup {t} ELSE Did(r)
  <2>1. effects' = [effects EXCEPT ![<<s, t>>] = effects[<<s, t>>] + 1] BY <1>2 DEF Changes
  <2>2. effects[<<s, t>>] + 1 > 0 BY <1>1
  <2>3. ASSUME NEW r \in Steps, NEW u \in Targets
        PROVE  effects'[<<r, u>>] > 0 <=> effects[<<r, u>>] > 0 \/ (r = s /\ u = t)
    BY <1>1, <2>1, <2>2
  <2> QED BY <2>1, <2>3 DEF Did
<1>3. ASSUME Owns(At(w), w), Step(w) \in Steps, At(w) \in Executions,
             Mem(w).index \in 1..Len(Mem(w).calls), ~Cursor(w).done
      PROVE  /\ Mem(w) = ctx[At(w)] /\ Step(w) = StepAt(At(w))
             /\ AtStep(ctx[At(w)], Step(w)) /\ ~CallOf(ctx[At(w)]).done
  <2>1. Mem(w) = ctx[At(w)] BY <1>3 DEF Owns, Basis, OwnerIsCurrent
  <2>2. Mem(w).index <= Len(Mem(w).calls) BY <1>3
  <2> QED BY <1>3, <2>1, <2>2 DEF StepAt, Step, StepOf, AtStep, Cursor, CallOf
<1>4. Parts \subseteq Targets /\ Stock \in Targets BY DEF Targets
<1>5. ASSUME Adds(w)
      PROVE  /\ Changer(w, Stock) /\ Cursor(w).tool = "add" /\ UNCHANGED approvals
             /\ receipts' = receipts \cup {Step(w)} /\ Step(w) \notin receipts
             /\ Mem(w).approval = 0
  <2>1. /\ run[w].pc = "work" /\ ~Cursor(w).done /\ Cursor(w).tool = "add" /\ AtCall(w)
        /\ Mem(w).approval = 0 /\ UNCHANGED <<ctx, shown, exec>>
    BY <1>5 DEF Adds, ExecuteAddition, CallIs, AtCall, InTurn, eventVars, executionVars
  <2>2. /\ Step(w) \in Steps /\ At(w) \in Executions /\ Mem(w).index \in 1..Len(Mem(w).calls)
        /\ Step(w)[1] = At(w)
    BY <2>1, AtItsCall DEF Basis
  <2>3. /\ Owns(At(w), w) /\ Changes(Step(w), Stock) /\ receipts' = receipts \cup {Step(w)}
        /\ Step(w) \notin receipts /\ UNCHANGED approvals
    BY <1>5, <2>2 DEF Adds, Add, Receipt
  <2> QED BY <1>2, <1>3, <1>4, <1>5, <2>1, <2>2, <2>3 DEF Changer
<1>6. ASSUME run[w].pc \in Deciding
      PROVE  /\ Step(w) \in Steps /\ At(w) \in Executions
             /\ Mem(w).index \in 1..Len(Mem(w).calls) /\ ~Cursor(w).done
             /\ Mem(w).approval # 0 /\ IsProper(Cursor(w))
             /\ approvals[Mem(w).approval].targets = Cursor(w).targets
  <2>1. Mem(w).approval # 0 BY <1>6 DEF Basis, Shape, RunFits, Mem
  <2>2. run[w].pc \in Working BY <1>6 DEF Working
  <2>3. /\ Step(w) \in Steps /\ At(w) \in Executions /\ IsProper(Cursor(w))
        /\ Mem(w).index \in 1..Len(Mem(w).calls)
    BY <2>2, AtItsCall, Zenon DEF Basis
  <2>4. ~Cursor(w).done BY <2>2 DEF Basis, Shape, RunFits, Cursor, CallOf, Mem
  <2> QED BY <2>1, <2>3, <2>4, AtItsRequest DEF Basis
<1>7. ASSUME ChangesOne(w)
      PROVE  /\ \E p \in Parts : Changer(w, p) /\ Cursor(w).targets = {p}
             /\ Cursor(w).tool = "update" /\ UNCHANGED receipts /\ Mem(w).approval # 0
  <2> DEFINE n == Mem(w).approval
  <2>1. /\ run[w].pc = "approved" /\ run[w].pc \in Deciding /\ Cursor(w).tool = "update"
        /\ UNCHANGED <<ctx, shown, exec>> /\ Owns(At(w), w)
    BY <1>7 DEF ChangesOne, ExecuteOne, Approved, Deciding, eventVars, executionVars
  <2>2. PICK p \in Parts : approvals[n].targets = {p} /\ Cursor(w).targets = {p}
    BY <1>6, <2>1 DEF IsProper
  <2>3. (CHOOSE q \in approvals[n].targets : TRUE) = p BY <2>2
  <2>4. Changes(Step(w), p) /\ UNCHANGED receipts
    BY <1>7, <2>3 DEF ChangesOne, ApplyApproved
  <2>5. Changer(w, p) BY <1>2, <1>3, <1>4, <1>6, <1>7, <2>1, <2>4 DEF Changer
  <2> QED BY <1>6, <2>1, <2>2, <2>4, <2>5
<1>8. ASSUME ChangesChild(w)
      PROVE  /\ run[w].next \in Parts /\ Changer(w, run[w].next)
             /\ approvals[Mem(w).approval].child[run[w].next] = "open"
             /\ Cursor(w).tool = "bulk" /\ UNCHANGED receipts /\ Mem(w).approval # 0
  <2> DEFINE n == Mem(w).approval
             p == run[w].next
  <2>1. /\ run[w].pc = "children" /\ run[w].pc \in Deciding /\ p \in Parts
        /\ UNCHANGED <<ctx, shown, exec>> /\ Owns(At(w), w)
    BY <1>8 DEF ChangesChild, ExecuteChild, Deciding, eventVars, executionVars
  <2>2. Cursor(w).tool = "bulk" BY <2>1 DEF Basis, Shape, RunFits, Cursor, CallOf, Mem
  <2>3. Changes(Step(w), p) /\ UNCHANGED receipts /\ approvals[n].child[p] = "open"
    BY <1>8 DEF ChangesChild, ApplyChild, ChildIsOpen
  <2> HIDE DEF p, n
  <2>4. Changer(w, p) BY <1>2, <1>3, <1>4, <1>6, <1>8, <2>1, <2>3 DEF Changer
  <2> QED BY <1>6, <2>1, <2>2, <2>3, <2>4 DEF p, n
<1> QED BY <1>5, <1>7, <1>8

(* Only a changer changes anything. *)
LEMMA DidMoves ==
  ASSUME Basis, [Next]_vars
  PROVE  \/ /\ UNCHANGED <<receipts, effects>> /\ \A s \in Steps : Did(s)' = Did(s)
         \/ \E w \in Workers, t \in Targets : Changer(w, t)
<1>1. UNCHANGED effects => \A s \in Steps : Did(s)' = Did(s) BY DEF Did
<1>2. Parts \subseteq Targets /\ Stock \in Targets BY DEF Targets
<1>3. ASSUME NEW w \in Workers, Adds(w) \/ ChangesOne(w) \/ ChangesChild(w)
      PROVE  \E t \in Targets : Changer(w, t)
  BY <1>2, <1>3, ChangersAre
<1> QED BY <1>1, <1>3, EffectsMove

(* What a step does to requests, receipts and effects. *)
AmendedAt(n) ==
    /\ n \in 1..Len(approvals) /\ Len(approvals') = Len(approvals)
    /\ \A k \in 1..Len(approvals) \ {n} : approvals'[k] = approvals[k]
    /\ approvals'[n].for = approvals[n].for
StepIs ==
    \/ UNCHANGED <<approvals, receipts, effects>>
    \/ RequestIsMade
    \/ \E n : AmendedAt(n) /\ Amends(n, approvals[n], approvals'[n])
    \/ \E w \in Workers : Adds(w)

LEMMA StepsAre ==
  ASSUME Basis, [Next]_vars
  PROVE  StepIs
<1>1. CASE RequestIsMade BY <1>1 DEF StepIs
<1>2. CASE RequestIsAmended BY <1>2 DEF RequestIsAmended, StepIs, AmendedAt
<1>3. CASE UNCHANGED approvals
  <2>1. /\ approvals \in Seq(Approval) /\ Len(approvals) \in Nat
        /\ \A n \in 1..Len(approvals) : approvals[n] \in Approval
    BY LenProperties, ElementOfSeq DEF Basis, TypeOK, InventoryTypeOK
  <2>2. ASSUME NEW w \in Workers, run[w].pc \in Deciding
        PROVE  /\ Mem(w).approval \in 1..Len(approvals)
               /\ approvals[Mem(w).approval] \in Approval
    BY <2>2, AtItsRequest DEF Basis, Shape, RunFits, Mem
  <2>3. ASSUME NEW w \in Workers, ChangesOne(w) PROVE FALSE
    <3> DEFINE n == Mem(w).approval
    <3>1. run[w].pc \in Deciding
      BY <2>3 DEF ChangesOne, ExecuteOne, Approved, Deciding
    <3>2. PICK r : SaveOutcome(n, r) /\ ~approvals[n].done
      BY <2>3 DEF ChangesOne, ApplyApproved
    <3>3. n \in 1..Len(approvals) /\ approvals[n] \in Approval BY <2>2, <3>1
    <3>4. approvals' = [approvals EXCEPT ![n] = Finished(approvals[n], r)]
      BY <2>1, <3>2, <3>3, RequestWrites
    <3>5. Finished(approvals[n], r).done = TRUE BY <3>3 DEF Finished, Approval
    <3> HIDE DEF n
    <3> QED BY <1>3, <2>1, <3>2, <3>3, <3>4, <3>5
  <2>4. ASSUME NEW w \in Workers, ChangesChild(w) PROVE FALSE
    <3> DEFINE n == Mem(w).approval
               p == run[w].next
    <3>1. run[w].pc \in Deciding /\ p \in Parts
      BY <2>4 DEF ChangesChild, ExecuteChild, Deciding
    <3>2. approvals' = [approvals EXCEPT ![n].child[p] = "changed"]
          /\ approvals[n].child[p] = "open"
      BY <2>4 DEF ChangesChild, ApplyChild, ChildIsOpen
    <3>3. n \in 1..Len(approvals) /\ approvals[n] \in Approval BY <2>2, <3>1
    <3>4. approvals'[n].child[p] = "changed" BY <2>1, <3>1, <3>2, <3>3 DEF Approval
    <3> QED BY <1>3, <3>2, <3>4
  <2> QED BY <1>3, <2>3, <2>4, EffectsMove DEF StepIs
<1> QED BY <1>1, <1>2, <1>3, RequestsMove

LEMMA StepIsAStep ==
  ASSUME NEW e \in Executions, NEW c \in Context, TurnIsProper(c), c.index <= Len(c.calls)
  PROVE  <<e, c.round, c.index>> \in Steps /\ c.index \in 1..Len(c.calls)
<1>1. Len(c.calls) \in Nat /\ c.index \in Nat /\ c.index >= 1 /\ c.round \in 0..MaxRounds
  BY LenProperties DEF Context
<1>2. c.pending BY <1>1 DEF TurnIsProper
<1>3. c.round \in 1..MaxRounds BY <1>1, <1>2, SizesAreNatural DEF TurnIsProper
<1>4. c.index \in 1..MaxCalls /\ c.index \in 1..Len(c.calls)
  BY <1>1, SizesAreNatural DEF TurnIsProper
<1> QED BY <1>3, <1>4 DEF Steps

(* The call at the cursor of a checkpoint, and its request. *)
LEMMA AtItsCursor ==
  ASSUME Basis, NEW e \in Executions
  PROVE  /\ ctx[e] \in Context /\ TurnIsProper(ctx[e])
         /\ ctx[e].index <= Len(ctx[e].calls) =>
              /\ StepAt(e) \in Steps /\ AtStep(ctx[e], StepAt(e)) /\ StepAt(e)[1] = e
              /\ ctx[e].index \in 1..Len(ctx[e].calls)
              /\ CallOf(ctx[e]) \in Call /\ IsProper(CallOf(ctx[e]))
         /\ ctx[e].approval # 0 =>
              /\ ctx[e].index <= Len(ctx[e].calls)
              /\ ctx[e].approval \in 1..Len(approvals)
              /\ approvals[ctx[e].approval].for = StepAt(e)
              /\ CallOf(ctx[e]).tool \in NeedsApproval
<1> DEFINE c == ctx[e]
<1>1. c \in Context /\ TurnIsProper(c) /\ ApprovalFits(approvals, e, c)
  BY DEF Basis, TypeOK, Shape
<1>2. c.calls \in Seq(Call) /\ Len(c.calls) \in Nat /\ c.index \in Nat /\ c.index >= 1
      /\ c.round \in 0..MaxRounds
  BY <1>1, LenProperties DEF Context
<1>3. ASSUME c.index <= Len(c.calls)
      PROVE  /\ StepAt(e) \in Steps /\ AtStep(c, StepAt(e)) /\ StepAt(e)[1] = e
             /\ c.index \in 1..Len(c.calls)
             /\ CallOf(c) \in Call /\ IsProper(CallOf(c))
  <2>1. c.pending BY <1>1, <1>2, <1>3 DEF TurnIsProper
  <2>2. c.round \in 1..MaxRounds BY <1>1, <1>2, <2>1, SizesAreNatural DEF TurnIsProper
  <2>3. c.index \in 1..MaxCalls /\ c.index \in 1..Len(c.calls)
    BY <1>1, <1>2, <1>3, SizesAreNatural DEF TurnIsProper
  <2>4. StepAt(e) \in Steps BY <2>2, <2>3 DEF StepAt, Steps
  <2>5. AtStep(c, StepAt(e)) /\ StepAt(e)[1] = e BY <1>3 DEF StepAt, AtStep
  <2>6. CallOf(c) \in Call BY <1>2, <2>3, ElementOfSeq DEF CallOf
  <2>7. IsProper(CallOf(c)) BY <1>1, <2>3 DEF TurnIsProper, CallOf
  <2> QED BY <2>3, <2>4, <2>5, <2>6, <2>7
<1>4. c.approval # 0 =>
        /\ c.index <= Len(c.calls) /\ c.approval \in 1..Len(approvals)
        /\ approvals[c.approval].for = StepAt(e) /\ CallOf(c).tool \in NeedsApproval
  BY <1>1 DEF ApprovalFits, IsFor, StepAt
<1> QED BY <1>1, <1>3, <1>4

(* The owner that decides a call decides the call of the checkpoint. *)
LEMMA DeciderIs ==
  ASSUME Basis, NEW w \in Workers, Owns(At(w), w), run[w].pc \in Deciding
  PROVE  /\ At(w) \in Executions /\ Mem(w) = ctx[At(w)] /\ Step(w) = StepAt(At(w))
         /\ Cursor(w) = CallOf(ctx[At(w)]) /\ Mem(w).approval # 0
         /\ ctx[At(w)].index <= Len(ctx[At(w)].calls) /\ Cursor(w).tool \in NeedsApproval
         /\ approvals[Mem(w).approval].for = Step(w)
         /\ run[w].pc = "rejecting" => Cursor(w).tool = "update"
         /\ run[w].pc \in {"children", "rejectchild"} => Cursor(w).tool = "bulk"
<1>1. run[w].pc \in Working /\ run[w].pc # "idle" BY DEF Working, Deciding
<1>2. At(w) \in Executions BY <1>1, RunIs DEF Basis
<1>3. Mem(w) = ctx[At(w)] BY <1>2 DEF Owns, Basis, OwnerIsCurrent
<1>4. /\ Mem(w).approval # 0
      /\ run[w].pc = "rejecting" => Cursor(w).tool = "update"
      /\ run[w].pc \in {"children", "rejectchild"} => Cursor(w).tool = "bulk"
  BY DEF Basis, Shape, RunFits, Mem, Cursor, CallOf
<1>5. Step(w) = StepAt(At(w)) /\ Cursor(w) = CallOf(ctx[At(w)])
  BY <1>3 DEF Step, StepOf, StepAt, Cursor, CallOf
<1>6. /\ ctx[At(w)].index <= Len(ctx[At(w)].calls) /\ Cursor(w).tool \in NeedsApproval
      /\ approvals[Mem(w).approval].for = Step(w)
  BY <1>2, <1>3, <1>4, <1>5, AtItsCursor
<1> QED BY <1>2, <1>3, <1>4, <1>5, <1>6

(* While a checkpoint stays, so does the fit of what its call changed. *)
LEMMA CursorStays ==
  ASSUME Basis, EffectsFit, [Next]_vars, NEW e \in Executions, NEW c \in Context,
         NEW s \in Steps, c = ctx[e], s = StepAt(e), c.index <= Len(c.calls)
  PROVE  CallDid(c, s)'
<1>1. CallDid(c, s) BY DEF EffectsFit, CursorDid
<1>2. /\ s[1] = e /\ s = StepAt(e) /\ AtStep(c, s)
      /\ c.approval # 0 => /\ c.approval \in 1..Len(approvals)
                           /\ approvals[c.approval].for = s
                           /\ CallOf(c).tool \in NeedsApproval
  BY AtItsCursor
<1>3. UNCHANGED effects => Did(s)' = Did(s) BY DEF Did
<1>4. CASE UNCHANGED <<approvals, receipts, effects>>
  BY <1>1, <1>3, <1>4 DEF CallDid, RequestDid, Changed
<1>5. CASE RequestIsMade
  BY <1>1, <1>2, <1>3, <1>5 DEF RequestIsMade, CallDid, RequestDid, Changed
<1>6. ASSUME NEW w \in Workers, Adds(w) PROVE CallDid(c, s)'
  <2>1. /\ Changer(w, Stock) /\ Cursor(w).tool = "add" /\ UNCHANGED approvals
        /\ receipts' = receipts \cup {Step(w)} /\ Mem(w).approval = 0
    BY <1>6, ChangersAre
  <2>2. /\ Did(s)' = IF s = Step(w) THEN Did(s) \cup {Stock} ELSE Did(s)
        /\ Mem(w) = ctx[At(w)] /\ Step(w)[1] = At(w)
    BY <2>1 DEF Changer, Step, StepOf
  <2>3. CASE s = Step(w)
    <3>1. e = At(w) BY <1>2, <2>2, <2>3
    <3>2. c = Mem(w) /\ CallOf(c) = Cursor(w) BY <2>2, <3>1 DEF CallOf, Cursor
    <3> QED BY <1>1, <2>1, <2>2, <3>2 DEF CallDid
  <2>4. CASE s # Step(w)
    BY <1>1, <2>1, <2>2, <2>4 DEF CallDid, RequestDid, Changed
  <2> QED BY <2>3, <2>4
<1>7. ASSUME NEW n, AmendedAt(n), Amends(n, approvals[n], approvals'[n])
      PROVE  CallDid(c, s)'
  <2> DEFINE a == approvals[n]
             b == approvals'[n]
  <2>1. c.approval # 0 /\ c.approval # n => approvals'[c.approval] = approvals[c.approval]
    BY <1>2, <1>7 DEF AmendedAt
  <2>2. CASE Same(a, b) /\ UNCHANGED <<receipts, effects>>
    <3>1. CASE c.approval = n
      BY <1>1, <1>3, <2>2, <3>1 DEF CallDid, RequestDid, Changed, Same
    <3>2. CASE c.approval # n
      BY <1>1, <1>3, <2>1, <2>2, <3>2 DEF CallDid, RequestDid, Changed
    <3> QED BY <3>1, <3>2
  <2>3. ASSUME NEW w \in Workers, n = Mem(w).approval, c.approval = n, Owns(At(w), w),
               run[w].pc \in Deciding
        PROVE  /\ At(w) = e /\ Mem(w) = c /\ Step(w) = s /\ Cursor(w) = CallOf(c)
               /\ n # 0 /\ a.for = s /\ CallOf(c).tool \in NeedsApproval
               /\ run[w].pc = "rejecting" => CallOf(c).tool = "update"
               /\ run[w].pc \in {"children", "rejectchild"} => CallOf(c).tool = "bulk"
    <3>1. /\ a.for = Step(w) /\ Mem(w) = ctx[At(w)] /\ Mem(w).approval # 0
          /\ Cursor(w) = CallOf(ctx[At(w)])
          /\ run[w].pc = "rejecting" => Cursor(w).tool = "update"
          /\ run[w].pc \in {"children", "rejectchild"} => Cursor(w).tool = "bulk"
      BY <2>3, DeciderIs
    <3>2. Step(w) = s /\ a.for = s BY <1>2, <2>3, <3>1
    <3>3. At(w) = e BY <1>2, <3>2 DEF Step, StepOf
    <3> QED BY <1>2, <2>3, <3>1, <3>2, <3>3
  <2>4. ASSUME NEW w \in Workers, n = Mem(w).approval, Owns(At(w), w), c.approval # n,
               run[w].pc \in Deciding
        PROVE  s # Step(w)
    <3>1. /\ At(w) \in Executions /\ Mem(w) = ctx[At(w)] BY <2>4, DeciderIs
    <3> QED BY <1>2, <2>4, <3>1 DEF Step, StepOf
  <2>5. CASE Settled(n, a, b)
    <3>1. PICK w \in Workers :
            /\ n = Mem(w).approval /\ Owns(At(w), w) /\ run[w].pc \in Deciding
            /\ ~a.done /\ b.done /\ Changed(b) = Changed(a)
            /\ \/ ChangesOne(w) /\ Cursor(w).tool = "update" /\ b.result = Cursor(w).targets
               \/ RejectOne(w) /\ b.result = {}
               \/ EndBatch(w) /\ b.result = Changed(a)
      BY <2>5 DEF Settled
    <3>2. CASE ChangesOne(w) /\ b.result = Cursor(w).targets
      <4>1. PICK p \in Parts : Changer(w, p) /\ Cursor(w).targets = {p}
        BY <3>2, ChangersAre
      <4>2. Cursor(w).tool = "update" /\ UNCHANGED receipts BY <3>2, ChangersAre
      <4>3. Did(s)' = IF s = Step(w) THEN Did(s) \cup {p} ELSE Did(s) BY <4>1 DEF Changer
      <4>4. CASE c.approval = n
        <5>1. /\ Step(w) = s /\ Cursor(w) = CallOf(c) /\ n # 0 BY <2>3, <3>1, <4>4
        <5>2. Did(s) = {} BY <1>1, <3>1, <4>2, <4>4, <5>1 DEF CallDid, RequestDid
        <5>3. Did(s)' = b.result BY <3>2, <4>1, <4>3, <5>1, <5>2
        <5> QED BY <1>1, <3>1, <4>2, <4>4, <5>1, <5>3 DEF CallDid, RequestDid
      <4>5. CASE c.approval # n
        <5>1. s # Step(w) BY <2>4, <3>1, <4>5
        <5> QED BY <1>1, <2>1, <4>2, <4>3, <4>5, <5>1 DEF CallDid, RequestDid, Changed
      <4> QED BY <4>4, <4>5
    <3>3. CASE (RejectOne(w) /\ b.result = {}) \/ (EndBatch(w) /\ b.result = Changed(a))
      <4>1. UNCHANGED <<receipts, effects>>
        BY <3>3 DEF RejectOne, RejectApproved, EndBatch, CloseBatch
      <4>2. CASE c.approval = n
        <5>1. /\ n # 0
              /\ run[w].pc = "rejecting" => CallOf(c).tool = "update"
              /\ run[w].pc \in {"children", "rejectchild"} => CallOf(c).tool = "bulk"
          BY <2>3, <3>1, <4>2
        <5>2. CASE RejectOne(w) /\ b.result = {}
          BY <1>1, <1>3, <3>1, <4>1, <4>2, <5>1, <5>2 DEF CallDid, RequestDid, RejectOne
        <5>3. CASE EndBatch(w) /\ b.result = Changed(a)
          BY <1>1, <1>3, <3>1, <4>1, <4>2, <5>1, <5>3 DEF CallDid, RequestDid, EndBatch
        <5> QED BY <3>3, <5>2, <5>3
      <4>3. CASE c.approval # n
        BY <1>1, <1>3, <2>1, <4>1, <4>3 DEF CallDid, RequestDid, Changed
      <4> QED BY <4>2, <4>3
    <3> QED BY <3>1, <3>2, <3>3
  <2>6. CASE PartChanged(n, a, b)
    <3>1. PICK w \in Workers :
            /\ n = Mem(w).approval /\ ChangesChild(w) /\ b.done = a.done /\ b.result = a.result
            /\ Changed(b) = Changed(a) \cup {run[w].next}
      BY <2>6 DEF PartChanged
    <3>2. /\ Changer(w, run[w].next) /\ Cursor(w).tool = "bulk" /\ UNCHANGED receipts
      BY <3>1, ChangersAre
    <3>3. Owns(At(w), w) /\ run[w].pc = "children" /\ run[w].pc \in Deciding
      BY <3>1, <3>2 DEF Changer, ChangesChild, ExecuteChild, Deciding
    <3>4. PICK p : p = run[w].next OBVIOUS
    <3>5. Did(s)' = IF s = Step(w) THEN Did(s) \cup {p} ELSE Did(s) BY <3>2, <3>4 DEF Changer
    <3>6. CASE c.approval = n
      <4>1. /\ Step(w) = s /\ Cursor(w) = CallOf(c) /\ n # 0 BY <2>3, <3>1, <3>3, <3>6
      <4>2. ~a.done BY <3>1, <3>3 DEF EffectsFit, OwnerDid
      <4>3. Did(s)' = Changed(b)
        BY <1>1, <3>1, <3>2, <3>4, <3>5, <3>6, <4>1 DEF CallDid, RequestDid
      <4> QED BY <1>1, <3>1, <3>2, <3>6, <4>1, <4>2, <4>3 DEF CallDid, RequestDid
    <3>7. CASE c.approval # n
      <4>1. s # Step(w) BY <2>4, <3>1, <3>3, <3>7
      <4> QED BY <1>1, <2>1, <3>2, <3>5, <3>7, <4>1 DEF CallDid, RequestDid, Changed
    <3> QED BY <3>6, <3>7
  <2> QED BY <1>7, <2>2, <2>5, <2>6 DEF Amends
<1> QED BY <1>4, <1>5, <1>6, <1>7, StepsAre DEF StepIs

LEMMA ReceiptsKept ==
  ASSUME Basis, EffectsFit, [Next]_vars
  PROVE  ReceiptsFit'
<1>1. \A s \in Steps : Stock \in Did(s) <=> s \in receipts BY DEF EffectsFit, ReceiptsFit
<1>2. CASE UNCHANGED <<receipts, effects>> BY <1>1, <1>2 DEF ReceiptsFit, Did
<1>3. Stock \notin Parts BY SizesAreNatural DEF Stock, Parts
<1>4. ASSUME NEW w \in Workers, NEW p \in Parts, Changer(w, p), UNCHANGED receipts
      PROVE  ReceiptsFit'
  <2>1. \A s \in Steps : Did(s)' = IF s = Step(w) THEN Did(s) \cup {p} ELSE Did(s)
    BY <1>4 DEF Changer
  <2> QED BY <1>1, <1>3, <1>4, <2>1 DEF ReceiptsFit
<1>5. ASSUME NEW w \in Workers, Adds(w) PROVE ReceiptsFit'
  <2>1. /\ \A s \in Steps : Did(s)' = IF s = Step(w) THEN Did(s) \cup {Stock} ELSE Did(s)
        /\ receipts' = receipts \cup {Step(w)}
    BY <1>5, ChangersAre DEF Changer
  <2> QED BY <1>1, <2>1 DEF ReceiptsFit
<1>6. ASSUME NEW w \in Workers, ChangesOne(w) PROVE ReceiptsFit'
  <2>1. UNCHANGED receipts /\ \E p \in Parts : Changer(w, p) BY <1>6, ChangersAre
  <2> QED BY <1>4, <2>1
<1>7. ASSUME NEW w \in Workers, ChangesChild(w) PROVE ReceiptsFit'
  <2>1. UNCHANGED receipts /\ run[w].next \in Parts /\ Changer(w, run[w].next)
    BY <1>7, ChangersAre
  <2> QED BY <1>4, <2>1
<1> QED BY <1>2, <1>5, <1>6, <1>7, EffectsMove

LEMMA UntouchedKept ==
  ASSUME Basis, EffectsFit, [Next]_vars
  PROVE  UntouchedAhead'
<1> SUFFICES ASSUME NEW s \in Steps
             PROVE  \/ Beyond(ctx'[s[1]], s) \/ AtStep(ctx'[s[1]], s) \/ Did(s)' = {}
  BY DEF UntouchedAhead, Beyond, AtStep
<1>1. s[1] \in Executions BY DEF Steps
<1>2. Beyond(ctx[s[1]], s) \/ AtStep(ctx[s[1]], s) \/ Did(s) = {}
  BY DEF EffectsFit, UntouchedAhead
<1>3. \/ Beyond(ctx[s[1]], s) \/ AtStep(ctx[s[1]], s)
      => Beyond(ctx'[s[1]], s) \/ AtStep(ctx'[s[1]], s)
  BY <1>1, ContextsMoveOn, OnwardSteps
<1>4. CASE Did(s)' = Did(s) BY <1>2, <1>3, <1>4
<1>5. ASSUME NEW w \in Workers, NEW t, Changer(w, t), s = Step(w)
      PROVE  AtStep(ctx[s[1]], s)
  BY <1>5 DEF Changer, Step, StepOf
<1> QED BY <1>3, <1>4, <1>5, DidMoves DEF Changer

LEMMA RequestsKept ==
  ASSUME Basis, EffectsFit, [Next]_vars
  PROVE  RequestsDid'
<1>1. /\ approvals \in Seq(Approval) /\ Len(approvals) \in Nat
      /\ \A n \in 1..Len(approvals) : approvals[n].for \in Steps
  <2>1. approvals \in Seq(Approval) BY DEF Basis, TypeOK, InventoryTypeOK
  <2>2. \A n \in 1..Len(approvals) : approvals[n] \in Approval BY <2>1, ElementOfSeq
  <2> QED BY <2>1, <2>2, LenProperties DEF Approval
<1>2. \A s \in Steps : Did(s) \subseteq Did(s)' BY DidMoves DEF Changer
<1> SUFFICES ASSUME NEW n \in 1..Len(approvals'), NEW b, NEW s, b = approvals'[n], s = b.for
             PROVE  /\ b.result \subseteq Did(s)' /\ Changed(b) \subseteq Did(s)'
                    /\ b.decision # "yes" => ~b.done /\ b.result = {} /\ Changed(b) = {}
  BY DEF RequestsDid, Did, Changed
<1> DEFINE good == /\ b.result \subseteq Did(s)' /\ Changed(b) \subseteq Did(s)'
                   /\ b.decision # "yes" => ~b.done /\ b.result = {} /\ Changed(b) = {}
<1>3. ASSUME n \in 1..Len(approvals), NEW a, a = approvals[n], a.for = s
      PROVE  /\ a.result \subseteq Did(s)' /\ Changed(a) \subseteq Did(s)' /\ s \in Steps
             /\ a.decision # "yes" => ~a.done /\ a.result = {} /\ Changed(a) = {}
  <2>1. s \in Steps BY <1>1, <1>3
  <2>2. /\ a.result \subseteq Did(s) /\ Changed(a) \subseteq Did(s)
        /\ a.decision # "yes" => ~a.done /\ a.result = {} /\ Changed(a) = {}
    BY <1>3 DEF EffectsFit, RequestsDid
  <2> QED BY <1>2, <2>1, <2>2
<1>4. ASSUME n \in 1..Len(approvals), approvals[n] = b PROVE good BY <1>3, <1>4
<1>5. CASE UNCHANGED approvals BY <1>4, <1>5
<1>6. CASE RequestIsMade
  <2>1. CASE n \in 1..Len(approvals) BY <1>4, <1>6, <2>1 DEF RequestIsMade
  <2>2. CASE n \notin 1..Len(approvals)
    <3>1. n = Len(approvals') BY <1>1, <1>6, <2>2 DEF RequestIsMade
    <3> QED BY <1>6, <3>1 DEF RequestIsMade, Clean
  <2> QED BY <2>1, <2>2
<1>7. ASSUME NEW k, AmendedAt(k), Amends(k, approvals[k], approvals'[k]) PROVE good
  <2>1. n \in 1..Len(approvals) BY <1>7 DEF AmendedAt
  <2>2. CASE n # k BY <1>4, <1>7, <2>1, <2>2 DEF AmendedAt
  <2>3. CASE n = k
    <3>1. PICK a : a = approvals[n] OBVIOUS
    <3>2. a.for = s /\ Amends(n, a, b) BY <1>7, <2>3, <3>1 DEF AmendedAt
    <3>3. /\ a.result \subseteq Did(s)' /\ Changed(a) \subseteq Did(s)' /\ s \in Steps
          /\ a.decision # "yes" => ~a.done /\ a.result = {} /\ Changed(a) = {}
      BY <1>3, <2>1, <3>1, <3>2
    <3>4. CASE Same(a, b) /\ (b.decision = a.decision \/ a.decision = "none")
      BY <3>3, <3>4 DEF Same
    <3>5. CASE a.decision = "yes" /\ Settled(n, a, b)
      <4>1. PICK w \in Workers :
              /\ n = Mem(w).approval /\ Owns(At(w), w) /\ run[w].pc \in Deciding
              /\ Changed(b) = Changed(a) /\ b.decision = a.decision
              /\ \/ ChangesOne(w) /\ b.result = Cursor(w).targets
                 \/ b.result = {}
                 \/ b.result = Changed(a)
        BY <3>5 DEF Settled
      <4>2. Step(w) = s BY <3>1, <3>2, <4>1, DeciderIs
      <4>3. ASSUME ChangesOne(w), b.result = Cursor(w).targets PROVE b.result \subseteq Did(s)'
        <5>1. PICK p \in Parts : Changer(w, p) /\ Cursor(w).targets = {p} BY <4>3, ChangersAre
        <5>2. Did(s)' = Did(s) \cup {p} BY <3>3, <4>2, <5>1 DEF Changer
        <5> QED BY <4>3, <5>1, <5>2
      <4>4. b.result \subseteq Did(s)' BY <3>3, <4>1, <4>3
      <4> QED BY <3>3, <3>5, <4>1, <4>4
    <3>6. CASE a.decision = "yes" /\ PartChanged(n, a, b)
      <4>1. PICK w \in Workers :
              /\ n = Mem(w).approval /\ ChangesChild(w) /\ b.result = a.result
              /\ b.decision = a.decision /\ Changed(b) = Changed(a) \cup {run[w].next}
        BY <3>6 DEF PartChanged
      <4>2. Changer(w, run[w].next) BY <4>1, ChangersAre
      <4>3. Owns(At(w), w) /\ run[w].pc \in Deciding
        BY <4>1, <4>2 DEF Changer, ChangesChild, ExecuteChild, Deciding
      <4>4. Step(w) = s BY <3>1, <3>2, <4>1, <4>3, DeciderIs
      <4>5. PICK p : p = run[w].next OBVIOUS
      <4>6. Did(s)' = Did(s) \cup {p} BY <3>3, <4>2, <4>4, <4>5 DEF Changer
      <4> QED BY <3>3, <3>6, <4>1, <4>5, <4>6
    <3> QED BY <3>2, <3>4, <3>5, <3>6 DEF Amends
  <2> QED BY <2>2, <2>3
<1>8. ASSUME NEW w \in Workers, Adds(w) PROVE good
  BY <1>5, <1>8, ChangersAre
<1> QED BY <1>5, <1>6, <1>7, <1>8, StepsAre DEF StepIs

(* A checkpoint moves to a call nobody touched, or keeps the call it is at. *)
LEMMA CursorKept ==
  ASSUME Basis, EffectsFit, [Next]_vars
  PROVE  CursorDid'
<1> SUFFICES ASSUME NEW e \in Executions, NEW d, NEW s, d = ctx'[e], s = StepAt(e)',
                    d.index <= Len(d.calls)
             PROVE  CallDid(d, s)'
  BY DEF CursorDid
<1> DEFINE c == ctx[e]
<1>1. /\ c \in Context /\ d \in Context /\ TurnIsProper(d) /\ TurnIsProper(c)
      /\ c.index \in Nat /\ Len(c.calls) \in Nat
  <2>1. TurnIsProper(d) /\ TurnIsProper(c) BY ShapeKept DEF Basis, Shape
  <2>2. c \in Context /\ d \in Context BY ContextsMoveOn
  <2> QED BY <2>1, <2>2, LenProperties DEF Context
<1>2. s = <<e, d.round, d.index>> /\ s \in Steps BY <1>1, StepIsAStep DEF StepAt
<1>3. c.index <= Len(c.calls) => CallDid(c, StepAt(e)) BY DEF EffectsFit, CursorDid
<1> HIDE DEF c
<1>4. CASE d = c
  <2>1. s = StepAt(e) BY <1>2, <1>4 DEF c, StepAt
  <2> QED BY <1>1, <1>2, <1>4, <2>1, CursorStays DEF c
<1>5. ASSUME NEW w \in Workers, Owns(e, w), At(w) = e, Mem(w) = c, Written(w, e, c, d),
             UNCHANGED <<approvals, receipts, effects>>
      PROVE  CallDid(d, s)'
  <2>1. CallDid(d, s)' <=> CallDid(d, s) BY <1>5 DEF CallDid, RequestDid, Did
  <2>2. ASSUME d.approval = 0, ~Beyond(c, s), ~AtStep(c, s) PROVE CallDid(d, s)
    <3>1. s[1] = e BY <1>2
    <3>2. Did(s) = {} BY <1>2, <2>2, <3>1 DEF EffectsFit, UntouchedAhead, c
    <3>3. s \notin receipts BY <1>2, <3>2 DEF EffectsFit, ReceiptsFit
    <3> QED BY <2>2, <3>2, <3>3 DEF CallDid
  <2>3. ASSUME c.index <= Len(c.calls), s = StepAt(e), CallOf(d).tool = CallOf(c).tool,
               d.approval = c.approval
        PROVE  CallDid(d, s)
    BY <1>3, <2>3 DEF CallDid, RequestDid
  <2>4. d.round = c.round /\ d.index = c.index => s = StepAt(e) BY <1>2 DEF StepAt, c
  <2>5. ASSUME SaveTurn(w), NEW calls \in Turns, d = NewTurn(c, calls), ~c.pending
        PROVE  CallDid(d, s)
    <3>1. d.round = c.round + 1 /\ d.approval = c.approval
      BY <1>1, <2>5 DEF NewTurn, Context
    <3>2. c.approval = 0 BY <2>5 DEF Basis, Shape, ApprovalFits, c
    <3>3. ~Beyond(c, s) /\ ~AtStep(c, s) BY <1>1, <1>2, <3>1 DEF Beyond, AtStep, Context
    <3> QED BY <2>2, <3>1, <3>2, <3>3
  <2>6. ASSUME c.index > Len(c.calls), d = Cleared(c) PROVE FALSE
    <3>1. d.index = c.index /\ d.calls = c.calls BY <1>1, <2>6 DEF Cleared, Context
    <3> QED BY <1>1, <2>6, <3>1
  <2>7. ASSUME SaveAwaiting(w), d = Awaiting(c, run[w].next) PROVE CallDid(d, s)
    <3> DEFINE n == run[w].next
    <3>1. /\ c.approval = 0 /\ c.pending /\ c.index <= Len(c.calls)
          /\ n \in 1..Len(approvals) /\ CallOf(c).tool \in NeedsApproval
          /\ approvals[n].for = <<e, c.round, c.index>>
      BY <1>5, <2>7 DEF SaveAwaiting, Basis, Shape, RunFits, Working, IsFor, Mem, At
    <3>2. d.round = c.round /\ d.index = c.index /\ d.calls = c.calls /\ d.approval = n
      BY <1>1, <2>7 DEF Awaiting, Context
    <3>3. s = StepAt(e) /\ approvals[n].for = s BY <1>2, <2>4, <3>1, <3>2
    <3>4. s \notin receipts /\ Did(s) \subseteq {Stock}
      BY <1>3, <3>1, <3>3 DEF CallDid, NeedsApproval
    <3>5. Did(s) = {} BY <1>2, <3>4 DEF EffectsFit, ReceiptsFit
    <3>6. approvals[n].result = {} /\ Changed(approvals[n]) = {}
      BY <3>1, <3>3, <3>5 DEF EffectsFit, RequestsDid
    <3> HIDE DEF n
    <3> QED BY <3>1, <3>2, <3>4, <3>5, <3>6 DEF CallDid, RequestDid
  <2>8. ASSUME SaveRetrieval(w), d = Retrieving(c) PROVE CallDid(d, s)
    <3>1. c.pending /\ c.index <= Len(c.calls) /\ CallOf(c).tool \in Retrievals
      BY <1>5, <2>8 DEF SaveRetrieval, AtRetrieval, CallIs, AtCall, InTurn, Cursor, CallOf
    <3>2. /\ d.round = c.round /\ d.index = c.index /\ d.approval = c.approval
          /\ CallOf(d).tool = CallOf(c).tool
      BY <1>1, <2>8, <3>1, RetrievingFields
    <3> QED BY <2>3, <2>4, <3>1, <3>2
  <2>9. ASSUME run[w].pc \in Working \cup Showing
        PROVE  c.index <= Len(c.calls) /\ c.pending
    BY <1>5, <2>9 DEF Basis, Shape, RunFits, Mem
  <2>10. ASSUME SaveResult(w), d = Resulting(c, run[w].held, Exchange(w)) PROVE CallDid(d, s)
    <3>1. c.index <= Len(c.calls) /\ c.pending /\ c.index \in 1..Len(c.calls)
      BY <1>1, <2>9, <2>10 DEF SaveResult, Working, Context
    <3>2. d.calls = [c.calls EXCEPT ![c.index] =
                       [CallOf(c) EXCEPT !.done = TRUE, !.result = run[w].held]]
      BY <1>1, <2>10 DEF Resulting, Context, CallOf
    <3>3. d.round = c.round /\ d.index = c.index /\ d.approval = c.approval
      BY <1>1, <2>10 DEF Resulting, Context
    <3>4. CallOf(c) \in Call BY <1>1, <3>1, ElementOfSeq DEF Context, CallOf
    <3>5. c.calls \in [1..Len(c.calls) -> Call] BY <1>1, LenProperties DEF Context
    <3>6. d.calls[c.index] = [CallOf(c) EXCEPT !.done = TRUE, !.result = run[w].held]
      BY <3>1, <3>2, <3>5
    <3>7. CallOf(d).tool = CallOf(c).tool BY <3>3, <3>4, <3>6 DEF Call, CallOf
    <3> QED BY <2>3, <2>4, <3>1, <3>3, <3>7
  <2>11. ASSUME SaveCursor(w), d = Advanced(c) PROVE CallDid(d, s)
    <3>1. d.round = c.round /\ d.index = c.index + 1 /\ d.approval = 0
      BY <1>1, <2>11 DEF Advanced, Context
    <3>2. ~Beyond(c, s) /\ ~AtStep(c, s) BY <1>1, <1>2, <3>1 DEF Beyond, AtStep, Context
    <3> QED BY <2>2, <3>1, <3>2
  <2> QED BY <1>5, <2>1, <2>5, <2>6, <2>7, <2>8, <2>10, <2>11 DEF Written
<1> QED BY <1>4, <1>5, ContextsMove DEF c

-----------------------------------------------------------------------------
(* What a run holds when it has a result.                                    *)

(* Why run w has a result that it says is h. *)
Results(w, h) ==
    \/ Adds(w) /\ h = {Stock}
    \/ /\ UNCHANGED effects
       /\ \/ CallIs(w, "add") /\ (Owns(At(w), w) => Step(w) \in receipts /\ h = {Stock})
          \/ run[w].pc = "enriched" /\ h = {Stock}
          \/ AtCall(w) /\ Mem(w).approval = 0 /\ Cursor(w).tool \in Retrievals /\ h = {}
          \/ run[w].pc \in {"retrieve", "fetched"} /\ h = {}
          \/ AwaitsApproval(w) /\ approvals[Mem(w).approval].decision = "no" /\ h = {}
          \/ run[w].pc = "rejecting" /\ ~approvals[Mem(w).approval].done /\ h = {}
          \/ run[w].pc = "children" /\ h = Changed(approvals[Mem(w).approval])
          \/ /\ run[w].pc = "approved" /\ approvals[Mem(w).approval].done
             /\ h = approvals[Mem(w).approval].result
    \/ ChangesOne(w) /\ h = Cursor(w).targets

Holding == {"result", "interrupted"}
Batching == {"children", "rejectchild"}

Arrived(w) ==
    /\ run'[w].at = run[w].at /\ run'[w].mem = Mem(w)
    /\ run'[w].pc = "enrich" => Adds(w)
    /\ run'[w].pc = "enriched" => run[w].pc = "enrich"
    /\ run'[w].pc \in Batching => \/ run[w].pc \in Batching
                                  \/ Approved(w, "bulk") /\ ~approvals[Mem(w).approval].done
    /\ run'[w].pc \in Holding => Results(w, run'[w].held)

LEMMA Arrives ==
  ASSUME TypeOK, Shape, NEW w \in Workers, RunStep(w),
         run'[w].pc \in Holding \cup Batching \cup Enriching
  PROVE  Arrived(w)
<1>1. run \in [Workers -> Run] BY DEF TypeOK
<1>2. Places = {"idle", "begin", "work", "cancelling", "publishing", "requested", "approved",
                "rejecting", "children", "rejectchild", "retrieve", "fetched", "enrich", "enriched", "result",
                "interrupted", "saved", "cursor"}
  BY DEF Places, Working, Deciding, Showing
<1>3. ASSUME NEW pc \in Places, Goto(w, pc)
      PROVE  /\ run'[w].pc = pc /\ run'[w].at = run[w].at /\ run'[w].mem = Mem(w)
             /\ run'[w].held = run[w].held
  BY <1>1, <1>3, Moves, Zenon DEF Moved
<1>4. ASSUME NEW pc \in Places, NEW h, GotoHolding(w, pc, h)
      PROVE  /\ run'[w].pc = pc /\ run'[w].at = run[w].at /\ run'[w].mem = Mem(w)
             /\ run'[w].held = h
  <2>1. Moved(w, pc, Mem(w), h, run[w].next) BY <1>1, <1>4, Moves, Zenon
  <2> QED BY <2>1 DEF Moved
<1>5. ASSUME NEW pc \in Places, NEW n, GotoNext(w, pc, n)
      PROVE  /\ run'[w].pc = pc /\ run'[w].at = run[w].at /\ run'[w].mem = Mem(w)
             /\ run'[w].held = run[w].held
  BY <1>1, <1>5, Moves, Zenon DEF Moved
<1>6. ASSUME NEW pc \in Places, NEW s, NEW m, Save(w, s, m, pc)
      PROVE  run'[w].pc = pc
  BY <1>1, <1>6, Moves, Zenon DEF Moved
<1>7. EndRun(w) => run'[w].pc = "idle" BY <1>1 DEF EndRun, Idle
<1>8. run[w].pc \notin Holding => run[w].held = {} BY DEF Shape, RunFits, Holding
<1> USE DEF Holding, Batching, Enriching
<1>9. CASE TurnStep(w)
  BY <1>2, <1>5, <1>6, <1>9 DEF TurnStep, SaveTurn, GiveUp, Complete, ClearTurn
<1>10. CASE ApprovalStep(w)
  <2>1. ~Request(w) /\ ~SaveAwaiting(w) /\ ~Pause(w)
    BY <1>2, <1>5, <1>6, <1>7 DEF Request, SaveAwaiting, Pause
  <2>2. CASE Consult(w)
    <3>1. PICK pc : /\ pc = (IF Cursor(w).done THEN "saved"
                             ELSE IF approvals[Mem(w).approval].decision = "yes" THEN "approved"
                             ELSE "result")
                    /\ Goto(w, pc)
      BY <2>2 DEF Consult
    <3>2. pc \in Places BY <1>2, <3>1
    <3>3. /\ run'[w].pc = pc /\ run'[w].at = run[w].at /\ run'[w].mem = Mem(w)
          /\ run'[w].held = run[w].held
      BY <1>3, <3>1, <3>2
    <3>4. /\ AwaitsApproval(w) /\ approvals[Mem(w).approval].decision # "none"
          /\ UNCHANGED effects
      BY <2>2 DEF Consult, inventoryVars
    <3>5. Mem(w).approval # 0 /\ run[w].pc = "work" BY <3>4 DEF AwaitsApproval, AtCall, InTurn
    <3>6. approvals[Mem(w).approval].decision \in {"none", "yes", "no"}
      BY <3>5, AtItsRequest DEF Approval
    <3> QED BY <1>8, <3>1, <3>3, <3>4, <3>5, <3>6 DEF Arrived, Results
  <2>3. CASE ExecuteOne(w)
    <3>1. run[w].pc = "approved" BY <2>3 DEF ExecuteOne, Approved
    <3>2. CASE /\ approvals[Mem(w).approval].done
               /\ GotoHolding(w, "result", approvals[Mem(w).approval].result)
               /\ UNCHANGED inventoryVars
      BY <1>2, <1>4, <3>1, <3>2 DEF Arrived, Results, inventoryVars
    <3>3. CASE /\ ApplyApproved(Mem(w).approval, Step(w), w)
               /\ GotoHolding(w, "result", Cursor(w).targets)
      BY <1>2, <1>4, <2>3, <3>3 DEF Arrived, Results, ChangesOne
    <3>4. ~Goto(w, "rejecting") BY <1>2, <1>3
    <3> QED BY <2>3, <3>2, <3>3, <3>4 DEF ExecuteOne
  <2>4. CASE RejectOne(w)
    <3>1. /\ run[w].pc = "rejecting" /\ ~approvals[Mem(w).approval].done /\ UNCHANGED effects
          /\ Goto(w, "result")
      BY <2>4 DEF RejectOne, RejectApproved
    <3> QED BY <1>2, <1>3, <1>8, <3>1 DEF Arrived, Results
  <2>5. CASE StartBatch(w)
    <3>1. CASE /\ approvals[Mem(w).approval].done
               /\ GotoHolding(w, "result", approvals[Mem(w).approval].result)
               /\ UNCHANGED inventoryVars
      BY <1>2, <1>4, <2>5, <3>1 DEF Arrived, Results, inventoryVars, StartBatch, Approved
    <3>2. CASE OpenBatch(Mem(w).approval) /\ GotoNext(w, "children", 1)
      BY <1>2, <1>5, <2>5, <3>2 DEF Arrived, OpenBatch, StartBatch
    <3> QED BY <2>5, <3>1, <3>2 DEF StartBatch
  <2>6. CASE ExecuteChild(w)
    <3>1. run[w].pc = "children" BY <2>6 DEF ExecuteChild
    <3>2. GotoNext(w, "children", run[w].next + 1) \/ Goto(w, "rejectchild")
      BY <2>6 DEF ExecuteChild
    <3>3. /\ run'[w].pc \in Batching /\ run'[w].at = run[w].at /\ run'[w].mem = Mem(w)
      BY <1>2, <1>3, <1>5, <3>2
    <3> QED BY <3>1, <3>3 DEF Arrived
  <2>7. CASE RejectedChild(w)
    <3>1. run[w].pc = "rejectchild" /\ GotoNext(w, "children", run[w].next + 1)
      BY <2>7 DEF RejectedChild
    <3> QED BY <1>2, <1>5, <3>1 DEF Arrived
  <2>8. CASE EndBatch(w)
    <3>1. /\ run[w].pc = "children" /\ UNCHANGED effects
          /\ GotoHolding(w, "result", Changed(approvals[Mem(w).approval]))
      BY <2>8 DEF EndBatch, CloseBatch, Changed
    <3> QED BY <1>2, <1>4, <3>1 DEF Arrived, Results
  <2> QED BY <1>10, <2>1, <2>2, <2>3, <2>4, <2>5, <2>6, <2>7, <2>8 DEF ApprovalStep
<1>11. CASE EffectStep(w)
  <2>1. CASE ExecuteAddition(w)
    <3>1. CallIs(w, "add") BY <2>1 DEF ExecuteAddition
    <3>2. CASE \/ Add(Step(w), w, TRUE) /\ Goto(w, "enrich")
               \/ Add(Step(w), w, FALSE) /\ GotoHolding(w, "result", {Stock})
      <4>1. Adds(w) BY <2>1, <3>2 DEF Adds
      <4>2. \/ /\ run'[w].pc = "enrich" /\ run'[w].at = run[w].at /\ run'[w].mem = Mem(w)
            \/ /\ run'[w].pc = "result" /\ run'[w].at = run[w].at /\ run'[w].mem = Mem(w)
               /\ run'[w].held = {Stock}
        BY <1>2, <1>3, <1>4, <3>2
      <4> QED BY <4>1, <4>2 DEF Arrived, Results
    <3>3. ASSUME NEW pc \in Holding, Owns(At(w), w), Step(w) \in receipts,
                 GotoHolding(w, pc, {Stock}), UNCHANGED inventoryVars
          PROVE  Arrived(w)
      BY <1>2, <1>4, <3>1, <3>3 DEF Arrived, Results, inventoryVars
    <3>4. CASE /\ ~Owns(At(w), w) /\ GotoHolding(w, "result", {}) /\ UNCHANGED inventoryVars
      BY <1>2, <1>4, <3>1, <3>4 DEF Arrived, Results, inventoryVars
    <3>5. (IF Step(w) \in unenriched THEN "interrupted" ELSE "result") \in Holding OBVIOUS
    <3> QED BY <2>1, <3>2, <3>3, <3>4, <3>5 DEF ExecuteAddition
  <2>2. CASE Enrich(w)
    <3>1. run[w].pc = "enrich" /\ Goto(w, "enriched") BY <2>2 DEF Enrich
    <3> QED BY <1>2, <1>3, <3>1 DEF Arrived
  <2>3. CASE ReportInterrupted(w)
    <3>1. /\ AtCall(w) /\ Mem(w).approval = 0 /\ Cursor(w).tool \in Retrievals /\ UNCHANGED effects
          /\ Goto(w, "interrupted") /\ run[w].pc = "work"
      BY <2>3 DEF ReportInterrupted, AtRetrieval, CallIs, inventoryVars, AtCall, InTurn
    <3> QED BY <1>2, <1>3, <1>8, <3>1 DEF Arrived, Results
  <2>4. CASE StageSpecs(w)
    <3>1. run[w].pc = "fetched" /\ UNCHANGED effects /\ Goto(w, "result")
      BY <2>4 DEF StageSpecs, StageReview, inventoryVars
    <3> QED BY <1>2, <1>3, <1>8, <3>1 DEF Arrived, Results
  <2>5. ~SaveRetrieval(w) BY <1>2, <1>6 DEF SaveRetrieval
  <2>6. CASE Retrieve(w)
    <3>1. run[w].pc = "retrieve" /\ UNCHANGED effects /\ (Goto(w, "fetched") \/ Goto(w, "result"))
      BY <2>6 DEF Retrieve, inventoryVars
    <3> QED BY <1>2, <1>3, <1>8, <3>1 DEF Arrived, Results
  <2>7. CASE SaveEnrichment(w)
    <3>1. /\ run[w].pc = "enriched" /\ UNCHANGED effects /\ GotoHolding(w, "result", {Stock})
      BY <2>7 DEF SaveEnrichment, SaveEnriched
    <3> QED BY <1>2, <1>4, <3>1 DEF Arrived, Results
  <2> QED BY <1>11, <2>1, <2>2, <2>3, <2>4, <2>5, <2>6, <2>7 DEF EffectStep
<1>12. ~ResultStep(w)
  BY <1>2, <1>3, <1>5, <1>6
  DEF ResultStep, SaveResult, ShowResult, SaveCursor, Recover, SaveCancelled
<1>13. ~Leave(w) /\ ~Publish(w) BY <1>7 DEF Leave, Publish
<1>14. ~BeginStage(w)
  <2>1. GotoNext(w, "cancelling", 1) => FALSE BY <1>2, <1>5
  <2>2. GotoNext(w, "work", 1) => FALSE BY <1>2, <1>5
  <2> QED BY <2>1, <2>2 DEF BeginStage
<1>15. ASSUME NEW e \in Executions, Start(w, e) PROVE FALSE
  BY <1>1, <1>15 DEF Start, Idle
<1> QED BY <1>9, <1>10, <1>11, <1>12, <1>13, <1>14, <1>15 DEF RunStep

(* A run that does nothing itself stays, or is over. *)
LEMMA RunStays ==
  ASSUME TypeOK, Shape, [Next]_vars, NEW w \in Workers
  PROVE  run'[w] = run[w] \/ RunStep(w) \/ run'[w].pc = "idle"
<1>1. run \in [Workers -> Run] BY DEF TypeOK
<1>2. ASSUME NEW v \in Workers \ {w}, RunStep(v) PROVE run'[w] = run[w]
  <2>1. CASE GoesOn(v) BY <2>1 DEF GoesOn, Moved
  <2>2. CASE Ends(v) BY <1>1, <2>2 DEF Ends, EndRun
  <2>3. ASSUME NEW s, NEW m, NEW pc, Saves(v, s, m, pc) PROVE run'[w] = run[w]
    BY <1>1, <2>3 DEF Saves, Save
  <2>4. ASSUME NEW f \in Executions, Start(v, f) PROVE run'[w] = run[w]
    BY <1>1, <2>4 DEF Start
  <2> QED BY <1>2, <2>1, <2>2, <2>3, <2>4, RunsMove, Zenon DEF RunMoves
<1>3. ASSUME UserStep \/ Environment PROVE run'[w] = run[w] \/ run'[w].pc = "idle"
  <2>1. ASSUME NEW v \in Workers, Crash(v) PROVE run'[w] = run[w] \/ run'[w].pc = "idle"
    BY <1>1, <2>1 DEF Crash, Idle
  <2> QED BY <1>3, <2>1, OthersMove
<1>4. UNCHANGED vars => run'[w] = run[w] BY DEF vars
<1> QED BY <1>2, <1>3, <1>4, Zenon DEF Next

(* A receipt stays. *)
LEMMA ReceiptsStay ==
  ASSUME Basis, [Next]_vars
  PROVE  receipts \subseteq receipts'
<1>1. ASSUME NEW w \in Workers, Adds(w) \/ ChangesOne(w) \/ ChangesChild(w)
      PROVE  receipts \subseteq receipts'
  BY <1>1, ChangersAre
<1> QED BY <1>1, EffectsMove

LEMMA EnrichedKept ==
  ASSUME Basis, EffectsFit, [Next]_vars
  PROVE  Enriched'
<1>1. receipts \subseteq receipts' BY ReceiptsStay
<1> SUFFICES ASSUME NEW w \in Workers, run'[w].pc \in Enriching PROVE Step(w)' \in receipts'
  BY DEF Enriched
<1>2. CASE run'[w] = run[w]
  BY <1>1, <1>2 DEF EffectsFit, Enriched, Step, StepOf, At, Mem
<1>3. CASE RunStep(w)
  <2>1. /\ Adds(w) \/ run[w].pc = "enrich"
        /\ run'[w].at = run[w].at /\ run'[w].mem = Mem(w)
    BY <1>3, Arrives DEF Basis, Arrived, Enriching
  <2>2. Adds(w) => Step(w) \in receipts' BY ChangersAre DEF Basis
  <2>3. run[w].pc = "enrich" => Step(w) \in receipts'
    BY <1>1 DEF EffectsFit, Enriched, Enriching
  <2> QED BY <2>1, <2>2, <2>3 DEF Step, StepOf, At, Mem
<1> QED BY <1>2, <1>3, RunStays DEF Basis, Enriching

(* What the owner's call changed, by what its request and its receipt say. *)
LEMMA OwnerHas ==
  ASSUME Basis, EffectsFit, NEW w \in Workers, Owns(At(w), w), At(w) \in Executions,
         Mem(w).index <= Len(Mem(w).calls)
  PROVE  LET a == approvals[Mem(w).approval]
         IN  /\ Step(w) \in Steps /\ Mem(w) = ctx[At(w)]
             /\ Step(w) \in receipts => Did(Step(w)) = {Stock} /\ Mem(w).approval = 0
             /\ Mem(w).approval = 0 /\ Cursor(w).tool # "add" => Did(Step(w)) = {}
             /\ Mem(w).approval = 0 => Did(Step(w)) \subseteq {Stock}
             /\ Mem(w).approval # 0 =>
                  /\ a.done => a.result = Did(Step(w))
                  /\ a.decision = "no" => Did(Step(w)) = {}
                  /\ Cursor(w).tool = "update" /\ ~a.done => Did(Step(w)) = {}
                  /\ Cursor(w).tool = "bulk" => Did(Step(w)) = Changed(a)
<1> DEFINE e == At(w)
           c == ctx[e]
           s == Step(w)
<1>1. Mem(w) = c /\ s = StepAt(e) /\ Cursor(w) = CallOf(c)
  BY DEF Owns, Basis, OwnerIsCurrent, Step, StepOf, StepAt, Cursor, CallOf
<1>2. CallDid(c, s) /\ s \in Steps
  BY <1>1, AtItsCursor DEF EffectsFit, CursorDid
<1>3. Stock \in Did(s) <=> s \in receipts BY <1>2 DEF EffectsFit, ReceiptsFit
<1>4. c.approval # 0 => /\ c.approval \in 1..Len(approvals)
                        /\ CallOf(c).tool \in {"update", "bulk"}
  BY AtItsCursor DEF NeedsApproval
<1>5. c.approval # 0 /\ approvals[c.approval].decision # "yes" =>
        approvals[c.approval].result = {} /\ Changed(approvals[c.approval]) = {}
  BY <1>4 DEF EffectsFit, RequestsDid
<1> HIDE DEF c, s
<1>6. s \in receipts => c.approval = 0 BY <1>2, <1>4 DEF CallDid
<1>7. c.approval = 0 => Did(s) \subseteq {Stock} BY <1>2 DEF CallDid
<1>8. c.approval # 0 => RequestDid(approvals[c.approval], s, CallOf(c)) BY <1>2 DEF CallDid
<1>9. s \in receipts => Did(s) = {Stock} BY <1>3, <1>6, <1>7
<1>10. c.approval = 0 /\ CallOf(c).tool # "add" => Did(s) = {}
  BY <1>2, <1>3, <1>7 DEF CallDid
<1>11. c.approval # 0 =>
         LET a == approvals[c.approval]
         IN  /\ a.done => a.result = Did(s)
             /\ a.decision = "no" => Did(s) = {}
             /\ CallOf(c).tool = "update" /\ ~a.done => Did(s) = {}
             /\ CallOf(c).tool = "bulk" => Did(s) = Changed(a)
  BY <1>4, <1>5, <1>8 DEF RequestDid
<1> QED BY <1>1, <1>2, <1>6, <1>7, <1>9, <1>10, <1>11 DEF s, c

(* A run that arrives at a result as the owner holds what its call changed. *)
LEMMA HoldsWhatItDid ==
  ASSUME Basis, EffectsFit, [Next]_vars, NEW w \in Workers, Owns(At(w), w),
         At(w) \in Executions, NEW h, Results(w, h), RunFits(approvals, run[w])
  PROVE  h = Did(Step(w))'  \/ ~(run'[w].mem = Mem(w) /\ run'[w].at = run[w].at)
<1> SUFFICES ASSUME run'[w].mem = Mem(w), run'[w].at = run[w].at PROVE h = Did(Step(w))'
  OBVIOUS
<1>1. PICK s : s = Step(w) OBVIOUS
<1>2. Step(w)' = s BY <1>1 DEF Step, StepOf, At, Mem
<1>3. Did(Step(w))' = Did(s)' BY <1>2 DEF Did
<1>4. run[w].pc \in {"enriched", "retrieve", "fetched", "rejecting", "children", "approved"} =>
        Mem(w).index <= Len(Mem(w).calls)
  BY DEF RunFits, Mem, Working, Deciding
<1>5. AtCall(w) => Mem(w).index <= Len(Mem(w).calls) BY DEF AtCall
<1>6. ASSUME Mem(w).index <= Len(Mem(w).calls)
      PROVE  LET a == approvals[Mem(w).approval]
             IN  /\ s \in Steps /\ Mem(w) = ctx[At(w)]
                 /\ s \in receipts => Did(s) = {Stock} /\ Mem(w).approval = 0
                 /\ Mem(w).approval = 0 /\ Cursor(w).tool # "add" => Did(s) = {}
                 /\ Mem(w).approval = 0 => Did(s) \subseteq {Stock}
                 /\ Mem(w).approval # 0 =>
                      /\ a.done => a.result = Did(s)
                      /\ a.decision = "no" => Did(s) = {}
                      /\ Cursor(w).tool = "update" /\ ~a.done => Did(s) = {}
                      /\ Cursor(w).tool = "bulk" => Did(s) = Changed(a)
  BY <1>1, <1>6, OwnerHas
<1>7. CASE Adds(w) /\ h = {Stock}
  <2>1. /\ Changer(w, Stock) /\ Mem(w).approval = 0 BY <1>7, ChangersAre
  <2>2. Mem(w).index <= Len(Mem(w).calls)
    BY <1>5, <1>7 DEF Adds, ExecuteAddition, CallIs
  <2>3. s \in Steps /\ Did(s) \subseteq {Stock} BY <1>6, <2>1, <2>2
  <2>4. Did(s)' = Did(s) \cup {Stock} BY <1>1, <2>1, <2>3 DEF Changer
  <2> QED BY <1>3, <1>7, <2>3, <2>4
<1>8. CASE ChangesOne(w) /\ h = Cursor(w).targets
  <2>1. PICK p \in Parts : Changer(w, p) /\ Cursor(w).targets = {p} BY <1>8, ChangersAre
  <2>2. Cursor(w).tool = "update" /\ Mem(w).approval # 0 /\ run[w].pc = "approved"
        /\ ~approvals[Mem(w).approval].done
    BY <1>8, ChangersAre DEF ChangesOne, ExecuteOne, Approved, ApplyApproved
  <2>3. s \in Steps /\ Did(s) = {} BY <1>4, <1>6, <2>2
  <2>4. Did(s)' = Did(s) \cup {p} BY <1>1, <2>1, <2>3 DEF Changer
  <2> QED BY <1>3, <1>8, <2>1, <2>3, <2>4
<1>9. ASSUME UNCHANGED effects, h = Did(s) PROVE h = Did(Step(w))'
  BY <1>3, <1>9 DEF Did
<1>10. CASE CallIs(w, "add") /\ Step(w) \in receipts /\ h = {Stock} /\ UNCHANGED effects
  BY <1>1, <1>5, <1>6, <1>9, <1>10 DEF CallIs
<1>11. CASE run[w].pc = "enriched" /\ h = {Stock} /\ UNCHANGED effects
  <2>1. s \in receipts BY <1>1, <1>11 DEF EffectsFit, Enriched, Enriching
  <2> QED BY <1>4, <1>6, <1>9, <1>11, <2>1
<1>12. CASE /\ AtCall(w) /\ Mem(w).approval = 0 /\ Cursor(w).tool \in Retrievals /\ h = {}
            /\ UNCHANGED effects
  BY <1>5, <1>6, <1>9, <1>12 DEF Retrievals
<1>13. CASE run[w].pc \in {"retrieve", "fetched"} /\ h = {} /\ UNCHANGED effects
  <2>1. Cursor(w).tool \in Retrievals BY <1>13 DEF RunFits, Cursor, CallOf, Mem
  <2>2. Mem(w).approval = 0 /\ Cursor(w).tool # "add"
    BY <2>1, AtItsRequest DEF NeedsApproval, Basis, Retrievals
  <2> QED BY <1>4, <1>6, <1>9, <1>13, <2>2
<1>14. CASE /\ AwaitsApproval(w) /\ approvals[Mem(w).approval].decision = "no" /\ h = {}
            /\ UNCHANGED effects
  BY <1>5, <1>6, <1>9, <1>14 DEF AwaitsApproval
<1>15. run[w].pc \in Deciding => Mem(w).approval # 0 BY DEF RunFits, Mem
<1>16. CASE run[w].pc = "rejecting" /\ ~approvals[Mem(w).approval].done /\ h = {}
            /\ UNCHANGED effects
  <2>1. Cursor(w).tool = "update" BY <1>16 DEF RunFits, Cursor, CallOf, Mem
  <2> QED BY <1>4, <1>6, <1>9, <1>15, <1>16, <2>1 DEF Deciding
<1>17. CASE run[w].pc = "children" /\ h = Changed(approvals[Mem(w).approval])
            /\ UNCHANGED effects
  <2>1. Cursor(w).tool = "bulk" BY <1>17 DEF RunFits, Cursor, CallOf, Mem
  <2> QED BY <1>4, <1>6, <1>9, <1>15, <1>17, <2>1 DEF Deciding
<1>18. CASE /\ run[w].pc = "approved" /\ approvals[Mem(w).approval].done
            /\ h = approvals[Mem(w).approval].result /\ UNCHANGED effects
  BY <1>4, <1>6, <1>9, <1>15, <1>18 DEF Deciding
<1> QED
  BY <1>7, <1>8, <1>10, <1>11, <1>12, <1>13, <1>14, <1>16, <1>17, <1>18, Zenon DEF Results

(* A run that owned its execution and goes on at a call still owns it. *)
LEMMA StillOwns ==
  ASSUME Basis, [Next]_vars, NEW w \in Workers, Owns(At(w), w)', run'[w].pc # "idle",
         run'[w].pc # "begin"
  PROVE  /\ At(w)' = At(w) /\ Owns(At(w), w) /\ At(w) \in Executions
<1>1. At(w)' \in Executions BY ShapeKept DEF Basis, TypeOK, At
<1>2. PICK e \in Executions : e = At(w)' BY <1>1
<1>3. Owns(e, w)' BY <1>2 DEF Owns
<1>4. Owns(e, w) BY <1>3, OwnersMove DEF Basis
<1>5. At(w) = e BY <1>4 DEF Owns, Basis, OwnerIsCurrent
<1> QED BY <1>2, <1>4, <1>5

LEMMA OwnerDidKept ==
  ASSUME Basis, EffectsFit, [Next]_vars
  PROVE  OwnerDid'
<1> SUFFICES ASSUME NEW w \in Workers, Owns(At(w), w)'
             PROVE  /\ run'[w].pc \in Holding => run'[w].held = Did(Step(w))'
                    /\ run'[w].pc \in Batching => ~approvals'[Mem(w)'.approval].done
  BY DEF OwnerDid, Holding, Batching
<1> DEFINE n == Mem(w).approval
<1>1. RunFits(approvals, run[w]) /\ run \in [Workers -> Run] BY DEF Basis, TypeOK, Shape
<1>2. ASSUME run'[w].pc \in Holding \cup Batching
      PROVE  At(w)' = At(w) /\ Owns(At(w), w) /\ At(w) \in Executions
  BY <1>2, StillOwns DEF Holding, Batching
<1>3. ASSUME NEW v \in Workers, Owns(At(v), v), Step(v) = Step(w), Owns(At(w), w),
             At(w) \in Executions
      PROVE  v = w
  <2>1. At(v) = At(w) BY <1>3 DEF Step, StepOf
  <2> QED BY <1>3, <2>1, OwnerIsOne DEF Basis
<1>4. ASSUME run'[w].pc \in Batching, run[w].pc \in Deciding, ~approvals[n].done
      PROVE  ~approvals'[n].done
  <2>1. Owns(At(w), w) /\ At(w) \in Executions BY <1>2, <1>4
  <2>2. n \in 1..Len(approvals) /\ approvals[n].for = Step(w)
    BY <1>4, <2>1, DeciderIs, AtItsCursor
  <2>3. CASE UNCHANGED approvals BY <1>4, <2>3
  <2>4. CASE RequestIsMade BY <1>4, <2>2, <2>4 DEF RequestIsMade
  <2>5. ASSUME NEW k, AmendedAt(k), Amends(k, approvals[k], approvals'[k])
        PROVE  ~approvals'[n].done
    <3>1. CASE k # n BY <1>4, <2>2, <2>5, <3>1 DEF AmendedAt
    <3>2. ASSUME k = n, Settled(k, approvals[k], approvals'[k]) PROVE FALSE
      <4>1. PICK v \in Workers :
              /\ k = Mem(v).approval /\ Owns(At(v), v) /\ run[v].pc \in Deciding
              /\ ChangesOne(v) \/ RejectOne(v) \/ EndBatch(v)
        BY <3>2 DEF Settled
      <4>2. Step(v) = Step(w) BY <2>2, <3>2, <4>1, DeciderIs
      <4>3. v = w BY <1>3, <2>1, <4>1, <4>2
      <4>4. ASSUME NEW pc, NEW h, Goto(w, pc) \/ GotoHolding(w, pc, h) PROVE pc \in Batching
        BY <1>1, <1>4, <4>4 DEF Goto, GotoHolding, Run
      <4>5. ~ChangesOne(w) BY <4>4 DEF ChangesOne, ExecuteOne, Batching
      <4>6. ~RejectOne(w) /\ ~EndBatch(w) BY <4>4 DEF RejectOne, EndBatch, Batching
      <4> QED BY <4>1, <4>3, <4>5, <4>6
    <3> QED BY <1>4, <2>5, <3>1, <3>2 DEF Amends, Same, PartChanged
  <2>6. ASSUME NEW v \in Workers, Adds(v) PROVE UNCHANGED approvals BY <2>6, ChangersAre
  <2> QED BY <2>3, <2>4, <2>5, <2>6, StepsAre DEF StepIs
<1>5. CASE run'[w] = run[w]
  <2>1. Mem(w)' = Mem(w) /\ At(w)' = At(w) /\ Step(w)' = Step(w)
    BY <1>5 DEF Mem, At, Step, StepOf
  <2>2. ASSUME run[w].pc \in Batching PROVE ~approvals'[n].done
    <3>1. ~approvals[n].done BY <1>2, <1>5, <2>2 DEF EffectsFit, OwnerDid, Batching
    <3> QED BY <1>4, <1>5, <2>2, <3>1 DEF Batching, Deciding
  <2>3. ASSUME run[w].pc \in Holding PROVE run[w].held = Did(Step(w))'
    <3>1. PICK s : s = Step(w) OBVIOUS
    <3>2. s \in Steps BY <2>3, <3>1, AtItsCall DEF Holding, Working, Basis
    <3>3. run[w].held = Did(s) BY <1>2, <1>5, <2>3, <3>1 DEF EffectsFit, OwnerDid, Holding
    <3>4. ASSUME NEW v \in Workers, NEW t, Changer(v, t) PROVE s # Step(v)
      <4>1. Owns(At(v), v) /\ run[v].pc \notin Holding BY <3>4 DEF Changer, Holding
      <4> QED BY <1>2, <1>3, <1>5, <2>3, <3>1, <4>1
    <3>5. ASSUME NEW v \in Workers, NEW t, Changer(v, t) PROVE Did(s)' = Did(s)
      <4>1. Did(s)' = IF s = Step(v) THEN Did(s) \cup {t} ELSE Did(s) BY <3>2, <3>5 DEF Changer
      <4> QED BY <3>4, <3>5, <4>1
    <3>6. Did(s)' = Did(s) BY <3>2, <3>5, DidMoves
    <3>7. Did(Step(w))' = Did(s)' BY <2>1, <3>1 DEF Did
    <3> QED BY <3>3, <3>6, <3>7
  <2> QED BY <1>5, <2>1, <2>2, <2>3
<1>6. CASE RunStep(w)
  <2>1. ASSUME run'[w].pc \in Holding PROVE run'[w].held = Did(Step(w))'
    <3>1. /\ run'[w].mem = Mem(w) /\ run'[w].at = run[w].at /\ Results(w, run'[w].held)
      BY <1>6, <2>1, Arrives DEF Basis, Arrived
    <3>2. Owns(At(w), w) /\ At(w) \in Executions BY <1>2, <2>1
    <3> QED BY <1>1, <3>1, <3>2, HoldsWhatItDid
  <2>2. ASSUME run'[w].pc \in Batching PROVE ~approvals'[Mem(w)'.approval].done
    <3>1. /\ run'[w].mem = Mem(w)
          /\ run[w].pc \in Batching \/ (Approved(w, "bulk") /\ ~approvals[n].done)
      BY <1>6, <2>2, Arrives DEF Basis, Arrived
    <3>2. ~approvals[n].done BY <1>2, <2>2, <3>1 DEF EffectsFit, OwnerDid, Batching
    <3>3. run[w].pc \in Deciding BY <3>1 DEF Approved, Batching, Deciding
    <3>4. ~approvals'[n].done BY <1>4, <2>2, <3>2, <3>3
    <3> QED BY <3>1, <3>4 DEF Mem
  <2> QED BY <2>1, <2>2
<1>7. CASE run'[w].pc = "idle" BY <1>7 DEF Holding, Batching
<1> QED BY <1>5, <1>6, <1>7, RunStays DEF Basis

(* What the calls of all runs changed is in the receipts, the requests and   *)
(* the hands of their owners.                                                *)
LEMMA EffectsFitKept ==
  ASSUME Basis, EffectsFit, [Next]_vars
  PROVE  Basis' /\ EffectsFit'
<1>1. Basis' BY ShapeKept, OwnerKept DEF Basis
<1>2. EffectsFit'
  BY ReceiptsKept, UntouchedKept, RequestsKept, CursorKept, OwnerDidKept, EnrichedKept
  DEF EffectsFit
<1> QED BY <1>1, <1>2

-----------------------------------------------------------------------------
(* What is told.                                                             *)

(* Nobody is at work on a call of e; nor will anybody be again. *)
Quiet(e) == \A w \in Workers : Owns(e, w) => run[w].pc \in Winding
Frozen(e) == e \in cancellations /\ Quiet(e)

(* A call whose result is shown, or is in the checkpoint that is at it, is   *)
(* closed: it changes nothing any more.                                      *)
Closed(s) == Told(s) \/ (AtStep(ctx[s[1]], s) /\ CallOf(ctx[s[1]]).done)
ToldFits ==
    \A s \in Steps : Told(s) =>
        \/ Frozen(s[1]) \/ Beyond(ctx[s[1]], s)
        \/ AtStep(ctx[s[1]], s) /\ CallOf(ctx[s[1]]).done

(* The results in a checkpoint, or in the copy of a run that may have lost   *)
(* its lease, are what the calls changed, and final.                         *)
ResultsFit(e, m) ==
    \A i \in 1..Len(m.calls) : m.calls[i].done =>
        /\ m.calls[i].result = Did(<<e, m.round, i>>)
        /\ <<e, m.round, i>> \in Steps /\ Closed(<<e, m.round, i>>)
DoneFits ==
    /\ \A e \in Executions : ResultsFit(e, ctx[e])
    /\ \A w \in Workers : run[w].pc # "idle" =>
         ResultsFit(At(w), Mem(w)) /\ (run[w].pc = "cursor" => Told(Step(w)))

(* Call i of the checkpoint of e has a committed result. *)
HasResult(e, i) ==
    \/ ctx[e].calls[i].done \/ <<e, ctx[e].round, i>> \in receipts
    \/ /\ ctx[e].approval # 0 /\ i = ctx[e].index
       /\ approvals[ctx[e].approval].done
RecoveredTo(e, n) ==
    \A i \in 1..Len(ctx[e].calls) :
        i < n /\ HasResult(e, i) => Told(<<e, ctx[e].round, i>>)

(* A run that cancels has the last checkpoint, and tells its results in      *)
(* order; with the outcome all of them are told.                             *)
CancellingFits ==
    \A w \in Workers : run[w].pc = "cancelling" /\ Mem(w).pending =>
        Frozen(At(w)) /\ Mem(w) = ctx[At(w)] /\ RecoveredTo(At(w), run[w].next)
OverIsTold ==
    \A e \in Executions : exec[e].status \in Terminal =>
        RecoveredTo(e, Len(ctx[e].calls) + 1)

(* A call that changed something is left only when its result is told. *)
BeyondIsTold == \A s \in Steps : Beyond(ctx[s[1]], s) /\ Did(s) # {} => Told(s)

TellingFits == ToldFits /\ DoneFits /\ CancellingFits /\ OverIsTold /\ BeyondIsTold

Telling == Basis /\ EffectsFit /\ TellingFits

(* How the owner w rewrites the results of checkpoint c to those of d. *)
Rewrites(w, c, d) ==
    \/ /\ d.round = c.round + 1 /\ c.index = Len(c.calls) + 1
       /\ \A i \in 1..Len(d.calls) : ~d.calls[i].done
    \/ /\ d.round = c.round /\ Len(d.calls) = Len(c.calls)
       /\ \A i \in 1..Len(c.calls) :
            d.calls[i].done = c.calls[i].done /\ d.calls[i].result = c.calls[i].result
       /\ d.index = c.index \/ (d.index = c.index + 1 /\ run[w].pc = "cursor")
    \/ /\ d.round = c.round /\ Len(d.calls) = Len(c.calls) /\ d.index = c.index
       /\ \A i \in 1..Len(c.calls) \ {c.index} : d.calls[i] = c.calls[i]
       /\ CallOf(d).done /\ CallOf(d).result = run[w].held /\ run[w].pc \in Holding
       /\ c.index \in 1..Len(c.calls)

LEMMA ResultsMove ==
  ASSUME Basis, [Next]_vars, NEW e \in Executions
  PROVE  \/ ctx'[e] = ctx[e]
         \/ \E w \in Workers :
              /\ Owns(e, w) /\ At(w) = e /\ Mem(w) = ctx[e]
              /\ UNCHANGED <<approvals, receipts, effects, shown>>
              /\ run[w].pc \notin Winding /\ Rewrites(w, ctx[e], ctx'[e])
<1> DEFINE c == ctx[e]
           d == ctx'[e]
<1>1. c \in Context /\ d \in Context /\ TurnIsProper(c) /\ TurnIsProper(d)
  BY ShapeKept DEF Basis, TypeOK, Shape
<1>2. /\ c.round \in Nat /\ c.index \in Nat /\ c.calls \in Seq(Call) /\ Len(c.calls) \in Nat
      /\ c.index >= 1
  BY <1>1, LenProperties DEF Context
<1> HIDE DEF c, d
<1>3. ASSUME NEW w \in Workers, At(w) = e, Mem(w) = c, Written(w, e, c, d)
      PROVE  run[w].pc \notin Winding /\ Rewrites(w, c, d)
  <2>1. run[w].pc \in Working \cup Showing => c.index <= Len(c.calls) /\ c.pending
    BY <1>3 DEF Basis, Shape, RunFits, Mem
  <2>2. ASSUME SaveTurn(w), NEW calls \in Turns, d = NewTurn(c, calls), ~c.pending,
               c.round < MaxRounds
        PROVE  run[w].pc \notin Winding /\ Rewrites(w, c, d)
    <3>1. d.round = c.round + 1 /\ d.calls = calls BY <1>1, <2>2, NewTurnFields
    <3>2. c.index = Len(c.calls) + 1 BY <1>1, <2>2 DEF TurnIsProper
    <3>3. \A i \in 1..Len(d.calls) : ~d.calls[i].done BY <3>1, TurnsAreProper
    <3>4. run[w].pc \notin Winding BY <2>2 DEF SaveTurn, NeedsModel, Winding
    <3> QED BY <3>1, <3>2, <3>3, <3>4 DEF Rewrites
  <2>3. ASSUME ClearTurn(w), d = Cleared(c), c.index > Len(c.calls)
        PROVE  run[w].pc \notin Winding /\ Rewrites(w, c, d)
    <3>1. d.round = c.round /\ d.calls = c.calls /\ d.index = c.index
      BY <1>1, <2>3, ClearedFields
    <3>2. run[w].pc \notin Winding BY <2>3 DEF ClearTurn, InTurn, Winding
    <3> QED BY <3>1, <3>2 DEF Rewrites
  <2>4. ASSUME SaveAwaiting(w), d = Awaiting(c, run[w].next)
        PROVE  run[w].pc \notin Winding /\ Rewrites(w, c, d)
    <3>1. d.round = c.round /\ d.calls = c.calls /\ d.index = c.index
      BY <1>1, <2>4 DEF Awaiting, Context
    <3>2. run[w].pc \notin Winding BY <2>4 DEF SaveAwaiting, Winding
    <3> QED BY <3>1, <3>2 DEF Rewrites
  <2>5. ASSUME SaveRetrieval(w), d = Retrieving(c)
        PROVE  run[w].pc \notin Winding /\ Rewrites(w, c, d)
    <3>1. c.pending /\ c.index <= Len(c.calls) /\ CallOf(c).tool \in Retrievals
          /\ run[w].pc \notin Winding
      BY <1>3, <2>5 DEF SaveRetrieval, AtRetrieval, CallIs, AtCall, InTurn, Cursor, CallOf, Winding
    <3>2. /\ d.round = c.round /\ d.index = c.index /\ Len(d.calls) = Len(c.calls)
          /\ \A i \in 1..Len(c.calls) : i # c.index => d.calls[i] = c.calls[i]
          /\ CallOf(d).done = CallOf(c).done /\ CallOf(d).result = CallOf(c).result
      BY <1>1, <2>5, <3>1, RetrievingFields
    <3> QED BY <3>1, <3>2 DEF Rewrites, CallOf
  <2>6. ASSUME SaveResult(w), d = Resulting(c, run[w].held, Exchange(w))
        PROVE  run[w].pc \notin Winding /\ Rewrites(w, c, d)
    <3>1. run[w].pc \in Holding /\ run[w].pc \in Working BY <2>6 DEF SaveResult, Holding, Working
    <3>2. c.index \in 1..Len(c.calls) /\ c.pending BY <1>2, <2>1, <3>1
    <3>3. d.calls = [c.calls EXCEPT ![c.index] =
                       [CallOf(c) EXCEPT !.done = TRUE, !.result = run[w].held]]
          /\ d.round = c.round /\ d.index = c.index
      BY <1>1, <2>6 DEF Resulting, Context, CallOf
    <3>4. CallOf(c) \in Call /\ c.calls \in [1..Len(c.calls) -> Call]
      BY <1>2, <3>2, ElementOfSeq, LenProperties DEF CallOf
    <3>5. /\ Len(d.calls) = Len(c.calls)
          /\ \A i \in 1..Len(c.calls) \ {c.index} : d.calls[i] = c.calls[i]
          /\ CallOf(d) = [CallOf(c) EXCEPT !.done = TRUE, !.result = run[w].held]
      BY <1>2, <3>2, <3>3, <3>4 DEF CallOf
    <3>6. CallOf(d).done /\ CallOf(d).result = run[w].held BY <3>4, <3>5 DEF Call
    <3>7. run[w].pc \notin Winding BY <3>1 DEF Holding, Winding
    <3> QED BY <3>1, <3>2, <3>3, <3>5, <3>6, <3>7 DEF Rewrites
  <2>7. ASSUME SaveCursor(w), d = Advanced(c)
        PROVE  run[w].pc \notin Winding /\ Rewrites(w, c, d)
    <3>1. d.round = c.round /\ d.calls = c.calls /\ d.index = c.index + 1
      BY <1>1, <2>7 DEF Advanced, Context
    <3>2. run[w].pc = "cursor" /\ run[w].pc \notin Winding
      BY <2>7 DEF SaveCursor, Winding
    <3> QED BY <3>1, <3>2 DEF Rewrites
  <2> QED BY <1>3, <2>2, <2>3, <2>4, <2>5, <2>6, <2>7 DEF Written
<1> QED BY <1>3, ContextsMove DEF c, d

(* While nobody is at work on a call of e, nothing of its calls changes. *)
LEMMA QuietStands ==
  ASSUME Basis, [Next]_vars, NEW e \in Executions, Quiet(e)
  PROVE  /\ ctx'[e] = ctx[e]
         /\ \A s \in Steps : s[1] = e => Did(s)' = Did(s) /\ (s \in receipts' => s \in receipts)
         /\ ctx[e].approval # 0 /\ approvals'[ctx[e].approval].done =>
              approvals[ctx[e].approval].done
<1>1. ctx'[e] = ctx[e] BY ResultsMove DEF Quiet
<1>2. ASSUME NEW w \in Workers, NEW t, Changer(w, t) PROVE Step(w)[1] # e
  BY <1>2 DEF Changer, Quiet, Winding, Step, StepOf
<1>3. ASSUME NEW s \in Steps, s[1] = e PROVE Did(s)' = Did(s)
  <2>1. ASSUME NEW w \in Workers, NEW t, Changer(w, t) PROVE Did(s)' = Did(s)
    <3>1. s # Step(w) BY <1>2, <1>3, <2>1
    <3> QED BY <2>1, <3>1 DEF Changer
  <2> QED BY <2>1, DidMoves
<1>4. ASSUME NEW s \in Steps, s[1] = e, s \in receipts' PROVE s \in receipts
  <2>1. ASSUME NEW w \in Workers, Adds(w) PROVE s \in receipts
    <3>1. Changer(w, Stock) /\ receipts' = receipts \cup {Step(w)} BY <2>1, ChangersAre
    <3> QED BY <1>2, <1>4, <3>1
  <2>2. ASSUME NEW w \in Workers, ChangesOne(w) \/ ChangesChild(w) PROVE UNCHANGED receipts
    BY <2>2, ChangersAre
  <2> QED BY <1>4, <2>1, <2>2, EffectsMove
<1>5. ASSUME NEW n, n = ctx[e].approval, n # 0, approvals'[n].done PROVE approvals[n].done
  <2>1. n \in 1..Len(approvals) /\ approvals[n].for = StepAt(e) BY <1>5, AtItsCursor
  <2>2. CASE UNCHANGED approvals BY <1>5, <2>2
  <2>3. CASE RequestIsMade BY <1>5, <2>1, <2>3 DEF RequestIsMade
  <2>4. ASSUME NEW k, AmendedAt(k), Amends(k, approvals[k], approvals'[k])
        PROVE  approvals[n].done
    <3>1. CASE k # n BY <1>5, <2>1, <2>4, <3>1 DEF AmendedAt
    <3>2. ASSUME k = n, Settled(k, approvals[k], approvals'[k]) PROVE FALSE
      <4>1. PICK w \in Workers :
              k = Mem(w).approval /\ Owns(At(w), w) /\ run[w].pc \in Deciding
        BY <3>2 DEF Settled
      <4>2. Step(w) = StepAt(e) BY <2>1, <3>2, <4>1, DeciderIs
      <4>3. At(w) = e BY <4>2 DEF Step, StepOf, StepAt
      <4> QED BY <4>1, <4>3 DEF Quiet, Winding, Deciding
    <3> QED BY <1>5, <2>4, <3>1, <3>2 DEF Amends, Same, PartChanged
  <2>5. ASSUME NEW w \in Workers, Adds(w) PROVE UNCHANGED approvals BY <2>5, ChangersAre
  <2> QED BY <2>2, <2>3, <2>4, <2>5, StepsAre DEF StepIs
<1> QED BY <1>1, <1>3, <1>4, <1>5

(* A cancelled execution that nobody works on stays so, and so does one that *)
(* has its outcome.                                                          *)
LEMMA FrozenStays ==
  ASSUME Basis, [Next]_vars, NEW e \in Executions, Frozen(e)
  PROVE  Frozen(e)'
<1>1. e \in cancellations' BY CancellationsStay DEF Frozen, Basis
<1>2. ASSUME NEW w \in Workers, Owns(e, w)' PROVE run'[w].pc \in Winding
  BY <1>2, OwnerStays DEF Frozen, Quiet, Basis
<1> QED BY <1>1, <1>2 DEF Frozen, Quiet, Winding

LEMMA OverIsQuiet ==
  ASSUME Basis, NEW e \in Executions, exec[e].status \in Terminal
  PROVE  Quiet(e)
  BY DEF Basis, OwnerIsCurrent, Quiet, Owns, Winding

(* What is shown stays. *)
LEMMA ToldStays ==
  ASSUME [Next]_vars
  PROVE  shown \subseteq shown' /\ \A s : Told(s) => Told(s)'
<1>1. shown \subseteq shown'
  BY EventsMove DEF Pause, Enrich, Retrieve, Publish, ShowResult, Recover, Show, eventVars
<1> QED BY <1>1 DEF Told

LEMMA ShowTells ==
  ASSUME NEW s, NEW claims, Show(s, claims)
  PROVE  Told(s)' /\ (UNCHANGED shown \/ (~Told(s) /\ shown' = shown \cup {<<s, claims>>}))
<1>1. CASE Told(s) BY <1>1 DEF Told, Show
<1>2. CASE ~Told(s)
  <2>1. shown' = shown \cup {<<s, claims>>} BY <1>2 DEF Told, Show
  <2>2. <<s, claims>> \in shown' /\ <<s, claims>>[1] = s BY <2>1
  <2> QED BY <1>2, <2>1, <2>2 DEF Told
<1> QED BY <1>1, <1>2

(* A checkpoint moves beyond a call only when its result is told. *)
LEMMA LeftIsTold ==
  ASSUME Telling, [Next]_vars, NEW s \in Steps, NEW e \in Executions, e = s[1]
  PROVE  /\ AtStep(ctx[e], s) => AtStep(ctx'[e], s) \/ (Beyond(ctx'[e], s) /\ Told(s))
         /\ AtStep(ctx[e], s) /\ CallOf(ctx[e]).done =>
              (AtStep(ctx'[e], s) /\ CallOf(ctx'[e]).done) \/ (Beyond(ctx'[e], s) /\ Told(s))
<1> DEFINE c == ctx[e]
           d == ctx'[e]
<1>1. /\ c \in Context /\ d \in Context /\ Onward(c, d)
  BY ContextsMoveOn DEF Telling
<1>2. /\ c.index \in Nat /\ Len(c.calls) \in Nat /\ c.round \in Nat
  BY <1>1, LenProperties DEF Context
<1> HIDE DEF c, d
<1>3. CASE d = c BY <1>3 DEF c, d
<1>4. ASSUME AtStep(c, s), NEW w \in Workers, At(w) = e, Mem(w) = c, Rewrites(w, c, d),
             run[w].pc \notin Winding
      PROVE  /\ AtStep(d, s) \/ (Beyond(d, s) /\ Told(s))
             /\ CallOf(c).done => (AtStep(d, s) /\ CallOf(d).done) \/ (Beyond(d, s) /\ Told(s))
  <2>1. c.index \in 1..Len(c.calls) /\ s = <<e, c.round, c.index>>
    BY <1>1, <1>2, <1>4 DEF AtStep, Context, Steps
  <2>2. CASE d.index = c.index /\ d.round = c.round
    BY <1>1, <1>2, <1>4, <2>1, <2>2 DEF Rewrites, AtStep, CallOf, Onward
  <2>3. CASE d.index = c.index + 1 /\ d.round = c.round /\ run[w].pc = "cursor"
    <3>1. Told(Step(w)) BY <2>3 DEF Telling, TellingFits, DoneFits
    <3>2. Step(w) = s BY <1>4, <2>1 DEF Step, StepOf
    <3>3. Beyond(d, s) BY <1>2, <2>1, <2>3 DEF Beyond
    <3> QED BY <3>1, <3>2, <3>3
  <2> QED BY <1>2, <1>4, <2>1, <2>2, <2>3 DEF Rewrites
<1> QED BY <1>3, <1>4, ResultsMove DEF Telling, c, d

(* A closed call stays closed, and changes nothing. *)
LEMMA ClosedStays ==
  ASSUME Telling, [Next]_vars, NEW s \in Steps, Closed(s)
  PROVE  Closed(s)' /\ Did(s)' = Did(s)
<1>1. PICK e \in Executions : e = s[1] BY DEF Steps
<1>2. Closed(s)'
  <2>1. CASE Told(s) BY <2>1, ToldStays DEF Closed
  <2>2. CASE AtStep(ctx[e], s) /\ CallOf(ctx[e]).done
    <3>1. Told(s)' \/ (AtStep(ctx'[e], s) /\ CallOf(ctx'[e]).done)
      BY <1>1, <2>2, LeftIsTold, ToldStays
    <3> QED BY <1>1, <3>1 DEF Closed, AtStep, CallOf
  <2> QED BY <1>1, <2>1, <2>2 DEF Closed
<1>3. ASSUME NEW w \in Workers, NEW t, Changer(w, t) PROVE s # Step(w)
  <2> SUFFICES ASSUME s = Step(w) PROVE FALSE OBVIOUS
  <2>1. /\ At(w) = e /\ Owns(e, w) /\ AtStep(ctx[e], s) /\ ~CallOf(ctx[e]).done
        /\ run[w].pc \in {"work", "approved", "children"}
    BY <1>1, <1>3 DEF Changer, Step, StepOf
  <2>2. Told(s) BY <1>1, <2>1 DEF Closed
  <2>3. Frozen(e) \/ Beyond(ctx[e], s)
    BY <1>1, <2>1, <2>2 DEF Telling, TellingFits, ToldFits
  <2>4. ~Frozen(e) BY <2>1 DEF Frozen, Quiet, Winding
  <2>5. ~Beyond(ctx[e], s) BY <2>1, ContextsMoveOn, OnwardSteps DEF Telling
  <2> QED BY <2>3, <2>4, <2>5
<1>4. ASSUME NEW w \in Workers, NEW t, Changer(w, t) PROVE Did(s)' = Did(s)
  <2>1. Did(s)' = IF s = Step(w) THEN Did(s) \cup {t} ELSE Did(s) BY <1>4 DEF Changer
  <2> QED BY <1>3, <1>4, <2>1
<1> QED BY <1>2, <1>4, DidMoves DEF Telling

(* How a run gets to the cursor, and to the cancellation of its calls.       *)
ToCursor(w) ==
    run'[w].pc = "cursor" =>
        ShowResult(w) /\ run'[w].at = At(w) /\ run'[w].mem = Mem(w)
ToCancelling(w) ==
    run'[w].pc = "cancelling" =>
        /\ run'[w].at = At(w) /\ run'[w].mem = Mem(w)
        /\ \/ BeginStage(w) /\ At(w) \in cancellations /\ run'[w].next = 1
           \/ ~Mem(w).pending
           \/ Recover(w) /\ run'[w].next = run[w].next + 1

LEMMA Starts ==
  ASSUME TypeOK, NEW w \in Workers, NEW e \in Executions, Start(w, e)
  PROVE  \/ run'[w].pc = "publishing" /\ run'[w].mem = Blank
         \/ run'[w].pc = "begin" /\ run'[w].at = e /\ run'[w].mem = ctx[e]
<1>1. run \in [Workers -> Run] BY DEF TypeOK
<1>2. CASE run' = [run EXCEPT ![w] = [Idle EXCEPT !.at = e, !.pc = "publishing"]]
  BY <1>1, <1>2 DEF Idle
<1>3. CASE run' = [run EXCEPT ![w] = [Idle EXCEPT !.at = e, !.pc = "begin", !.mem = ctx[e]]]
  BY <1>1, <1>3 DEF Idle
<1> QED BY <1>2, <1>3 DEF Start

LEMMA WaysOut ==
  ASSUME TypeOK, Shape, NEW w \in Workers, RunStep(w)
  PROVE  ToCursor(w) /\ ToCancelling(w)
<1> DEFINE good == ToCursor(w) /\ ToCancelling(w)
<1>1. run \in [Workers -> Run] BY DEF TypeOK
<1> DEFINE Elsewhere == {"begin", "work", "publishing", "requested", "approved", "rejecting",
                         "children", "rejectchild", "retrieve", "fetched", "enrich", "enriched", "result",
                         "interrupted", "saved"}
<1>2. Elsewhere \subseteq Places /\ {"cursor", "cancelling"} \subseteq Places
      /\ Elsewhere \cap {"cursor", "cancelling"} = {}
  BY DEF Places, Working, Deciding, Showing
<1>3. ASSUME NEW pc \in Elsewhere,
             \/ Goto(w, pc)
             \/ \E h : GotoHolding(w, pc, h)
             \/ \E n : GotoNext(w, pc, n)
             \/ \E s, m : Save(w, s, m, pc)
      PROVE  good
  <2>1. pc \in Places /\ pc # "cursor" /\ pc # "cancelling" BY <1>2
  <2>2. \E m, k, n : Moved(w, pc, m, k, n) BY <1>1, <1>3, <2>1, Moves, Zenon
  <2> QED BY <2>1, <2>2 DEF Moved, ToCursor, ToCancelling
<1>4. ASSUME NEW pc \in Elsewhere PROVE Goto(w, pc) => good BY <1>3, <1>4
<1>5. ASSUME NEW pc \in Elsewhere, NEW h PROVE GotoHolding(w, pc, h) => good BY <1>3, <1>5
<1>6. ASSUME NEW pc \in Elsewhere, NEW n PROVE GotoNext(w, pc, n) => good BY <1>3, <1>6
<1>7. ASSUME NEW pc \in Elsewhere, NEW s, NEW m PROVE Save(w, s, m, pc) => good
  BY <1>3, <1>7
<1>8. ASSUME NEW n, GotoNext(w, "cancelling", n)
      PROVE  /\ run'[w].pc = "cancelling" /\ run'[w].at = At(w) /\ run'[w].mem = Mem(w)
             /\ run'[w].next = n
  <2>1. "cancelling" \in Places BY <1>2
  <2>2. Moved(w, "cancelling", Mem(w), run[w].held, n) BY <1>1, <1>8, <2>1, Moves, Zenon
  <2> QED BY <2>2 DEF Moved, At
<1>9. Goto(w, "cursor") =>
        run'[w].pc = "cursor" /\ run'[w].at = At(w) /\ run'[w].mem = Mem(w)
  BY <1>1, <1>2, Moves, Zenon DEF Moved, At
<1>10. EndRun(w) => good
  BY <1>1 DEF EndRun, Idle, ToCursor, ToCancelling
<1> SUFFICES good OBVIOUS
<1> HIDE DEF good
<1>11. CASE TurnStep(w)
  <2>1. CASE GiveUp(w)
    <3>1. CASE GotoNext(w, "cancelling", 1)
      BY <1>8, <2>1, <3>1 DEF GiveUp, NeedsModel, good, ToCursor, ToCancelling
    <3> QED BY <1>7, <2>1, <3>1 DEF GiveUp
  <2>2. CASE SaveTurn(w) BY <1>4, <1>5, <1>6, <1>7, <2>2 DEF SaveTurn
  <2>3. CASE Complete(w) \/ ClearTurn(w) BY <1>4, <1>5, <1>6, <1>7, <2>3 DEF Complete, ClearTurn
  <2> QED BY <1>11, <2>1, <2>2, <2>3 DEF TurnStep
<1>12. CASE ApprovalStep(w)
  <2>1. CASE Request(w) \/ SaveAwaiting(w) BY <1>4, <1>5, <1>6, <1>7, <2>1 DEF Request, SaveAwaiting
  <2>2. CASE Pause(w) BY <1>10, <2>2 DEF Pause
  <2>3. CASE Consult(w) BY <1>4, <1>5, <1>6, <1>7, <2>3 DEF Consult
  <2>4. CASE ExecuteOne(w) BY <1>4, <1>5, <1>6, <1>7, <2>4 DEF ExecuteOne
  <2>5. CASE RejectOne(w) \/ StartBatch(w) BY <1>4, <1>5, <1>6, <1>7, <2>5 DEF RejectOne, StartBatch
  <2>6. CASE ExecuteChild(w) BY <1>4, <1>5, <1>6, <1>7, <2>6 DEF ExecuteChild
  <2>7. CASE RejectedChild(w) \/ EndBatch(w) BY <1>4, <1>5, <1>6, <1>7, <2>7 DEF RejectedChild, EndBatch
  <2> QED BY <1>12, <2>1, <2>2, <2>3, <2>4, <2>5, <2>6, <2>7 DEF ApprovalStep
<1>13. CASE EffectStep(w)
  <2>1. CASE ExecuteAddition(w) BY <1>4, <1>5, <1>6, <1>7, <2>1 DEF ExecuteAddition
  <2>2. CASE Enrich(w) \/ ReportInterrupted(w)
    BY <1>4, <1>5, <1>6, <1>7, <2>2 DEF Enrich, ReportInterrupted
  <2>3. CASE SaveRetrieval(w) \/ Retrieve(w) BY <1>4, <1>5, <1>6, <1>7, <2>3 DEF SaveRetrieval, Retrieve
  <2>4. CASE StageSpecs(w) \/ SaveEnrichment(w)
    BY <1>4, <1>5, <1>6, <1>7, <2>4 DEF StageSpecs, SaveEnrichment
  <2> QED BY <1>13, <2>1, <2>2, <2>3, <2>4 DEF EffectStep
<1>14. CASE ResultStep(w)
  <2>1. CASE ShowResult(w)
    BY <1>9, <2>1 DEF ShowResult, good, ToCursor, ToCancelling
  <2>2. CASE Recover(w)
    BY <1>8, <2>2 DEF Recover, good, ToCursor, ToCancelling
  <2>3. CASE SaveResult(w) \/ SaveCursor(w) BY <1>4, <1>5, <1>6, <1>7, <2>3 DEF SaveResult, SaveCursor
  <2>4. CASE SaveCancelled(w) BY <1>4, <1>5, <1>6, <1>7, <2>4 DEF SaveCancelled
  <2> QED BY <1>14, <2>1, <2>2, <2>3, <2>4 DEF ResultStep
<1>15. CASE BeginStage(w)
  <2>1. CASE At(w) \in cancellations
    BY <1>8, <1>15, <2>1 DEF BeginStage, good, ToCursor, ToCancelling
  <2>2. CASE At(w) \notin cancellations BY <1>15, <1>6, <2>2 DEF BeginStage
  <2> QED BY <2>1, <2>2
<1>16. CASE Leave(w) \/ Publish(w) BY <1>10, <1>16 DEF Leave, Publish
<1>17. ASSUME NEW e \in Executions, Start(w, e) PROVE good
  <2>1. run'[w].pc = "publishing" \/ run'[w].pc = "begin" BY <1>17, Starts
  <2> QED BY <2>1 DEF good, ToCursor, ToCancelling
<1> QED BY <1>11, <1>12, <1>13, <1>14, <1>15, <1>16, <1>17 DEF RunStep

(* A run keeps its copy of the checkpoint, makes it the checkpoint, or takes *)
(* the checkpoint.                                                           *)
LEMMA CopiesMove ==
  ASSUME TypeOK, Shape, [Next]_vars, NEW w \in Workers, run'[w].pc # "idle"
  PROVE  \/ run[w].pc # "idle" /\ run'[w].at = At(w) /\ run'[w].mem = Mem(w)
         \/ run'[w].at \in Executions /\ run'[w].mem = ctx'[run'[w].at]
         \/ run'[w].mem = Blank
<1> DEFINE good == \/ run[w].pc # "idle" /\ run'[w].at = At(w) /\ run'[w].mem = Mem(w)
                   \/ run'[w].at \in Executions /\ run'[w].mem = ctx'[run'[w].at]
                   \/ run'[w].mem = Blank
<1>1. run \in [Workers -> Run] /\ ctx \in [Executions -> Context] BY DEF TypeOK
<1>2. CASE run'[w] = run[w] BY <1>2 DEF At, Mem
<1>3. CASE GoesOn(w) BY <1>3 DEF GoesOn, Moved, At
<1>4. CASE Ends(w) BY <1>1, <1>4 DEF Ends, EndRun, Idle
<1>5. ASSUME NEW s, NEW m, NEW pc, Saves(w, s, m, pc) PROVE good
  <2>1. run[w].pc # "idle" /\ Save(w, s, m, pc) BY <1>5 DEF Saves
  <2>2. At(w) \in Executions BY <2>1, RunIs
  <2>3. run'[w].at = At(w) /\ run'[w].mem = m /\ ctx'[At(w)] = m
    BY <1>1, <2>1, <2>2 DEF Save, At, Run
  <2> QED BY <2>2, <2>3
<1>6. ASSUME NEW e \in Executions, Start(w, e) PROVE good
  <2>1. UNCHANGED ctx BY <1>6 DEF Start
  <2> QED BY <1>6, <2>1, Starts
<1>7. ASSUME RunStep(w) PROVE good
  BY <1>3, <1>4, <1>5, <1>6, <1>7, RunsMove, Zenon DEF RunMoves
<1> QED BY <1>2, <1>7, RunStays

(* The results of a checkpoint stay what the calls changed. *)
LEMMA ResultsStay ==
  ASSUME Telling, [Next]_vars, NEW e, NEW m, ResultsFit(e, m)
  PROVE  ResultsFit(e, m)'
<1> SUFFICES ASSUME NEW i \in 1..Len(m.calls), NEW s, m.calls[i].done, s = <<e, m.round, i>>
             PROVE  m.calls[i].result = Did(s)' /\ s \in Steps /\ Closed(s)'
  BY DEF ResultsFit
<1>1. m.calls[i].result = Did(s) /\ s \in Steps /\ Closed(s) BY DEF ResultsFit
<1> QED BY <1>1, ClosedStays

LEMMA DoneKept ==
  ASSUME Telling, [Next]_vars
  PROVE  DoneFits'
<1>1. ASSUME NEW e \in Executions, NEW c, NEW d, c = ctx[e], d = ctx'[e]
      PROVE  ResultsFit(e, d)'
  <2>1. ResultsFit(e, c)' BY <1>1, ResultsStay DEF Telling, TellingFits, DoneFits
  <2>2. CASE d = c BY <2>1, <2>2
  <2>3. ASSUME NEW w \in Workers, Owns(e, w), At(w) = e, Mem(w) = c, Rewrites(w, c, d),
               UNCHANGED effects
        PROVE  ResultsFit(e, d)'
    <3> SUFFICES ASSUME NEW i \in 1..Len(d.calls), NEW s, d.calls[i].done,
                        s = <<e, d.round, i>>
                 PROVE  d.calls[i].result = Did(s)' /\ s \in Steps /\ Closed(s)'
      BY DEF ResultsFit
    <3>1. /\ d.round = c.round /\ i \in 1..Len(c.calls)
          /\ \/ c.calls[i].done /\ d.calls[i].result = c.calls[i].result
             \/ /\ i = c.index /\ i = d.index /\ d.calls[i].result = run[w].held
                /\ run[w].pc \in Holding
      BY <2>3 DEF Rewrites, CallOf
    <3>2. CASE c.calls[i].done /\ d.calls[i].result = c.calls[i].result
      BY <2>1, <3>1, <3>2 DEF ResultsFit
    <3>3. CASE /\ i = c.index /\ i = d.index /\ d.calls[i].result = run[w].held
               /\ run[w].pc \in Holding
      <4>1. s = Step(w) /\ s = StepAt(e) BY <1>1, <2>3, <3>1, <3>3 DEF Step, StepOf, StepAt
      <4>2. run[w].held = Did(s)
        BY <2>3, <3>3, <4>1 DEF Telling, EffectsFit, OwnerDid, Holding
      <4>3. Did(s)' = Did(s) BY <2>3 DEF Did
      <4>4. c.index <= Len(c.calls)
        BY <1>1, <3>1, <3>3, LenProperties, AtItsCursor DEF Telling, Context
      <4>5. s \in Steps /\ s[1] = e BY <1>1, <4>1, <4>4, AtItsCursor DEF Telling
      <4>6. Len(d.calls) \in Nat
        BY <1>1, ContextsMoveOn, LenProperties DEF Telling, Context
      <4>7. AtStep(d, s) /\ CallOf(d).done BY <3>3, <4>6 DEF AtStep, CallOf
      <4>8. Closed(s)' BY <1>1, <4>5, <4>7 DEF Closed, AtStep, CallOf
      <4> QED BY <3>3, <4>2, <4>3, <4>5, <4>8
    <3> QED BY <3>1, <3>2, <3>3
  <2> QED BY <1>1, <2>2, <2>3, ResultsMove DEF Telling
<1>2. ASSUME NEW w \in Workers, NEW f, NEW m, run'[w].pc # "idle", f = run'[w].at,
             m = run'[w].mem
      PROVE  ResultsFit(f, m)'
  <2>1. CASE run[w].pc # "idle" /\ f = At(w) /\ m = Mem(w)
    BY <2>1, ResultsStay DEF Telling, TellingFits, DoneFits
  <2>2. CASE f \in Executions /\ m = ctx'[f] BY <1>1, <2>2
  <2>3. CASE m = Blank
    <3>1. Len(m.calls) = 0 BY <2>3 DEF Blank
    <3> QED BY <3>1 DEF ResultsFit
  <2> QED BY <1>2, <2>1, <2>2, <2>3, CopiesMove DEF Telling, Basis
<1>3. ASSUME NEW w \in Workers, run'[w].pc = "cursor" PROVE Told(Step(w))'
  <2>1. PICK s : s = Step(w) OBVIOUS
  <2>2. ASSUME run'[w].at = At(w), run'[w].mem = Mem(w), Told(s)' PROVE Told(Step(w))'
    BY <2>1, <2>2 DEF Told, Step, StepOf, At, Mem
  <2>3. CASE run'[w] = run[w]
    <3>1. Told(s) BY <1>3, <2>1, <2>3 DEF Telling, TellingFits, DoneFits
    <3> QED BY <2>2, <2>3, <3>1, ToldStays DEF At, Mem
  <2>4. CASE RunStep(w)
    <3>1. ShowResult(w) /\ run'[w].at = At(w) /\ run'[w].mem = Mem(w)
      BY <1>3, <2>4, WaysOut DEF Telling, Basis, ToCursor
    <3>2. Told(s)' BY <2>1, <3>1, ShowTells DEF ShowResult
    <3> QED BY <2>2, <3>1, <3>2
  <2> QED BY <1>3, <2>3, <2>4, RunStays DEF Telling, Basis
<1>4. ASSUME NEW e \in Executions PROVE ResultsFit(e, ctx[e])'
  <2>1. PICK d : d = ctx'[e] OBVIOUS
  <2>2. ResultsFit(e, d)' BY <1>1, <2>1
  <2> QED BY <2>1, <2>2 DEF ResultsFit, Did, Closed, Told, AtStep, CallOf
<1>5. ASSUME NEW w \in Workers, run'[w].pc # "idle" PROVE ResultsFit(At(w), Mem(w))'
  <2>1. PICK f, m : f = run'[w].at /\ m = run'[w].mem OBVIOUS
  <2>2. ResultsFit(f, m)' BY <1>2, <1>5, <2>1
  <2> SUFFICES ASSUME NEW i \in 1..Len(m.calls), NEW s, m.calls[i].done, s = <<f, m.round, i>>
               PROVE  /\ m.calls[i].result = Did(<<At(w), Mem(w).round, i>>)'
                      /\ s \in Steps /\ Closed(<<At(w), Mem(w).round, i>>)'
    BY <2>1 DEF ResultsFit, At, Mem
  <2>3. m.calls[i].result = Did(s)' /\ s \in Steps /\ Closed(s)' BY <2>2 DEF ResultsFit
  <2>4. Did(<<At(w), Mem(w).round, i>>)' = Did(s)' BY <2>1 DEF Did, At, Mem
  <2>5. Closed(<<At(w), Mem(w).round, i>>)' <=> Closed(s)'
    BY <2>1 DEF Closed, Told, AtStep, At, Mem
  <2> QED BY <2>3, <2>4, <2>5
<1> QED BY <1>3, <1>4, <1>5 DEF DoneFits

(* What is shown of a call is what it changed, before the outcome, and the   *)
(* call is closed.                                                           *)
Shows(s) ==
    /\ ~Told(s) /\ exec[s[1]].status \notin Terminal
    /\ shown' = shown \cup {<<s, Did(s)>>} /\ UNCHANGED <<effects, exec, ctx>>
    /\ Frozen(s[1]) \/ (AtStep(ctx[s[1]], s) /\ CallOf(ctx[s[1]]).done)

(* What a cancelled call committed. *)
LEMMA CommittedIs ==
  ASSUME Telling, NEW w \in Workers, CancelsCall(w)
  PROVE  LET e == At(w)
             i == run[w].next
             s == StepOf(w, i)
         IN  /\ s \in Steps /\ e \in Executions /\ Frozen(e) /\ Mem(w) = ctx[e]
             /\ i \in 1..Len(ctx[e].calls) /\ s = <<e, ctx[e].round, i>>
             /\ \A claims \in Committed(w, i) : claims = Did(s)
             /\ HasResult(e, i) <=> Committed(w, i) # {}
<1>1. PICK e, i, s : e = At(w) /\ i = run[w].next /\ s = StepOf(w, i) OBVIOUS
<1>2. s \in Steps BY <1>1, CommittedTypes DEF Telling, Basis
<1>3. run[w].pc = "cancelling" /\ Mem(w).pending /\ i <= Len(Mem(w).calls)
  BY <1>1 DEF CancelsCall
<1>4. e \in Executions /\ i \in Nat /\ i >= 1
  BY <1>1, <1>3, RunIs DEF Telling, Basis, RunFits
<1>5. Frozen(e) /\ Mem(w) = ctx[e]
  BY <1>1, <1>3 DEF Telling, TellingFits, CancellingFits
<1>6. PICK c : c = ctx[e] OBVIOUS
<1>7. /\ c \in Context /\ TurnIsProper(c) /\ Len(c.calls) \in Nat /\ c.index \in Nat
      /\ c.round \in Nat
  BY <1>4, <1>6, AtItsCursor, LenProperties DEF Telling, Context
<1>8. i \in 1..Len(c.calls) /\ s = <<e, c.round, i>>
  BY <1>1, <1>3, <1>4, <1>5, <1>6, <1>7 DEF StepOf
<1>9. c.calls[i].done => c.calls[i].result = Did(s)
  BY <1>4, <1>6, <1>8 DEF Telling, TellingFits, DoneFits, ResultsFit
<1>10. ASSUME ~c.calls[i].done, i = c.index
       PROVE  /\ CallDid(c, s) /\ s = StepAt(e)
              /\ c.approval # 0 => CallOf(c).tool \in NeedsApproval
  BY <1>4, <1>6, <1>7, <1>8, <1>10, AtItsCursor
  DEF Telling, EffectsFit, CursorDid, StepAt
<1>11. ASSUME ~c.calls[i].done, s \in receipts PROVE Did(s) = {Stock}
  <2>1. Stock \in Did(s) BY <1>2, <1>11 DEF Telling, EffectsFit, ReceiptsFit
  <2>2. Beyond(c, s) \/ AtStep(c, s)
    BY <1>2, <1>6, <1>8, <2>1 DEF Telling, EffectsFit, UntouchedAhead
  <2>3. i = c.index
    BY <1>7, <1>8, <1>11, <2>2 DEF Beyond, AtStep, TurnIsProper
  <2> QED BY <1>10, <1>11, <2>1, <2>3 DEF CallDid, NeedsApproval
<1>12. ASSUME ~c.calls[i].done, c.approval # 0, i = c.index, approvals[c.approval].done
       PROVE  approvals[c.approval].result = Did(s)
  BY <1>10, <1>12 DEF CallDid, RequestDid, NeedsApproval
<1>13. /\ \A claims \in Committed(w, i) : claims = Did(s)
       /\ HasResult(e, i) <=> Committed(w, i) # {}
  BY <1>1, <1>5, <1>6, <1>8, <1>9, <1>11, <1>12 DEF Committed, HasResult
<1> QED BY <1>1, <1>2, <1>4, <1>5, <1>6, <1>8, <1>13

LEMMA WhatIsTold ==
  ASSUME Telling, [Next]_vars
  PROVE  UNCHANGED shown \/ \E s \in Steps : Shows(s)
<1>1. ASSUME NEW e \in Executions, NEW i \in 1..Len(ctx[e].calls), HasResult(e, i),
             ~Told(<<e, ctx[e].round, i>>)
      PROVE  exec[e].status \notin Terminal
  <2>1. i < Len(ctx[e].calls) + 1 BY AtItsCursor, LenProperties DEF Telling, Context
  <2> QED BY <1>1, <2>1 DEF Telling, TellingFits, OverIsTold, RecoveredTo
<1>2. ASSUME NEW w \in Workers, ShowResult(w)
      PROVE  UNCHANGED shown \/ \E s \in Steps : Shows(s)
  <2>1. run[w].pc # "idle" /\ Mem(w).index <= Len(Mem(w).calls) /\ Cursor(w).done
    BY <1>2 DEF ShowResult, AtCall, InTurn, Telling, Basis, Shape, RunFits, Showing, Mem,
       Cursor, CallOf
  <2>2. Mem(w).index \in 1..Len(Mem(w).calls)
    BY <2>1, RunIs, LenProperties DEF Telling, Basis, Context
  <2>3. PICK s : s = Step(w) OBVIOUS
  <2>4. Cursor(w).result = Did(s) /\ s \in Steps /\ Closed(s)
    BY <2>1, <2>2, <2>3
    DEF Telling, TellingFits, DoneFits, ResultsFit, Step, StepOf, Cursor
  <2>5. Show(s, Did(s)) /\ UNCHANGED <<effects, exec, ctx>>
    BY <1>2, <2>3, <2>4 DEF ShowResult, inventoryVars, executionVars
  <2>6. ASSUME ~Told(s)
        PROVE  /\ AtStep(ctx[s[1]], s) /\ CallOf(ctx[s[1]]).done
               /\ exec[s[1]].status \notin Terminal
    <3>1. AtStep(ctx[s[1]], s) /\ CallOf(ctx[s[1]]).done BY <2>4, <2>6 DEF Closed
    <3>2. PICK e \in Executions : e = s[1] BY <2>4 DEF Steps
    <3>3. s[3] \in 1..Len(ctx[e].calls) /\ HasResult(e, s[3])
      BY <2>4, <3>1, <3>2, AtItsCursor, LenProperties
      DEF AtStep, HasResult, CallOf, Steps, Telling, Context
    <3>4. s = <<e, ctx[e].round, s[3]>> BY <2>4, <3>1, <3>2 DEF AtStep, Steps
    <3> QED BY <1>1, <2>6, <3>1, <3>2, <3>3, <3>4
  <2> QED BY <2>4, <2>5, <2>6, ShowTells DEF Shows
<1>3. ASSUME NEW w \in Workers, Recover(w)
      PROVE  UNCHANGED shown \/ \E s \in Steps : Shows(s)
  <2>1. PICK e, i, s : e = At(w) /\ i = run[w].next /\ s = StepOf(w, i) OBVIOUS
  <2>2. /\ s \in Steps /\ e \in Executions /\ Frozen(e)
        /\ i \in 1..Len(ctx[e].calls) /\ s = <<e, ctx[e].round, i>>
        /\ \A claims \in Committed(w, i) : claims = Did(s)
        /\ HasResult(e, i) <=> Committed(w, i) # {}
    BY <1>3, <2>1, CommittedIs DEF Recover
  <2>3. /\ (Show(s, Did(s)) /\ HasResult(e, i)) \/ UNCHANGED shown
        /\ UNCHANGED <<effects, exec, ctx>>
    BY <1>3, <2>1, <2>2 DEF Recover, inventoryVars, executionVars
  <2>4. s[1] = e BY <2>2
  <2> QED BY <1>1, <2>2, <2>3, <2>4, ShowTells DEF Shows
<1>4. ASSUME NEW w \in Workers, Pause(w) \/ Enrich(w) \/ Retrieve(w) \/ Publish(w)
      PROVE  UNCHANGED shown
  BY <1>4 DEF Pause, Enrich, Retrieve, Publish, eventVars
<1> QED BY <1>2, <1>3, <1>4, EventsMove

LEMMA ToldKept ==
  ASSUME Telling, [Next]_vars
  PROVE  ToldFits'
<1> SUFFICES ASSUME NEW s \in Steps, NEW e \in Executions, e = s[1], Told(s)'
             PROVE  \/ Frozen(e)' \/ Beyond(ctx'[e], s)
                    \/ AtStep(ctx'[e], s) /\ CallOf(ctx'[e]).done
  <2>1. \A s \in Steps : s[1] \in Executions BY DEF Steps
  <2>2. ASSUME NEW s \in Steps, NEW e, e = s[1]
        PROVE  /\ Frozen(s[1])' <=> Frozen(e)'
               /\ Beyond(ctx[s[1]], s)' <=> Beyond(ctx'[e], s)
               /\ AtStep(ctx[s[1]], s)' <=> AtStep(ctx'[e], s)
               /\ CallOf(ctx[s[1]])'.done <=> CallOf(ctx'[e]).done
    BY <2>2 DEF Frozen, Quiet, Beyond, AtStep, CallOf
  <2> QED BY <2>1, <2>2 DEF ToldFits
<1>1. Frozen(e) \/ Beyond(ctx[e], s) \/ (AtStep(ctx[e], s) /\ CallOf(ctx[e]).done)
  <2>1. CASE Told(s) BY <2>1 DEF Telling, TellingFits, ToldFits
  <2>2. ASSUME NEW r \in Steps, Shows(r), ~Told(s) PROVE r = s
    BY <2>2 DEF Shows, Told
  <2>3. CASE ~Told(s)
    <3>1. ~UNCHANGED shown BY <2>3 DEF Told
    <3> QED BY <2>2, <2>3, <3>1, WhatIsTold DEF Shows
  <2> QED BY <2>1, <2>3
<1>2. Beyond(ctx[e], s) => Beyond(ctx'[e], s) BY ContextsMoveOn, OnwardSteps DEF Telling
<1> QED BY <1>1, <1>2, FrozenStays, LeftIsTold DEF Telling

(* What a cancellation recovered of a quiet execution stays. *)
LEMMA RecoveredStays ==
  ASSUME Telling, [Next]_vars, NEW e \in Executions, Quiet(e), NEW i \in 1..Len(ctx[e].calls)
  PROVE  /\ ctx'[e] = ctx[e] /\ (HasResult(e, i)' => HasResult(e, i))
         /\ Told(<<e, ctx[e].round, i>>) => Told(<<e, ctx[e].round, i>>)'
<1>1. PICK c : c = ctx[e] OBVIOUS
<1>2. ctx'[e] = c BY <1>1, QuietStands DEF Telling
<1>3. PICK s : s = <<e, c.round, i>> OBVIOUS
<1>4. ASSUME s \in receipts' PROVE s \in receipts
  <2>1. s \in Steps BY <1>4, ShapeKept DEF Telling, Basis, TypeOK, InventoryTypeOK
  <2> QED BY <1>3, <1>4, <2>1, QuietStands DEF Telling
<1>5. ASSUME NEW n, n = c.approval, n # 0, approvals'[n].done PROVE approvals[n].done
  BY <1>1, <1>5, QuietStands DEF Telling
<1>6. HasResult(e, i)' => HasResult(e, i) BY <1>1, <1>2, <1>3, <1>4, <1>5 DEF HasResult
<1>7. Told(s) => Told(s)' BY ToldStays
<1>8. Told(<<e, ctx[e].round, i>>)' <=> Told(s)' BY <1>2, <1>3 DEF Told
<1> QED BY <1>1, <1>2, <1>3, <1>6, <1>7, <1>8

LEMMA CancellingKept ==
  ASSUME Telling, [Next]_vars
  PROVE  CancellingFits'
<1> SUFFICES ASSUME NEW w \in Workers, run'[w].pc = "cancelling", run'[w].mem.pending
             PROVE  /\ Frozen(At(w))' /\ Mem(w)' = ctx'[At(w)']
                    /\ RecoveredTo(At(w), run[w].next)'
  BY DEF CancellingFits, Mem
<1>1. PICK e, m, n : e = At(w) /\ m = Mem(w) /\ n = run'[w].next OBVIOUS
<1>2. ASSUME Frozen(e), m = ctx[e], e \in Executions, run'[w].at = e, run'[w].mem = m,
             \A i \in 1..Len(ctx[e].calls) : i < n /\ HasResult(e, i) =>
                 Told(<<e, ctx[e].round, i>>)'
      PROVE  /\ Frozen(At(w))' /\ Mem(w)' = ctx'[At(w)']
             /\ RecoveredTo(At(w), run[w].next)'
  <2>1. Frozen(e)' /\ Quiet(e) BY <1>2, FrozenStays DEF Telling, Frozen
  <2>2. Frozen(At(w))' BY <1>2, <2>1 DEF Frozen, Quiet, At
  <2>3. ctx'[e] = ctx[e] BY <1>2, <2>1, QuietStands DEF Telling
  <2>4. ASSUME NEW i \in 1..Len(ctx[e].calls), i < n, HasResult(e, i)'
        PROVE  Told(<<e, ctx[e].round, i>>)'
    BY <1>2, <2>1, <2>4, RecoveredStays
  <2>5. RecoveredTo(e, n)' BY <2>3, <2>4 DEF RecoveredTo
  <2>6. RecoveredTo(At(w), run[w].next)'
    BY <1>1, <1>2, <2>5 DEF RecoveredTo, HasResult, Told, At
  <2> QED BY <1>2, <2>2, <2>3, <2>6 DEF At, Mem
<1>3. ASSUME run[w].pc = "cancelling", m.pending
      PROVE  /\ Frozen(e) /\ m = ctx[e] /\ e \in Executions /\ Quiet(e)
             /\ \A i \in 1..Len(ctx[e].calls) : i < run[w].next /\ HasResult(e, i) =>
                  Told(<<e, ctx[e].round, i>>)'
  <2>1. /\ Frozen(e) /\ m = ctx[e] /\ e \in Executions /\ RecoveredTo(e, run[w].next)
    BY <1>1, <1>3, RunIs DEF Telling, Basis, TellingFits, CancellingFits
  <2>2. Quiet(e) BY <2>1 DEF Frozen
  <2> QED BY <2>1, <2>2, RecoveredStays DEF RecoveredTo
<1>4. CASE run'[w] = run[w]
  <2>1. run[w].pc = "cancelling" /\ m.pending /\ run'[w].at = e /\ run'[w].mem = m
    BY <1>1, <1>4 DEF At, Mem
  <2> QED BY <1>1, <1>2, <1>3, <1>4, <2>1
<1>5. CASE RunStep(w)
  <2>1. /\ run'[w].at = e /\ run'[w].mem = m /\ m.pending
        /\ \/ BeginStage(w) /\ e \in cancellations /\ n = 1
           \/ Recover(w) /\ n = run[w].next + 1
    BY <1>1, <1>5, WaysOut DEF Telling, Basis, ToCancelling
  <2>2. CASE BeginStage(w) /\ e \in cancellations /\ n = 1
    <3>1. Owns(e, w) /\ run[w].pc = "begin" BY <1>1, <2>2 DEF BeginStage
    <3>2. e \in Executions BY <1>1, <3>1, RunIs DEF Telling, Basis
    <3>3. m = ctx[e] BY <1>1, <3>1, <3>2 DEF Owns, Telling, Basis, OwnerIsCurrent
    <3>4. Quiet(e) BY <3>1, <3>2, OwnerIsOne DEF Quiet, Winding, Telling, Basis
    <3>5. \A i \in 1..Len(ctx[e].calls) : ~(i < n) BY <2>2
    <3> QED BY <1>2, <2>1, <2>2, <3>2, <3>3, <3>4, <3>5 DEF Frozen
  <2>3. CASE Recover(w) /\ n = run[w].next + 1
    <3>1. PICK k, s : k = run[w].next /\ s = StepOf(w, k) OBVIOUS
    <3>2. /\ k \in 1..Len(ctx[e].calls) /\ s = <<e, ctx[e].round, k>>
          /\ \A claims \in Committed(w, k) : claims = Did(s)
          /\ HasResult(e, k) <=> Committed(w, k) # {}
      BY <1>1, <2>3, <3>1, CommittedIs DEF Recover
    <3>3. HasResult(e, k) => Told(s)'
      BY <2>3, <3>1, <3>2, ShowTells DEF Recover
    <3>4. run[w].pc = "cancelling" BY <2>3 DEF Recover, CancelsCall
    <3>5. ctx'[e] = ctx[e] BY <2>3 DEF Recover
    <3>6. HasResult(e, k) => Told(<<e, ctx[e].round, k>>)' BY <3>2, <3>3, <3>5 DEF Told
    <3>7. \A i \in 1..Len(ctx[e].calls) : i < n => i < k \/ i = k BY <2>3, <3>1, <3>2
    <3> QED BY <1>2, <1>3, <2>1, <3>1, <3>4, <3>6, <3>7
  <2> QED BY <2>1, <2>2, <2>3
<1> QED BY <1>4, <1>5, RunStays DEF Telling, Basis

-----------------------------------------------------------------------------
(* How an execution gets its outcome.                                        *)

SameOutcomes ==
    \A e \in Executions : exec'[e].status \in Terminal <=> exec[e].status \in Terminal

(* Run w, the owner, saves an outcome: it has no calls to make, or it has    *)
(* cancelled them all.                                                       *)
Concludes(w) ==
    /\ At(w) \in Executions /\ Owns(At(w), w) /\ Mem(w) = ctx[At(w)]
    /\ exec[At(w)].status \notin Terminal /\ exec'[At(w)].status \in Terminal
    /\ \A e \in Executions \ {At(w)} : exec'[e] = exec[e]
    /\ UNCHANGED <<ctx, inventoryVars, shown>>
    /\ \/ run[w].pc = "work" /\ (~Mem(w).pending \/ Mem(w).calls = <<>>)
       \/ run[w].pc = "cancelling" /\ ~CancelsCall(w)

LEMMA OutcomesMove ==
  ASSUME Basis, [Next]_vars
  PROVE  SameOutcomes \/ \E w \in Workers : Concludes(w)
<1>1. exec \in [Executions -> ExecutionRow] /\ ctx \in [Executions -> Context]
  BY DEF Basis, TypeOK, ExecutionsTypeOK
<1>2. ASSUME UNCHANGED exec PROVE SameOutcomes BY <1>2 DEF SameOutcomes
<1>3. ASSUME NEW e \in Executions, Prepare(e) \/ ExpireLease(e) PROVE SameOutcomes
  BY <1>1, <1>3 DEF Prepare, ExpireLease, ExecutionRow, SameOutcomes, Terminal
<1>4. ASSUME NEW w \in Workers, LoseOwner(w) PROVE SameOutcomes
  BY <1>1, <1>4 DEF LoseOwner, ExecutionRow, SameOutcomes
<1>5. ASSUME UserStep \/ Environment PROVE SameOutcomes
  BY <1>2, <1>3, <1>4, <1>5, OthersMove DEF Crash, Basis
<1>6. ASSUME NEW w \in Workers, EndRun(w) PROVE SameOutcomes
  BY <1>1, <1>6 DEF EndRun, Release, ExecutionRow, SameOutcomes
<1>7. ASSUME NEW w \in Workers, NEW e \in Executions, Start(w, e) PROVE SameOutcomes
  BY <1>1, <1>7 DEF Start, ClaimExecution, ExecutionRow, SameOutcomes
<1>8. ASSUME NEW w \in Workers, NEW s, NEW m, NEW pc, Save(w, s, m, pc),
             run[w].pc \notin {"idle", "publishing"}
      PROVE  /\ At(w) \in Executions /\ Owns(At(w), w) /\ Mem(w) = ctx[At(w)]
             /\ exec[At(w)].status \notin Terminal
             /\ exec' = [exec EXCEPT ![At(w)] = [exec[At(w)] EXCEPT !.status = s]]
             /\ ctx' = [ctx EXCEPT ![At(w)] = m]
  <2>1. At(w) \in Executions BY <1>8, RunIs DEF Basis
  <2>2. Owns(At(w), w) BY <1>8 DEF Save, SaveStatus
  <2> QED BY <1>8, <2>1, <2>2 DEF Save, SaveStatus, Owns, Basis, OwnerIsCurrent
<1>9. ASSUME NEW w \in Workers, NEW s \in {"ready", "awaiting_approval"}, NEW m, NEW pc,
             Save(w, s, m, pc), run[w].pc \notin {"idle", "publishing"}
      PROVE  SameOutcomes
  BY <1>1, <1>8, <1>9 DEF SameOutcomes, Terminal, ExecutionRow
<1>10. ASSUME NEW w \in Workers, NEW s \in Terminal, NEW pc, Save(w, s, Mem(w), pc),
              UNCHANGED <<inventoryVars, eventVars>>, run[w].pc \notin {"idle", "publishing"},
              \/ run[w].pc = "work" /\ (~Mem(w).pending \/ Mem(w).calls = <<>>)
              \/ run[w].pc = "cancelling" /\ ~CancelsCall(w)
       PROVE  Concludes(w)
  <2>1. /\ exec' = [exec EXCEPT ![At(w)] = [exec[At(w)] EXCEPT !.status = s]]
        /\ ctx' = [ctx EXCEPT ![At(w)] = Mem(w)] /\ Mem(w) = ctx[At(w)]
        /\ At(w) \in Executions /\ Owns(At(w), w) /\ exec[At(w)].status \notin Terminal
    BY <1>8, <1>10
  <2>2. UNCHANGED ctx BY <1>1, <2>1
  <2>3. exec'[At(w)].status = s /\ \A e \in Executions \ {At(w)} : exec'[e] = exec[e]
    BY <1>1, <2>1 DEF ExecutionRow
  <2> QED BY <1>10, <2>1, <2>2, <2>3 DEF Concludes, eventVars
<1> DEFINE good == SameOutcomes \/ \E w \in Workers : Concludes(w)
<1> SUFFICES good OBVIOUS
<1> HIDE DEF good
<1>11. SameOutcomes => good BY DEF good
<1>12. ASSUME NEW w \in Workers, Concludes(w) PROVE good BY <1>12 DEF good
<1>13. ASSUME NEW w \in Workers, TurnStep(w) PROVE good
  <2>1. run[w].pc = "work"
    BY <1>13 DEF TurnStep, SaveTurn, GiveUp, Complete, ClearTurn, NeedsModel, InTurn
  <2>2. CASE SaveTurn(w) BY <1>9, <1>11, <2>1, <2>2 DEF SaveTurn
  <2>3. CASE ClearTurn(w) BY <1>9, <1>11, <2>1, <2>3 DEF ClearTurn
  <2>4. CASE Complete(w)
    BY <1>10, <1>12, <2>1, <2>4 DEF Complete, Terminal
  <2>5. CASE GiveUp(w)
    <3>1. CASE Save(w, "failed", Mem(w), "publishing")
      BY <1>10, <1>12, <2>1, <2>5, <3>1 DEF GiveUp, NeedsModel, Terminal
    <3> QED BY <1>2, <1>11, <2>5, <3>1 DEF GiveUp, executionVars
  <2> QED BY <1>13, <2>2, <2>3, <2>4, <2>5 DEF TurnStep
<1>14. ASSUME NEW w \in Workers, ApprovalStep(w) PROVE good
  <2>1. CASE SaveAwaiting(w) BY <1>9, <1>11, <2>1 DEF SaveAwaiting
  <2>2. CASE Pause(w) BY <1>6, <1>11, <2>2 DEF Pause
  <2>3. ASSUME ~SaveAwaiting(w), ~Pause(w) PROVE UNCHANGED exec
    BY <1>14, <2>3 DEF ApprovalStep, Request, Consult, ExecuteOne, RejectOne, StartBatch,
       ExecuteChild, RejectedChild, EndBatch, executionVars
  <2> QED BY <1>2, <1>11, <2>1, <2>2, <2>3
<1>15. ASSUME NEW w \in Workers, EffectStep(w) PROVE good
  <2>1. CASE SaveRetrieval(w)
    BY <1>9, <1>11, <2>1 DEF SaveRetrieval, AtRetrieval, CallIs, AtCall, InTurn
  <2>2. ASSUME ~SaveRetrieval(w) PROVE UNCHANGED exec
    BY <1>15, <2>2 DEF EffectStep, ExecuteAddition, Enrich, SaveEnrichment, SaveEnriched, ReportInterrupted, Retrieve,
       StageSpecs, executionVars
  <2> QED BY <1>2, <1>11, <2>1, <2>2
<1>16. ASSUME NEW w \in Workers, ResultStep(w) PROVE good
  <2>1. CASE SaveResult(w) BY <1>9, <1>11, <2>1 DEF SaveResult
  <2>2. CASE SaveCursor(w) BY <1>9, <1>11, <2>2 DEF SaveCursor
  <2>3. CASE ShowResult(w) \/ Recover(w)
    BY <1>2, <1>11, <2>3 DEF ShowResult, Recover, executionVars
  <2>4. CASE SaveCancelled(w)
    BY <1>10, <1>12, <2>4 DEF SaveCancelled, Terminal
  <2> QED BY <1>16, <2>1, <2>2, <2>3, <2>4 DEF ResultStep
<1>17. ASSUME NEW w \in Workers, RunStep(w) PROVE good
  <2>1. CASE BeginStage(w) BY <1>2, <1>11, <2>1 DEF BeginStage, executionVars
  <2>2. CASE Leave(w) \/ Publish(w) BY <1>6, <1>11, <2>2 DEF Leave, Publish
  <2> QED BY <1>7, <1>11, <1>13, <1>14, <1>15, <1>16, <1>17, <2>1, <2>2 DEF RunStep
<1> QED BY <1>2, <1>5, <1>11, <1>17 DEF Next, vars, executionVars

(* A run that has no model turn, or recovered all its calls, told all.       *)
LEMMA ConcludesTold ==
  ASSUME Telling, NEW w \in Workers, Concludes(w), NEW e \in Executions, e = At(w),
         NEW i \in 1..Len(ctx[e].calls), HasResult(e, i)
  PROVE  Told(<<e, ctx[e].round, i>>)
<1>1. PICK c, s : c = ctx[e] /\ s = <<e, c.round, i>> OBVIOUS
<1>2. /\ c \in Context /\ TurnIsProper(c) /\ Len(c.calls) \in Nat /\ c.index \in Nat
  BY <1>1, AtItsCursor, LenProperties DEF Telling, Context
<1>3. c = Mem(w) BY <1>1 DEF Concludes
<1>4. CASE ~c.pending
  <2>1. c.index = Len(c.calls) + 1 /\ c.calls[i].done
    BY <1>1, <1>2, <1>4 DEF TurnIsProper
  <2>2. Closed(s) BY <1>1, <2>1 DEF Telling, TellingFits, DoneFits, ResultsFit
  <2>3. ~AtStep(c, s) BY <1>1, <1>2, <2>1 DEF AtStep
  <2> QED BY <1>1, <2>2, <2>3 DEF Closed
<1>5. CASE c.calls = <<>>
  <2>1. Len(c.calls) = 0 BY <1>5
  <2> QED BY <1>1, <2>1
<1>6. CASE c.pending /\ run[w].pc = "cancelling" /\ ~CancelsCall(w)
  <2>1. ~(run[w].next <= Len(c.calls)) BY <1>3, <1>6 DEF CancelsCall
  <2>2. run[w].next \in Nat BY RunIs, <1>6 DEF Telling, Basis
  <2>3. i < run[w].next BY <1>1, <1>2, <2>1, <2>2
  <2>4. RecoveredTo(e, run[w].next) BY <1>3, <1>6 DEF Telling, TellingFits, CancellingFits
  <2> QED BY <2>3, <2>4 DEF RecoveredTo
<1> QED BY <1>3, <1>4, <1>5, <1>6 DEF Concludes

LEMMA OverKept ==
  ASSUME Telling, [Next]_vars
  PROVE  OverIsTold'
<1> SUFFICES ASSUME NEW e \in Executions, exec'[e].status \in Terminal,
                    NEW i \in 1..Len(ctx'[e].calls), HasResult(e, i)'
             PROVE  Told(<<e, ctx[e].round, i>>)'
  BY DEF OverIsTold, RecoveredTo
<1>1. CASE exec[e].status \in Terminal
  <2>1. Quiet(e) BY <1>1, OverIsQuiet DEF Telling
  <2>2. ctx'[e] = ctx[e] BY <2>1, QuietStands DEF Telling
  <2>3. HasResult(e, i) BY <2>1, <2>2, RecoveredStays
  <2>4. Len(ctx[e].calls) \in Nat BY AtItsCursor, LenProperties DEF Telling, Context
  <2>5. RecoveredTo(e, Len(ctx[e].calls) + 1) BY <1>1 DEF Telling, TellingFits, OverIsTold
  <2>6. Told(<<e, ctx[e].round, i>>) BY <2>2, <2>3, <2>4, <2>5 DEF RecoveredTo
  <2> QED BY <2>1, <2>2, <2>6, RecoveredStays
<1>2. ASSUME NEW w \in Workers, Concludes(w), exec[e].status \notin Terminal
      PROVE  Told(<<e, ctx[e].round, i>>)'
  <2>1. e = At(w) BY <1>2 DEF Concludes
  <2>2. UNCHANGED <<ctx, approvals, receipts, shown>> BY <1>2 DEF Concludes, inventoryVars
  <2>3. HasResult(e, i) BY <2>2 DEF HasResult
  <2>4. Told(<<e, ctx[e].round, i>>) BY <1>2, <2>1, <2>2, <2>3, ConcludesTold
  <2> QED BY <2>2, <2>4 DEF Told
<1> QED BY <1>1, <1>2, OutcomesMove DEF SameOutcomes, Telling

LEMMA BeyondKept ==
  ASSUME Telling, [Next]_vars
  PROVE  BeyondIsTold'
<1> SUFFICES ASSUME NEW s \in Steps, NEW e \in Executions, e = s[1],
                    Beyond(ctx'[e], s), Did(s)' # {}
             PROVE  Told(s)'
  <2>1. \A s \in Steps : s[1] \in Executions BY DEF Steps
  <2>2. \A s \in Steps : Beyond(ctx[s[1]], s)' <=> Beyond(ctx'[s[1]], s) BY DEF Beyond
  <2> QED BY <2>1, <2>2 DEF BeyondIsTold
<1>1. Did(s)' # Did(s) => AtStep(ctx[e], s) /\ AtStep(ctx'[e], s)
  <2>1. ASSUME NEW w \in Workers, NEW t, Changer(w, t), s = Step(w)
        PROVE  AtStep(ctx[e], s) /\ AtStep(ctx'[e], s)
    BY <2>1 DEF Changer, Step, StepOf
  <2>2. ASSUME NEW w \in Workers, NEW t, Changer(w, t), s # Step(w)
        PROVE  Did(s)' = Did(s)
    BY <2>2 DEF Changer
  <2> QED BY <2>1, <2>2, DidMoves DEF Telling
<1>2. /\ ctx[e] \in Context /\ ctx'[e] \in Context /\ Onward(ctx[e], ctx'[e])
  BY ContextsMoveOn DEF Telling
<1>3. Onward(ctx'[e], ctx'[e]) BY DEF Onward
<1>4. ~AtStep(ctx'[e], s) BY <1>2, <1>3, OnwardSteps
<1>5. Did(s) # {} BY <1>1, <1>4
<1>6. Beyond(ctx[e], s) \/ AtStep(ctx[e], s)
  BY <1>5 DEF Telling, EffectsFit, UntouchedAhead
<1>7. CASE Beyond(ctx[e], s)
  BY <1>5, <1>7, ToldStays DEF Telling, TellingFits, BeyondIsTold
<1>8. CASE AtStep(ctx[e], s) BY <1>4, <1>8, LeftIsTold, ToldStays
<1> QED BY <1>6, <1>7, <1>8

LEMMA TellingKept ==
  ASSUME Telling, [Next]_vars
  PROVE  Telling'
<1>1. Basis' /\ EffectsFit' BY EffectsFitKept DEF Telling
<1>2. TellingFits'
  BY ToldKept, DoneKept, CancellingKept, OverKept, BeyondKept DEF TellingFits
<1> QED BY <1>1, <1>2 DEF Telling

LEMMA InitTelling ==
  ASSUME Init
  PROVE  Telling
<1>1. Basis
  <2>1. OwnerIsCurrent BY OwnersAreDistinct DEF Init, ExecutionsInit, OwnerIsCurrent
  <2> QED BY <2>1, InitIsShaped DEF Basis
<1>2. /\ \A e \in Executions : ctx[e] = Blank
      /\ \A w \in Workers : run[w].pc = "idle" /\ exec = [e \in Executions |->
                 [status |-> "absent", worker_id |-> Nobody, leased |-> FALSE]]
      /\ shown = {} /\ approvals = <<>> /\ receipts = {}
      /\ effects = [x \in Steps \X Targets |-> 0]
  BY DEF Init, ExecutionsInit, InventoryInit, Idle
<1>3. \A s \in Steps : Did(s) = {} BY <1>2 DEF Did
<1>4. Blank.calls = <<>> /\ Len(Blank.calls) = 0 /\ Blank.index = 1 BY DEF Blank
<1>6. \A e \in Executions : exec[e].status \notin Terminal /\ ~exec[e].leased
  BY DEF Init, ExecutionsInit, Terminal
<1>7. EffectsFit
  <2>1. ReceiptsFit BY <1>2, <1>3 DEF ReceiptsFit
  <2>2. UntouchedAhead BY <1>3 DEF UntouchedAhead
  <2>3. CursorDid BY <1>2, <1>4 DEF CursorDid
  <2>4. RequestsDid BY <1>2 DEF RequestsDid
  <2>5. OwnerDid BY <1>2 DEF OwnerDid
  <2>6. Enriched BY <1>2 DEF Enriched, Enriching
  <2> QED BY <2>1, <2>2, <2>3, <2>4, <2>5, <2>6 DEF EffectsFit
<1>8. TellingFits
  <2>1. ToldFits BY <1>2 DEF ToldFits, Told
  <2>2. DoneFits BY <1>2, <1>4 DEF DoneFits, ResultsFit
  <2>3. CancellingFits BY <1>2 DEF CancellingFits
  <2>4. OverIsTold BY <1>6 DEF OverIsTold
  <2>5. BeyondIsTold BY <1>3, <1>2 DEF BeyondIsTold, Steps
  <2> QED BY <2>1, <2>2, <2>3, <2>4, <2>5 DEF TellingFits
<1> QED BY <1>1, <1>7, <1>8 DEF Telling

-----------------------------------------------------------------------------
(* The promise.                                                              *)

(* The owner changes a target that its call did not change yet, of a call    *)
(* that nothing is shown of, before the outcome.                             *)
LEMMA ChangesAreNew ==
  ASSUME Telling, [Next]_vars, NEW w \in Workers, NEW t \in Targets,
         \/ Adds(w) /\ t = Stock
         \/ ChangesOne(w) /\ Cursor(w).targets = {t}
         \/ ChangesChild(w) /\ t = run[w].next,
         Changer(w, t)
  PROVE  /\ exec[At(w)].status \notin Terminal /\ ~Told(Step(w))
         /\ effects[<<Step(w), t>>] = 0
<1>1. PICK e \in Executions, s \in Steps : e = At(w) /\ s = Step(w) BY DEF Changer
<1>2. s[1] = e BY <1>1 DEF Step, StepOf
<1>3. /\ Owns(e, w) /\ AtStep(ctx[e], s) /\ ~CallOf(ctx[e]).done /\ Mem(w) = ctx[e]
      /\ run[w].pc \in {"work", "approved", "children"}
  BY <1>1 DEF Changer
<1>4. exec[e].status \notin Terminal
  BY <1>3 DEF Telling, Basis, OwnerIsCurrent, Owns
<1>5. ~Told(s)
  <2>1. ~Frozen(e) BY <1>3 DEF Frozen, Quiet, Winding
  <2>2. ~Beyond(ctx[e], s)
    BY <1>2, <1>3, ContextsMoveOn, OnwardSteps DEF Telling
  <2> QED BY <1>2, <1>3, <2>1, <2>2 DEF Telling, TellingFits, ToldFits
<1>6. t \notin Did(s)
  <2>1. Mem(w).index <= Len(Mem(w).calls) BY <1>3 DEF AtStep
  <2>2. /\ Stock \in Did(s) <=> s \in receipts
        /\ Mem(w).approval # 0 =>
             LET a == approvals[Mem(w).approval]
             IN  /\ Cursor(w).tool = "update" /\ ~a.done => Did(s) = {}
                 /\ Cursor(w).tool = "bulk" => Did(s) = Changed(a)
    BY <1>1, <1>3, <2>1, OwnerHas DEF Telling, EffectsFit, ReceiptsFit
  <2>3. CASE Adds(w) /\ t = Stock
    <3>1. s \notin receipts BY <1>1, <2>3, ChangersAre DEF Telling
    <3> QED BY <2>2, <2>3, <3>1
  <2>4. CASE ChangesOne(w)
    <3>1. Cursor(w).tool = "update" /\ Mem(w).approval # 0
      BY <2>4, ChangersAre DEF Telling
    <3>2. ~approvals[Mem(w).approval].done BY <2>4 DEF ChangesOne, ApplyApproved
    <3> QED BY <2>2, <3>1, <3>2
  <2>5. CASE ChangesChild(w) /\ t = run[w].next
    <3>1. /\ Cursor(w).tool = "bulk" /\ Mem(w).approval # 0
          /\ approvals[Mem(w).approval].child[t] = "open"
      BY <2>5, ChangersAre DEF Telling
    <3> QED BY <2>2, <3>1 DEF Changed
  <2> QED BY <2>3, <2>4, <2>5
<1>7. effects[<<s, t>>] = 0
  <2>1. effects[<<s, t>>] \in Nat BY DEF Telling, Basis, TypeOK, InventoryTypeOK
  <2> QED BY <1>6, <2>1 DEF Did
<1> QED BY <1>1, <1>4, <1>5, <1>7

(* A change of the runtime is a change of the promise. *)
LEMMA ChangeMaps ==
  ASSUME Telling, [Next]_vars, NEW w \in Workers, NEW t \in Targets, Changer(w, t),
         \/ Adds(w) /\ t = Stock
         \/ ChangesOne(w) /\ Cursor(w).targets = {t}
         \/ ChangesChild(w) /\ t = run[w].next
  PROVE  Promise!Next
<1>1. PICK s \in Steps, e \in Executions : s = Step(w) /\ e = At(w) BY DEF Changer
<1>2. exec[e].status \notin Terminal /\ ~Told(s) /\ effects[<<s, t>>] = 0
  BY <1>1, ChangesAreNew
<1>3. /\ effects' = [effects EXCEPT ![<<s, t>>] = 1]
      /\ UNCHANGED <<shown, exec>>
  BY <1>1, <1>2 DEF Changer
<1>4. s[1] = e BY <1>1 DEF Step, StepOf
<1>5. Promise!Change(s, t)
  BY <1>2, <1>3, <1>4 DEF Promise!Change, Promise!IsTold, Told
<1> QED BY <1>5 DEF Promise!Next

LEMMA PromiseStep ==
  ASSUME Telling, [Next]_vars
  PROVE  [Promise!Next]_Promise!promiseVars
<1>1. CASE \E s \in Steps : Shows(s)
  <2>1. PICK s \in Steps : Shows(s) BY <1>1
  <2>2. Promise!Tell(s)
    <3>1. Did(s) = Promise!ChangedBy(s) BY DEF Did, Promise!ChangedBy
    <3> QED BY <2>1, <3>1 DEF Shows, Promise!Tell, Promise!IsTold, Told
  <2> QED BY <2>2 DEF Promise!Next
<1>2. ASSUME NEW w \in Workers, Adds(w) PROVE Promise!Next
  BY <1>2, ChangersAre, ChangeMaps DEF Telling, Targets
<1>3. ASSUME NEW w \in Workers, ChangesOne(w) PROVE Promise!Next
  <2>1. PICK p \in Parts : Changer(w, p) /\ Cursor(w).targets = {p}
    BY <1>3, ChangersAre DEF Telling
  <2>2. p \in Targets BY DEF Targets
  <2> QED BY <1>3, <2>1, <2>2, ChangeMaps
<1>4. ASSUME NEW w \in Workers, ChangesChild(w) PROVE Promise!Next
  <2>1. PICK p \in Parts : Changer(w, p) /\ p = run[w].next
    BY <1>4, ChangersAre DEF Telling
  <2>2. p \in Targets BY DEF Targets
  <2> QED BY <1>4, <2>1, <2>2, ChangeMaps
<1>5. ASSUME NEW w \in Workers, Concludes(w) PROVE Promise!Next
  <2>1. PICK e \in Executions : e = At(w) BY <1>5 DEF Concludes
  <2>2. /\ exec'[e].status \in Terminal /\ UNCHANGED <<effects, shown>>
        /\ \A f \in Executions \ {e} : exec'[f] = exec[f]
    BY <1>5, <2>1 DEF Concludes, inventoryVars
  <2>3. Promise!End(e) BY <2>2 DEF Promise!End
  <2> QED BY <2>3 DEF Promise!Next
<1>6. ASSUME UNCHANGED <<effects, shown>>, SameOutcomes PROVE UNCHANGED Promise!promiseVars
  BY <1>6 DEF SameOutcomes, Promise!promiseVars
<1>7. UNCHANGED effects \/ \E w \in Workers : Adds(w) \/ ChangesOne(w) \/ ChangesChild(w)
  BY EffectsMove DEF Telling, Basis
<1> QED BY <1>1, <1>2, <1>3, <1>4, <1>5, <1>6, <1>7, WhatIsTold, OutcomesMove DEF Telling

(* What the runtime promises of its tool calls: each call changes a target   *)
(* at most once, although runs die between an effect, the checkpoint that    *)
(* knows of it and the event that shows it, and although a run that lost its *)
(* lease goes on; what is shown is what was changed; and nothing is changed  *)
(* or shown once the outcome is saved.                                       *)
THEOREM ToolCallsKeepTheirPromise == Spec => EffectsAreOnceAndShownTruly
<1>1. Init => Promise!Init
  BY DEF Init, ExecutionsInit, InventoryInit, Terminal, Promise!Init
<1>2. Init => Telling BY InitTelling
<1>3. Telling /\ [Next]_vars => Telling' BY TellingKept
<1>4. Telling /\ [Next]_vars => [Promise!Next]_Promise!promiseVars BY PromiseStep
<1> QED BY <1>1, <1>2, <1>3, <1>4, PTL DEF Spec, EffectsAreOnceAndShownTruly, Promise!Spec

(* What an outcome hides is the part of a batch that was cancelled between   *)
(* its children: nothing is shown of a call that changed something only if   *)
(* the checkpoint is at it, it is a batch, and its result was not saved.     *)
IsOpenBatch(s) ==
    LET c == ctx[s[1]]
    IN  /\ s = StepAt(s[1]) /\ CallOf(c).tool = "bulk" /\ c.approval # 0
        /\ ~approvals[c.approval].done
OnlyOpenBatchesHide ==
    \A s \in Steps, t \in Targets :
        exec[s[1]].status \in Terminal /\ effects[<<s, t>>] > 0 => Told(s) \/ IsOpenBatch(s)

LEMMA HiddenIsOpen ==
  ASSUME Telling
  PROVE  OnlyOpenBatchesHide
<1> SUFFICES ASSUME NEW s \in Steps, NEW e \in Executions, e = s[1],
                    exec[e].status \in Terminal, NEW t \in Targets, t \in Did(s),
                    ~IsOpenBatch(s)
             PROVE  Told(s)
  <2>1. \A s \in Steps : s[1] \in Executions BY DEF Steps
  <2> QED BY <2>1 DEF OnlyOpenBatchesHide, Did
<1>1. Beyond(ctx[e], s) \/ AtStep(ctx[e], s) BY DEF Telling, EffectsFit, UntouchedAhead
<1>2. CASE Beyond(ctx[e], s) BY <1>2 DEF Telling, TellingFits, BeyondIsTold
<1>3. CASE AtStep(ctx[e], s)
  <2>1. PICK c : c = ctx[e] OBVIOUS
  <2>2. s = StepAt(e) /\ c.index <= Len(c.calls)
    BY <1>3, <2>1 DEF AtStep, StepAt, Steps
  <2>3. /\ c \in Context /\ c.index \in 1..Len(c.calls) /\ Len(c.calls) \in Nat
        /\ c.approval # 0 => CallOf(c).tool \in {"update", "bulk"}
    BY <2>1, <2>2, AtItsCursor, LenProperties DEF Telling, Context, NeedsApproval
  <2>4. CallDid(c, s) BY <2>1, <2>2 DEF Telling, EffectsFit, CursorDid
  <2>5. Stock \in Did(s) <=> s \in receipts BY DEF Telling, EffectsFit, ReceiptsFit
  <2>6. ASSUME c.approval = 0 PROVE HasResult(e, c.index)
    BY <2>1, <2>2, <2>4, <2>5, <2>6 DEF CallDid, HasResult, StepAt
  <2>7. ASSUME c.approval # 0, CallOf(c).tool = "update" PROVE HasResult(e, c.index)
    BY <2>1, <2>4, <2>7 DEF CallDid, RequestDid, HasResult
  <2>8. ASSUME c.approval # 0, CallOf(c).tool = "bulk" PROVE HasResult(e, c.index)
    BY <2>1, <2>2, <2>8 DEF IsOpenBatch, HasResult
  <2>9. s = <<e, c.round, c.index>> BY <2>1, <2>2 DEF StepAt
  <2>10. /\ RecoveredTo(e, Len(c.calls) + 1) /\ c.index < Len(c.calls) + 1
    BY <2>1, <2>3 DEF Telling, TellingFits, OverIsTold
  <2>11. HasResult(e, c.index) => Told(s) BY <2>1, <2>3, <2>9, <2>10 DEF RecoveredTo
  <2> QED BY <2>3, <2>6, <2>7, <2>8, <2>11
<1> QED BY <1>1, <1>2, <1>3

(* Whatever the model calls, an outcome hides nothing but open batches.      *)
THEOREM OutcomesHideOnlyOpenBatches == Spec => []OnlyOpenBatchesHide
<1>1. Init => Telling BY InitTelling
<1>2. Telling /\ [Next]_vars => Telling' BY TellingKept
<1>3. Telling => OnlyOpenBatchesHide BY HiddenIsOpen
<1> QED BY <1>1, <1>2, <1>3, PTL DEF Spec

(* Without batches an outcome hides nothing: when an execution ends, the     *)
(* conversation shows the result of every call that changed something, also  *)
(* when it was cancelled between the effect and the checkpoint that knows.   *)
THEOREM OutcomesHideNothing ==
  ASSUME "bulk" \notin Tools
  PROVE  Spec => []NothingHidden
<1>1. Init => Telling BY InitTelling
<1>2. Telling /\ [Next]_vars => Telling' BY TellingKept
<1>3. Telling => NothingHidden
  <2> SUFFICES ASSUME Telling, NEW s \in Steps, NEW t \in Targets,
                      exec[s[1]].status \in Terminal, effects[<<s, t>>] > 0
               PROVE  Told(s)
    BY DEF NothingHidden, Told
  <2>1. Told(s) \/ IsOpenBatch(s) BY HiddenIsOpen DEF OnlyOpenBatchesHide
  <2>2. ASSUME IsOpenBatch(s) PROVE FALSE
    <3>1. s[1] \in Executions BY DEF Steps
    <3>2. CallOf(ctx[s[1]]) \in Call
      BY <2>2, <3>1, AtItsCursor DEF IsOpenBatch, Telling
    <3> QED BY <2>2, <3>2 DEF IsOpenBatch, Call
  <2> QED BY <2>1, <2>2
<1> QED BY <1>1, <1>2, <1>3, PTL DEF Spec

-----------------------------------------------------------------------------
(* Paid retrievals.                                                          *)

(* Copies of one turn plan the same calls, and none is ahead of the checkpoint. *)
SameCall(a, b) == a.tool = b.tool /\ a.targets = b.targets
SamePlan(c, d) ==
    c.round = d.round /\ c.round >= 1 =>
        /\ Len(c.calls) = Len(d.calls)
        /\ \A i \in 1..Len(c.calls) : SameCall(c.calls[i], d.calls[i])
PlansAgree ==
    /\ \A w \in Workers : run[w].pc = "idle" => Mem(w) = Blank
    /\ \A w \in Workers : run[w].pc # "idle" =>
          Mem(w).round <= ctx[At(w)].round /\ SamePlan(Mem(w), ctx[At(w)])
    /\ \A v, w \in Workers : run[v].pc # "idle" /\ run[w].pc # "idle" /\ At(v) = At(w) =>
          SamePlan(Mem(v), Mem(w))

(* The checkpoint or a receipt tells that the call at step s may be paid for. *)
Begun(s) ==
    LET c == ctx[s[1]]
    IN  Beyond(c, s) \/ (AtStep(c, s) /\ (CallOf(c).retrieving \/ s \in receipts))
Spending == {"retrieve", "enrich"}
SpendsOnce ==
    /\ \A w \in Workers : run[w].pc \in Spending => Begun(Step(w)) /\ paid[Step(w)] = 0
    /\ \A v, w \in Workers :
          run[v].pc \in Spending /\ run[w].pc \in Spending /\ Step(v) = Step(w) => v = w
    /\ \A s \in Steps : paid[s] # 0 => Begun(s)

(* Exchange x is an interruption that forbids the retrieval of call c: of the *)
(* same tool for the part, or, for a lookup, of the enrichment of the part.  *)
Forbids(x, c) ==
    /\ x.interrupted /\ x.part \in c.targets
    /\ x.tool = c.tool \/ (x.tool = "add" /\ c.tool = "lookup")

(* No such interruption came before the call that is paid for.               *)
NotBefore(p, s) == p[1] > s[2] \/ (p[1] = s[2] /\ p[2] >= s[3])
NoneInterrupted ==
    \A w \in Workers : run[w].pc = "retrieve" =>
        \A x \in ctx[At(w)].lookups : Forbids(x, Cursor(w)) => NotBefore(x.step, Step(w))

PaymentsFit == PlansAgree /\ SpendsOnce /\ NoneInterrupted

(* A checkpoint keeps the plan of its turn, and the intent to retrieve while *)
(* it is at the call; a lookup is put into it when the call at its cursor    *)
(* has its result.                                                           *)
KeepsPlan(c, d) ==
    \/ d.round = c.round + 1
    \/ /\ d.round = c.round /\ Len(d.calls) = Len(c.calls)
       /\ \A i \in 1..Len(c.calls) : SameCall(c.calls[i], d.calls[i])
       /\ d.index = c.index /\ c.index <= Len(c.calls) =>
            (CallOf(c).retrieving => CallOf(d).retrieving)
AddsLookups(c, d) ==
    \A x \in d.lookups \ c.lookups : x.step = <<c.round, c.index>>

LEMMA PlansMove ==
  ASSUME Basis, [Next]_vars, NEW e \in Executions
  PROVE  KeepsPlan(ctx[e], ctx'[e]) /\ AddsLookups(ctx[e], ctx'[e])
<1> DEFINE c == ctx[e]
           d == ctx'[e]
<1>1. c \in Context /\ TurnIsProper(c) BY DEF Basis, TypeOK, Shape
<1>2. /\ c.round \in Nat /\ c.index \in Nat /\ c.calls \in Seq(Call) /\ Len(c.calls) \in Nat
      /\ c.index >= 1
  BY <1>1, LenProperties DEF Context
<1> HIDE DEF c, d
<1>3. ASSUME d.round = c.round, d.calls = c.calls, d.lookups = c.lookups
      PROVE  KeepsPlan(c, d) /\ AddsLookups(c, d)
  BY <1>3 DEF KeepsPlan, AddsLookups, CallOf, SameCall
<1>4. ASSUME NEW w \in Workers, At(w) = e, Mem(w) = c, Written(w, e, c, d)
      PROVE  KeepsPlan(c, d) /\ AddsLookups(c, d)
  <2>1. run[w].pc \in Working \cup Showing => c.index <= Len(c.calls) /\ c.pending
    BY <1>4 DEF Basis, Shape, RunFits, Mem
  <2>2. ASSUME NEW calls \in Turns, d = NewTurn(c, calls), c.round < MaxRounds
        PROVE  KeepsPlan(c, d) /\ AddsLookups(c, d)
    <3>1. d.round = c.round + 1 /\ d.lookups = c.lookups BY <1>1, <2>2, NewTurnFields
    <3> QED BY <3>1 DEF KeepsPlan, AddsLookups
  <2>3. CASE d = Cleared(c) /\ c.index > Len(c.calls) BY <1>1, <1>3, <2>3, ClearedFields
  <2>4. CASE d = Awaiting(c, run[w].next) BY <1>1, <1>3, <2>4 DEF Awaiting, Context
  <2>5. CASE d = Advanced(c) BY <1>1, <1>3, <2>5 DEF Advanced, Context
  <2>6. ASSUME SaveRetrieval(w), d = Retrieving(c)
        PROVE  KeepsPlan(c, d) /\ AddsLookups(c, d)
    <3>1. c.pending /\ c.index <= Len(c.calls) /\ CallOf(c).tool \in Retrievals
      BY <1>4, <2>6 DEF SaveRetrieval, AtRetrieval, CallIs, AtCall, InTurn, Cursor, CallOf
    <3>2. /\ d.round = c.round /\ d.index = c.index /\ Len(d.calls) = Len(c.calls)
          /\ \A i \in 1..Len(c.calls) : i # c.index => d.calls[i] = c.calls[i]
          /\ SameCall(CallOf(c), CallOf(d)) /\ CallOf(d).retrieving
          /\ d.lookups = c.lookups
      BY <1>1, <2>6, <3>1, RetrievingFields DEF SameCall
    <3>3. \A i \in 1..Len(c.calls) : SameCall(c.calls[i], d.calls[i])
      BY <3>2 DEF CallOf, SameCall
    <3> QED BY <3>2, <3>3 DEF KeepsPlan, AddsLookups
  <2>7. ASSUME SaveResult(w), d = Resulting(c, run[w].held, Exchange(w))
        PROVE  KeepsPlan(c, d) /\ AddsLookups(c, d)
    <3>1. run[w].pc \in Working /\ run[w].pc # "idle" BY <2>7 DEF SaveResult, Working
    <3>2. c.index <= Len(c.calls) /\ c.pending BY <2>1, <3>1
    <3>3. run[w].held \in SUBSET Targets BY <3>1, RunIs DEF Basis
    <3>4. Exchange(w) \in SUBSET Lookups BY <2>7, ExchangeTypes DEF Basis, SaveResult
    <3>5. HasResulted(d, c, run[w].held, Exchange(w))
      BY <1>1, <2>7, <3>2, <3>3, <3>4, ResultingFields
    <3>6. /\ d.round = c.round /\ d.index = c.index /\ Len(d.calls) = Len(c.calls)
          /\ \A i \in 1..Len(c.calls) : i # c.index => d.calls[i] = c.calls[i]
          /\ SameCall(CallOf(c), CallOf(d))
          /\ CallOf(d).retrieving = CallOf(c).retrieving
          /\ d.lookups = c.lookups \cup Exchange(w)
      BY <3>5 DEF HasResulted, SameCall
    <3>7. \A i \in 1..Len(c.calls) : SameCall(c.calls[i], d.calls[i])
      BY <3>6 DEF CallOf, SameCall
    <3>8. \A x \in Exchange(w) : x.step = <<c.round, c.index>> BY <1>4 DEF Exchange
    <3> QED BY <3>6, <3>7, <3>8 DEF KeepsPlan, AddsLookups
  <2> QED BY <1>4, <2>2, <2>3, <2>4, <2>5, <2>6, <2>7 DEF Written
<1>5. \/ d = c \/ \E w \in Workers : At(w) = e /\ Mem(w) = c /\ Written(w, e, c, d)
  BY ContextsMove DEF c, d
<1>6. KeepsPlan(c, d) /\ AddsLookups(c, d) BY <1>3, <1>4, <1>5
<1> QED BY <1>6 DEF c, d

(* A run that is over is blank. *)
LEMMA IdleKept ==
  ASSUME Basis, PlansAgree, [Next]_vars, NEW w \in Workers, run'[w].pc = "idle"
  PROVE  run'[w].mem = Blank
<1>1. run \in [Workers -> Run] BY DEF Basis, TypeOK
<1>2. ASSUME UNCHANGED run PROVE run'[w].mem = Blank BY <1>2 DEF PlansAgree, Mem
<1>3. ASSUME NEW v \in Workers, run' = [run EXCEPT ![v] = Idle] PROVE run'[w].mem = Blank
  BY <1>1, <1>3 DEF PlansAgree, Mem, Idle
<1>4. ASSUME NEW v \in Workers, run'[v].pc # "idle", \A u \in Workers \ {v} : run'[u] = run[u]
      PROVE  run'[w].mem = Blank
  BY <1>4 DEF PlansAgree, Mem
<1>5. ASSUME NEW v \in Workers, RunStep(v) PROVE run'[w].mem = Blank
  <2>1. CASE Ends(v) BY <1>3, <2>1 DEF Ends, EndRun
  <2>2. CASE GoesOn(v)
    <3>1. PICK pc \in Places \ {"idle"} : \E h, n : Moved(v, pc, Mem(v), h, n) BY <2>2 DEF GoesOn
    <3> QED BY <1>4, <3>1 DEF Moved
  <2>3. ASSUME NEW s, NEW m, NEW pc, Saves(v, s, m, pc) PROVE run'[w].mem = Blank
    <3>1. pc # "idle" /\ run' = [run EXCEPT ![v].mem = m, ![v].pc = pc, ![v].held = {}, ![v].next = 0]
      BY <2>3 DEF Saves, Save
    <3>2. run'[v].pc = pc /\ \A u \in Workers \ {v} : run'[u] = run[u]
      BY <1>1, <3>1 DEF Run
    <3> QED BY <1>4, <3>1, <3>2
  <2>4. ASSUME NEW e \in Executions, Start(v, e) PROVE run'[w].mem = Blank
    <3>1. run'[v].pc # "idle" BY <2>4, Starts DEF Basis
    <3>2. \A u \in Workers \ {v} : run'[u] = run[u] BY <1>1, <2>4 DEF Start
    <3> QED BY <1>4, <3>1, <3>2
  <2> QED BY <1>5, <2>1, <2>2, <2>3, <2>4, RunsMove, Zenon DEF RunMoves, Basis
<1>6. CASE UserStep \/ Environment
  BY <1>2, <1>3, <1>6, OthersMove DEF Crash, Basis
<1> QED BY <1>2, <1>5, <1>6 DEF Next, vars

LEMMA PlansAgreeKept ==
  ASSUME Basis, PlansAgree, [Next]_vars
  PROVE  PlansAgree'
<1>1. ctx \in [Executions -> Context] /\ ctx' \in [Executions -> Context]
      /\ run \in [Workers -> Run] /\ run' \in [Workers -> Run]
      /\ \A w \in Workers : run'[w].pc # "idle" => run'[w].at \in Executions
  BY ShapeKept DEF Basis, TypeOK
<1>2. ASSUME NEW w \in Workers, run'[w].pc # "idle"
      PROVE  LET e == run'[w].at
             IN  /\ run'[w].mem \in Context /\ e \in Executions
                 /\ \/ run[w].pc # "idle" /\ e = At(w) /\ run'[w].mem = Mem(w)
                    \/ run'[w].mem = ctx'[e]
                    \/ run'[w].mem = Blank
  BY <1>1, <1>2, CopiesMove DEF Basis, Run
<1>3. Blank.round = 0 BY DEF Blank
<1>4. ASSUME NEW e \in Executions
      PROVE  /\ ctx[e].round \in Nat /\ ctx'[e].round \in Nat
             /\ ctx[e].round <= ctx'[e].round
             /\ \A m \in Context : m.round <= ctx[e].round /\ SamePlan(m, ctx[e]) =>
                                   m.round <= ctx'[e].round /\ SamePlan(m, ctx'[e])
  <2>1. ctx[e].round \in Nat /\ ctx'[e].round \in Nat BY <1>1 DEF Context
  <2>2. KeepsPlan(ctx[e], ctx'[e]) BY PlansMove
  <2>3. \A m \in Context : m.round \in Nat BY DEF Context
  <2> QED BY <2>1, <2>2, <2>3 DEF KeepsPlan, SamePlan, SameCall
<1>5. ASSUME NEW w \in Workers, run'[w].pc # "idle"
      PROVE  run'[w].mem.round <= ctx'[run'[w].at].round
             /\ SamePlan(run'[w].mem, ctx'[run'[w].at])
  <2>1. PICK e \in Executions : e = run'[w].at BY <1>2, <1>5
  <2>2. CASE run[w].pc # "idle" /\ e = At(w) /\ run'[w].mem = Mem(w)
    BY <1>2, <1>4, <1>5, <2>1, <2>2 DEF PlansAgree
  <2>3. CASE run'[w].mem = ctx'[e] BY <1>4, <2>1, <2>3 DEF SamePlan, SameCall
  <2>4. CASE run'[w].mem = Blank BY <1>3, <1>4, <2>1, <2>4 DEF SamePlan
  <2> QED BY <1>2, <1>5, <2>1, <2>2, <2>3, <2>4
<1>6. ASSUME NEW v \in Workers, NEW w \in Workers, run'[v].pc # "idle", run'[w].pc # "idle",
             run'[v].at = run'[w].at
      PROVE  SamePlan(run'[v].mem, run'[w].mem)
  <2>1. PICK e \in Executions : e = run'[w].at BY <1>2, <1>6
  <2>2. SamePlan(run'[v].mem, ctx'[e]) /\ SamePlan(run'[w].mem, ctx'[e]) BY <1>5, <1>6, <2>1
  <2>3. CASE run'[v].mem = Blank \/ run'[w].mem = Blank BY <1>3, <2>3 DEF SamePlan
  <2>4. CASE run'[w].mem = ctx'[e] BY <2>2, <2>4
  <2>5. CASE run'[v].mem = ctx'[e] BY <2>2, <2>5 DEF SamePlan, SameCall
  <2>6. CASE /\ run[v].pc # "idle" /\ e = At(v) /\ run'[v].mem = Mem(v)
             /\ run[w].pc # "idle" /\ e = At(w) /\ run'[w].mem = Mem(w)
    BY <2>6 DEF PlansAgree
  <2> QED BY <1>2, <1>6, <2>1, <2>3, <2>4, <2>5, <2>6
<1> QED BY <1>5, <1>6, IdleKept DEF PlansAgree, Mem, At

(* What was begun stays begun. *)
LEMMA BegunStays ==
  ASSUME Basis, [Next]_vars, NEW s \in Steps, Begun(s)
  PROVE  Begun(s)'
<1>1. PICK e \in Executions : e = s[1] BY DEF Steps
<1> DEFINE c == ctx[e]
           d == ctx'[e]
<1>2. c \in Context /\ d \in Context /\ Onward(c, d) BY ContextsMoveOn
<1>3. KeepsPlan(c, d) BY PlansMove
<1>4. Beyond(c, s) \/ (AtStep(c, s) /\ (CallOf(c).retrieving \/ s \in receipts))
  BY <1>1 DEF Begun
<1>5. receipts \subseteq receipts' BY ReceiptsStay
<1> HIDE DEF c, d
<1>6. /\ Beyond(c, s) => Beyond(d, s)
      /\ AtStep(c, s) => AtStep(d, s) \/ Beyond(d, s)
  BY <1>2, OnwardSteps
<1>7. AtStep(c, s) /\ AtStep(d, s) /\ CallOf(c).retrieving => CallOf(d).retrieving
  BY <1>2, <1>3 DEF AtStep, KeepsPlan, Context
<1>8. Beyond(d, s) \/ (AtStep(d, s) /\ (CallOf(d).retrieving \/ s \in receipts'))
  BY <1>4, <1>5, <1>6, <1>7
<1> QED BY <1>1, <1>8 DEF Begun, Beyond, AtStep, CallOf, d

(* How a run gets to pay a provider.                                         *)
StartsSpending(w) ==
    /\ run'[w].at = At(w) /\ run[w].pc \notin Spending
    /\ \A v \in Workers \ {w} : run'[v] = run[v]
    /\ \/ run'[w].pc = "retrieve" /\ SaveRetrieval(w) /\ run'[w].mem = Retrieving(Mem(w))
       \/ run'[w].pc = "enrich" /\ Adds(w) /\ run'[w].mem = Mem(w)

LEMMA ToSpending ==
  ASSUME TypeOK, Shape, NEW w \in Workers, RunStep(w), run'[w].pc \in Spending
  PROVE  StartsSpending(w)
<1>1. run \in [Workers -> Run] BY DEF TypeOK
<1>2. CASE run'[w].pc = "enrich"
  <2>1. Adds(w) /\ run'[w].at = run[w].at /\ run'[w].mem = Mem(w)
    BY <1>2, Arrives DEF Arrived, Enriching
  <2>2. run[w].pc = "work" BY <2>1 DEF Adds, ExecuteAddition, CallIs, AtCall, InTurn
  <2>3. \A v \in Workers \ {w} : run'[v] = run[v]
    BY <1>1, <2>1 DEF Adds, ExecuteAddition, Goto, GotoHolding
  <2> QED BY <1>2, <2>1, <2>2, <2>3 DEF StartsSpending, Spending, At
<1>3. CASE run'[w].pc = "retrieve"
  <2> DEFINE Elsewhere == {"begin", "work", "publishing", "requested", "approved", "rejecting",
                           "children", "rejectchild", "fetched", "enrich", "enriched", "result",
                           "interrupted", "saved", "cursor", "cancelling"}
  <2>1. Elsewhere \subseteq Places /\ "retrieve" \notin Elsewhere /\ "retrieve" \in Places
    BY DEF Places, Working, Deciding, Showing
  <2>2. ASSUME NEW pc \in Elsewhere,
               \/ Goto(w, pc)
               \/ \E h : GotoHolding(w, pc, h)
               \/ \E n : GotoNext(w, pc, n)
               \/ \E s, m : Save(w, s, m, pc)
        PROVE  FALSE
    <3>1. pc \in Places /\ pc # "retrieve" BY <2>1
    <3>2. \E m, k, n : Moved(w, pc, m, k, n) BY <1>1, <2>2, <3>1, Moves, Zenon
    <3> QED BY <1>3, <3>1, <3>2 DEF Moved
  <2>3. ASSUME NEW pc \in Elsewhere PROVE ~Goto(w, pc) BY <2>2, <2>3
  <2>4. ASSUME NEW pc \in Elsewhere, NEW h PROVE ~GotoHolding(w, pc, h) BY <2>2, <2>4
  <2>5. ASSUME NEW pc \in Elsewhere, NEW n PROVE ~GotoNext(w, pc, n) BY <2>2, <2>5
  <2>6. ASSUME NEW pc \in Elsewhere, NEW s, NEW m PROVE ~Save(w, s, m, pc) BY <2>2, <2>6
  <2>7. ~EndRun(w) BY <1>1, <1>3 DEF EndRun, Idle
  <2>8. ~TurnStep(w)
    BY <2>3, <2>4, <2>5, <2>6 DEF TurnStep, SaveTurn, GiveUp, Complete, ClearTurn
  <2>9. ~ApprovalStep(w)
    <3>1. ~Request(w) /\ ~SaveAwaiting(w) BY <2>5, <2>6 DEF Request, SaveAwaiting
    <3>2. ~Pause(w) BY <2>7 DEF Pause
    <3>3. ~Consult(w) BY <2>3 DEF Consult
    <3>4. ~ExecuteOne(w) /\ ~RejectOne(w) BY <2>3, <2>4 DEF ExecuteOne, RejectOne
    <3>5. ~StartBatch(w) BY <2>4, <2>5 DEF StartBatch
    <3>6. ~ExecuteChild(w) BY <2>3, <2>5 DEF ExecuteChild
    <3>7. ~RejectedChild(w) /\ ~EndBatch(w) BY <2>4, <2>5 DEF RejectedChild, EndBatch
    <3> QED BY <3>1, <3>2, <3>3, <3>4, <3>5, <3>6, <3>7 DEF ApprovalStep
  <2>10. ~ResultStep(w)
    BY <2>3, <2>4, <2>5, <2>6
    DEF ResultStep, SaveResult, ShowResult, SaveCursor, Recover, SaveCancelled
  <2>11. ~Leave(w) /\ ~Publish(w) BY <2>7 DEF Leave, Publish
  <2>12. ~BeginStage(w)
    <3>1. ~GotoNext(w, "cancelling", 1) /\ ~GotoNext(w, "work", 1) BY <2>5
    <3> QED BY <3>1 DEF BeginStage
  <2>13. ASSUME NEW e \in Executions, Start(w, e) PROVE FALSE BY <1>3, <2>13, Starts
  <2>14. EffectStep(w)
    BY <2>8, <2>9, <2>10, <2>11, <2>12, <2>13 DEF RunStep
  <2>15. ~ExecuteAddition(w) /\ ~Enrich(w) /\ ~SaveEnrichment(w)
    <3>1. (IF Step(w) \in unenriched THEN "interrupted" ELSE "result") \in Elsewhere OBVIOUS
    <3> QED BY <2>3, <2>4, <3>1 DEF ExecuteAddition, Enrich, SaveEnrichment
  <2>16. ~ReportInterrupted(w) /\ ~Retrieve(w) /\ ~StageSpecs(w)
    BY <2>3, <2>4 DEF ReportInterrupted, Retrieve, StageSpecs
  <2>17. SaveRetrieval(w) BY <2>14, <2>15, <2>16 DEF EffectStep
  <2>18. Save(w, "ready", Retrieving(Mem(w)), "retrieve") /\ run[w].pc = "work"
    BY <2>17 DEF SaveRetrieval, AtRetrieval, Retrieving, CallIs, AtCall, InTurn
  <2>19. Moved(w, "retrieve", Retrieving(Mem(w)), {}, 0) BY <1>1, <2>1, <2>18, Moves, Zenon
  <2>20. run'[w].at = At(w) /\ run'[w].mem = Retrieving(Mem(w))
         /\ \A v \in Workers \ {w} : run'[v] = run[v]
    BY <2>19 DEF Moved, At
  <2> QED BY <1>3, <2>17, <2>18, <2>20 DEF StartsSpending, Spending
<1> QED BY <1>2, <1>3 DEF Spending

(* Who pays.                                                                 *)
Pays(w) ==
    /\ Retrieve(w) \/ Enrich(w)
    /\ paid' = [paid EXCEPT ![Step(w)] = @ + 1] /\ Step(w) \in Steps
    /\ run[w].pc \in Spending /\ run'[w].pc \notin Spending /\ UNCHANGED ctx

LEMMA PaidMoves ==
  ASSUME TypeOK, Shape, [Next]_vars
  PROVE  UNCHANGED paid \/ \E w \in Workers : Pays(w)
<1>1. run \in [Workers -> Run] BY DEF TypeOK
<1>2. ASSUME NEW w \in Workers, Retrieve(w) \/ Enrich(w)
      PROVE  UNCHANGED paid \/ Pays(w)
  <2>1. run[w].pc \in Spending /\ run[w].pc \in Working
    BY <1>2 DEF Retrieve, Enrich, Spending, Working
  <2>2. Step(w) \in Steps BY <2>1, AtItsCall, Zenon
  <2>3. run'[w].pc \in {"fetched", "enriched", "result"}
    BY <1>1, <1>2 DEF Retrieve, Enrich, Goto, Run
  <2> QED BY <1>2, <2>1, <2>2, <2>3 DEF Pays, Retrieve, Enrich, Spending
<1>3. ASSUME NEW w \in Workers, EffectStep(w) PROVE UNCHANGED paid \/ Pays(w)
  BY <1>2, <1>3
  DEF EffectStep, ExecuteAddition, SaveEnrichment, ReportInterrupted, SaveRetrieval, StageSpecs
<1>4. ASSUME NEW w \in Workers, TurnStep(w) \/ ApprovalStep(w) \/ ResultStep(w)
      PROVE  UNCHANGED paid
  <2>1. CASE TurnStep(w) BY <2>1 DEF TurnStep, SaveTurn, GiveUp, Complete, ClearTurn
  <2>2. CASE ApprovalStep(w)
    BY <2>2
    DEF ApprovalStep, Request, SaveAwaiting, Pause, Consult, ExecuteOne, RejectOne, StartBatch,
        ExecuteChild, RejectedChild, EndBatch
  <2>3. CASE ResultStep(w)
    BY <2>3 DEF ResultStep, SaveResult, ShowResult, SaveCursor, Recover, SaveCancelled
  <2> QED BY <1>4, <2>1, <2>2, <2>3
<1>5. ASSUME NEW w \in Workers, RunStep(w) PROVE UNCHANGED paid \/ Pays(w)
  BY <1>3, <1>4, <1>5 DEF RunStep, BeginStage, Leave, Publish, Start
<1> QED BY <1>5, OthersMove DEF Next, vars

(* A run starts to pay for the call of the checkpoint, for which nothing was *)
(* begun; then it is.                                                        *)
LEMMA SpendingIsNew ==
  ASSUME Basis, EffectsFit, [Next]_vars, NEW w \in Workers, StartsSpending(w)
  PROVE  /\ Step(w) \in Steps /\ Step(w)' = Step(w) /\ UNCHANGED paid
         /\ ~Begun(Step(w)) /\ Begun(Step(w))'
<1>1. /\ Mem(w).pending /\ Mem(w).index <= Len(Mem(w).calls)
      /\ Owns(At(w), w) /\ AtCall(w) /\ UNCHANGED paid
  <2>1. AtCall(w)
    BY DEF StartsSpending, SaveRetrieval, AtRetrieval, Adds, ExecuteAddition, CallIs
  <2>2. Owns(At(w), w)
    BY ChangersAre DEF StartsSpending, SaveRetrieval, Save, SaveStatus, Changer
  <2>3. UNCHANGED paid BY DEF StartsSpending, SaveRetrieval, Adds, ExecuteAddition
  <2> QED BY <2>1, <2>2, <2>3 DEF AtCall, InTurn
<1>2. PICK e \in Executions : e = At(w) BY <1>1, AtItsCall DEF Basis
<1> DEFINE c == ctx[e]
           d == ctx'[e]
<1>3. PICK s \in Steps : s = StepAt(e)
  BY <1>1, <1>2, AtItsCursor DEF Owns, Basis, OwnerIsCurrent
<1>4. Mem(w) = c /\ Step(w) = s /\ Cursor(w) = CallOf(c)
  BY <1>1, <1>2, <1>3 DEF Owns, Basis, OwnerIsCurrent, Step, StepOf, StepAt, Cursor, CallOf
<1>5. /\ c \in Context /\ TurnIsProper(c) /\ s \in Steps /\ AtStep(c, s) /\ s[1] = e
      /\ IsProper(CallOf(c)) /\ s = <<e, c.round, c.index>>
  BY <1>1, <1>4, <1>3, AtItsCursor DEF StepAt
<1>6. CallDid(c, s) BY <1>1, <1>4, <1>3 DEF EffectsFit, CursorDid
<1>7. ~Beyond(c, s) BY <1>5, ContextsMoveOn, OnwardSteps
<1> HIDE DEF c, d
<1>8. CASE SaveRetrieval(w) /\ run'[w].mem = Retrieving(Mem(w))
  <2>1. CallOf(c).tool \in Retrievals /\ ~CallOf(c).retrieving
    BY <1>4, <1>8 DEF SaveRetrieval, AtRetrieval, CallIs, Interrupted
  <2>2. ~Begun(s) BY <1>5, <1>6, <1>7, <2>1 DEF Begun, CallDid, Retrievals, c
  <2>3. /\ Retrieving(c).round = c.round /\ Retrieving(c).index = c.index
        /\ Len(Retrieving(c).calls) = Len(c.calls) /\ CallOf(Retrieving(c)).retrieving
    BY <1>1, <1>4, <1>5, <2>1, RetrievingFields
  <2>4. Save(w, "ready", Retrieving(c), "retrieve")
    BY <1>4, <1>8 DEF SaveRetrieval, Retrieving
  <2>5. d = Retrieving(c) BY <1>2, <2>4 DEF Save, Basis, TypeOK, d
  <2>6. Begun(s)'
    <3>1. AtStep(d, s) /\ CallOf(d).retrieving BY <1>5, <2>3, <2>5 DEF AtStep
    <3> QED BY <1>5, <3>1 DEF Begun, AtStep, CallOf, d
  <2>7. Step(w)' = s
    <3>1. run'[w].mem = Retrieving(c) /\ run'[w].at = e
      BY <1>2, <1>4, <1>8 DEF StartsSpending
    <3> QED BY <1>5, <2>3, <3>1 DEF Step, StepOf, At, Mem
  <2>8. Begun(Step(w))' BY <2>6, <2>7 DEF Begun
  <2> QED BY <1>1, <1>4, <1>5, <2>2, <2>7, <2>8
<1>9. CASE Adds(w) /\ run'[w].mem = Mem(w)
  <2>1. /\ CallOf(c).tool = "add" /\ s \notin receipts /\ receipts' = receipts \cup {s}
        /\ UNCHANGED ctx
    BY <1>4, <1>9, ChangersAre DEF Changer
  <2>2. ~CallOf(c).retrieving BY <1>5, <2>1 DEF IsProper, Retrievals
  <2>3. ~Begun(s) BY <1>5, <1>7, <2>1, <2>2 DEF Begun, c
  <2>4. Begun(s)' BY <1>5, <2>1 DEF Begun, AtStep, CallOf, c
  <2>5. Step(w)' = s
    <3>1. run'[w].at = At(w) /\ run'[w].mem = Mem(w) BY <1>9 DEF StartsSpending
    <3> QED BY <1>4, <3>1 DEF Step, StepOf, At, Mem
  <2>6. Begun(Step(w))' BY <2>4, <2>5 DEF Begun
  <2> QED BY <1>1, <1>4, <1>5, <2>3, <2>5, <2>6
<1> QED BY <1>8, <1>9 DEF StartsSpending

LEMMA SpendsOnceKept ==
  ASSUME Basis, EffectsFit, SpendsOnce, [Next]_vars
  PROVE  SpendsOnce'
<1>1. /\ \A w \in Workers : run[w].pc \in Spending => Begun(Step(w)) /\ paid[Step(w)] = 0
      /\ \A v, w \in Workers :
            run[v].pc \in Spending /\ run[w].pc \in Spending /\ Step(v) = Step(w) => v = w
      /\ \A s \in Steps : paid[s] # 0 => Begun(s)
      /\ paid \in [Steps -> Nat]
  BY DEF SpendsOnce, Basis, TypeOK
<1>2. ASSUME NEW w \in Workers, run[w].pc \in Spending PROVE Step(w) \in Steps
  <2>1. run[w].pc \in Working BY <1>2 DEF Spending, Working
  <2> QED BY <2>1, AtItsCall, Zenon DEF Basis
<1>3. ASSUME NEW w \in Workers, run'[w].pc \in Spending
      PROVE  run'[w] = run[w] \/ StartsSpending(w)
  <2>1. run'[w].pc # "idle" BY <1>3 DEF Spending
  <2> QED BY <1>3, <2>1, RunStays, ToSpending DEF Basis
<1>4. ASSUME NEW w \in Workers, run'[w] = run[w]
      PROVE  Step(w)' = Step(w)
  BY <1>4 DEF Step, StepOf, At, Mem
<1>5. ASSUME NEW w \in Workers, run'[w].pc \in Spending
      PROVE  Begun(Step(w))' /\ paid'[Step(w)'] = 0
  <2>1. CASE StartsSpending(w)
    <3>1. PICK s \in Steps : s = Step(w) BY <2>1, SpendingIsNew
    <3>2. Step(w)' = s /\ UNCHANGED paid /\ ~Begun(s) /\ Begun(Step(w))'
      BY <2>1, <3>1, SpendingIsNew
    <3> QED BY <1>1, <3>2
  <2>2. CASE run'[w] = run[w]
    <3>1. run[w].pc \in Spending BY <1>5, <2>2
    <3>2. PICK s \in Steps : s = Step(w) BY <1>2, <3>1
    <3>3. Step(w)' = s /\ Begun(s) /\ paid[s] = 0 BY <1>1, <1>4, <2>2, <3>1, <3>2
    <3>4. Begun(s)' BY <3>3, BegunStays
    <3>5. Begun(Step(w))' BY <3>3, <3>4 DEF Begun
    <3>6. ASSUME NEW v \in Workers, Pays(v) PROVE Step(v) # s
      BY <1>1, <1>5, <2>2, <3>1, <3>2, <3>6 DEF Pays
    <3>7. paid'[s] = 0
      <4>1. ASSUME NEW v \in Workers, Pays(v) PROVE paid'[s] = 0
        BY <1>1, <3>3, <3>6, <4>1 DEF Pays
      <4> QED BY <3>3, <4>1, PaidMoves DEF Basis
    <3> QED BY <3>3, <3>5, <3>7
  <2> QED BY <1>3, <1>5, <2>1, <2>2
<1>6. ASSUME NEW v \in Workers, NEW w \in Workers, run'[v].pc \in Spending,
             run'[w].pc \in Spending, Step(v)' = Step(w)', v # w
      PROVE  FALSE
  <2>1. ASSUME NEW t \in Workers, NEW u \in Workers, t # u, Step(t)' = Step(u)',
               run'[u].pc \in Spending, StartsSpending(t)
        PROVE  FALSE
    <3>1. run'[u] = run[u] BY <2>1 DEF StartsSpending
    <3>2. run[u].pc \in Spending BY <2>1, <3>1
    <3>3. Step(u)' = Step(u) BY <1>4, <3>1
    <3>4. Step(t)' = Step(t) /\ ~Begun(Step(t)) BY <2>1, SpendingIsNew
    <3>5. Begun(Step(u)) BY <1>1, <3>2
    <3>6. Step(t) = Step(u) BY <2>1, <3>3, <3>4
    <3> QED BY <3>4, <3>5, <3>6
  <2>2. CASE run'[v] = run[v] /\ run'[w] = run[w]
    <3>1. Step(v) = Step(w) BY <1>4, <1>6, <2>2
    <3> QED BY <1>1, <1>6, <2>2, <3>1
  <2> QED BY <1>3, <1>6, <2>1, <2>2
<1>7. ASSUME NEW s \in Steps, paid'[s] # 0 PROVE Begun(s)'
  <2>1. Begun(s)
    <3>1. CASE paid[s] # 0 BY <1>1, <3>1
    <3>2. ASSUME NEW w \in Workers, Pays(w), paid[s] = 0 PROVE Begun(s)
      <4>1. s = Step(w) BY <1>1, <1>7, <3>2 DEF Pays
      <4> QED BY <1>1, <3>2, <4>1 DEF Pays
    <3> QED BY <1>7, <3>1, <3>2, PaidMoves DEF Basis
  <2> QED BY <2>1, BegunStays
<1> QED BY <1>5, <1>6, <1>7 DEF SpendsOnce

LEMMA NoneInterruptedKept ==
  ASSUME Basis, EffectsFit, SpendsOnce, NoneInterrupted, [Next]_vars
  PROVE  NoneInterrupted'
<1>1. ctx \in [Executions -> Context] /\ ctx' \in [Executions -> Context]
  BY ShapeKept DEF Basis, TypeOK
<1>2. ASSUME NEW w \in Workers, StartsSpending(w), run'[w].pc = "retrieve",
             NEW x \in ctx'[At(w)'].lookups
      PROVE  ~Forbids(x, Cursor(w)')
  <2>1. SaveRetrieval(w) /\ run'[w].mem = Retrieving(Mem(w)) /\ run'[w].at = At(w)
    BY <1>2 DEF StartsSpending
  <2>2. AtCall(w) /\ Cursor(w).tool \in Retrievals /\ ~Interrupted(w)
    BY <2>1 DEF SaveRetrieval, AtRetrieval, CallIs
  <2>3. Save(w, "ready", Retrieving(Mem(w)), "retrieve")
    BY <2>1 DEF SaveRetrieval, Retrieving
  <2>4. /\ Mem(w) \in Context /\ TurnIsProper(Mem(w)) /\ Mem(w).pending
        /\ Mem(w).index <= Len(Mem(w).calls) /\ Cursor(w) = CallOf(Mem(w))
        /\ At(w) \in Executions
    BY <2>2, AtItsCall DEF Basis, AtCall
  <2>5. /\ SameCall(CallOf(Retrieving(Mem(w))), Cursor(w))
        /\ Retrieving(Mem(w)).lookups = Mem(w).lookups
    BY <2>2, <2>4, RetrievingFields DEF SameCall
  <2>6. ctx'[At(w)] = Retrieving(Mem(w)) BY <1>1, <2>3, <2>4 DEF Save
  <2>7. x \in Mem(w).lookups BY <1>2, <2>1, <2>5, <2>6 DEF At
  <2>8. SameCall(Cursor(w)', Cursor(w)) BY <2>1, <2>5 DEF Cursor, CallOf, Mem, SameCall
  <2> QED BY <2>2, <2>7, <2>8 DEF Interrupted, Forbids, SameCall
<1>3. ASSUME NEW w \in Workers, run'[w] = run[w], run[w].pc = "retrieve",
             NEW x \in ctx'[At(w)].lookups, Forbids(x, Cursor(w))
      PROVE  NotBefore(x.step, Step(w))
  <2>1. run[w].pc \in Working /\ run[w].pc \in Spending BY <1>3 DEF Working, Spending
  <2>2. At(w) \in Executions /\ Step(w) \in Steps /\ Step(w)[1] = At(w)
    BY <2>1, AtItsCall, Zenon DEF Basis
  <2>3. PICK e \in Executions, s \in Steps : e = At(w) /\ s = Step(w) BY <2>2
  <2>4. CASE x \in ctx[e].lookups BY <1>3, <2>3, <2>4 DEF NoneInterrupted
  <2>5. CASE x \notin ctx[e].lookups
    <3>1. AddsLookups(ctx[e], ctx'[e]) BY PlansMove
    <3>2. x.step = <<ctx[e].round, ctx[e].index>> BY <1>3, <2>3, <2>5, <3>1 DEF AddsLookups
    <3>3. Begun(s) BY <2>1, <2>3 DEF SpendsOnce
    <3>4. Beyond(ctx[e], s) \/ AtStep(ctx[e], s) BY <2>2, <2>3, <3>3 DEF Begun
    <3>5. ctx[e].round \in Nat /\ ctx[e].index \in Nat
      <4>1. ctx[e] \in Context BY <1>1
      <4> QED BY <4>1 DEF Context
    <3>6. s[2] \in Nat /\ s[3] \in Nat BY SizesAreNatural DEF Steps
    <3>7. NotBefore(x.step, s) BY <3>2, <3>4, <3>5, <3>6 DEF NotBefore, Beyond, AtStep
    <3> QED BY <2>3, <3>7
  <2> QED BY <2>4, <2>5
<1> SUFFICES ASSUME NEW w \in Workers, run'[w].pc = "retrieve",
                    NEW x \in ctx'[At(w)'].lookups,
                    Forbids(x, Cursor(w)')
             PROVE  NotBefore(x.step, Step(w)')
  BY DEF NoneInterrupted, NotBefore, Forbids
<1>4. run'[w] = run[w] \/ StartsSpending(w)
  <2>1. run'[w].pc # "idle" /\ run'[w].pc \in Spending BY DEF Spending
  <2> QED BY <2>1, RunStays, ToSpending DEF Basis
<1>5. CASE run'[w] = run[w]
  <2>1. /\ At(w)' = At(w) /\ Cursor(w)' = Cursor(w) /\ Step(w)' = Step(w)
        /\ run[w].pc = "retrieve"
    BY <1>5 DEF At, Cursor, Step, StepOf, Mem
  <2> QED BY <1>3, <1>5, <2>1
<1> QED BY <1>2, <1>4, <1>5

Paying == Basis /\ EffectsFit /\ PaymentsFit

LEMMA PayingKept ==
  ASSUME Paying, [Next]_vars
  PROVE  Paying'
<1>1. Basis' /\ EffectsFit' BY EffectsFitKept DEF Paying
<1>2. PaymentsFit'
  BY PlansAgreeKept, SpendsOnceKept, NoneInterruptedKept DEF Paying, PaymentsFit
<1> QED BY <1>1, <1>2 DEF Paying

(* What the model pays for, when it pays, as the property says it. *)
LEMMA PaysAtMostOnce ==
  ASSUME Paying, NEW u \in Workers, Pays(u), NEW w \in Workers, NEW s \in Steps,
         Step(w) = s, paid'[s] # paid[s]
  PROVE  /\ paid[s] = 0
         /\ \A x \in ctx[At(w)].lookups : Forbids(x, Cursor(w)) => NotBefore(x.step, s)
<1>1. paid \in [Steps -> Nat] BY DEF Paying, Basis, TypeOK
<1>2. Step(u) = s BY <1>1 DEF Pays
<1>3. paid[s] = 0 BY <1>2 DEF Pays, Paying, PaymentsFit, SpendsOnce
<1>4. At(w) = At(u) /\ Mem(w).round = Mem(u).round /\ Mem(w).index = Mem(u).index
  BY <1>2 DEF Step, StepOf
<1>5. run[u].pc \in Working BY DEF Pays, Spending, Working
<1>6. /\ At(u) \in Executions /\ Mem(u) \in Context /\ IsProper(Cursor(u))
      /\ Mem(u).index \in 1..Len(Mem(u).calls) /\ Step(u)[1] = At(u) /\ run[u].pc # "idle"
  BY <1>5, AtItsCall, Zenon DEF Paying, Basis, Working, Deciding
<1>7. Mem(w).round = s[2] /\ s[2] \in Nat /\ s[2] >= 1
  BY SizesAreNatural DEF Step, StepOf, Steps
<1>8. run[w].pc # "idle"
  BY <1>7 DEF Paying, PaymentsFit, PlansAgree, Blank
<1>9. SamePlan(Mem(u), Mem(w)) BY <1>4, <1>6, <1>8 DEF Paying, PaymentsFit, PlansAgree
<1>10. Cursor(w).targets = Cursor(u).targets /\ Cursor(w).tool = Cursor(u).tool
  BY <1>4, <1>6, <1>7, <1>9 DEF SamePlan, SameCall, Cursor
<1>11. ctx[At(u)].lookups \subseteq Lookups
  BY <1>6 DEF Paying, Basis, TypeOK, Context, Lookups
<1>12. CASE run[u].pc = "retrieve"
  BY <1>2, <1>3, <1>4, <1>10, <1>12 DEF Paying, PaymentsFit, NoneInterrupted, Forbids
<1>13. CASE run[u].pc = "enrich"
  <2>1. Cursor(u).tool = "add"
    BY <1>13 DEF Paying, Basis, Shape, RunFits, Cursor, CallOf, Mem
  <2>2. Cursor(u).targets = {Stock} BY <1>6, <2>1 DEF IsProper
  <2>3. \A x \in ctx[At(u)].lookups : x.part \in Nat \ {0} BY <1>11 DEF Lookups
  <2>4. \A x \in ctx[At(u)].lookups : x.part # Stock BY <2>3 DEF Stock
  <2> QED BY <1>3, <1>4, <1>10, <2>2, <2>4 DEF Forbids
<1> QED BY <1>12, <1>13 DEF Pays, Spending

LEMMA InitPaying ==
  ASSUME Init
  PROVE  Paying
<1>1. Basis /\ EffectsFit BY InitTelling DEF Telling
<1>2. /\ \A w \in Workers : run[w].pc = "idle" /\ run[w].mem = Blank
      /\ \A s \in Steps : paid[s] = 0
  BY DEF Init, Idle
<1>3. PlansAgree BY <1>2 DEF PlansAgree, Mem
<1>4. SpendsOnce /\ NoneInterrupted BY <1>2 DEF SpendsOnce, NoneInterrupted, Spending
<1> QED BY <1>1, <1>3, <1>4 DEF Paying, PaymentsFit

(* No paid retrieval is repeated behind the user's back: a call is paid for  *)
(* at most once, whichever run dies between the intent and the result; once  *)
(* a tool was interrupted for a part, no later call of that tool in the      *)
(* execution pays for it, in this turn or in a later one; and no lookup pays *)
(* again for a part whose enrichment was lost.                               *)
THEOREM RetrievalsArePaidOnce == Spec => RetrievalIsNotRepeated
<1>1. Init => Paying BY InitPaying
<1>2. Paying /\ [Next]_vars => Paying' BY PayingKept
<1>3. ASSUME Paying, [Next]_vars
      PROVE  [\A w \in Workers, s \in Steps :
                Step(w) = s /\ paid'[s] # paid[s] =>
                  /\ paid[s] = 0
                  /\ \A x \in ctx[At(w)].lookups :
                       x.interrupted /\ x.part \in Cursor(w).targets
                       /\ (x.tool = Cursor(w).tool
                             \/ (x.tool = "add" /\ Cursor(w).tool = "lookup")) =>
                         x.step[1] > s[2] \/ (x.step[1] = s[2] /\ x.step[2] >= s[3])]_paid
  <2>1. UNCHANGED paid \/ \E u \in Workers : Pays(u)
    BY <1>3, PaidMoves DEF Paying, Basis
  <2>2. ASSUME NEW u \in Workers, Pays(u), NEW w \in Workers, NEW s \in Steps,
               Step(w) = s, paid'[s] # paid[s]
        PROVE  /\ paid[s] = 0
               /\ \A x \in ctx[At(w)].lookups :
                    Forbids(x, Cursor(w)) => NotBefore(x.step, s)
    BY <1>3, <2>2, PaysAtMostOnce
  <2> QED BY <2>1, <2>2 DEF NotBefore, Forbids
<1> QED BY <1>1, <1>2, <1>3, PTL DEF Spec, RetrievalIsNotRepeated
=============================================================================
