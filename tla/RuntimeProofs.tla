--------------------------- MODULE RuntimeProofs ----------------------------
(***************************************************************************)
(* What holds of the tool calls of an execution for every number of        *)
(* executions, workers, parts, rounds, calls and requests, every crash and *)
(* every expired lease: the types, the shape of a turn, the fit between a  *)
(* checkpoint and its approval, the currency of the owner's copy, approval *)
(* before effect, and at most one effect after a cancellation.             *)
(***************************************************************************)
EXTENDS AgentRuntime, SequenceTheorems, TLAPS

(* A call is what the model may ask for, and only a lookup or an ingestion  *)
(* is retrieving.                                                           *)
IsProper(c) ==
    /\ c.tool = "add" => c.targets = {Stock}
    /\ c.tool = "update" => \E p \in Parts : c.targets = {p}
    /\ c.tool \in Retrievals => \E p \in 1..MaxId : c.targets = {p}
    /\ c.tool = "bulk" => c.targets = Parts
    /\ c.retrieving => c.tool \in Retrievals

(* The cursor separates the calls that have a result from those nobody     *)
(* touched.                                                                *)
TurnIsProper(m) ==
    /\ Len(m.calls) <= MaxCalls /\ m.index <= Len(m.calls) + 1
    /\ m.pending => m.round >= 1
    /\ ~m.pending => m.index = Len(m.calls) + 1
    /\ \A i \in 1..Len(m.calls) :
         /\ IsProper(m.calls[i])
         /\ i < m.index => m.calls[i].done
         /\ i > m.index => ~m.calls[i].done /\ ~m.calls[i].retrieving

(* Request n of the requests as was made for call c at step s. *)
IsFor(as, n, s, c) ==
    /\ n \in 1..Len(as) /\ as[n].for = s /\ as[n].targets = c.targets
    /\ c.tool \in NeedsApproval

(* The approval of a checkpoint is that of the call at its cursor. *)
CallOf(m) == m.calls[m.index]
ApprovalFits(as, e, m) ==
    m.approval # 0 =>
        /\ m.pending /\ m.index <= Len(m.calls)
        /\ IsFor(as, m.approval, <<e, m.round, m.index>>, CallOf(m))

(* Where a run is at work on the call at its cursor. *)
Deciding == {"approved", "rejecting", "children", "rejectchild"}
Working == Deciding \cup {"requested", "retrieve", "fetched", "enrich", "enriched", "result",
                         "interrupted"}
Showing == {"saved", "cursor"}

(* What a run is sure of at its program counter. *)
RunFits(as, r) ==
    LET m == r.mem
        c == CallOf(m)
    IN  /\ TurnIsProper(m) /\ ApprovalFits(as, r.at, m)
        /\ r.pc \in Working \cup Showing => m.pending /\ m.index <= Len(m.calls)
        /\ r.pc \in Working => ~c.done
        /\ r.pc \in Showing => c.done
        /\ r.pc = "requested" =>
             m.approval = 0 /\ IsFor(as, r.next, <<r.at, m.round, m.index>>, c)
        /\ r.pc \in Deciding => m.approval # 0 /\ as[m.approval].decision = "yes"
        /\ r.pc = "rejecting" => c.tool = "update"
        /\ r.pc \in {"children", "rejectchild"} => c.tool = "bulk" /\ r.next >= 1
        /\ r.pc = "rejectchild" => r.next \in Parts
        /\ r.pc \in {"retrieve", "fetched"} => c.tool \in Retrievals /\ c.retrieving
        /\ r.pc = "interrupted" => c.tool \in Retrievals \cup {"add"}
        /\ r.pc \in {"enrich", "enriched"} => c.tool = "add"
        /\ r.pc \notin {"result", "interrupted"} => r.held = {}
        /\ r.pc \in {"cancelling", "work"} => r.next >= 1

Shape ==
    /\ Len(approvals) <= MaxRequests
    /\ \A e \in Executions :
         TurnIsProper(ctx[e]) /\ ApprovalFits(approvals, e, ctx[e])
    /\ \A w \in Workers : RunFits(approvals, run[w])

-----------------------------------------------------------------------------
(* How a step moves a run.                                                   *)

(* Run w moves within its execution, and no other run moves. *)
Moved(w, pc, m, h, n) ==
    /\ run'[w].pc = pc /\ run'[w].at = run[w].at /\ run'[w].mem = m /\ run'[w].held = h
    /\ run'[w].next = n
    /\ \A v \in Workers \ {w} : run'[v] = run[v]
    /\ m \in Context /\ h \subseteq Targets /\ n \in Nat => run' \in [Workers -> Run]

(* The program counters of a run. *)
Places == {"idle", "begin", "work", "cancelling", "publishing"} \cup Working \cup Showing

(* The fields of a run that moves. *)
LEMMA Moves ==
  ASSUME run \in [Workers -> Run], NEW w \in Workers, NEW pc \in Places
  PROVE  /\ Goto(w, pc) => Moved(w, pc, Mem(w), run[w].held, run[w].next)
         /\ \A h : GotoHolding(w, pc, h) => Moved(w, pc, Mem(w), h, run[w].next)
         /\ \A n : GotoNext(w, pc, n) => Moved(w, pc, Mem(w), run[w].held, n)
         /\ \A s, m : Save(w, s, m, pc) => Moved(w, pc, m, {}, 0)
<1>1. run[w] \in Run /\ pc \in {"idle", "begin", "work", "requested", "approved", "rejecting",
           "children", "rejectchild", "retrieve", "fetched", "enrich", "enriched", "result", "interrupted",
           "saved", "cursor", "cancelling", "publishing"}
  BY DEF Places, Working, Deciding, Showing
<1>2. ASSUME Goto(w, pc) PROVE Moved(w, pc, Mem(w), run[w].held, run[w].next)
  <2>1. run' = [run EXCEPT ![w] = [run[w] EXCEPT !.pc = pc]] BY <1>2 DEF Goto
  <2>2. [run[w] EXCEPT !.pc = pc] \in Run BY <1>1, Zenon DEF Run
  <2> QED BY <1>1, <2>1, <2>2 DEF Moved, Mem, Run
<1>3. ASSUME NEW h, GotoHolding(w, pc, h) PROVE Moved(w, pc, Mem(w), h, run[w].next)
  <2>1. run' = [run EXCEPT ![w] = [run[w] EXCEPT !.pc = pc, !.held = h]]
    BY <1>3 DEF GotoHolding
  <2>2. h \subseteq Targets => [run[w] EXCEPT !.pc = pc, !.held = h] \in Run
    <3>1. h \subseteq Targets => h \in SUBSET Targets OBVIOUS
    <3> QED BY <1>1, <3>1, Zenon DEF Run
  <2> QED BY <1>1, <2>1, <2>2 DEF Moved, Mem, Run
<1>4. ASSUME NEW n, GotoNext(w, pc, n) PROVE Moved(w, pc, Mem(w), run[w].held, n)
  <2>1. run' = [run EXCEPT ![w] = [run[w] EXCEPT !.pc = pc, !.next = n]]
    BY <1>4 DEF GotoNext
  <2>2. n \in Nat => [run[w] EXCEPT !.pc = pc, !.next = n] \in Run BY <1>1, Zenon DEF Run
  <2> QED BY <1>1, <2>1, <2>2 DEF Moved, Mem, Run
<1>5. ASSUME NEW s, NEW m, Save(w, s, m, pc) PROVE Moved(w, pc, m, {}, 0)
  <2>1. run' = [run EXCEPT ![w] = [run[w] EXCEPT !.mem = m, !.pc = pc, !.held = {}, !.next = 0]]
    BY <1>5 DEF Save
  <2>2. m \in Context => [run[w] EXCEPT !.mem = m, !.pc = pc, !.held = {}, !.next = 0] \in Run
    <3>1. {} \in SUBSET Targets /\ 0 \in Nat OBVIOUS
    <3> QED BY <1>1, <3>1, Zenon DEF Run
  <2> QED BY <1>1, <2>1, <2>2 DEF Moved, Run
<1> QED BY <1>2, <1>3, <1>4, <1>5

(* What the saves make of a checkpoint. *)
NewTurn(m, calls) ==
    [m EXCEPT !.round = @ + 1, !.pending = TRUE, !.calls = calls, !.index = 1]
Cleared(m) == [m EXCEPT !.pending = FALSE]
Awaiting(m, n) == [m EXCEPT !.approval = n]
Retrieving(m) == [m EXCEPT !.calls[m.index].retrieving = TRUE]
Resulting(m, h, xs) ==
    [m EXCEPT !.calls[m.index] = [@ EXCEPT !.done = TRUE, !.result = h], !.lookups = @ \cup xs]
Advanced(m) == [m EXCEPT !.index = @ + 1, !.approval = 0]

(* A turn of the model is a proper sequence of calls nobody touched. *)
LEMMA TurnsAreProper ==
  ASSUME NEW calls \in Turns
  PROVE  /\ calls \in Seq(Call) /\ Len(calls) \in 0..MaxCalls
         /\ \A i \in 1..Len(calls) :
              IsProper(calls[i]) /\ ~calls[i].done /\ ~calls[i].retrieving
<1>1. PICK n \in 0..MaxCalls : calls \in [1..n -> {c \in CallChoices : c.tool \in Tools}]
  BY DEF Turns
<1>2. Stock \in Targets /\ Parts \subseteq Targets BY DEF Targets
<1>3. ASSUME NEW c \in CallChoices, c.tool \in Tools
      PROVE  c \in Call /\ IsProper(c) /\ ~c.done /\ ~c.retrieving
  <2>1. c.tool \in Tools /\ ~c.retrieving /\ ~c.done /\ c.result = {}
        /\ c = CallOn(c.tool, c.targets)
    BY <1>3 DEF CallChoices, CallOn
  <2>2. c.targets \in SUBSET Nat /\ IsProper(c)
    <3>1. CASE c = CallOn("add", {Stock}) \/ c = CallOn("bulk", Parts)
      BY <3>1, SizesAreNatural DEF CallOn, IsProper, Stock, Parts, Retrievals
    <3>2. ASSUME NEW p \in Parts, c = CallOn("update", {p})
          PROVE  c.targets \in SUBSET Nat /\ IsProper(c)
      BY <3>2, SizesAreNatural DEF CallOn, IsProper, Parts, Retrievals
    <3>3. ASSUME NEW t \in Retrievals, NEW p \in 1..MaxId, c = CallOn(t, {p})
          PROVE  c.targets \in SUBSET Nat /\ IsProper(c)
      BY <3>3, IdsAreNatural DEF CallOn, IsProper, Retrievals
    <3>4. \/ c = CallOn("add", {Stock}) \/ c = CallOn("bulk", Parts)
          \/ \E p \in Parts : c = CallOn("update", {p})
          \/ \E t \in Retrievals, p \in 1..MaxId : c = CallOn(t, {p})
      BY DEF CallChoices, CallOn
    <3> QED BY <3>1, <3>2, <3>3, <3>4
  <2>3. c \in Call
    <3> DEFINE a == c.tool
               b == c.targets
    <3>1. c = [tool |-> a, targets |-> b, retrieving |-> FALSE, done |-> FALSE, result |-> {}]
      BY <2>1 DEF CallOn
    <3>2. a \in Tools /\ b \in SUBSET Nat /\ {} \in SUBSET Targets /\ FALSE \in BOOLEAN
      BY <2>1, <2>2
    <3> HIDE DEF a, b
    <3> QED BY <3>1, <3>2 DEF Call
  <2> QED BY <2>1, <2>2, <2>3
<1>4. calls \in [1..n -> Call] BY <1>1, <1>3
<1>5. calls \in Seq(Call) /\ Len(calls) = n BY <1>1, <1>4, SizesAreNatural
<1> QED BY <1>1, <1>3, <1>5

(* The fields of the checkpoints that the saves write. *)
LEMMA NewTurnFields ==
  ASSUME NEW m \in Context, m.round < MaxRounds, NEW calls \in Turns
  PROVE  LET n == NewTurn(m, calls)
         IN  /\ n \in Context /\ TurnIsProper(n)
             /\ n.round = m.round + 1 /\ n.pending /\ n.calls = calls /\ n.index = 1
             /\ n.approval = m.approval /\ n.lookups = m.lookups
<1> DEFINE n == NewTurn(m, calls)
<1>1. /\ n.round = m.round + 1 /\ n.pending = TRUE /\ n.calls = calls /\ n.index = 1
      /\ n.approval = m.approval /\ n.lookups = m.lookups
  BY DEF NewTurn, Context
<1>2. m.round + 1 \in 0..MaxRounds /\ 1 \in 1..(MaxCalls + 1)
  BY SizesAreNatural DEF Context
<1>3. n \in Context BY <1>2, TurnsAreProper, Zenon DEF NewTurn, Context
<1>4. TurnIsProper(n)
  <2>1. m.round + 1 >= 1 BY DEF Context
  <2> HIDE DEF n
  <2> QED BY <1>1, <2>1, TurnsAreProper DEF TurnIsProper
<1> QED BY <1>1, <1>3, <1>4

LEMMA ClearedFields ==
  ASSUME NEW m \in Context, TurnIsProper(m), m.index > Len(m.calls)
  PROVE  LET n == Cleared(m)
         IN  /\ n \in Context /\ TurnIsProper(n)
             /\ n.round = m.round /\ ~n.pending /\ n.calls = m.calls /\ n.index = m.index
             /\ n.approval = m.approval /\ n.lookups = m.lookups
<1> DEFINE n == Cleared(m)
<1>1. /\ n.round = m.round /\ n.pending = FALSE /\ n.calls = m.calls /\ n.index = m.index
      /\ n.approval = m.approval /\ n.lookups = m.lookups
  BY DEF Cleared, Context
<1>2. n \in Context BY Zenon DEF Cleared, Context
<1>3. TurnIsProper(n)
  <2>1. m.index = Len(m.calls) + 1 BY DEF TurnIsProper, Context
  <2> HIDE DEF n
  <2> QED BY <1>1, <2>1 DEF TurnIsProper
<1> QED BY <1>1, <1>2, <1>3

LEMMA AwaitingFields ==
  ASSUME NEW m \in Context, TurnIsProper(m), NEW a \in 0..MaxRequests
  PROVE  LET n == Awaiting(m, a)
         IN  /\ n \in Context /\ TurnIsProper(n)
             /\ n.round = m.round /\ n.pending = m.pending /\ n.calls = m.calls
             /\ n.index = m.index /\ n.approval = a /\ n.lookups = m.lookups
<1> DEFINE n == Awaiting(m, a)
<1>1. /\ n.round = m.round /\ n.pending = m.pending /\ n.calls = m.calls
      /\ n.index = m.index /\ n.approval = a /\ n.lookups = m.lookups
  BY DEF Awaiting, Context
<1>2. n \in Context BY Zenon DEF Awaiting, Context
<1>3. TurnIsProper(n)
  <2> HIDE DEF n
  <2> QED BY <1>1 DEF TurnIsProper
<1> QED BY <1>1, <1>2, <1>3

LEMMA AdvancedFields ==
  ASSUME NEW m \in Context, TurnIsProper(m), m.pending, m.index <= Len(m.calls), CallOf(m).done
  PROVE  LET n == Advanced(m)
         IN  /\ n \in Context /\ TurnIsProper(n)
             /\ n.round = m.round /\ n.pending /\ n.calls = m.calls
             /\ n.index = m.index + 1 /\ n.approval = 0 /\ n.lookups = m.lookups
<1> DEFINE n == Advanced(m)
<1>1. /\ n.round = m.round /\ n.pending = m.pending /\ n.calls = m.calls
      /\ n.index = m.index + 1 /\ n.approval = 0 /\ n.lookups = m.lookups
  BY DEF Advanced, Context
<1>2. m.index + 1 \in 1..(MaxCalls + 1) /\ 0 \in 0..MaxRequests /\ Len(m.calls) \in Nat
  BY SizesAreNatural, LenProperties DEF Context, TurnIsProper
<1>3. n \in Context BY <1>2, Zenon DEF Advanced, Context
<1>4. TurnIsProper(n)
  <2>1. \A i \in 1..Len(m.calls) : i < m.index + 1 => i < m.index \/ i = m.index
    BY DEF Context
  <2>2. \A i \in 1..Len(m.calls) : i > m.index + 1 => i > m.index BY DEF Context
  <2> HIDE DEF n
  <2> QED BY <1>1, <1>2, <2>1, <2>2 DEF TurnIsProper, CallOf, Context
<1> QED BY <1>1, <1>3, <1>4

(* What a save makes of the call at the cursor: an intent to retrieve, or a *)
(* result.                                                                  *)
LEMMA RetrievingFields ==
  ASSUME NEW m \in Context, TurnIsProper(m), m.pending, m.index <= Len(m.calls),
         CallOf(m).tool \in Retrievals
  PROVE  LET n == Retrieving(m)
         IN  /\ n \in Context /\ TurnIsProper(n)
             /\ n.round = m.round /\ n.pending /\ n.index = m.index
             /\ n.approval = m.approval /\ n.lookups = m.lookups
             /\ Len(n.calls) = Len(m.calls)
             /\ \A i \in 1..Len(m.calls) : i # m.index => n.calls[i] = m.calls[i]
             /\ CallOf(n).tool = CallOf(m).tool /\ CallOf(n).targets = CallOf(m).targets
             /\ CallOf(n).done = CallOf(m).done /\ CallOf(n).result = CallOf(m).result
             /\ CallOf(n).retrieving
<1> DEFINE n == Retrieving(m)
           c == [CallOf(m) EXCEPT !.retrieving = TRUE]
           cs == [m.calls EXCEPT ![m.index] = c]
<1>1. m.calls \in Seq(Call) /\ m.index \in 1..Len(m.calls) /\ CallOf(m) \in Call
  BY DEF Context, CallOf, TurnIsProper
<1>2. /\ c \in Call /\ c.tool = CallOf(m).tool /\ c.targets = CallOf(m).targets
      /\ c.done = CallOf(m).done /\ c.result = CallOf(m).result /\ c.retrieving = TRUE
  <2>1. c \in Call BY <1>1, Zenon DEF Call
  <2> QED BY <1>1, <2>1 DEF Call
<1>3. /\ cs \in Seq(Call) /\ Len(cs) = Len(m.calls)
      /\ \A j \in 1..Len(m.calls) : cs[j] = IF j = m.index THEN c ELSE m.calls[j]
  BY <1>1, <1>2, ExceptSeq
<1>4. n = [m EXCEPT !.calls = cs] BY DEF Retrieving, CallOf
<1>5. /\ n.round = m.round /\ n.pending = m.pending /\ n.index = m.index
      /\ n.approval = m.approval /\ n.lookups = m.lookups /\ n.calls = cs
  BY <1>4 DEF Context
<1>6. n \in Context BY <1>3, <1>4, Zenon DEF Context
<1> HIDE DEF n, c, cs
<1>7. TurnIsProper(n)
  <2> SUFFICES ASSUME NEW i \in 1..Len(m.calls)
               PROVE  /\ IsProper(n.calls[i])
                      /\ i < m.index => n.calls[i].done
                      /\ i > m.index => ~n.calls[i].done /\ ~n.calls[i].retrieving
    BY <1>3, <1>5 DEF TurnIsProper
  <2>1. CASE i = m.index
    <3>1. n.calls[i] = c BY <1>3, <1>5, <2>1
    <3>2. IsProper(CallOf(m)) BY <1>1 DEF TurnIsProper, CallOf
    <3>3. IsProper(c) BY <1>2, <3>2 DEF IsProper
    <3>4. ~(i < m.index) /\ ~(i > m.index) BY <1>1, <2>1
    <3> QED BY <3>1, <3>3, <3>4
  <2>2. CASE i # m.index BY <1>3, <1>5, <2>2 DEF TurnIsProper
  <2> QED BY <2>1, <2>2
<1>8. CallOf(n) = c BY <1>1, <1>3, <1>5 DEF CallOf
<1> QED BY <1>2, <1>3, <1>5, <1>6, <1>7, <1>8 DEF n

Lookups ==
    [step : (1..MaxRounds) \X (1..MaxCalls), tool : Tools, part : Nat \ {0},
     interrupted : BOOLEAN]

(* Checkpoint n is m with result h for its call, and lookups xs.            *)
HasResulted(n, m, h, xs) ==
    /\ n \in Context /\ TurnIsProper(n)
    /\ n.round = m.round /\ n.pending /\ n.index = m.index
    /\ n.approval = m.approval /\ n.lookups = m.lookups \cup xs
    /\ Len(n.calls) = Len(m.calls)
    /\ \A i \in 1..Len(m.calls) : i # m.index => n.calls[i] = m.calls[i]
    /\ CallOf(n).tool = CallOf(m).tool /\ CallOf(n).targets = CallOf(m).targets
    /\ CallOf(n).retrieving = CallOf(m).retrieving
    /\ CallOf(n).done /\ CallOf(n).result = h

LEMMA ResultingFields ==
  ASSUME NEW m \in Context, TurnIsProper(m), m.pending, m.index <= Len(m.calls),
         NEW h \in SUBSET Targets,
         NEW xs \in SUBSET Lookups
  PROVE  HasResulted(Resulting(m, h, xs), m, h, xs)
<1> DEFINE n == Resulting(m, h, xs)
           c == [CallOf(m) EXCEPT !.done = TRUE, !.result = h]
           cs == [m.calls EXCEPT ![m.index] = c]
           ls == m.lookups \cup xs
<1>1. m.calls \in Seq(Call) /\ m.index \in 1..Len(m.calls) /\ CallOf(m) \in Call
  BY DEF Context, CallOf, TurnIsProper
<1>2. /\ c \in Call /\ c.tool = CallOf(m).tool /\ c.targets = CallOf(m).targets
      /\ c.done = TRUE /\ c.retrieving = CallOf(m).retrieving /\ c.result = h
  <2>1. c \in Call BY <1>1, Zenon DEF Call
  <2> QED BY <1>1, <2>1 DEF Call
<1>3. /\ cs \in Seq(Call) /\ Len(cs) = Len(m.calls)
      /\ \A j \in 1..Len(m.calls) : cs[j] = IF j = m.index THEN c ELSE m.calls[j]
  BY <1>1, <1>2, ExceptSeq
<1>4. n = [m EXCEPT !.calls = cs, !.lookups = ls] BY DEF Resulting, CallOf
<1> HIDE DEF ls
<1>5. /\ n.round = m.round /\ n.pending = m.pending /\ n.index = m.index
      /\ n.approval = m.approval /\ n.lookups = ls /\ n.calls = cs
  BY <1>4 DEF Context
<1>6. n \in Context
  <2>1. m.lookups \in SUBSET Lookups BY DEF Context, Lookups
  <2>2. ls \in SUBSET Lookups BY <2>1 DEF ls
  <2> QED BY <1>3, <1>4, <2>2, Zenon DEF Context, Lookups
<1> HIDE DEF n, c, cs
<1>7. TurnIsProper(n)
  <2> SUFFICES ASSUME NEW i \in 1..Len(m.calls)
               PROVE  /\ IsProper(n.calls[i])
                      /\ i < m.index => n.calls[i].done
                      /\ i > m.index => ~n.calls[i].done /\ ~n.calls[i].retrieving
    BY <1>3, <1>5 DEF TurnIsProper
  <2>1. CASE i = m.index
    <3>1. n.calls[i] = c BY <1>3, <1>5, <2>1
    <3>2. IsProper(CallOf(m)) BY <1>1 DEF TurnIsProper, CallOf
    <3>3. IsProper(c) BY <1>2, <3>2 DEF IsProper
    <3>4. ~(i < m.index) /\ ~(i > m.index) BY <1>1, <2>1
    <3> QED BY <3>1, <3>3, <3>4
  <2>2. CASE i # m.index BY <1>3, <1>5, <2>2 DEF TurnIsProper
  <2> QED BY <2>1, <2>2
<1>8. n.lookups = m.lookups \cup xs BY <1>5 DEF ls
<1>9. CallOf(n) = c BY <1>1, <1>3, <1>5 DEF CallOf
<1> QED BY <1>2, <1>3, <1>5, <1>6, <1>7, <1>8, <1>9 DEF n, HasResulted

-----------------------------------------------------------------------------
(* What the steps make of the requests.                                      *)

(* Requests are added; what a request shows, and a decision, stay.           *)
Grows(as, bs) ==
    /\ Len(as) <= Len(bs)
    /\ \A n \in 1..Len(as) :
         /\ bs[n].for = as[n].for /\ bs[n].targets = as[n].targets
         /\ bs[n].snapshot = as[n].snapshot
         /\ as[n].decision # "none" => bs[n].decision = as[n].decision

(* What a run is sure of stays true as requests are added and decided.       *)
LEMMA FitsStay ==
  ASSUME NEW as \in Seq(Approval), NEW bs \in Seq(Approval), Grows(as, bs)
  PROVE  /\ \A e, m : ApprovalFits(as, e, m) => ApprovalFits(bs, e, m)
         /\ \A r : RunFits(as, r) => RunFits(bs, r)
<1>1. \A n, s, c : IsFor(as, n, s, c) => IsFor(bs, n, s, c)
  <2>1. Len(as) \in Nat /\ Len(bs) \in Nat BY LenProperties
  <2>2. Len(as) <= Len(bs) BY DEF Grows
  <2>3. \A x, y \in Nat : x <= y => \A n \in 1..x : n \in 1..y OBVIOUS
  <2>4. \A n \in 1..Len(as) : n \in 1..Len(bs) BY <2>1, <2>2, <2>3
  <2> QED BY <2>4 DEF IsFor, Grows
<1>2. \A e, m : ApprovalFits(as, e, m) => ApprovalFits(bs, e, m)
  BY <1>1 DEF ApprovalFits
<1>3. ASSUME NEW r, RunFits(as, r) PROVE RunFits(bs, r)
  <2>1. r.pc \in Deciding => bs[r.mem.approval].decision = "yes"
    BY <1>3 DEF RunFits, ApprovalFits, IsFor, Grows
  <2> QED BY <1>1, <1>2, <1>3, <2>1 DEF RunFits
<1> QED BY <1>2, <1>3

(* One request is replaced by one that shows the same.                       *)
LEMMA Amended ==
  ASSUME approvals \in Seq(Approval), NEW n \in 1..Len(approvals), NEW a \in Approval,
         approvals' = [approvals EXCEPT ![n] = a],
         a.for = approvals[n].for, a.targets = approvals[n].targets,
         a.snapshot = approvals[n].snapshot,
         approvals[n].decision # "none" => a.decision = approvals[n].decision
  PROVE  /\ approvals' \in Seq(Approval) /\ Len(approvals') = Len(approvals)
         /\ \A k \in 1..Len(approvals) : approvals'[k] = IF k = n THEN a ELSE approvals[k]
         /\ Grows(approvals, approvals')
<1>1. /\ approvals' \in Seq(Approval) /\ Len(approvals') = Len(approvals)
      /\ \A k \in 1..Len(approvals) : approvals'[k] = IF k = n THEN a ELSE approvals[k]
  BY ExceptSeq
<1>2. Len(approvals) \in Nat OBVIOUS
<1> QED BY <1>1, <1>2 DEF Grows

(* The ways one step can change a request. *)
Decided(a, d) == [a EXCEPT !.decision = d]
Finished(a, r) == [a EXCEPT !.done = TRUE, !.result = r]
WithChildren(a, f) == [a EXCEPT !.child = f]

LEMMA DecidedRequest ==
  ASSUME NEW a \in Approval, NEW d \in {"yes", "no"}
  PROVE  /\ Decided(a, d) \in Approval /\ Decided(a, d).decision = d
         /\ Decided(a, d).for = a.for /\ Decided(a, d).targets = a.targets
         /\ Decided(a, d).snapshot = a.snapshot /\ Decided(a, d).done = a.done
         /\ Decided(a, d).result = a.result /\ Decided(a, d).child = a.child
<1>1. Decided(a, d) \in Approval BY Zenon DEF Decided, Approval
<1> QED BY <1>1 DEF Decided, Approval

LEMMA FinishedRequest ==
  ASSUME NEW a \in Approval, NEW r, r \subseteq Parts
  PROVE  /\ Finished(a, r) \in Approval /\ Finished(a, r).decision = a.decision
         /\ Finished(a, r).for = a.for /\ Finished(a, r).targets = a.targets
         /\ Finished(a, r).snapshot = a.snapshot /\ Finished(a, r).done
         /\ Finished(a, r).result = r /\ Finished(a, r).child = a.child
<1>1. r \in SUBSET Parts OBVIOUS
<1>2. Finished(a, r) \in Approval BY <1>1, Zenon DEF Finished, Approval
<1> QED BY <1>2 DEF Finished, Approval

LEMMA ChildrenRequest ==
  ASSUME NEW a \in Approval, NEW f \in [Parts -> {"absent", "open", "changed", "rejected"}]
  PROVE  /\ WithChildren(a, f) \in Approval /\ WithChildren(a, f).decision = a.decision
         /\ WithChildren(a, f).for = a.for /\ WithChildren(a, f).targets = a.targets
         /\ WithChildren(a, f).snapshot = a.snapshot /\ WithChildren(a, f).done = a.done
         /\ WithChildren(a, f).result = a.result /\ WithChildren(a, f).child = f
<1>1. WithChildren(a, f) \in Approval BY Zenon DEF WithChildren, Approval
<1> QED BY <1>1 DEF WithChildren, Approval

(* The children of a batch after one of its transactions. *)
Opened(f) == [p \in Parts |-> IF f[p] = "absent" THEN "open" ELSE f[p]]

(* How the transactions on requests write them. *)
LEMMA RequestWrites ==
  ASSUME approvals \in Seq(Approval), NEW n \in 1..Len(approvals)
  PROVE  /\ \A d : approvals' = [approvals EXCEPT ![n].decision = d] =>
                  approvals' = [approvals EXCEPT ![n] = Decided(approvals[n], d)]
         /\ \A r : SaveOutcome(n, r) =>
                  approvals' = [approvals EXCEPT ![n] = Finished(approvals[n], r)]
         /\ OpenBatch(n) =>
              approvals' = [approvals EXCEPT ![n] =
                              WithChildren(approvals[n], Opened(approvals[n].child))]
  BY DEF Decided, SaveOutcome, Finished, OpenBatch, WithChildren, Opened

(* The call at the cursor of a run that is at a call.                        *)
LEMMA AtItsCall ==
  ASSUME TypeOK, Shape, NEW w \in Workers,
         \/ run[w].pc \in Working \cup Showing
         \/ AtCall(w)
         \/ run[w].pc # "idle" /\ Mem(w).approval # 0
  PROVE  /\ At(w) \in Executions /\ Mem(w) \in Context /\ TurnIsProper(Mem(w))
         /\ Mem(w).pending /\ Mem(w).index \in 1..Len(Mem(w).calls)
         /\ Step(w) \in Steps /\ Cursor(w) \in Call /\ IsProper(Cursor(w))
         /\ Cursor(w) = CallOf(Mem(w)) /\ Step(w)[1] = At(w)
<1>1. run[w] \in Run /\ RunFits(approvals, run[w]) BY DEF TypeOK, Shape
<1>2. Mem(w) \in Context BY <1>1 DEF Run, Mem
<1>3. /\ TurnIsProper(Mem(w)) /\ Mem(w).pending /\ Mem(w).index <= Len(Mem(w).calls)
  BY <1>1 DEF RunFits, Mem, AtCall, InTurn, ApprovalFits, At
<1>4. Mem(w).calls \in Seq(Call) /\ Mem(w).index \in 1..(MaxCalls + 1)
  BY <1>2 DEF Context
<1>5. Mem(w).index \in 1..Len(Mem(w).calls) /\ Mem(w).index \in 1..MaxCalls
  <2>1. Len(Mem(w).calls) \in Nat /\ Len(Mem(w).calls) <= MaxCalls /\ MaxCalls \in Nat
    BY <1>3, <1>4, LenProperties, SizesAreNatural DEF TurnIsProper
  <2> QED BY <1>3, <1>4, <2>1
<1>6. Cursor(w) \in Call /\ Cursor(w) = CallOf(Mem(w))
  BY <1>4, <1>5, ElementOfSeq DEF Cursor, CallOf
<1>7. IsProper(Cursor(w)) BY <1>3, <1>5 DEF TurnIsProper, Cursor
<1>8. run[w].pc # "idle" BY DEF Working, Deciding, Showing, AtCall, InTurn
<1>9. At(w) \in Executions BY <1>8 DEF TypeOK, At
<1>10. Mem(w).round \in 1..MaxRounds BY <1>2, <1>3 DEF Context, TurnIsProper
<1> QED BY <1>2, <1>3, <1>5, <1>6, <1>7, <1>9, <1>10 DEF Step, StepOf, Steps

(* The request of a run that decides its call.                               *)
LEMMA AtItsRequest ==
  ASSUME TypeOK, Shape, NEW w \in Workers, Mem(w).approval # 0
  PROVE  LET n == Mem(w).approval
         IN  /\ n \in 1..Len(approvals) /\ approvals[n] \in Approval
             /\ approvals[n].for = Step(w) /\ approvals[n].targets = Cursor(w).targets
             /\ Cursor(w).tool \in NeedsApproval
             /\ run[w].pc \in Deciding => approvals[n].decision = "yes"
<1>1. RunFits(approvals, run[w]) BY DEF Shape
<1>2. IsFor(approvals, Mem(w).approval, Step(w), Cursor(w))
  BY <1>1 DEF RunFits, ApprovalFits, Mem, At, Step, StepOf, Cursor, CallOf
<1>3. approvals \in Seq(Approval) BY DEF TypeOK, InventoryTypeOK
<1>4. run[w].pc \in Deciding => approvals[Mem(w).approval].decision = "yes"
  BY <1>1 DEF RunFits, Mem
<1> QED BY <1>2, <1>3, <1>4, ElementOfSeq DEF IsFor

(* A change of one request keeps their types, and what they show.            *)
LEMMA RequestsAmended ==
  ASSUME TypeOK, Shape, NEW n \in 1..Len(approvals), NEW a \in Approval,
         approvals' = [approvals EXCEPT ![n] = a],
         a.for = approvals[n].for, a.targets = approvals[n].targets,
         a.snapshot = approvals[n].snapshot,
         approvals[n].decision # "none" => a.decision = approvals[n].decision
  PROVE  /\ approvals' \in Seq(Approval) /\ Len(approvals') <= MaxRequests
         /\ Grows(approvals, approvals')
  BY Amended DEF TypeOK, InventoryTypeOK, Shape

(* The transactions on requests keep their types and what they show.         *)
LEMMA RequestTypes ==
  ASSUME TypeOK, Shape, NEW n \in 1..Len(approvals)
  PROVE  LET good == /\ approvals' \in Seq(Approval) /\ Len(approvals') <= MaxRequests
                     /\ Grows(approvals, approvals')
         IN  /\ \A d \in {"yes", "no"} :
                  /\ approvals[n].decision = "none"
                  /\ approvals' = [approvals EXCEPT ![n].decision = d]
                  => good
             /\ \A r : r \subseteq Parts /\ SaveOutcome(n, r) => good
             /\ OpenBatch(n) => good
             /\ \A p \in Parts, s \in {"changed", "rejected"} :
                  approvals' = [approvals EXCEPT ![n].child[p] = s] => good
<1>1. approvals \in Seq(Approval) BY DEF TypeOK, InventoryTypeOK
<1>2. approvals[n] \in Approval BY <1>1, ElementOfSeq
<1>3. approvals[n].child \in [Parts -> {"absent", "open", "changed", "rejected"}]
  BY <1>2 DEF Approval
<1>4. Opened(approvals[n].child) \in [Parts -> {"absent", "open", "changed", "rejected"}]
  BY <1>3 DEF Opened
<1>5. \A p \in Parts, s \in {"changed", "rejected"} :
        [approvals[n].child EXCEPT ![p] = s]
          \in [Parts -> {"absent", "open", "changed", "rejected"}]
  BY <1>3
<1> DEFINE good == /\ approvals' \in Seq(Approval) /\ Len(approvals') <= MaxRequests
                   /\ Grows(approvals, approvals')
<1>6. ASSUME NEW d \in {"yes", "no"}, approvals[n].decision = "none",
             approvals' = [approvals EXCEPT ![n].decision = d]
      PROVE  good
  <2>1. approvals' = [approvals EXCEPT ![n] = Decided(approvals[n], d)]
    BY <1>1, <1>6, RequestWrites
  <2> DEFINE a == Decided(approvals[n], d)
  <2>2. /\ a \in Approval /\ a.for = approvals[n].for /\ a.targets = approvals[n].targets
        /\ a.snapshot = approvals[n].snapshot
    BY <1>2, DecidedRequest, Zenon
  <2> HIDE DEF a
  <2> QED BY <1>6, <2>1, <2>2, RequestsAmended DEF a
<1>7. ASSUME NEW r, r \subseteq Parts, SaveOutcome(n, r) PROVE good
  <2>1. approvals' = [approvals EXCEPT ![n] = Finished(approvals[n], r)]
    BY <1>1, <1>7, RequestWrites
  <2> DEFINE a == Finished(approvals[n], r)
  <2>2. /\ a \in Approval /\ a.for = approvals[n].for /\ a.targets = approvals[n].targets
        /\ a.snapshot = approvals[n].snapshot /\ a.decision = approvals[n].decision
    <3> HIDE DEF a
    <3> QED BY <1>2, <1>7, FinishedRequest DEF a
  <2> HIDE DEF a
  <2> QED BY <2>1, <2>2, RequestsAmended DEF a
<1>8. ASSUME NEW f \in [Parts -> {"absent", "open", "changed", "rejected"}],
             approvals' = [approvals EXCEPT ![n] = WithChildren(approvals[n], f)]
      PROVE  good
  <2> DEFINE a == WithChildren(approvals[n], f)
  <2>1. /\ a \in Approval /\ a.for = approvals[n].for /\ a.targets = approvals[n].targets
        /\ a.snapshot = approvals[n].snapshot /\ a.decision = approvals[n].decision
    BY <1>2, ChildrenRequest, Zenon
  <2> HIDE DEF a
  <2> QED BY <1>8, <2>1, RequestsAmended DEF a
<1>9. OpenBatch(n) => good BY <1>1, <1>4, <1>8, RequestWrites
<1>10. ASSUME NEW p \in Parts, NEW s \in {"changed", "rejected"},
              approvals' = [approvals EXCEPT ![n].child[p] = s]
       PROVE  good
  <2> DEFINE f == [approvals[n].child EXCEPT ![p] = s]
  <2>1. f \in [Parts -> {"absent", "open", "changed", "rejected"}] BY <1>5
  <2>2. approvals' = [approvals EXCEPT ![n] = WithChildren(approvals[n], f)]
    BY <1>10 DEF WithChildren
  <2> HIDE DEF f
  <2> QED BY <1>8, <2>1, <2>2
<1> QED BY <1>6, <1>7, <1>9, <1>10

(* A call that changes a target, and a write to a part, keep the types.      *)
LEMMA ChangesTypes ==
  ASSUME TypeOK, NEW s \in Steps, NEW x \in Targets, Changes(s, x)
  PROVE  effects' \in [Steps \X Targets -> Nat] /\ late' \subseteq Steps
<1>1. effects' = [effects EXCEPT ![<<s, x>>] = effects[<<s, x>>] + 1] BY DEF Changes
<1>2. effects[<<s, x>>] + 1 \in Nat BY DEF TypeOK, InventoryTypeOK
<1> QED BY <1>1, <1>2 DEF Changes, TypeOK, InventoryTypeOK

LEMMA WriteTypes ==
  ASSUME TypeOK, NEW p \in Parts, Write(p)
  PROVE  content' \in [Parts -> Contents]
  BY DEF Write, TypeOK, InventoryTypeOK

(* What stays of the inventory types whatever the step.                      *)
InventoryGrows ==
    InventoryTypeOK' /\ Len(approvals') <= MaxRequests /\ Grows(approvals, approvals')

LEMMA SameInventory ==
  ASSUME TypeOK, Shape
  PROVE  /\ UNCHANGED inventoryVars => InventoryGrows
         /\ UNCHANGED approvals => Len(approvals') <= MaxRequests /\ Grows(approvals, approvals')
<1>1. Len(approvals) \in Nat BY LenProperties DEF TypeOK, InventoryTypeOK
<1> QED BY <1>1 DEF InventoryGrows, inventoryVars, TypeOK, InventoryTypeOK, Shape, Grows

(* The steps on approvals. *)
LEMMA ApprovalStepInventory ==
  ASSUME TypeOK, Shape, NEW w \in Workers, ApprovalStep(w)
  PROVE  InventoryGrows
<1> DEFINE n == Mem(w).approval
<1>1. /\ content \in [Parts -> Contents] /\ approvals \in Seq(Approval)
      /\ receipts \subseteq Steps /\ unenriched \subseteq Steps
      /\ effects \in [Steps \X Targets -> Nat] /\ late \subseteq Steps
  BY DEF TypeOK, InventoryTypeOK
<1>2. Parts \subseteq Targets /\ Stock \in Targets BY DEF Targets
<1>3. ASSUME run[w].pc \in Deciding
      PROVE  /\ n \in 1..Len(approvals) /\ approvals[n] \in Approval /\ Step(w) \in Steps
             /\ approvals[n].targets = Cursor(w).targets /\ IsProper(Cursor(w))
             /\ Mem(w).approval # 0
  <2>1. Mem(w).approval # 0 BY <1>3 DEF Shape, RunFits, Mem
  <2>2. run[w].pc \in Working BY <1>3 DEF Working
  <2>3. Step(w) \in Steps /\ IsProper(Cursor(w)) BY <2>2, AtItsCall, Zenon
  <2>4. n \in 1..Len(approvals) /\ approvals[n] \in Approval /\ approvals[n].targets = Cursor(w).targets
    BY <2>1, AtItsRequest, Zenon
  <2> QED BY <2>1, <2>3, <2>4
<1>4. CASE Request(w)
  <2>1. PICK tool \in NeedsApproval : CallIs(w, tool) BY <1>4 DEF Request
  <2>2. Step(w) \in Steps /\ IsProper(Cursor(w)) /\ Cursor(w).tool = tool
    BY <2>1, AtItsCall DEF CallIs
  <2>3. Cursor(w).targets \in SUBSET Parts BY <2>1, <2>2 DEF IsProper, NeedsApproval
  <2> DEFINE a == [for |-> Step(w), targets |-> Cursor(w).targets, snapshot |-> content,
                   decision |-> "none", done |-> FALSE, result |-> {},
                   child |-> [p \in Parts |-> "absent"]]
  <2>4. a \in Approval
    <3>1. {} \in SUBSET Parts OBVIOUS
    <3>2. [p \in Parts |-> "absent"] \in [Parts -> {"absent", "open", "changed", "rejected"}]
      OBVIOUS
    <3> QED BY <1>1, <2>2, <2>3, <3>1, <3>2 DEF Approval
  <2>5. approvals' = Append(approvals, a) /\ Len(approvals) < MaxRequests
    BY <1>4 DEF Request, RequestApproval
  <2>6. UNCHANGED <<content, receipts, unenriched, effects, late>> BY <1>4 DEF Request, RequestApproval
  <2> HIDE DEF a
  <2>7. /\ approvals' \in Seq(Approval) /\ Len(approvals') = Len(approvals) + 1
        /\ \A k \in 1..Len(approvals) : approvals'[k] = approvals[k]
    BY <1>1, <2>4, <2>5, AppendProperties
  <2>8. Len(approvals) \in Nat BY <1>1, LenProperties
  <2>9. Len(approvals') <= MaxRequests BY <2>5, <2>7, <2>8, SizesAreNatural
  <2> QED BY <1>1, <2>6, <2>7, <2>8, <2>9 DEF InventoryGrows, InventoryTypeOK, Grows
<1>5. CASE ExecuteOne(w)
  <2>1. CASE UNCHANGED inventoryVars BY <2>1, SameInventory
  <2>2. CASE ApplyApproved(n, Step(w), w)
    <3>1. run[w].pc \in Deciding /\ Cursor(w).tool = "update"
      BY <1>5 DEF ExecuteOne, Approved, Deciding
    <3>2. PICK p \in Parts : approvals[n].targets = {p} BY <1>3, <3>1 DEF IsProper
    <3>3. (CHOOSE q \in approvals[n].targets : TRUE) = p BY <3>2
    <3>4. /\ Write(p) /\ Changes(Step(w), p) /\ SaveOutcome(n, {p})
          /\ UNCHANGED <<receipts, unenriched>>
      BY <2>2, <3>3 DEF ApplyApproved
    <3>5. content' \in [Parts -> Contents] BY <3>4, WriteTypes
    <3>6. effects' \in [Steps \X Targets -> Nat] /\ late' \subseteq Steps
      BY <1>2, <1>3, <3>1, <3>4, ChangesTypes
    <3>7. {p} \subseteq Parts OBVIOUS
    <3>8. /\ approvals' \in Seq(Approval) /\ Len(approvals') <= MaxRequests
          /\ Grows(approvals, approvals')
      BY <1>3, <3>1, <3>4, <3>7, RequestTypes
    <3> QED BY <1>1, <3>4, <3>5, <3>6, <3>8 DEF InventoryGrows, InventoryTypeOK
  <2> QED BY <1>5, <2>1, <2>2 DEF ExecuteOne
<1>6. CASE RejectOne(w)
  <2>1. run[w].pc \in Deciding BY <1>6 DEF RejectOne, Deciding
  <2>2. SaveOutcome(n, {}) /\ UNCHANGED <<content, receipts, unenriched, effects, late>>
    BY <1>6 DEF RejectOne, RejectApproved
  <2>3. {} \subseteq Parts OBVIOUS
  <2>4. /\ approvals' \in Seq(Approval) /\ Len(approvals') <= MaxRequests
        /\ Grows(approvals, approvals')
    BY <1>3, <2>1, <2>2, <2>3, RequestTypes
  <2> QED BY <1>1, <2>2, <2>4 DEF InventoryGrows, InventoryTypeOK
<1>7. CASE StartBatch(w)
  <2>1. CASE UNCHANGED inventoryVars BY <2>1, SameInventory
  <2>2. CASE OpenBatch(n)
    <3>1. run[w].pc \in Deciding BY <1>7 DEF StartBatch, Approved, Deciding
    <3>2. UNCHANGED <<content, receipts, unenriched, effects, late>> BY <2>2 DEF OpenBatch
    <3>3. /\ approvals' \in Seq(Approval) /\ Len(approvals') <= MaxRequests
          /\ Grows(approvals, approvals')
      BY <1>3, <2>2, <3>1, RequestTypes
    <3> QED BY <1>1, <3>2, <3>3 DEF InventoryGrows, InventoryTypeOK
  <2> QED BY <1>7, <2>1, <2>2 DEF StartBatch
<1>8. CASE ExecuteChild(w)
  <2> DEFINE p == run[w].next
  <2>1. CASE UNCHANGED inventoryVars BY <2>1, SameInventory
  <2>2. CASE ApplyChild(n, p, Step(w), w)
    <3>1. run[w].pc \in Deciding /\ p \in Parts BY <1>8 DEF ExecuteChild, Deciding
    <3>2. /\ Write(p) /\ Changes(Step(w), p) /\ UNCHANGED <<receipts, unenriched>>
          /\ approvals' = [approvals EXCEPT ![n].child[p] = "changed"]
      BY <2>2 DEF ApplyChild
    <3> HIDE DEF p
    <3>3. content' \in [Parts -> Contents] BY <3>1, <3>2, WriteTypes
    <3>4. effects' \in [Steps \X Targets -> Nat] /\ late' \subseteq Steps
      BY <1>2, <1>3, <3>1, <3>2, ChangesTypes
    <3>5. /\ approvals' \in Seq(Approval) /\ Len(approvals') <= MaxRequests
          /\ Grows(approvals, approvals')
      BY <1>3, <3>1, <3>2, RequestTypes
    <3> QED BY <1>1, <3>2, <3>3, <3>4, <3>5 DEF InventoryGrows, InventoryTypeOK
  <2> QED BY <1>8, <2>1, <2>2 DEF ExecuteChild
<1>9. CASE RejectedChild(w)
  <2> DEFINE p == run[w].next
  <2>1. run[w].pc \in Deciding /\ p \in Parts
    BY <1>9 DEF RejectedChild, Deciding, Shape, RunFits
  <2>2. /\ approvals' = [approvals EXCEPT ![n].child[p] = "rejected"]
        /\ UNCHANGED <<content, receipts, unenriched, effects, late>>
    BY <1>9 DEF RejectedChild, RejectChild
  <2> HIDE DEF p
  <2>3. /\ approvals' \in Seq(Approval) /\ Len(approvals') <= MaxRequests
        /\ Grows(approvals, approvals')
    BY <1>3, <2>1, <2>2, RequestTypes
  <2> QED BY <1>1, <2>2, <2>3 DEF InventoryGrows, InventoryTypeOK
<1>10. CASE EndBatch(w)
  <2> DEFINE changed == {p \in Parts : approvals[n].child[p] = "changed"}
  <2>1. run[w].pc \in Deciding BY <1>10 DEF EndBatch, Deciding
  <2>2. SaveOutcome(n, changed) /\ UNCHANGED <<content, receipts, unenriched, effects, late>>
    BY <1>10 DEF EndBatch, CloseBatch
  <2>3. changed \subseteq Parts OBVIOUS
  <2>4. /\ approvals' \in Seq(Approval) /\ Len(approvals') <= MaxRequests
        /\ Grows(approvals, approvals')
    <3> HIDE DEF changed
    <3> QED BY <1>3, <2>1, <2>2, <2>3, RequestTypes
  <2> QED BY <1>1, <2>2, <2>4 DEF InventoryGrows, InventoryTypeOK
<1>11. CASE SaveAwaiting(w) \/ Pause(w) \/ Consult(w)
  BY <1>11, SameInventory DEF SaveAwaiting, Pause, Consult
<1> QED BY <1>4, <1>5, <1>6, <1>7, <1>8, <1>9, <1>10, <1>11 DEF ApprovalStep

(* Every step keeps the types of the inventory. *)
LEMMA InventoryKept ==
  ASSUME TypeOK, Shape, [Next]_vars
  PROVE  InventoryGrows
<1>1. /\ content \in [Parts -> Contents] /\ approvals \in Seq(Approval)
      /\ receipts \subseteq Steps /\ unenriched \subseteq Steps
      /\ effects \in [Steps \X Targets -> Nat] /\ late \subseteq Steps
  BY DEF TypeOK, InventoryTypeOK
<1>2. Parts \subseteq Targets /\ Stock \in Targets BY DEF Targets
<1>3. CASE UNCHANGED inventoryVars BY <1>3, SameInventory
<1>4. ASSUME NEW p \in Parts, Write(p), UNCHANGED <<approvals, receipts, unenriched, effects, late>>
      PROVE  InventoryGrows
  <2>1. content' \in [Parts -> Contents] BY <1>4, WriteTypes
  <2> QED BY <1>1, <1>4, <2>1, SameInventory DEF InventoryGrows, InventoryTypeOK
<1>5. CASE UserStep
  <2>1. ASSUME NEW n \in 1..Len(approvals), NEW d \in {"yes", "no"}, Decide(n, d)
        PROVE  InventoryGrows
    <3>1. /\ approvals[n].decision = "none" /\ approvals' = [approvals EXCEPT ![n].decision = d]
          /\ UNCHANGED <<content, receipts, unenriched, effects, late>>
      BY <2>1 DEF Decide, DecideApproval
    <3>2. /\ approvals' \in Seq(Approval) /\ Len(approvals') <= MaxRequests
          /\ Grows(approvals, approvals')
      BY <3>1, RequestTypes
    <3> QED BY <1>1, <3>1, <3>2 DEF InventoryGrows, InventoryTypeOK
  <2> QED BY <1>3, <1>5, <2>1 DEF UserStep, Accept, Cancel
<1>6. CASE Environment
  BY <1>3, <1>4, <1>6 DEF Environment, EditPart, Edit, ExpireExecution, Crash
<1>7. ASSUME NEW w \in Workers, EffectStep(w) PROVE InventoryGrows
  <2>1. CASE ExecuteAddition(w)
    <3>1. ASSUME NEW enriching \in BOOLEAN, Add(Step(w), w, enriching) PROVE InventoryGrows
      <4>1. Step(w) \in Steps BY <2>1, AtItsCall DEF ExecuteAddition, CallIs
      <4>2. /\ receipts' = receipts \cup {Step(w)} /\ unenriched' \subseteq unenriched \cup {Step(w)}
            /\ Changes(Step(w), Stock) /\ UNCHANGED <<content, approvals>>
        BY <3>1 DEF Add, Receipt
      <4>3. effects' \in [Steps \X Targets -> Nat] /\ late' \subseteq Steps
        BY <1>2, <4>1, <4>2, ChangesTypes
      <4> QED BY <1>1, <4>1, <4>2, <4>3, SameInventory DEF InventoryGrows, InventoryTypeOK
    <3> QED BY <1>3, <2>1, <3>1 DEF ExecuteAddition
  <2>2. CASE SaveEnrichment(w)
    <3>1. unenriched' \subseteq unenriched /\ UNCHANGED <<content, approvals, receipts, effects, late>>
      BY <2>2 DEF SaveEnrichment, SaveEnriched
    <3> QED BY <1>1, <3>1, SameInventory DEF InventoryGrows, InventoryTypeOK
  <2>3. CASE StageSpecs(w) BY <1>3, <1>4, <2>3 DEF StageSpecs, StageReview
  <2> QED
    BY <1>3, <1>7, <2>1, <2>2, <2>3
    DEF EffectStep, Enrich, SaveEnrichment, ReportInterrupted, SaveRetrieval, Retrieve
<1>8. ASSUME NEW w \in Workers, RunStep(w) PROVE InventoryGrows
  BY <1>3, <1>7, <1>8, ApprovalStepInventory
  DEF RunStep, BeginStage, Leave, Publish, Start, TurnStep, SaveTurn, GiveUp, Complete, ClearTurn,
      ResultStep, SaveResult, ShowResult, SaveCursor, Recover, SaveCancelled
<1> QED BY <1>3, <1>5, <1>6, <1>8 DEF Next, vars

-----------------------------------------------------------------------------
(* What the steps make of the runs and of the checkpoints.                   *)
RunsFit ==
    /\ run \in [Workers -> Run]
    /\ \A w \in Workers : run[w].pc # "idle" => At(w) \in Executions
    /\ \A w \in Workers : RunFits(approvals, run[w])
CheckpointsFit ==
    /\ ctx \in [Executions -> Context]
    /\ \A e \in Executions : TurnIsProper(ctx[e]) /\ ApprovalFits(approvals, e, ctx[e])

(* A run is as sure as before of what it was sure of. *)
LEMMA RunsStay ==
  ASSUME TypeOK, Shape, InventoryGrows
  PROVE  /\ \A w \in Workers : RunFits(approvals', run[w])
         /\ UNCHANGED run => RunsFit'
         /\ UNCHANGED ctx => CheckpointsFit'
<1>1. approvals \in Seq(Approval) /\ approvals' \in Seq(Approval) /\ Grows(approvals, approvals')
  BY DEF TypeOK, InventoryTypeOK, InventoryGrows
<1>2. \A w \in Workers : RunFits(approvals', run[w]) BY <1>1, FitsStay DEF Shape
<1>3. \A e \in Executions : ApprovalFits(approvals', e, ctx[e]) BY <1>1, FitsStay DEF Shape
<1> QED BY <1>2, <1>3 DEF RunsFit, CheckpointsFit, TypeOK, Shape, At

(* A run that moves, as it must, leaves the runs fit. *)
LEMMA MovedFits ==
  ASSUME TypeOK, Shape, InventoryGrows, NEW w \in Workers, run[w].pc # "idle",
         NEW pc \in Places, NEW m \in Context, NEW h \in SUBSET Targets, NEW n \in Nat,
         Moved(w, pc, m, h, n), RunFits(approvals', run'[w])
  PROVE  RunsFit'
<1>1. \A v \in Workers : RunFits(approvals', run[v]) BY RunsStay
<1> QED BY <1>1 DEF Moved, RunsFit, TypeOK, At

LEMMA IdleFits ==
  ASSUME NEW as
  PROVE  Idle \in Run /\ RunFits(as, Idle) /\ Blank \in Context /\ TurnIsProper(Blank)
         /\ \A e : ApprovalFits(as, e, Blank)
<1>1. <<>> \in Seq(Call) /\ Len(<<>>) = 0 OBVIOUS
<1>2. 0 \in 0..MaxRounds /\ 1 \in 1..(MaxCalls + 1) /\ 0 \in 0..MaxRequests
  BY SizesAreNatural
<1>3. Blank \in Context BY <1>1, <1>2 DEF Blank, Context
<1>4. Idle \in Run BY <1>3 DEF Idle, Run
<1>5. TurnIsProper(Blank) BY <1>1, SizesAreNatural DEF TurnIsProper, Blank
<1>6. \A e : ApprovalFits(as, e, Blank) BY DEF ApprovalFits, Blank
<1>7. RunFits(as, Idle)
  BY <1>5, <1>6 DEF RunFits, Idle, Working, Deciding, Showing
<1> QED BY <1>3, <1>4, <1>5, <1>6, <1>7

LEMMA EndedFits ==
  ASSUME TypeOK, Shape, InventoryGrows, NEW w \in Workers, run' = [run EXCEPT ![w] = Idle]
  PROVE  RunsFit'
<1>1. \A v \in Workers : RunFits(approvals', run[v]) BY RunsStay
<1>2. Idle.pc = "idle" BY DEF Idle
<1> QED BY <1>1, <1>2, IdleFits DEF RunsFit, TypeOK, At

LEMMA SavedFits ==
  ASSUME TypeOK, Shape, InventoryGrows, NEW w \in Workers, At(w) \in Executions,
         NEW m \in Context, NEW s, NEW pc, Save(w, s, m, pc),
         TurnIsProper(m), ApprovalFits(approvals', At(w), m)
  PROVE  CheckpointsFit'
<1>1. approvals \in Seq(Approval) /\ approvals' \in Seq(Approval) /\ Grows(approvals, approvals')
  BY DEF TypeOK, InventoryTypeOK, InventoryGrows
<1>2. \A e \in Executions : ApprovalFits(approvals', e, ctx[e]) BY <1>1, FitsStay DEF Shape
<1>3. ctx' = [ctx EXCEPT ![At(w)] = m] BY DEF Save
<1> QED BY <1>2, <1>3 DEF CheckpointsFit, TypeOK, Shape

(* What is known of a run that is not idle. *)
LEMMA RunIs ==
  ASSUME TypeOK, Shape, NEW w \in Workers, run[w].pc # "idle"
  PROVE  /\ At(w) \in Executions /\ Mem(w) \in Context /\ run[w].held \in SUBSET Targets
         /\ run[w].next \in Nat /\ RunFits(approvals, run[w]) /\ TurnIsProper(Mem(w))
         /\ ApprovalFits(approvals, At(w), Mem(w))
         /\ run[w].at = At(w) /\ run[w].mem = Mem(w)
<1>1. run[w] \in Run /\ RunFits(approvals, run[w]) BY DEF TypeOK, Shape
<1> QED BY <1>1 DEF Run, Mem, At, TypeOK, RunFits

(* A run that saves a fit checkpoint and is sure of it leaves all fit. *)
LEMMA SaveFits ==
  ASSUME TypeOK, Shape, InventoryGrows, NEW w \in Workers, run[w].pc # "idle",
         NEW m \in Context, NEW s, NEW pc \in Places, Save(w, s, m, pc),
         TurnIsProper(m), ApprovalFits(approvals', At(w), m),
         Moved(w, pc, m, {}, 0) => RunFits(approvals', run'[w])
  PROVE  RunsFit' /\ CheckpointsFit'
<1>1. At(w) \in Executions BY RunIs
<1>2. Moved(w, pc, m, {}, 0) BY Moves DEF TypeOK
<1>3. {} \in SUBSET Targets /\ 0 \in Nat OBVIOUS
<1>4. RunsFit' BY <1>2, <1>3, MovedFits
<1>5. CheckpointsFit' BY <1>1, SavedFits
<1> QED BY <1>4, <1>5

LEMMA TurnStepFits ==
  ASSUME TypeOK, Shape, InventoryGrows, NEW w \in Workers, TurnStep(w)
  PROVE  RunsFit' /\ CheckpointsFit'
<1> DEFINE m == Mem(w)
<1>1. run[w].pc = "work" /\ run[w].pc # "idle"
  BY DEF TurnStep, SaveTurn, GiveUp, Complete, ClearTurn, NeedsModel, InTurn
<1>2. /\ At(w) \in Executions /\ m \in Context /\ run[w].next \in Nat
      /\ RunFits(approvals', run[w]) /\ run[w].held = {} /\ run[w].at = At(w) /\ run[w].mem = m
  BY <1>1, RunIs, RunsStay DEF RunFits, Working, Deciding, Showing
<1>3. TurnIsProper(m) /\ ApprovalFits(approvals', At(w), m) BY <1>2 DEF RunFits
<1>4. {"begin", "publishing", "cancelling"} \subseteq Places BY DEF Places
<1>5. CASE SaveTurn(w)
  <2>1. PICK calls \in Turns : Save(w, "ready", NewTurn(m, calls), "begin")
    BY <1>5 DEF SaveTurn, NewTurn
  <2>2. m.round < MaxRounds /\ ~m.pending BY <1>5 DEF SaveTurn, NeedsModel
  <2> DEFINE n == NewTurn(m, calls)
  <2>3. n \in Context /\ TurnIsProper(n) /\ n.approval = m.approval
    BY <1>2, <2>2, NewTurnFields
  <2>4. m.approval = 0 BY <1>3, <2>2 DEF ApprovalFits
  <2>5. ApprovalFits(approvals', At(w), n) BY <2>3, <2>4 DEF ApprovalFits
  <2> HIDE DEF n
  <2>6. Moved(w, "begin", n, {}, 0) => RunFits(approvals', run'[w])
    BY <1>2, <2>3, <2>5 DEF Moved, RunFits, Working, Deciding, Showing
  <2> QED BY <1>1, <1>4, <2>1, <2>3, <2>5, <2>6, SaveFits DEF n
<1>6. CASE GiveUp(w)
  <2>1. CASE Save(w, "failed", m, "publishing")
    <3>1. Moved(w, "publishing", m, {}, 0) => RunFits(approvals', run'[w])
      BY <1>2, <1>3 DEF Moved, RunFits, Working, Deciding, Showing
    <3> QED BY <1>1, <1>2, <1>3, <1>4, <2>1, <3>1, SaveFits
  <2>2. CASE GotoNext(w, "cancelling", 1) /\ UNCHANGED ctx
    <3>1. Moved(w, "cancelling", m, {}, 1) BY <1>2, <1>4, <2>2, Moves DEF TypeOK
    <3>2. RunFits(approvals', run'[w])
      BY <1>2, <1>3, <3>1 DEF Moved, RunFits, Working, Deciding, Showing
    <3>3. {} \in SUBSET Targets /\ 1 \in Nat OBVIOUS
    <3> QED BY <1>1, <1>2, <1>4, <2>2, <3>1, <3>2, <3>3, MovedFits, RunsStay
  <2> QED BY <1>6, <2>1, <2>2 DEF GiveUp
<1>7. CASE Complete(w)
  <2>1. Moved(w, "publishing", m, {}, 0) => RunFits(approvals', run'[w])
    BY <1>2, <1>3 DEF Moved, RunFits, Working, Deciding, Showing
  <2>2. Save(w, "completed", m, "publishing") BY <1>7 DEF Complete
  <2> QED BY <1>1, <1>2, <1>3, <1>4, <2>1, <2>2, SaveFits
<1>8. CASE ClearTurn(w)
  <2>1. Save(w, "ready", Cleared(m), "begin") /\ m.index > Len(m.calls)
    BY <1>8 DEF ClearTurn, Cleared
  <2> DEFINE n == Cleared(m)
  <2>2. n \in Context /\ TurnIsProper(n) /\ n.approval = m.approval
    BY <1>2, <1>3, <2>1, ClearedFields
  <2>3. Len(m.calls) \in Nat /\ m.index \in Nat BY <1>2, LenProperties DEF Context
  <2>4. m.approval = 0 BY <1>3, <2>1, <2>3 DEF ApprovalFits
  <2>5. ApprovalFits(approvals', At(w), n) BY <2>2, <2>4 DEF ApprovalFits
  <2> HIDE DEF n
  <2>6. Moved(w, "begin", n, {}, 0) => RunFits(approvals', run'[w])
    BY <1>2, <2>2, <2>5 DEF Moved, RunFits, Working, Deciding, Showing
  <2> QED BY <1>1, <1>4, <2>1, <2>2, <2>5, <2>6, SaveFits DEF n
<1> QED BY <1>5, <1>6, <1>7, <1>8 DEF TurnStep

(* A run that goes on with the same copy of the checkpoint. *)
LEMMA MovesOn ==
  ASSUME TypeOK, Shape, InventoryGrows, NEW w \in Workers, run[w].pc # "idle", UNCHANGED ctx,
         NEW pc \in Places, NEW h \in SUBSET Targets, NEW n \in Nat,
         Moved(w, pc, Mem(w), h, n), RunFits(approvals', run'[w])
  PROVE  RunsFit' /\ CheckpointsFit'
  BY RunIs, MovedFits, RunsStay

LEMMA ApprovalStepFits ==
  ASSUME TypeOK, Shape, InventoryGrows, NEW w \in Workers, ApprovalStep(w)
  PROVE  RunsFit' /\ CheckpointsFit'
<1> DEFINE m == Mem(w)
           c == CallOf(m)
<1>1. run[w].pc # "idle"
  BY DEF ApprovalStep, Request, SaveAwaiting, Pause, Consult, ExecuteOne, RejectOne, StartBatch,
         ExecuteChild, RejectedChild, EndBatch, CallIs, AwaitsApproval, AtCall, InTurn, Approved
<1>2. /\ At(w) \in Executions /\ m \in Context /\ run[w].next \in Nat
      /\ RunFits(approvals', run[w]) /\ run[w].at = At(w) /\ run[w].mem = m
      /\ run[w].held \in SUBSET Targets
  BY <1>1, RunIs, RunsStay
<1>3. TurnIsProper(m) /\ ApprovalFits(approvals', At(w), m) BY <1>2 DEF RunFits
<1>4. run[w].pc \notin {"result", "interrupted"} => run[w].held = {} BY <1>2 DEF RunFits
<1>5. run \in [Workers -> Run] BY DEF TypeOK
<1>6. /\ approvals \in Seq(Approval) /\ approvals' \in Seq(Approval)
      /\ Grows(approvals, approvals')
      /\ Len(approvals) \in Nat /\ Len(approvals') \in Nat /\ Len(approvals') <= MaxRequests
  BY LenProperties DEF TypeOK, InventoryTypeOK, InventoryGrows
<1>7. Working \cup Showing \cup {"begin"} \subseteq Places BY DEF Places
<1> HIDE DEF m, c
<1>8. CASE Request(w)
  <2> DEFINE n == Len(approvals) + 1
  <2>1. PICK tool \in NeedsApproval : CallIs(w, tool) BY <1>8 DEF Request
  <2>2. /\ run[w].pc = "work" /\ m.pending /\ m.index <= Len(m.calls) /\ m.approval = 0
        /\ ~c.done /\ c.tool \in NeedsApproval
    BY <2>1 DEF CallIs, AtCall, InTurn, m, c, Cursor, CallOf
  <2>3. GotoNext(w, "requested", n) /\ UNCHANGED ctx BY <1>8 DEF Request
  <2>4. Moved(w, "requested", m, run[w].held, n)
    BY <1>5, <1>7, <2>3, Moves DEF Working, m
  <2> DEFINE a == [for |-> Step(w), targets |-> Cursor(w).targets, snapshot |-> content,
                   decision |-> "none", done |-> FALSE, result |-> {},
                   child |-> [p \in Parts |-> "absent"]]
  <2>5. approvals' = Append(approvals, a) BY <1>8 DEF Request, RequestApproval
  <2>6. a.for = <<run[w].at, m.round, m.index>> /\ a.targets = c.targets
    BY <1>2 DEF Step, StepOf, Cursor, CallOf, m, c
  <2> HIDE DEF a
  <2>7. n \in 1..Len(approvals') /\ approvals'[n] = a
    BY <1>6, <2>5
  <2>8. IsFor(approvals', n, <<run[w].at, m.round, m.index>>, c)
    BY <2>2, <2>6, <2>7 DEF IsFor
  <2>9. n \in Nat BY <1>6
  <2> HIDE DEF n
  <2>10. RunFits(approvals', run'[w])
    BY <1>2, <1>3, <1>4, <2>2, <2>4, <2>8 DEF Moved, RunFits, Working, Deciding, Showing, c
  <2> QED BY <1>1, <1>2, <1>7, <2>3, <2>4, <2>9, <2>10, MovesOn DEF m, Working
<1>9. CASE SaveAwaiting(w)
  <2>1. Save(w, "awaiting_approval", Awaiting(m, run[w].next), "begin") /\ run[w].pc = "requested"
    BY <1>9 DEF SaveAwaiting, Awaiting, m
  <2>2. /\ m.pending /\ m.index <= Len(m.calls)
        /\ IsFor(approvals', run[w].next, <<At(w), m.round, m.index>>, c)
    BY <1>2, <2>1 DEF RunFits, Working, c
  <2>3. run[w].next \in 0..MaxRequests BY <1>6, <2>2, SizesAreNatural DEF IsFor
  <2> DEFINE k == Awaiting(m, run[w].next)
  <2>4. /\ k \in Context /\ TurnIsProper(k) /\ k.approval = run[w].next /\ k.pending = m.pending
        /\ k.calls = m.calls /\ k.index = m.index /\ k.round = m.round
    BY <1>2, <1>3, <2>3, AwaitingFields
  <2> HIDE DEF k
  <2>5. ApprovalFits(approvals', At(w), k) BY <2>2, <2>4 DEF ApprovalFits, c, CallOf
  <2>6. Moved(w, "begin", k, {}, 0) => RunFits(approvals', run'[w])
    BY <1>2, <2>4, <2>5 DEF Moved, RunFits, Working, Deciding, Showing
  <2> QED BY <1>1, <1>7, <2>1, <2>4, <2>5, <2>6, SaveFits DEF k
<1>10. CASE Pause(w)
  BY <1>10, EndedFits, RunsStay DEF Pause, EndRun
<1>11. CASE Consult(w)
  <2>1. /\ run[w].pc = "work" /\ m.pending /\ m.index <= Len(m.calls) /\ m.approval # 0
        /\ UNCHANGED ctx /\ approvals' = approvals
    BY <1>11 DEF Consult, AwaitsApproval, AtCall, InTurn, m, inventoryVars
  <2>2. PICK pc \in {"saved", "approved", "result"} :
          /\ Goto(w, pc)
          /\ pc = "saved" <=> c.done
          /\ pc = "approved" => approvals[m.approval].decision = "yes"
    BY <1>11 DEF Consult, m, c, Cursor, CallOf
  <2>3. pc \in Places BY <1>7 DEF Working, Deciding, Showing
  <2>4. Moved(w, pc, m, run[w].held, run[w].next) BY <1>5, <2>2, <2>3, Moves DEF m
  <2>5. RunFits(approvals', run'[w])
    BY <1>2, <1>3, <1>4, <2>1, <2>2, <2>4 DEF Moved, RunFits, Working, Deciding, Showing, c
  <2> QED BY <1>1, <1>2, <2>1, <2>3, <2>4, <2>5, MovesOn DEF m
<1>12. ASSUME run[w].pc \in Deciding
       PROVE  /\ m.pending /\ m.index <= Len(m.calls) /\ m.approval # 0 /\ ~c.done
              /\ approvals'[m.approval].decision = "yes"
              /\ m.approval \in 1..Len(approvals) /\ approvals[m.approval] \in Approval
              /\ c \in Call /\ IsProper(c) /\ c = Cursor(w) /\ run[w].held = {}
              /\ c.tool \in NeedsApproval
  <2>1. run[w].pc \in Working BY <1>12 DEF Working
  <2>2. c \in Call /\ IsProper(c) /\ c = Cursor(w) BY <2>1, AtItsCall DEF m, c
  <2>3. /\ m.pending /\ m.index <= Len(m.calls) /\ m.approval # 0 /\ ~c.done
        /\ approvals'[m.approval].decision = "yes"
    BY <1>2, <1>12, <2>1 DEF RunFits, c
  <2>4. /\ m.approval \in 1..Len(approvals) /\ approvals[m.approval] \in Approval
        /\ c.tool \in NeedsApproval
    BY <2>2, <2>3, AtItsRequest, Zenon DEF m
  <2>5. run[w].held = {} BY <1>4, <1>12 DEF Deciding
  <2> QED BY <2>2, <2>3, <2>4, <2>5
<1>13. ASSUME run[w].pc \in Deciding, UNCHANGED ctx, NEW h \in SUBSET Targets,
              GotoHolding(w, "result", h)
       PROVE  RunsFit' /\ CheckpointsFit'
  <2>1. "result" \in Places BY <1>7 DEF Working
  <2>2. Moved(w, "result", m, h, run[w].next) BY <1>5, <1>13, <2>1, Moves DEF m
  <2>3. RunFits(approvals', run'[w])
    BY <1>2, <1>3, <1>12, <1>13, <2>2 DEF Moved, RunFits, Working, Deciding, Showing, c
  <2> QED BY <1>1, <1>2, <1>13, <2>1, <2>2, <2>3, MovesOn DEF m
<1>14. ASSUME run[w].pc \in Deciding, UNCHANGED ctx, Goto(w, "result")
       PROVE  RunsFit' /\ CheckpointsFit'
  <2>1. "result" \in Places BY <1>7 DEF Working
  <2>2. Moved(w, "result", m, run[w].held, run[w].next) BY <1>5, <1>14, <2>1, Moves DEF m
  <2>3. RunFits(approvals', run'[w])
    BY <1>2, <1>3, <1>12, <1>14, <2>2 DEF Moved, RunFits, Working, Deciding, Showing, c
  <2> QED BY <1>1, <1>2, <1>14, <2>1, <2>2, <2>3, MovesOn DEF m
<1>15. ASSUME run[w].pc \in Deciding, UNCHANGED ctx, c.tool = "bulk", NEW n \in Nat, n >= 1,
              GotoNext(w, "children", n)
       PROVE  RunsFit' /\ CheckpointsFit'
  <2>1. "children" \in Places BY <1>7 DEF Working, Deciding
  <2>2. Moved(w, "children", m, run[w].held, n) BY <1>5, <1>15, <2>1, Moves DEF m
  <2>3. RunFits(approvals', run'[w])
    BY <1>2, <1>3, <1>12, <1>15, <2>2 DEF Moved, RunFits, Working, Deciding, Showing, c
  <2> QED BY <1>1, <1>2, <1>15, <2>1, <2>2, <2>3, MovesOn DEF m
<1>16. ASSUME run[w].pc \in Deciding PROVE approvals[m.approval].result \in SUBSET Targets
  BY <1>12, <1>16 DEF Approval, Targets
<1>17. CASE ExecuteOne(w)
  <2>1. run[w].pc \in Deciding /\ c.tool = "update" /\ UNCHANGED ctx
    <3>1. run[w].pc \in Deciding /\ Cursor(w).tool = "update" /\ UNCHANGED ctx
      BY <1>17 DEF ExecuteOne, Approved, Deciding
    <3> QED BY <1>12, <3>1
  <2>2. CASE GotoHolding(w, "result", approvals[m.approval].result)
    BY <1>13, <1>16, <2>1, <2>2
  <2>3. CASE GotoHolding(w, "result", Cursor(w).targets)
    <3>1. Cursor(w).targets \in SUBSET Targets BY <1>12, <2>1 DEF IsProper, Targets
    <3> QED BY <1>13, <2>1, <2>3, <3>1
  <2>4. CASE Goto(w, "rejecting")
    <3>1. "rejecting" \in Places BY <1>7 DEF Working, Deciding
    <3>2. Moved(w, "rejecting", m, run[w].held, run[w].next) BY <1>5, <2>4, <3>1, Moves DEF m
    <3>3. RunFits(approvals', run'[w])
      BY <1>2, <1>3, <1>12, <2>1, <3>2 DEF Moved, RunFits, Working, Deciding, Showing, c
    <3> QED BY <1>1, <1>2, <2>1, <3>1, <3>2, <3>3, MovesOn DEF m
  <2> QED BY <1>17, <2>2, <2>3, <2>4 DEF ExecuteOne, m
<1>18. CASE RejectOne(w)
  BY <1>14, <1>18 DEF RejectOne, Deciding
<1>19. CASE StartBatch(w)
  <2>1. run[w].pc \in Deciding /\ c.tool = "bulk" /\ UNCHANGED ctx
    <3>1. run[w].pc \in Deciding /\ Cursor(w).tool = "bulk" /\ UNCHANGED ctx
      BY <1>19 DEF StartBatch, Approved, Deciding
    <3> QED BY <1>12, <3>1
  <2>2. CASE GotoHolding(w, "result", approvals[m.approval].result)
    BY <1>13, <1>16, <2>1, <2>2
  <2>3. CASE GotoNext(w, "children", 1) BY <1>15, <2>1, <2>3
  <2> QED BY <1>19, <2>2, <2>3 DEF StartBatch, m
<1>20. ASSUME run[w].pc \in {"children", "rejectchild"}
       PROVE  run[w].pc \in Deciding /\ c.tool = "bulk" /\ run[w].next >= 1
  BY <1>2, <1>20 DEF RunFits, Deciding, c
<1>21. CASE ExecuteChild(w)
  <2>1. /\ run[w].pc \in Deciding /\ c.tool = "bulk" /\ UNCHANGED ctx /\ run[w].next \in Parts
        /\ run[w].next >= 1
    BY <1>20, <1>21 DEF ExecuteChild
  <2>2. CASE GotoNext(w, "children", run[w].next + 1)
    <3>1. run[w].next + 1 \in Nat /\ run[w].next + 1 >= 1 BY <1>2
    <3> QED BY <1>15, <2>1, <2>2, <3>1
  <2>3. CASE Goto(w, "rejectchild")
    <3>1. "rejectchild" \in Places BY <1>7 DEF Working, Deciding
    <3>2. Moved(w, "rejectchild", m, run[w].held, run[w].next) BY <1>5, <2>3, <3>1, Moves DEF m
    <3>3. RunFits(approvals', run'[w])
      BY <1>2, <1>3, <1>12, <2>1, <3>2 DEF Moved, RunFits, Working, Deciding, Showing, c
    <3> QED BY <1>1, <1>2, <2>1, <3>1, <3>2, <3>3, MovesOn DEF m
  <2> QED BY <1>21, <2>2, <2>3 DEF ExecuteChild
<1>22. CASE RejectedChild(w)
  <2>1. /\ run[w].pc \in Deciding /\ c.tool = "bulk" /\ UNCHANGED ctx
        /\ GotoNext(w, "children", run[w].next + 1)
    BY <1>20, <1>22 DEF RejectedChild
  <2>2. run[w].next + 1 \in Nat /\ run[w].next + 1 >= 1 BY <1>2
  <2> QED BY <1>15, <2>1, <2>2
<1>23. CASE EndBatch(w)
  <2> DEFINE changed == {p \in Parts : approvals[Mem(w).approval].child[p] = "changed"}
  <2>1. run[w].pc \in Deciding /\ UNCHANGED ctx /\ GotoHolding(w, "result", changed)
    BY <1>23 DEF EndBatch, Deciding
  <2>2. changed \in SUBSET Targets BY DEF Targets
  <2> HIDE DEF changed
  <2> QED BY <1>13, <2>1, <2>2
<1> QED BY <1>8, <1>9, <1>10, <1>11, <1>17, <1>18, <1>19, <1>21, <1>22, <1>23 DEF ApprovalStep

LEMMA EffectStepFits ==
  ASSUME TypeOK, Shape, InventoryGrows, NEW w \in Workers, EffectStep(w)
  PROVE  RunsFit' /\ CheckpointsFit'
<1> DEFINE m == Mem(w)
           c == CallOf(m)
<1>1. run[w].pc # "idle"
  BY DEF EffectStep, ExecuteAddition, Enrich, SaveEnrichment, ReportInterrupted, SaveRetrieval,
         Retrieve, StageSpecs, AtRetrieval, CallIs, AtCall, InTurn
<1>2. /\ At(w) \in Executions /\ m \in Context /\ run[w].next \in Nat
      /\ RunFits(approvals', run[w]) /\ run[w].at = At(w) /\ run[w].mem = m
      /\ run[w].held \in SUBSET Targets
  BY <1>1, RunIs, RunsStay
<1>3. TurnIsProper(m) /\ ApprovalFits(approvals', At(w), m) BY <1>2 DEF RunFits
<1>4. run[w].pc \notin {"result", "interrupted"} => run[w].held = {} BY <1>2 DEF RunFits
<1>5. run \in [Workers -> Run] BY DEF TypeOK
<1>6. Working \subseteq Places BY DEF Places
<1>7. {} \in SUBSET Targets /\ {Stock} \in SUBSET Targets BY DEF Targets
<1> HIDE DEF m, c
<1>8. ASSUME NEW tool, CallIs(w, tool)
      PROVE  /\ run[w].pc = "work" /\ m.pending /\ m.index <= Len(m.calls) /\ m.approval = 0
             /\ ~c.done /\ c.tool = tool
  BY <1>8 DEF CallIs, AtCall, InTurn, m, c, Cursor, CallOf
<1>9. ASSUME m.pending, m.index <= Len(m.calls), ~c.done, UNCHANGED ctx,
             NEW h \in SUBSET Targets, GotoHolding(w, "result", h)
      PROVE  RunsFit' /\ CheckpointsFit'
  <2>1. "result" \in Places BY <1>6 DEF Working
  <2>2. Moved(w, "result", m, h, run[w].next) BY <1>5, <1>9, <2>1, Moves DEF m
  <2>3. RunFits(approvals', run'[w])
    BY <1>2, <1>3, <1>9, <2>2 DEF Moved, RunFits, Working, Deciding, Showing, c
  <2> QED BY <1>1, <1>2, <1>9, <2>1, <2>2, <2>3, MovesOn DEF m
<1>10. CASE ExecuteAddition(w)
  <2>1. /\ run[w].pc = "work" /\ m.pending /\ m.index <= Len(m.calls) /\ m.approval = 0
        /\ ~c.done /\ c.tool = "add" /\ UNCHANGED ctx
    BY <1>8, <1>10 DEF ExecuteAddition
  <2>2. CASE Goto(w, "enrich")
    <3>1. "enrich" \in Places BY <1>6 DEF Working
    <3>2. Moved(w, "enrich", m, run[w].held, run[w].next) BY <1>5, <2>2, <3>1, Moves DEF m
    <3>3. RunFits(approvals', run'[w])
      BY <1>2, <1>3, <1>4, <2>1, <3>2 DEF Moved, RunFits, Working, Deciding, Showing, c
    <3> QED BY <1>1, <1>2, <2>1, <3>1, <3>2, <3>3, MovesOn DEF m
  <2>3. CASE GotoHolding(w, "interrupted", {Stock})
    <3>1. "interrupted" \in Places BY <1>6 DEF Working
    <3>2. Moved(w, "interrupted", m, {Stock}, run[w].next)
      BY <1>5, <1>7, <2>3, <3>1, Moves DEF m
    <3>3. RunFits(approvals', run'[w])
      BY <1>2, <1>3, <1>4, <2>1, <3>2 DEF Moved, RunFits, Working, Deciding, Showing, c
    <3> QED BY <1>1, <1>2, <1>7, <2>1, <3>1, <3>2, <3>3, MovesOn DEF m
  <2> QED BY <1>7, <1>9, <1>10, <2>1, <2>2, <2>3 DEF ExecuteAddition
<1>11. ASSUME run[w].pc \in {"enrich", "enriched", "retrieve", "fetched"}
       PROVE  /\ m.pending /\ m.index <= Len(m.calls) /\ ~c.done
              /\ run[w].held = {}
              /\ run[w].pc \in {"enrich", "enriched"} => c.tool = "add"
              /\ run[w].pc \in {"retrieve", "fetched"} => c.tool \in Retrievals /\ c.retrieving
  BY <1>2, <1>11 DEF RunFits, Working, c
<1>12. CASE Enrich(w)
  <2>1. "enriched" \in Places BY <1>6 DEF Working
  <2>2. Goto(w, "enriched") /\ UNCHANGED ctx /\ run[w].pc = "enrich" BY <1>12 DEF Enrich
  <2>3. Moved(w, "enriched", m, run[w].held, run[w].next) BY <1>5, <2>1, <2>2, Moves DEF m
  <2>4. RunFits(approvals', run'[w])
    BY <1>2, <1>3, <1>11, <2>2, <2>3 DEF Moved, RunFits, Working, Deciding, Showing, c
  <2> QED BY <1>1, <1>2, <2>1, <2>2, <2>3, <2>4, MovesOn DEF m
<1>17. CASE SaveEnrichment(w)
  BY <1>7, <1>9, <1>11, <1>17 DEF SaveEnrichment
<1>13. CASE ReportInterrupted(w)
  <2>1. /\ run[w].pc = "work" /\ m.pending /\ m.index <= Len(m.calls) /\ m.approval = 0
        /\ ~c.done /\ c.tool \in Retrievals /\ UNCHANGED ctx /\ Goto(w, "interrupted")
    BY <1>8, <1>13 DEF ReportInterrupted, AtRetrieval
  <2>2. "interrupted" \in Places BY <1>6 DEF Working
  <2>3. Moved(w, "interrupted", m, run[w].held, run[w].next) BY <1>5, <2>1, <2>2, Moves DEF m
  <2>4. RunFits(approvals', run'[w])
    BY <1>2, <1>3, <1>4, <2>1, <2>3 DEF Moved, RunFits, Working, Deciding, Showing, c
  <2> QED BY <1>1, <1>2, <2>1, <2>2, <2>3, <2>4, MovesOn DEF m
<1>14. CASE SaveRetrieval(w)
  <2>1. /\ run[w].pc = "work" /\ m.pending /\ m.index <= Len(m.calls) /\ m.approval = 0
        /\ ~c.done /\ c.tool \in Retrievals /\ Save(w, "ready", Retrieving(m), "retrieve")
    BY <1>8, <1>14 DEF SaveRetrieval, AtRetrieval, Retrieving, m
  <2> DEFINE k == Retrieving(m)
  <2>2. /\ k \in Context /\ TurnIsProper(k) /\ k.pending /\ k.index = m.index
        /\ k.approval = m.approval /\ Len(k.calls) = Len(m.calls)
        /\ CallOf(k).tool \in Retrievals /\ ~CallOf(k).done /\ CallOf(k).retrieving
    BY <1>2, <1>3, <2>1, RetrievingFields DEF c
  <2>3. ApprovalFits(approvals', At(w), k) BY <2>1, <2>2 DEF ApprovalFits
  <2>4. "retrieve" \in Places BY <1>6 DEF Working
  <2> HIDE DEF k
  <2>5. Moved(w, "retrieve", k, {}, 0) => RunFits(approvals', run'[w])
    BY <1>2, <2>1, <2>2, <2>3 DEF Moved, RunFits, Working, Deciding, Showing
  <2> QED BY <1>1, <2>1, <2>2, <2>3, <2>4, <2>5, SaveFits DEF k
<1>15. ASSUME NEW pc \in {"fetched", "result"}, Goto(w, pc), UNCHANGED ctx,
              run[w].pc \in {"retrieve", "fetched"}
       PROVE  RunsFit' /\ CheckpointsFit'
  <2>1. pc \in Places BY <1>6 DEF Working
  <2>2. Moved(w, pc, m, run[w].held, run[w].next) BY <1>5, <1>15, <2>1, Moves DEF m
  <2>3. RunFits(approvals', run'[w])
    BY <1>2, <1>3, <1>11, <1>15, <2>2 DEF Moved, RunFits, Working, Deciding, Showing, c
  <2> QED BY <1>1, <1>2, <1>15, <2>1, <2>2, <2>3, MovesOn DEF m
<1>16. CASE Retrieve(w) \/ StageSpecs(w)
  BY <1>15, <1>16 DEF Retrieve, StageSpecs
<1> QED BY <1>10, <1>12, <1>13, <1>14, <1>16, <1>17 DEF EffectStep

(* The lookups and additions that results put into the exchanges. *)
LEMMA ExchangeTypes ==
  ASSUME TypeOK, Shape, NEW w \in Workers, run[w].pc \in {"result", "interrupted"}
  PROVE  Exchange(w) \in SUBSET Lookups
<1>1. run[w].pc \in Working BY DEF Working
<1>2. /\ Mem(w) \in Context /\ TurnIsProper(Mem(w)) /\ Mem(w).pending
      /\ Mem(w).index \in 1..Len(Mem(w).calls) /\ IsProper(Cursor(w))
  BY <1>1, AtItsCall
<1>3. Mem(w).round \in 1..MaxRounds BY <1>2 DEF Context, TurnIsProper
<1>4. Mem(w).index \in 1..MaxCalls
  <2>1. Len(Mem(w).calls) \in Nat /\ Len(Mem(w).calls) <= MaxCalls /\ MaxCalls \in Nat
    BY <1>2, LenProperties, SizesAreNatural DEF TurnIsProper, Context
  <2> QED BY <1>2, <2>1
<1>5. AddedPart(Mem(w).round, Mem(w).index) \in Nat \ {0}
  <2>1. PICK k \in Nat : k = Mem(w).round - 1 BY <1>3
  <2>2. k * MaxCalls \in Nat BY SizesAreNatural
  <2>3. PICK i \in Nat \ {0} : i = Mem(w).index BY <1>4
  <2>4. NumParts \in Nat BY SizesAreNatural
  <2>5. AddedPart(Mem(w).round, Mem(w).index) = NumParts + k * MaxCalls + i
    BY <2>1, <2>3 DEF AddedPart
  <2> QED BY <2>2, <2>3, <2>4, <2>5
<1>6. Cursor(w).tool \in Tools BY <1>1, AtItsCall DEF Call
<1>7. Exchange(w) \subseteq Lookups
  <2> SUFFICES ASSUME NEW x \in Exchange(w) PROVE x \in Lookups OBVIOUS
  <2>1. PICK p : /\ x = [step |-> <<Mem(w).round, Mem(w).index>>, tool |-> Cursor(w).tool,
                         part |-> p, interrupted |-> run[w].pc = "interrupted"]
                 /\ \/ p = AddedPart(Mem(w).round, Mem(w).index)
                    \/ Cursor(w).tool \in Retrievals /\ p \in Cursor(w).targets
    BY DEF Exchange
  <2>2. p \in Nat \ {0} BY <1>2, <1>5, <2>1, IdsAreNatural DEF IsProper
  <2>3. <<Mem(w).round, Mem(w).index>> \in (1..MaxRounds) \X (1..MaxCalls) BY <1>3, <1>4
  <2>4. (run[w].pc = "interrupted") \in BOOLEAN OBVIOUS
  <2> QED BY <1>6, <2>1, <2>2, <2>3, <2>4, Zenon DEF Lookups
<1> QED BY <1>7

LEMMA ResultStepFits ==
  ASSUME TypeOK, Shape, InventoryGrows, NEW w \in Workers, ResultStep(w)
  PROVE  RunsFit' /\ CheckpointsFit'
<1> DEFINE m == Mem(w)
           c == CallOf(m)
<1>1. run[w].pc # "idle"
  BY DEF ResultStep, SaveResult, ShowResult, SaveCursor, Recover, SaveCancelled, CancelsCall,
         AtCall, InTurn
<1>2. /\ At(w) \in Executions /\ m \in Context /\ run[w].next \in Nat
      /\ RunFits(approvals', run[w]) /\ run[w].at = At(w) /\ run[w].mem = m
      /\ run[w].held \in SUBSET Targets
  BY <1>1, RunIs, RunsStay
<1>3. TurnIsProper(m) /\ ApprovalFits(approvals', At(w), m) BY <1>2 DEF RunFits
<1>4. run[w].pc \notin {"result", "interrupted"} => run[w].held = {} BY <1>2 DEF RunFits
<1>5. run \in [Workers -> Run] BY DEF TypeOK
<1>6. Working \cup Showing \cup {"begin", "cancelling", "publishing"} \subseteq Places
  BY DEF Places
<1> HIDE DEF m, c
<1>7. CASE SaveResult(w)
  <2> DEFINE k == Resulting(m, run[w].held, Exchange(w))
  <2>1. Save(w, "ready", k, "saved") /\ run[w].pc \in {"result", "interrupted"}
    BY <1>7 DEF SaveResult, Resulting, m
  <2>2. m.pending /\ m.index <= Len(m.calls) BY <1>2, <2>1 DEF RunFits, Working
  <2>3. /\ k \in Context /\ TurnIsProper(k) /\ k.pending /\ k.index = m.index
        /\ k.approval = m.approval /\ Len(k.calls) = Len(m.calls) /\ k.round = m.round
        /\ CallOf(k).tool = c.tool /\ CallOf(k).targets = c.targets /\ CallOf(k).done
    <3>1. Exchange(w) \in SUBSET Lookups BY <2>1, ExchangeTypes
    <3>2. HasResulted(k, m, run[w].held, Exchange(w))
      BY <1>2, <1>3, <2>2, <3>1, ResultingFields
    <3> HIDE DEF k
    <3> QED BY <3>2 DEF HasResulted, c
  <2>4. "saved" \in Places BY <1>6 DEF Showing
  <2> HIDE DEF k
  <2>5. ApprovalFits(approvals', At(w), k)
    BY <1>3, <2>3 DEF ApprovalFits, IsFor, c
  <2>6. Moved(w, "saved", k, {}, 0) => RunFits(approvals', run'[w])
    BY <1>2, <2>2, <2>3, <2>5 DEF Moved, RunFits, Working, Deciding, Showing
  <2> QED BY <1>1, <2>1, <2>3, <2>4, <2>5, <2>6, SaveFits DEF k
<1>8. CASE ShowResult(w)
  <2>1. /\ run[w].pc \in {"saved", "work"} /\ m.pending /\ m.index <= Len(m.calls) /\ c.done
        /\ UNCHANGED ctx /\ Goto(w, "cursor")
    BY <1>2, <1>8 DEF ShowResult, AtCall, InTurn, Cursor, CallOf, RunFits, Showing, m, c
  <2>2. "cursor" \in Places BY <1>6 DEF Showing
  <2>3. Moved(w, "cursor", m, run[w].held, run[w].next) BY <1>5, <2>1, <2>2, Moves DEF m
  <2>4. RunFits(approvals', run'[w])
    BY <1>2, <1>3, <1>4, <2>1, <2>3 DEF Moved, RunFits, Working, Deciding, Showing, c
  <2> QED BY <1>1, <1>2, <2>1, <2>2, <2>3, <2>4, MovesOn DEF m
<1>9. CASE SaveCursor(w)
  <2> DEFINE k == Advanced(m)
  <2>1. Save(w, "ready", k, "begin") /\ run[w].pc = "cursor"
    BY <1>9 DEF SaveCursor, Advanced, m
  <2>2. m.pending /\ m.index <= Len(m.calls) /\ c.done
    BY <1>2, <2>1 DEF RunFits, Showing, c
  <2>3. k \in Context /\ TurnIsProper(k) /\ k.approval = 0
    BY <1>2, <1>3, <2>2, AdvancedFields DEF c
  <2> HIDE DEF k
  <2>4. ApprovalFits(approvals', At(w), k) BY <2>3 DEF ApprovalFits
  <2>5. Moved(w, "begin", k, {}, 0) => RunFits(approvals', run'[w])
    BY <1>2, <2>3, <2>4 DEF Moved, RunFits, Working, Deciding, Showing
  <2>6. "begin" \in Places BY <1>6
  <2> QED BY <1>1, <2>1, <2>3, <2>4, <2>5, <2>6, SaveFits DEF k
<1>10. CASE Recover(w)
  <2> DEFINE n == run[w].next + 1
  <2>1. run[w].pc = "cancelling" /\ UNCHANGED ctx /\ GotoNext(w, "cancelling", n)
    BY <1>10 DEF Recover, CancelsCall
  <2>2. "cancelling" \in Places /\ n \in Nat /\ n >= 1 BY <1>2, <1>6
  <2> HIDE DEF n
  <2>3. Moved(w, "cancelling", m, run[w].held, n) BY <1>5, <2>1, <2>2, Moves DEF m
  <2>4. RunFits(approvals', run'[w])
    BY <1>2, <1>3, <1>4, <2>1, <2>2, <2>3 DEF Moved, RunFits, Working, Deciding, Showing
  <2> QED BY <1>1, <1>2, <2>1, <2>2, <2>3, <2>4, MovesOn DEF m
<1>11. CASE SaveCancelled(w)
  <2>1. Save(w, "cancelled", m, "publishing") BY <1>11 DEF SaveCancelled, m
  <2>2. Moved(w, "publishing", m, {}, 0) => RunFits(approvals', run'[w])
    BY <1>2, <1>3 DEF Moved, RunFits, Working, Deciding, Showing
  <2>3. "publishing" \in Places BY <1>6
  <2> QED BY <1>1, <1>2, <1>3, <2>1, <2>2, <2>3, SaveFits
<1> QED BY <1>7, <1>8, <1>9, <1>10, <1>11 DEF ResultStep

(* The run that starts, is authorised, leaves, publishes or dies. *)
LEMMA RunStepFits ==
  ASSUME TypeOK, Shape, InventoryGrows, NEW w \in Workers, RunStep(w)
  PROVE  RunsFit' /\ CheckpointsFit'
<1>1. CASE BeginStage(w)
  <2>1. PICK pc \in {"cancelling", "work"} : GotoNext(w, pc, 1)
    BY <1>1 DEF BeginStage
  <2>2. run[w].pc = "begin" /\ UNCHANGED ctx BY <1>1 DEF BeginStage
  <2>3. pc \in Places /\ run \in [Workers -> Run] BY DEF Places, TypeOK
  <2>4. /\ At(w) \in Executions /\ Mem(w) \in Context /\ run[w].held \in SUBSET Targets
        /\ RunFits(approvals', run[w]) /\ run[w].mem = Mem(w) /\ run[w].at = At(w)
    BY <2>2, RunIs, RunsStay
  <2>5. Moved(w, pc, Mem(w), run[w].held, 1) BY <2>1, <2>3, Moves
  <2>6. RunFits(approvals', run'[w])
    BY <2>2, <2>4, <2>5 DEF Moved, RunFits, Working, Deciding, Showing
  <2>7. 1 \in Nat OBVIOUS
  <2> QED BY <2>2, <2>3, <2>4, <2>5, <2>6, <2>7, MovesOn
<1>2. CASE Leave(w) \/ Publish(w)
  BY <1>2, EndedFits, RunsStay DEF Leave, Publish, EndRun
<1>3. ASSUME NEW e \in Executions, Start(w, e) PROVE RunsFit' /\ CheckpointsFit'
  <2>1. UNCHANGED ctx BY <1>3 DEF Start
  <2>2. CheckpointsFit' BY <2>1, RunsStay
  <2>3. ASSUME NEW m \in {Blank, ctx[e]}
        PROVE  m \in Context /\ TurnIsProper(m) /\ ApprovalFits(approvals', e, m)
    BY <2>1, <2>2, IdleFits DEF CheckpointsFit
  <2>4. PICK r \in Run :
          /\ run' = [run EXCEPT ![w] = r]
          /\ r.pc \in {"publishing", "begin"} /\ r.at = e /\ r.mem \in {Blank, ctx[e]}
          /\ r.held = {} /\ r.next = 0
    <3>1. Idle \in Run BY IdleFits
    <3>2. CASE run' = [run EXCEPT ![w] = [Idle EXCEPT !.at = e, !.pc = "publishing"]]
      <4> DEFINE r == [Idle EXCEPT !.at = e, !.pc = "publishing"]
      <4>1. r \in Run BY <3>1, Zenon DEF Run
      <4>2. r.pc = "publishing" /\ r.at = e /\ r.mem = Blank /\ r.held = {} /\ r.next = 0
        BY DEF Idle
      <4> HIDE DEF r
      <4> QED BY <3>2, <4>1, <4>2 DEF r
    <3>3. CASE run' = [run EXCEPT ![w] = [Idle EXCEPT !.at = e, !.pc = "begin",
                                                     !.mem = ctx[e]]]
      <4> DEFINE r == [Idle EXCEPT !.at = e, !.pc = "begin", !.mem = ctx[e]]
      <4>1. r \in Run BY <2>3, <3>1, Zenon DEF Run
      <4>2. r.pc = "begin" /\ r.at = e /\ r.mem = ctx[e] /\ r.held = {} /\ r.next = 0
        BY DEF Idle
      <4> HIDE DEF r
      <4> QED BY <3>3, <4>1, <4>2 DEF r
    <3> QED BY <1>3, <3>2, <3>3 DEF Start
  <2>5. RunFits(approvals', r)
    BY <2>3, <2>4 DEF RunFits, Working, Deciding, Showing
  <2>6. \A v \in Workers : RunFits(approvals', run[v]) BY RunsStay
  <2>7. RunsFit' BY <2>4, <2>5, <2>6 DEF RunsFit, TypeOK, At
  <2> QED BY <2>2, <2>7
<1> QED
  BY <1>1, <1>2, <1>3, TurnStepFits, ApprovalStepFits, EffectStepFits, ResultStepFits
  DEF RunStep

LEMMA FitsKept ==
  ASSUME TypeOK, Shape, InventoryGrows, [Next]_vars
  PROVE  RunsFit' /\ CheckpointsFit'
<1>1. CASE UNCHANGED <<run, ctx>> BY <1>1, RunsStay
<1>2. ASSUME NEW w \in Workers, Crash(w) PROVE RunsFit' /\ CheckpointsFit'
  BY <1>2, EndedFits, RunsStay DEF Crash
<1>3. CASE UserStep BY <1>1, <1>3 DEF UserStep, Accept, Cancel, Decide
<1>4. CASE Environment
  BY <1>1, <1>2, <1>4 DEF Environment, EditPart, ExpireExecution
<1>5. ASSUME NEW w \in Workers, RunStep(w) PROVE RunsFit' /\ CheckpointsFit'
  BY <1>5, RunStepFits
<1> QED BY <1>1, <1>3, <1>4, <1>5 DEF Next, vars

-----------------------------------------------------------------------------
(* The rest of the state: the executions and the events.                     *)

(* What a step may do to the rows of the executions. *)
Rows ==
    \/ UNCHANGED exec
    \/ \E e \in Executions :
         \/ Prepare(e) \/ ExpireLease(e)
         \/ \E w \in Workers :
              \/ ClaimExecution(e, w) \/ Release(e, w)
              \/ \E s \in Status \ {"absent"} : SaveStatus(e, w, s)
    \/ \E w \in Workers : LoseOwner(w)

LEMMA RowsMove ==
  ASSUME TypeOK, Shape, [Next]_vars
  PROVE  Rows
<1>1. ASSUME NEW w \in Workers, run[w].pc # "idle" PROVE At(w) \in Executions
  BY <1>1, RunIs
<1>2. ASSUME NEW w \in Workers, NEW s \in Status \ {"absent"}, NEW m, NEW pc,
             run[w].pc # "idle", Save(w, s, m, pc)
      PROVE  Rows
  BY <1>1, <1>2 DEF Save, Rows
<1>3. ASSUME NEW w \in Workers, run[w].pc # "idle", EndRun(w) PROVE Rows
  BY <1>1, <1>3 DEF EndRun, Rows
<1>4. {"ready", "awaiting_approval", "completed", "failed", "cancelled"}
        \subseteq Status \ {"absent"}
  BY DEF Status, Terminal
<1>5. CASE UserStep BY <1>5 DEF UserStep, Accept, Cancel, Decide, executionVars, Rows
<1>6. CASE Environment
  BY <1>6 DEF Environment, EditPart, ExpireExecution, Crash, executionVars, Rows
<1>7. ASSUME NEW w \in Workers, TurnStep(w) PROVE Rows
  BY <1>2, <1>4, <1>7
  DEF TurnStep, SaveTurn, GiveUp, Complete, ClearTurn, NeedsModel, InTurn, executionVars, Rows
<1>8. ASSUME NEW w \in Workers, ApprovalStep(w) PROVE Rows
  <2>1. CASE SaveAwaiting(w) BY <1>2, <1>4, <2>1 DEF SaveAwaiting
  <2>2. CASE Pause(w) BY <1>3, <2>2 DEF Pause, AwaitsApproval, AtCall, InTurn
  <2> QED
    BY <1>8, <2>1, <2>2
    DEF ApprovalStep, Request, Consult, ExecuteOne, RejectOne, StartBatch, ExecuteChild,
        RejectedChild, EndBatch, executionVars, Rows
<1>9. ASSUME NEW w \in Workers, EffectStep(w) PROVE Rows
  <2>1. CASE SaveRetrieval(w)
    BY <1>2, <1>4, <2>1 DEF SaveRetrieval, AtRetrieval, CallIs, AtCall, InTurn
  <2> QED
    BY <1>9, <2>1
    DEF EffectStep, ExecuteAddition, Enrich, SaveEnrichment, SaveEnriched, ReportInterrupted, Retrieve, StageSpecs,
        executionVars, Rows
<1>10. ASSUME NEW w \in Workers, ResultStep(w) PROVE Rows
  BY <1>2, <1>4, <1>10
  DEF ResultStep, SaveResult, ShowResult, SaveCursor, Recover, SaveCancelled, executionVars, Rows
<1>11. ASSUME NEW w \in Workers, RunStep(w) PROVE Rows
  BY <1>3, <1>7, <1>8, <1>9, <1>10, <1>11
  DEF RunStep, BeginStage, Leave, Publish, Start, executionVars, Rows
<1> QED BY <1>5, <1>6, <1>11 DEF Next, vars, executionVars, Rows

LEMMA RowTypes ==
  ASSUME TypeOK, Rows
  PROVE  exec' \in [Executions -> ExecutionRow]
<1>1. exec \in [Executions -> ExecutionRow] BY DEF TypeOK, ExecutionsTypeOK
<1>2. Workers \subseteq Owner /\ Nobody \in Owner /\ Lost \in Owner BY DEF Owner
<1>3. ASSUME NEW e \in Executions, Prepare(e) \/ ExpireLease(e)
      PROVE  exec' \in [Executions -> ExecutionRow]
  <2>1. "ready" \in Status BY DEF Status
  <2> QED BY <1>1, <1>3, <2>1 DEF Prepare, ExpireLease, ExecutionRow
<1>4. ASSUME NEW e \in Executions, NEW w \in Workers, ClaimExecution(e, w) \/ Release(e, w)
      PROVE  exec' \in [Executions -> ExecutionRow]
  BY <1>1, <1>2, <1>4 DEF ClaimExecution, Release, ExecutionRow
<1>5. ASSUME NEW e \in Executions, NEW w \in Workers, NEW s \in Status, SaveStatus(e, w, s)
      PROVE  exec' \in [Executions -> ExecutionRow]
  BY <1>1, <1>5 DEF SaveStatus, ExecutionRow
<1>6. ASSUME NEW w \in Workers, LoseOwner(w)
      PROVE  exec' \in [Executions -> ExecutionRow]
  BY <1>1, <1>2, <1>6 DEF LoseOwner, ExecutionRow
<1> QED BY <1>1, <1>3, <1>4, <1>5, <1>6 DEF Rows

(* A result that is shown is one of a call. *)
LEMMA ShowTypes ==
  ASSUME shown \subseteq Steps \X SUBSET Targets,
         NEW s \in Steps, NEW claims \in SUBSET Targets, Show(s, claims)
  PROVE  shown' \subseteq Steps \X SUBSET Targets
  BY DEF Show

LEMMA CommittedTypes ==
  ASSUME TypeOK, Shape, NEW w \in Workers, CancelsCall(w)
  PROVE  /\ StepOf(w, run[w].next) \in Steps
         /\ \A claims \in Committed(w, run[w].next) : claims \in SUBSET Targets
<1> DEFINE m == Mem(w)
           i == run[w].next
<1>1. run[w].pc = "cancelling" /\ m.pending /\ i <= Len(m.calls) BY DEF CancelsCall
<1>2. /\ At(w) \in Executions /\ m \in Context /\ i \in Nat
      /\ RunFits(approvals, run[w]) /\ TurnIsProper(m)
  BY <1>1, RunIs
<1>3. i >= 1 BY <1>1, <1>2 DEF RunFits
<1>4. m.calls \in Seq(Call) /\ Len(m.calls) \in Nat /\ Len(m.calls) <= MaxCalls
  BY <1>2, LenProperties DEF Context, TurnIsProper
<1>5. i \in 1..Len(m.calls) /\ i \in 1..MaxCalls BY <1>1, <1>2, <1>3, <1>4, SizesAreNatural
<1>6. m.round \in 1..MaxRounds BY <1>1, <1>2 DEF Context, TurnIsProper
<1>7. StepOf(w, i) \in Steps BY <1>2, <1>5, <1>6 DEF StepOf, Steps
<1>8. m.calls[i] \in Call BY <1>4, <1>5, ElementOfSeq
<1>9. m.approval # 0 => approvals[m.approval] \in Approval BY AtItsRequest, Zenon
<1>10. \A claims \in Committed(w, i) : claims \in SUBSET Targets
  <2>1. m.calls[i].result \in SUBSET Targets BY <1>8 DEF Call
  <2>2. {Stock} \in SUBSET Targets BY DEF Targets
  <2>3. m.approval # 0 => approvals[m.approval].result \in SUBSET Targets
    BY <1>9 DEF Approval, Targets
  <2> HIDE DEF i
  <2> QED BY <2>1, <2>2, <2>3 DEF Committed
<1> QED BY <1>7, <1>10

(* Who shows, asks, ends or pays. *)
LEMMA EventsMove ==
  ASSUME [Next]_vars
  PROVE  \/ UNCHANGED <<shown, asked, ended, paid>>
         \/ \E w \in Workers : \/ Pause(w) \/ Enrich(w) \/ Retrieve(w)
                              \/ ShowResult(w) \/ Recover(w) \/ Publish(w)
<1>1. UNCHANGED <<eventVars, paid>> => UNCHANGED <<shown, asked, ended, paid>> BY DEF eventVars
<1>2. CASE UserStep BY <1>1, <1>2 DEF UserStep, Accept, Cancel, Decide
<1>3. CASE Environment
  BY <1>1, <1>3 DEF Environment, EditPart, ExpireExecution, Crash
<1>4. ASSUME NEW w \in Workers, RunStep(w)
      PROVE  \/ UNCHANGED <<shown, asked, ended, paid>>
             \/ Pause(w) \/ Enrich(w) \/ Retrieve(w) \/ ShowResult(w) \/ Recover(w) \/ Publish(w)
  BY <1>1, <1>4
  DEF RunStep, BeginStage, Leave, Start, TurnStep, SaveTurn, GiveUp, Complete, ClearTurn,
      ApprovalStep, Request, SaveAwaiting, Consult, ExecuteOne, RejectOne, StartBatch,
      ExecuteChild, RejectedChild, EndBatch, EffectStep, ExecuteAddition, SaveEnrichment, ReportInterrupted,
      SaveRetrieval, StageSpecs, ResultStep, SaveResult, SaveCursor, SaveCancelled
<1> QED BY <1>1, <1>2, <1>3, <1>4 DEF Next, vars

LEMMA EventTypes ==
  ASSUME TypeOK, Shape, InventoryGrows, [Next]_vars
  PROVE  /\ shown' \subseteq Steps \X SUBSET Targets
         /\ asked' \subseteq 1..Len(approvals')
         /\ ended' \subseteq Executions
         /\ paid' \in [Steps -> Nat]
<1>1. /\ shown \subseteq Steps \X SUBSET Targets /\ asked \subseteq 1..Len(approvals)
      /\ ended \subseteq Executions /\ paid \in [Steps -> Nat]
  BY DEF TypeOK
<1>2. asked \subseteq 1..Len(approvals')
  <2>1. Len(approvals) \in Nat /\ Len(approvals') \in Nat /\ Len(approvals) <= Len(approvals')
    BY LenProperties DEF TypeOK, InventoryTypeOK, InventoryGrows, Grows
  <2> QED BY <1>1, <2>1
<1>3. ASSUME NEW w \in Workers, Pause(w)
      PROVE  /\ UNCHANGED <<shown, ended, paid>> /\ asked' \subseteq 1..Len(approvals')
  <2>1. asked' = asked \cup {Mem(w).approval} /\ UNCHANGED <<approvals, shown, ended, paid>>
    BY <1>3 DEF Pause, inventoryVars
  <2>2. Mem(w).approval \in 1..Len(approvals)
    BY <1>3, AtItsRequest DEF Pause, AwaitsApproval
  <2> QED BY <1>1, <2>1, <2>2
<1>4. ASSUME NEW w \in Workers, Enrich(w) \/ Retrieve(w)
      PROVE  UNCHANGED eventVars /\ paid' \in [Steps -> Nat]
  <2>1. Step(w) \in Steps BY <1>4, AtItsCall DEF Enrich, Retrieve, Working
  <2> QED BY <1>1, <1>4, <2>1 DEF Enrich, Retrieve
<1>5. ASSUME NEW w \in Workers, ShowResult(w) \/ Recover(w)
      PROVE  UNCHANGED <<asked, ended, paid>> /\ shown' \subseteq Steps \X SUBSET Targets
  <2>1. CASE ShowResult(w)
    <3>1. Step(w) \in Steps /\ Cursor(w) \in Call
      BY <2>1, AtItsCall DEF ShowResult, Showing
    <3>2. Cursor(w).result \in SUBSET Targets BY <3>1 DEF Call
    <3> QED BY <1>1, <2>1, <3>1, <3>2, ShowTypes DEF ShowResult
  <2>2. CASE Recover(w)
    BY <1>1, <2>2, CommittedTypes, ShowTypes DEF Recover
  <2> QED BY <1>5, <2>1, <2>2
<1>6. ASSUME NEW w \in Workers, Publish(w)
      PROVE  UNCHANGED <<shown, asked, paid>> /\ ended' \subseteq Executions
  <2>1. At(w) \in Executions BY <1>6, RunIs DEF Publish
  <2> QED BY <1>1, <1>6, <2>1 DEF Publish
<1> QED BY <1>1, <1>2, <1>3, <1>4, <1>5, <1>6, EventsMove DEF eventVars

LEMMA CounterTypes ==
  ASSUME TypeOK, Shape, [Next]_vars
  PROVE  crashes' \in Nat /\ expiries' \in Nat /\ cancellations' \subseteq Executions
<1>1. crashes \in Nat /\ expiries \in Nat /\ cancellations \subseteq Executions
  BY DEF TypeOK, ExecutionsTypeOK
<1>2. CASE UNCHANGED <<cancellations, boundVars>> BY <1>1, <1>2 DEF boundVars
<1>3. CASE UserStep
  BY <1>1, <1>2, <1>3 DEF UserStep, Accept, Cancel, RecordCancellation, Decide, boundVars,
     executionVars
<1>4. CASE Environment
  BY <1>1, <1>4 DEF Environment, EditPart, ExpireExecution, Crash, boundVars, executionVars
<1>5. ASSUME NEW w \in Workers, RunStep(w) PROVE UNCHANGED <<cancellations, boundVars>>
  BY <1>5
  DEF RunStep, BeginStage, Leave, Publish, EndRun, Start, Save, executionVars,
      TurnStep, SaveTurn, GiveUp, Complete, ClearTurn,
      ApprovalStep, Request, SaveAwaiting, Pause, Consult, ExecuteOne, RejectOne, StartBatch,
      ExecuteChild, RejectedChild, EndBatch,
      EffectStep, ExecuteAddition, Enrich, SaveEnrichment, SaveEnriched, ReportInterrupted, SaveRetrieval, Retrieve,
      StageSpecs, ResultStep, SaveResult, ShowResult, SaveCursor, Recover, SaveCancelled
<1> QED BY <1>2, <1>3, <1>4, <1>5 DEF Next, vars, executionVars

-----------------------------------------------------------------------------
LEMMA InitIsShaped == Init => TypeOK /\ Shape
<1> SUFFICES ASSUME Init PROVE TypeOK /\ Shape OBVIOUS
<1>1. Idle \in Run /\ RunFits(approvals, Idle) /\ Blank \in Context /\ TurnIsProper(Blank)
      /\ \A e : ApprovalFits(approvals, e, Blank)
  BY IdleFits
<1>2. ExecutionsTypeOK
  BY DEF Init, ExecutionsInit, ExecutionsTypeOK, ExecutionRow, Status, Owner
<1>3. approvals = <<>> /\ approvals \in Seq(Approval) /\ Len(approvals) = 0
  BY DEF Init, InventoryInit
<1>4. InventoryTypeOK BY <1>3 DEF Init, InventoryInit, InventoryTypeOK
<1>5. Idle.pc = "idle" BY DEF Idle
<1>6. TypeOK
  <2>1. ctx \in [Executions -> Context] /\ run \in [Workers -> Run] BY <1>1 DEF Init
  <2>2. \A w \in Workers : run[w].pc # "idle" => run[w].at \in Executions BY <1>5 DEF Init
  <2>3. paid \in [Steps -> Nat] BY DEF Init
  <2>4. shown = {} /\ asked = {} /\ ended = {} /\ crashes = 0 /\ expiries = 0 BY DEF Init
  <2> QED BY <1>2, <1>4, <2>1, <2>2, <2>3, <2>4 DEF TypeOK
<1>7. Shape BY <1>1, <1>3, SizesAreNatural DEF Init, Shape
<1> QED BY <1>6, <1>7

LEMMA ShapeKept ==
  ASSUME TypeOK, Shape, [Next]_vars
  PROVE  TypeOK' /\ Shape'
<1>1. InventoryGrows BY InventoryKept
<1>2. RunsFit' /\ CheckpointsFit' BY <1>1, FitsKept
<1>3. exec' \in [Executions -> ExecutionRow] BY RowsMove, RowTypes
<1>4. TypeOK'
  BY <1>1, <1>2, <1>3, EventTypes, CounterTypes
  DEF TypeOK, ExecutionsTypeOK, InventoryGrows, RunsFit, CheckpointsFit, At
<1>5. Shape' BY <1>1, <1>2 DEF Shape, InventoryGrows, RunsFit, CheckpointsFit
<1> QED BY <1>4, <1>5

(* Every variable of the runtime keeps its type (ToolRuntime, approvals).    *)
THEOREM TypesHold == Spec => []TypeOK
<1>1. TypeOK /\ Shape /\ [Next]_vars => TypeOK' /\ Shape' BY ShapeKept
<1> QED BY <1>1, InitIsShaped, PTL DEF Spec

(* Checkpoints, requests and runs keep their shape: the cursor separates the *)
(* calls with a result from the rest, a request is for the call at the cursor. *)
THEOREM ShapesHold == Spec => [](TypeOK /\ Shape)
<1>1. TypeOK /\ Shape /\ [Next]_vars => TypeOK' /\ Shape' BY ShapeKept
<1> QED BY <1>1, InitIsShaped, PTL DEF Spec

(* The approval of a checkpoint is that of the call at its cursor, so the    *)
(* decision of one call never executes another.                              *)
THEOREM DecisionsFitTheirCall == Spec => []ApprovalIsForTheCursor
<1>1. Shape => ApprovalIsForTheCursor
  BY DEF Shape, ApprovalFits, IsFor, CallOf, ApprovalIsForTheCursor
<1> QED BY <1>1, ShapesHold, PTL

-----------------------------------------------------------------------------
(* Only a request that was published is decided, so a granted one was.       *)
GrantedWasAsked ==
    \A n \in 1..Len(approvals) : approvals[n].decision # "none" => n \in asked

(* The transactions of a run on a request leave its decision alone. *)
LEMMA DecisionStays ==
  ASSUME approvals \in Seq(Approval), NEW n \in 1..Len(approvals),
         \/ \E r : SaveOutcome(n, r)
         \/ OpenBatch(n)
         \/ \E p, s : approvals' = [approvals EXCEPT ![n].child[p] = s]
  PROVE  /\ Len(approvals') = Len(approvals)
         /\ \A k \in 1..Len(approvals) : approvals'[k].decision = approvals[k].decision
<1>1. approvals[n] \in Approval BY ElementOfSeq
<1>2. approvals \in [1..Len(approvals) -> Approval] /\ Len(approvals) \in Nat BY LenProperties
<1>3. ASSUME NEW a, approvals' = [approvals EXCEPT ![n] = a], a.decision = approvals[n].decision
      PROVE  /\ Len(approvals') = Len(approvals)
             /\ \A k \in 1..Len(approvals) : approvals'[k].decision = approvals[k].decision
  BY <1>2, <1>3
<1>4. ASSUME NEW r, SaveOutcome(n, r)
      PROVE  \E a : approvals' = [approvals EXCEPT ![n] = a] /\ a.decision = approvals[n].decision
  <2> DEFINE a == Finished(approvals[n], r)
  <2>1. approvals' = [approvals EXCEPT ![n] = a] BY <1>4, RequestWrites
  <2>2. a.decision = approvals[n].decision BY <1>1 DEF Finished, Approval
  <2> QED BY <2>1, <2>2
<1>5. ASSUME NEW f, approvals' = [approvals EXCEPT ![n] = WithChildren(approvals[n], f)]
      PROVE  \E a : approvals' = [approvals EXCEPT ![n] = a] /\ a.decision = approvals[n].decision
  <2>1. WithChildren(approvals[n], f).decision = approvals[n].decision
    BY <1>1 DEF WithChildren, Approval
  <2> QED BY <1>5, <2>1
<1>6. ASSUME NEW p, NEW s, approvals' = [approvals EXCEPT ![n].child[p] = s]
      PROVE  approvals' = [approvals EXCEPT ![n] =
                             WithChildren(approvals[n], [approvals[n].child EXCEPT ![p] = s])]
  BY <1>6 DEF WithChildren
<1>7. OpenBatch(n) => approvals' = [approvals EXCEPT ![n] =
                                      WithChildren(approvals[n], Opened(approvals[n].child))]
  BY RequestWrites
<1> QED BY <1>3, <1>4, <1>5, <1>6, <1>7, Zenon

(* A step decides at most requests that were published.                      *)
LEMMA DecisionsMove ==
  ASSUME TypeOK, Shape, [Next]_vars
  PROVE  \A n \in 1..Len(approvals') :
           approvals'[n].decision # "none" =>
             \/ n \in asked
             \/ n \in 1..Len(approvals) /\ approvals[n].decision # "none"
<1> DEFINE good == \A n \in 1..Len(approvals') :
                     approvals'[n].decision # "none" =>
                       \/ n \in asked
                       \/ n \in 1..Len(approvals) /\ approvals[n].decision # "none"
<1>1. approvals \in Seq(Approval) /\ Len(approvals) \in Nat
  BY LenProperties DEF TypeOK, InventoryTypeOK
<1>2. UNCHANGED approvals => good OBVIOUS
<1>3. ASSUME /\ Len(approvals') = Len(approvals)
             /\ \A k \in 1..Len(approvals) : approvals'[k].decision = approvals[k].decision
      PROVE  good
  BY <1>3
<1> HIDE DEF good
<1>4. ASSUME NEW n, NEW d, Decide(n, d) PROVE good
  <2>1. n \in asked /\ n \in 1..Len(approvals) BY <1>4 DEF Decide, TypeOK
  <2>2. approvals' = [approvals EXCEPT ![n] = Decided(approvals[n], d)]
    BY <1>4 DEF Decide, DecideApproval, Decided
  <2>3. /\ Len(approvals') = Len(approvals)
        /\ \A k \in 1..Len(approvals) : k # n => approvals'[k] = approvals[k]
    BY <1>1, <2>1, <2>2
  <2> QED BY <2>1, <2>3 DEF good
<1>5. ASSUME NEW w \in Workers, Request(w) PROVE good
  <2> DEFINE a == [for |-> Step(w), targets |-> Cursor(w).targets, snapshot |-> content,
                   decision |-> "none", done |-> FALSE, result |-> {},
                   child |-> [p \in Parts |-> "absent"]]
  <2>1. approvals' = Append(approvals, a) /\ a.decision = "none"
    BY <1>5 DEF Request, RequestApproval
  <2> HIDE DEF a
  <2> QED BY <1>1, <2>1 DEF good
<1>6. ASSUME NEW w \in Workers, run[w].pc \in Deciding
      PROVE  Mem(w).approval \in 1..Len(approvals)
  <2>1. Mem(w).approval # 0 BY <1>6 DEF Shape, RunFits, Mem
  <2> QED BY <2>1, AtItsRequest
<1>7. ASSUME NEW w \in Workers, ApprovalStep(w) PROVE good
  <2> DEFINE n == Mem(w).approval
             writes == \/ \E r : SaveOutcome(n, r)
                       \/ OpenBatch(n)
                       \/ \E p, s : approvals' = [approvals EXCEPT ![n].child[p] = s]
  <2>1. ASSUME run[w].pc \in Deciding, writes PROVE good
    <3>1. n \in 1..Len(approvals) BY <1>6, <2>1
    <3> HIDE DEF n
    <3> QED BY <1>1, <1>3, <2>1, <3>1, DecisionStays
  <2>2. CASE Request(w) BY <1>5, <2>2
  <2>3. CASE SaveAwaiting(w) \/ Pause(w) \/ Consult(w)
    BY <1>2, <2>3 DEF SaveAwaiting, Pause, Consult, inventoryVars
  <2>4. CASE \/ ExecuteOne(w) \/ RejectOne(w) \/ StartBatch(w) \/ ExecuteChild(w)
             \/ RejectedChild(w) \/ EndBatch(w)
    <3>1. run[w].pc \in Deciding
      BY <2>4, Zenon
      DEF ExecuteOne, RejectOne, StartBatch, ExecuteChild, RejectedChild, EndBatch, Approved,
          Deciding, RejectChild, Shape, RunFits
    <3>2. UNCHANGED approvals \/ writes
      BY <2>4
      DEF ExecuteOne, RejectOne, StartBatch, ExecuteChild, RejectedChild, EndBatch,
          ApplyApproved, RejectApproved, ApplyChild, RejectChild, CloseBatch, inventoryVars
    <3> QED BY <1>2, <2>1, <3>1, <3>2
  <2> QED BY <1>7, <2>2, <2>3, <2>4 DEF ApprovalStep
<1>8. ASSUME UserStep PROVE good
  BY <1>2, <1>4, <1>8 DEF UserStep, Accept, Cancel, inventoryVars
<1>9. ASSUME Environment PROVE good
  BY <1>2, <1>9 DEF Environment, EditPart, Edit, ExpireExecution, Crash, inventoryVars
<1>10. ASSUME NEW w \in Workers, RunStep(w) PROVE good
  <2>1. CASE ApprovalStep(w) BY <1>7, <2>1
  <2>2. CASE EffectStep(w)
    BY <1>2, <2>2
    DEF EffectStep, ExecuteAddition, Add, Enrich, SaveEnrichment, SaveEnriched, ReportInterrupted, SaveRetrieval, Retrieve,
        StageSpecs, StageReview, inventoryVars
  <2> QED
    BY <1>2, <1>10, <2>1, <2>2
    DEF RunStep, BeginStage, Leave, Publish, Start, TurnStep, SaveTurn, GiveUp, Complete,
        ClearTurn, ResultStep, SaveResult, ShowResult, SaveCursor, Recover, SaveCancelled,
        inventoryVars
<1> QED BY <1>2, <1>8, <1>9, <1>10 DEF Next, vars, inventoryVars, good

LEMMA AskedStays ==
  ASSUME [Next]_vars
  PROVE  asked \subseteq asked'
<1>1. ASSUME NEW w \in Workers,
             \/ Pause(w) \/ Enrich(w) \/ Retrieve(w) \/ ShowResult(w) \/ Recover(w) \/ Publish(w)
      PROVE  asked \subseteq asked'
  <2>1. Pause(w) => asked \subseteq asked' BY DEF Pause
  <2>2. Enrich(w) \/ Retrieve(w) => UNCHANGED asked BY DEF Enrich, Retrieve, eventVars
  <2>3. ShowResult(w) \/ Recover(w) \/ Publish(w) => UNCHANGED asked
    BY DEF ShowResult, Recover, Publish
  <2> QED BY <1>1, <2>1, <2>2, <2>3
<1> QED BY <1>1, EventsMove

LEMMA GrantedKept ==
  ASSUME TypeOK, Shape, GrantedWasAsked, [Next]_vars
  PROVE  GrantedWasAsked'
  BY DecisionsMove, AskedStays DEF GrantedWasAsked

-----------------------------------------------------------------------------
(* Who changes something: an addition, an approved change, one of a batch.   *)
Adds(w) == ExecuteAddition(w) /\ \E enriching \in BOOLEAN : Add(Step(w), w, enriching)
ChangesOne(w) == ExecuteOne(w) /\ ApplyApproved(Mem(w).approval, Step(w), w)
ChangesChild(w) ==
    ExecuteChild(w) /\ ApplyChild(Mem(w).approval, run[w].next, Step(w), w)

LEMMA EffectsMove ==
  ASSUME [Next]_vars
  PROVE  \/ UNCHANGED <<receipts, effects, late>>
         \/ \E w \in Workers : Adds(w) \/ ChangesOne(w) \/ ChangesChild(w)
<1>1. ASSUME UNCHANGED inventoryVars PROVE UNCHANGED <<receipts, effects, late>>
  BY <1>1 DEF inventoryVars
<1>2. CASE UserStep
  BY <1>1, <1>2 DEF UserStep, Accept, Cancel, Decide, DecideApproval
<1>3. CASE Environment
  BY <1>1, <1>3 DEF Environment, EditPart, Edit, ExpireExecution, Crash
<1>4. ASSUME NEW w \in Workers, ApprovalStep(w)
      PROVE  UNCHANGED <<receipts, effects, late>> \/ ChangesOne(w) \/ ChangesChild(w)
  BY <1>1, <1>4
  DEF ApprovalStep, Request, RequestApproval, SaveAwaiting, Pause, Consult, ExecuteOne,
      RejectOne, RejectApproved, StartBatch, OpenBatch, ExecuteChild, RejectedChild, RejectChild,
      EndBatch, CloseBatch, ChangesOne, ChangesChild
<1>5. ASSUME NEW w \in Workers, EffectStep(w)
      PROVE  UNCHANGED <<receipts, effects, late>> \/ Adds(w)
  BY <1>1, <1>5
  DEF EffectStep, ExecuteAddition, Enrich, SaveEnrichment, SaveEnriched, ReportInterrupted, SaveRetrieval, Retrieve,
      StageSpecs, StageReview, Adds
<1>6. ASSUME NEW w \in Workers, RunStep(w)
      PROVE  \/ UNCHANGED <<receipts, effects, late>>
             \/ Adds(w) \/ ChangesOne(w) \/ ChangesChild(w)
  BY <1>1, <1>4, <1>5, <1>6
  DEF RunStep, BeginStage, Leave, Publish, Start, TurnStep, SaveTurn, GiveUp, Complete,
      ClearTurn, ResultStep, SaveResult, ShowResult, SaveCursor, Recover, SaveCancelled
<1> QED BY <1>1, <1>2, <1>3, <1>6 DEF Next, vars

(* What a change does: to one target of the call at the cursor, under the    *)
(* lease, and to a part only by a request for it that was granted.           *)
LEMMA ChangesAre ==
  ASSUME TypeOK, Shape, NEW w \in Workers, Adds(w) \/ ChangesOne(w) \/ ChangesChild(w)
  PROVE  /\ Owns(At(w), w) /\ Step(w) \in Steps /\ Step(w)[1] = At(w)
         /\ At(w) \in Executions
         /\ run[w].pc \in {"work", "approved", "children"}
         /\ late' = IF At(w) \in cancellations THEN late \cup {Step(w)} ELSE late
         /\ \E t \in Targets :
              /\ effects' = [effects EXCEPT ![<<Step(w), t>>] = effects[<<Step(w), t>>] + 1]
              /\ t \in Parts =>
                   LET n == Mem(w).approval
                   IN  /\ n \in 1..Len(approvals) /\ approvals[n].for = Step(w)
                       /\ approvals[n].decision = "yes" /\ t \in approvals[n].targets
                       /\ approvals[n].snapshot[t] = content[t]
<1>1. CASE Adds(w)
  <2>1. /\ Step(w) \in Steps /\ Step(w)[1] = At(w) /\ At(w) \in Executions
        /\ run[w].pc = "work"
    BY <1>1, AtItsCall DEF Adds, ExecuteAddition, CallIs, AtCall, InTurn
  <2>2. Owns(At(w), w) /\ Changes(Step(w), Stock) BY <1>1, <2>1 DEF Adds, Add
  <2>3. Stock \in Targets /\ Stock \notin Parts BY SizesAreNatural DEF Stock, Parts, Targets
  <2> QED BY <2>1, <2>2, <2>3 DEF Changes
<1>2. ASSUME run[w].pc \in Deciding
      PROVE  LET n == Mem(w).approval
             IN  /\ Step(w) \in Steps /\ Step(w)[1] = At(w) /\ At(w) \in Executions
                 /\ n \in 1..Len(approvals) /\ approvals[n].for = Step(w)
                 /\ approvals[n].decision = "yes"
                 /\ approvals[n].targets = Cursor(w).targets /\ IsProper(Cursor(w))
  <2>1. Mem(w).approval # 0 BY <1>2 DEF Shape, RunFits, Mem
  <2>2. run[w].pc \in Working BY <1>2 DEF Working
  <2>3. /\ Step(w) \in Steps /\ Step(w)[1] = At(w) /\ At(w) \in Executions
        /\ IsProper(Cursor(w))
    BY <2>2, AtItsCall, Zenon
  <2> QED BY <1>2, <2>1, <2>3, AtItsRequest
<1>3. Parts \subseteq Targets BY DEF Targets
<1>4. CASE ChangesOne(w)
  <2> DEFINE n == Mem(w).approval
  <2>1. run[w].pc = "approved" /\ run[w].pc \in Deciding /\ Cursor(w).tool = "update"
    BY <1>4 DEF ChangesOne, ExecuteOne, Approved, Deciding
  <2>2. PICK p \in Parts : approvals[n].targets = {p} BY <1>2, <2>1 DEF IsProper
  <2>3. (CHOOSE q \in approvals[n].targets : TRUE) = p BY <2>2
  <2>4. Owns(At(w), w) /\ Changes(Step(w), p) /\ AsShown(n, {p})
    BY <1>2, <1>4, <2>1, <2>3 DEF ChangesOne, ApplyApproved
  <2> QED BY <1>2, <1>3, <2>1, <2>2, <2>4 DEF Changes, AsShown
<1>5. CASE ChangesChild(w)
  <2> DEFINE n == Mem(w).approval
             p == run[w].next
  <2>1. run[w].pc = "children" /\ run[w].pc \in Deciding /\ p \in Parts
    BY <1>5 DEF ChangesChild, ExecuteChild, Deciding
  <2>2. Cursor(w).tool = "bulk" BY <2>1 DEF Shape, RunFits, Cursor, CallOf, Mem
  <2>3. approvals[n].targets = Parts BY <1>2, <2>1, <2>2 DEF IsProper
  <2>4. Owns(At(w), w) /\ Changes(Step(w), p) /\ AsShown(n, {p})
    BY <1>2, <1>5, <2>1 DEF ChangesChild, ApplyChild
  <2> HIDE DEF p
  <2> QED BY <1>2, <1>3, <2>1, <2>3, <2>4 DEF Changes, AsShown
<1> QED BY <1>1, <1>4, <1>5

(* A part is changed by an approved call only as the user was shown it: the  *)
(* request was published, granted, and the part is still the same, whatever  *)
(* edits and staged reviews came between the request and the effect.         *)
THEOREM ChangesAreAsShown == Spec => ApprovedAsShown
<1> DEFINE IInv == TypeOK /\ Shape /\ GrantedWasAsked
           Good == \A s \in Steps, p \in Parts : effects'[<<s, p>>] # effects[<<s, p>>] =>
                     \E n \in asked : /\ approvals[n].for = s /\ approvals[n].decision = "yes"
                                      /\ p \in approvals[n].targets
                                      /\ approvals[n].snapshot[p] = content[p]
<1>1. Init => IInv
  <2>1. Init => GrantedWasAsked BY DEF Init, InventoryInit, GrantedWasAsked
  <2> QED BY <2>1, InitIsShaped
<1>2. IInv /\ [Next]_vars => IInv' BY ShapeKept, GrantedKept
<1>3. IInv /\ [Next]_vars => [Good]_effects
  <2> SUFFICES ASSUME IInv, [Next]_vars, effects' # effects,
                      NEW s \in Steps, NEW p \in Parts, effects'[<<s, p>>] # effects[<<s, p>>]
               PROVE  \E n \in asked : /\ approvals[n].for = s /\ approvals[n].decision = "yes"
                                       /\ p \in approvals[n].targets
                                       /\ approvals[n].snapshot[p] = content[p]
    OBVIOUS
  <2>1. PICK w \in Workers : Adds(w) \/ ChangesOne(w) \/ ChangesChild(w) BY EffectsMove
  <2>2. PICK t \in Targets :
          /\ effects' = [effects EXCEPT ![<<Step(w), t>>] = effects[<<Step(w), t>>] + 1]
          /\ t \in Parts =>
               LET n == Mem(w).approval
               IN  /\ n \in 1..Len(approvals) /\ approvals[n].for = Step(w)
                   /\ approvals[n].decision = "yes" /\ t \in approvals[n].targets
                   /\ approvals[n].snapshot[t] = content[t]
    BY <2>1, ChangesAre
  <2>3. effects \in [Steps \X Targets -> Nat] BY DEF TypeOK, InventoryTypeOK
  <2>4. p \in Targets BY DEF Targets
  <2>5. <<s, p>> = <<Step(w), t>> BY <2>2, <2>3, <2>4
  <2>6. s = Step(w) /\ p = t BY <2>5
  <2>7. Mem(w).approval \in asked BY <2>2, <2>6 DEF GrantedWasAsked
  <2> QED BY <2>2, <2>6, <2>7
<1> QED BY <1>1, <1>2, <1>3, PTL DEF Spec, ApprovedAsShown

-----------------------------------------------------------------------------
(* How the runs move, and what that does to the executions.                  *)

(* Where a run that is cancelled has nothing left to do at a call. *)
Winding == {"begin", "cancelling", "publishing"}
Outcomes == Status \ {"absent"}

(* A run saves its checkpoint: an outcome ends the run, and a run stays at   *)
(* its call until it winds up.                                               *)
Saves(w, s, m, pc) ==
    /\ Save(w, s, m, pc) /\ run[w].pc \notin {"idle", "publishing"} /\ pc # "idle"
    /\ s \in Terminal => pc = "publishing"
    /\ \/ pc \in Winding
       \/ run[w].pc \notin Winding /\ m.round = Mem(w).round /\ m.index = Mem(w).index

(* A run goes on at its call; when its execution is cancelled, a run between *)
(* two calls starts no other.                                                *)
GoesOn(w) ==
    /\ UNCHANGED <<exec, cancellations, ctx>>
    /\ run[w].pc \notin {"idle", "publishing"}
    /\ \E pc \in Places \ {"idle"} : \E h, n :
         /\ Moved(w, pc, Mem(w), h, n)
         /\ run[w].pc \in Winding /\ At(w) \in cancellations => pc \in Winding

Ends(w) == run[w].pc # "idle" /\ EndRun(w) /\ UNCHANGED ctx

RunMoves(w) ==
    \/ Ends(w) \/ GoesOn(w)
    \/ \E s \in Outcomes : \E m, pc : Saves(w, s, m, pc)
    \/ \E e \in Executions : Start(w, e)

LEMMA RunsMove ==
  ASSUME TypeOK, Shape, NEW w \in Workers, RunStep(w)
  PROVE  RunMoves(w)
<1> USE DEF RunMoves
<1>1. {"ready", "awaiting_approval", "completed", "failed", "cancelled"} \subseteq Outcomes
  BY DEF Outcomes, Status, Terminal
<1>2. Terminal = {"completed", "failed", "cancelled"} BY DEF Terminal
<1>3. run \in [Workers -> Run] BY DEF TypeOK
<1>4. ASSUME UNCHANGED <<executionVars, ctx>>, NEW pc \in Places \ {"idle"}, NEW h, NEW n,
             run[w].pc \notin {"idle", "publishing"},
             Goto(w, pc) \/ GotoHolding(w, pc, h) \/ GotoNext(w, pc, n),
             run[w].pc \in Winding /\ At(w) \in cancellations => pc \in Winding
      PROVE  RunMoves(w)
  <2>1. \E k, l : Moved(w, pc, Mem(w), k, l) BY <1>3, <1>4, Moves, Zenon
  <2>2. UNCHANGED <<exec, cancellations, ctx>> BY <1>4 DEF executionVars
  <2> QED BY <1>4, <2>1, <2>2, Zenon DEF GoesOn
<1>5. Places = {"idle", "begin", "work", "cancelling", "publishing", "requested", "approved",
                "rejecting", "children", "rejectchild", "retrieve", "fetched", "enrich", "enriched", "result",
                "interrupted", "saved", "cursor"}
  BY DEF Places, Working, Deciding, Showing
<1>6. ASSUME NEW s \in Outcomes, NEW m, NEW pc, Saves(w, s, m, pc) PROVE RunMoves(w)
  BY <1>6
<1>7. CASE TurnStep(w)
  <2>1. run[w].pc = "work"
    BY <1>7 DEF TurnStep, SaveTurn, GiveUp, Complete, ClearTurn, NeedsModel, InTurn
  <2>2. ASSUME NEW s \in Outcomes, NEW m, NEW pc \in {"begin", "publishing"}, Save(w, s, m, pc),
               s \in Terminal => pc = "publishing"
        PROVE  RunMoves(w)
    BY <1>6, <2>1, <2>2 DEF Saves, Winding
  <2>3. CASE SaveTurn(w) BY <1>1, <1>2, <2>2, <2>3 DEF SaveTurn
  <2>4. CASE Complete(w) \/ ClearTurn(w) BY <1>1, <1>2, <2>2, <2>4 DEF Complete, ClearTurn
  <2>5. CASE GiveUp(w)
    <3>1. "cancelling" \in Places \ {"idle"} /\ "cancelling" \in Winding BY <1>5 DEF Winding
    <3> QED BY <1>1, <1>2, <1>4, <2>1, <2>2, <2>5, <3>1 DEF GiveUp
  <2> QED BY <1>7, <2>3, <2>4, <2>5 DEF TurnStep
<1>8. ASSUME UNCHANGED <<executionVars, ctx>>, run[w].pc \notin Winding \cup {"idle"},
             NEW h, NEW n, NEW pc \in Places \ {"idle"},
             Goto(w, pc) \/ GotoHolding(w, pc, h) \/ GotoNext(w, pc, n)
      PROVE  RunMoves(w)
  BY <1>4, <1>8 DEF Winding
<1>9. CASE ApprovalStep(w)
  <2>1. CASE SaveAwaiting(w)
    BY <1>1, <1>2, <1>6, <2>1 DEF SaveAwaiting, Saves, Winding
  <2>2. CASE Pause(w)
    BY <2>2 DEF Pause, AwaitsApproval, AtCall, InTurn, Ends
  <2>3. CASE Request(w)
    BY <1>5, <1>8, <2>3 DEF Request, CallIs, AtCall, InTurn, Winding
  <2>4. CASE Consult(w)
    <3>1. run[w].pc = "work" /\ UNCHANGED <<executionVars, ctx>>
      BY <2>4 DEF Consult, AwaitsApproval, AtCall, InTurn
    <3>2. PICK pc \in {"saved", "approved", "result"} : Goto(w, pc) BY <2>4 DEF Consult
    <3>3. pc \in Places \ {"idle"} BY <1>5
    <3> QED BY <1>8, <3>1, <3>2, <3>3 DEF Winding
  <2>5. CASE ExecuteOne(w)
    BY <1>5, <1>8, <2>5 DEF ExecuteOne, Approved, Winding
  <2>6. CASE RejectOne(w) BY <1>5, <1>8, <2>6 DEF RejectOne, Winding
  <2>7. CASE StartBatch(w) BY <1>5, <1>8, <2>7 DEF StartBatch, Approved, Winding
  <2>8. CASE ExecuteChild(w) BY <1>5, <1>8, <2>8 DEF ExecuteChild, Winding
  <2>9. CASE RejectedChild(w) BY <1>5, <1>8, <2>9 DEF RejectedChild, Winding
  <2>10. CASE EndBatch(w) BY <1>5, <1>8, <2>10 DEF EndBatch, Winding
  <2> QED
    BY <1>9, <2>1, <2>2, <2>3, <2>4, <2>5, <2>6, <2>7, <2>8, <2>9, <2>10 DEF ApprovalStep
<1>10. CASE EffectStep(w)
  <2>1. CASE ExecuteAddition(w)
    BY <1>5, <1>8, <2>1 DEF ExecuteAddition, CallIs, AtCall, InTurn, Winding
  <2>2. CASE Enrich(w) BY <1>5, <1>8, <2>2 DEF Enrich, Winding
  <2>3. CASE ReportInterrupted(w)
    BY <1>5, <1>8, <2>3 DEF ReportInterrupted, AtRetrieval, CallIs, AtCall, InTurn, Winding
  <2>4. CASE SaveRetrieval(w)
    <3> DEFINE m == Retrieving(Mem(w))
    <3>1. Save(w, "ready", m, "retrieve") /\ run[w].pc = "work"
      BY <2>4 DEF SaveRetrieval, Retrieving, AtRetrieval, CallIs, AtCall, InTurn
    <3>2. Mem(w) \in Context BY <3>1, RunIs
    <3>3. m.round = Mem(w).round /\ m.index = Mem(w).index BY <3>2 DEF Retrieving, Context
    <3> HIDE DEF m
    <3> QED BY <1>1, <1>2, <1>6, <3>1, <3>3 DEF Saves, Winding
  <2>5. CASE Retrieve(w) BY <1>5, <1>8, <2>5 DEF Retrieve, Winding
  <2>6. CASE StageSpecs(w) BY <1>5, <1>8, <2>6 DEF StageSpecs, Winding
  <2>7. CASE SaveEnrichment(w)
    BY <1>5, <1>8, <2>7 DEF SaveEnrichment, SaveEnriched, Winding
  <2> QED BY <1>10, <2>1, <2>2, <2>3, <2>4, <2>5, <2>6, <2>7 DEF EffectStep
<1>11. CASE ResultStep(w)
  <2>1. CASE SaveResult(w)
    <3> DEFINE m == Resulting(Mem(w), run[w].held, Exchange(w))
    <3>1. Save(w, "ready", m, "saved") /\ run[w].pc \in {"result", "interrupted"}
      BY <2>1 DEF SaveResult, Resulting
    <3>2. Mem(w) \in Context BY <3>1, RunIs
    <3>3. m.round = Mem(w).round /\ m.index = Mem(w).index BY <3>2 DEF Resulting, Context
    <3> HIDE DEF m
    <3> QED BY <1>1, <1>2, <1>6, <3>1, <3>3 DEF Saves, Winding
  <2>2. CASE ShowResult(w)
    BY <1>5, <1>8, <2>2 DEF ShowResult, AtCall, InTurn, Winding
  <2>3. CASE SaveCursor(w)
    BY <1>1, <1>2, <1>6, <2>3 DEF SaveCursor, Saves, Winding
  <2>4. CASE Recover(w)
    <3>1. "cancelling" \in Places \ {"idle"} /\ "cancelling" \in Winding BY <1>5 DEF Winding
    <3> QED BY <1>4, <2>4, <3>1 DEF Recover, CancelsCall
  <2>5. CASE SaveCancelled(w)
    BY <1>1, <1>6, <2>5 DEF SaveCancelled, Saves, Winding
  <2> QED BY <1>11, <2>1, <2>2, <2>3, <2>4, <2>5 DEF ResultStep
<1>12. CASE BeginStage(w)
  <2>1. PICK pc \in {"cancelling", "work"} :
          GotoNext(w, pc, 1) /\ (At(w) \in cancellations => pc = "cancelling")
    BY <1>12 DEF BeginStage
  <2>2. pc \in Places \ {"idle"} BY <1>5
  <2>3. UNCHANGED <<executionVars, ctx>> /\ run[w].pc = "begin" BY <1>12 DEF BeginStage
  <2> QED BY <1>4, <2>1, <2>2, <2>3 DEF Winding
<1>13. CASE Leave(w) \/ Publish(w) BY <1>13 DEF Leave, Publish, Ends
<1>14. ASSUME NEW e \in Executions, Start(w, e) PROVE RunMoves(w)
  BY <1>14
<1> QED BY <1>7, <1>9, <1>10, <1>11, <1>12, <1>13, <1>14 DEF RunStep

(* What the user, the other writers and time do to runs and executions. *)
LEMMA OthersMove ==
  ASSUME TypeOK, UserStep \/ Environment
  PROVE  /\ UNCHANGED <<ctx, shown, asked, ended, paid>>
         /\ cancellations \subseteq cancellations'
         /\ \/ /\ UNCHANGED run
               /\ \/ UNCHANGED exec
                  \/ \E e \in Executions : Prepare(e) \/ ExpireLease(e)
            \/ \E w \in Workers : Crash(w)
<1>1. CASE UserStep
  BY <1>1 DEF UserStep, Accept, Cancel, RecordCancellation, Decide, eventVars, executionVars
<1>2. CASE Environment
  BY <1>2 DEF Environment, EditPart, ExpireExecution, Crash, eventVars, executionVars
<1> QED BY <1>1, <1>2

(* The owner of an execution is at work on it, with its checkpoint.          *)
OwnerIsCurrent ==
    \A e \in Executions, w \in Workers : exec[e].worker_id = w =>
        /\ run[w].pc # "idle" /\ At(w) = e /\ Mem(w) = ctx[e]
        /\ exec[e].status # "absent"
        /\ exec[e].status \in Terminal => run[w].pc = "publishing"

(* A run that is over owns nothing, and its place is taken by none.          *)
LEMMA OverOwnsNothing ==
  ASSUME TypeOK, OwnerIsCurrent, NEW w \in Workers, run' = [run EXCEPT ![w] = Idle],
         UNCHANGED ctx, EndRun(w) \/ LoseOwner(w)
  PROVE  OwnerIsCurrent'
<1>1. exec \in [Executions -> ExecutionRow] /\ run \in [Workers -> Run]
  BY DEF TypeOK, ExecutionsTypeOK
<1>2. ASSUME NEW e \in Executions, NEW v \in Workers, exec'[e].worker_id = v
      PROVE  v # w /\ exec'[e] = exec[e]
  <2>1. CASE EndRun(w)
    BY <1>1, <1>2, <2>1, OwnersAreDistinct
    DEF EndRun, Release, OwnerIsCurrent, ExecutionRow
  <2>2. CASE LoseOwner(w)
    BY <1>1, <1>2, <2>2, OwnersAreDistinct DEF LoseOwner, ExecutionRow
  <2> QED BY <2>1, <2>2
<1>3. ASSUME NEW e \in Executions, NEW v \in Workers, exec'[e].worker_id = v
      PROVE  run'[v] = run[v] /\ exec[e].worker_id = v /\ exec'[e] = exec[e]
  BY <1>1, <1>2, <1>3
<1> QED BY <1>3 DEF OwnerIsCurrent, At, Mem

LEMMA OwnerKept ==
  ASSUME TypeOK, Shape, OwnerIsCurrent, [Next]_vars
  PROVE  OwnerIsCurrent'
<1>1. exec \in [Executions -> ExecutionRow] /\ run \in [Workers -> Run]
      /\ ctx \in [Executions -> Context]
  BY DEF TypeOK, ExecutionsTypeOK
<1>2. ASSUME UNCHANGED <<run, ctx>>,
             \/ UNCHANGED exec
             \/ \E e \in Executions : Prepare(e) \/ ExpireLease(e)
      PROVE  OwnerIsCurrent'
  <2>1. ASSUME NEW e \in Executions, NEW v \in Workers, exec'[e].worker_id = v
        PROVE  exec[e].worker_id = v /\ exec'[e].status = exec[e].status
    <3>1. CASE UNCHANGED exec BY <2>1, <3>1
    <3>2. ASSUME NEW f \in Executions, Prepare(f)
          PROVE  exec[e].worker_id = v /\ exec'[e].status = exec[e].status
      BY <1>1, <2>1, <3>2 DEF Prepare, ExecutionRow, OwnerIsCurrent
    <3>3. ASSUME NEW f \in Executions, ExpireLease(f)
          PROVE  exec[e].worker_id = v /\ exec'[e].status = exec[e].status
      BY <1>1, <2>1, <3>3 DEF ExpireLease, ExecutionRow
    <3> QED BY <1>2, <3>1, <3>2, <3>3
  <2> QED BY <1>2, <2>1 DEF OwnerIsCurrent, At, Mem
<1>3. ASSUME NEW w \in Workers, Crash(w) PROVE OwnerIsCurrent'
  BY <1>3, OverOwnsNothing DEF Crash
<1>4. CASE UserStep \/ Environment BY <1>2, <1>3, <1>4, OthersMove
<1>5. ASSUME NEW w \in Workers, Ends(w) PROVE OwnerIsCurrent'
  <2>1. EndRun(w) /\ UNCHANGED ctx BY <1>5 DEF Ends
  <2>2. run' = [run EXCEPT ![w] = Idle] BY <2>1 DEF EndRun
  <2> QED BY <2>1, <2>2, OverOwnsNothing
<1>6. ASSUME NEW w \in Workers, GoesOn(w) PROVE OwnerIsCurrent'
  <2>1. PICK pc \in Places \ {"idle"} : \E h, n : Moved(w, pc, Mem(w), h, n) BY <1>6 DEF GoesOn
  <2>2. UNCHANGED <<exec, ctx>> /\ run[w].pc \notin {"idle", "publishing"}
    BY <1>6 DEF GoesOn
  <2> QED BY <2>1, <2>2 DEF Moved, OwnerIsCurrent, At, Mem
<1>7. ASSUME NEW w \in Workers, NEW s \in Outcomes, NEW m, NEW pc, Saves(w, s, m, pc)
      PROVE  OwnerIsCurrent'
  <2> DEFINE e == At(w)
  <2>1. /\ e \in Executions /\ exec[e].worker_id = w
        /\ exec' = [exec EXCEPT ![e] = [@ EXCEPT !.status = s]]
        /\ ctx' = [ctx EXCEPT ![e] = m]
        /\ s # "absent" /\ pc # "idle" /\ (s \in Terminal => pc = "publishing")
    BY <1>7, RunIs DEF Saves, Save, SaveStatus, Owns, Outcomes
  <2>2. /\ run'[w].pc = pc /\ run'[w].at = e /\ run'[w].mem = m
        /\ \A v \in Workers \ {w} : run'[v] = run[v]
    BY <1>1, <1>7 DEF Saves, Save, Run, At
  <2> HIDE DEF e
  <2>3. \A f \in Executions \ {e} : exec'[f] = exec[f] /\ ctx'[f] = ctx[f]
    BY <1>1, <2>1
  <2>4. exec'[e].worker_id = w /\ exec'[e].status = s /\ ctx'[e] = m
    BY <1>1, <2>1 DEF ExecutionRow
  <2>5. ASSUME NEW f \in Executions, NEW v \in Workers, exec'[f].worker_id = v
        PROVE  \/ f = e /\ v = w
               \/ f # e /\ v # w /\ exec[f].worker_id = v
    <3>1. CASE f = e BY <2>4, <2>5, <3>1
    <3>2. CASE f # e BY <2>3, <2>5, <3>2 DEF OwnerIsCurrent, e
    <3> QED BY <3>1, <3>2
  <2>6. ASSUME NEW f \in Executions, NEW v \in Workers, exec'[f].worker_id = v
        PROVE  /\ run'[v].pc # "idle" /\ At(v)' = f /\ Mem(v)' = ctx'[f]
               /\ exec'[f].status # "absent"
               /\ exec'[f].status \in Terminal => run'[v].pc = "publishing"
    <3>1. CASE f = e /\ v = w BY <2>1, <2>2, <2>4, <3>1 DEF At, Mem
    <3>2. CASE f # e /\ v # w /\ exec[f].worker_id = v
      BY <2>2, <2>3, <3>2 DEF OwnerIsCurrent, At, Mem
    <3> QED BY <2>5, <2>6, <3>1, <3>2
  <2> QED BY <2>6 DEF OwnerIsCurrent
<1>8. ASSUME NEW w \in Workers, NEW e \in Executions, Start(w, e) PROVE OwnerIsCurrent'
  <2>1. run[w].pc = "idle" /\ UNCHANGED ctx BY <1>8 DEF Start
  <2>2. \A f \in Executions : exec[f].worker_id # w BY <2>1 DEF OwnerIsCurrent
  <2>3. \A v \in Workers \ {w} : run'[v] = run[v] BY <1>1, <1>8 DEF Start
  <2>4. CASE UNCHANGED exec
    BY <2>1, <2>2, <2>3, <2>4 DEF OwnerIsCurrent, At, Mem
  <2>5. CASE /\ ClaimExecution(e, w)
             /\ run' = [run EXCEPT ![w] = [Idle EXCEPT !.at = e, !.pc = "begin", !.mem = ctx[e]]]
    <3>1. /\ exec[e].status \notin Terminal \cup {"absent"}
          /\ exec'[e].worker_id = w /\ exec'[e].status = exec[e].status
          /\ \A f \in Executions \ {e} : exec'[f] = exec[f]
      BY <1>1, <2>5 DEF ClaimExecution, ExecutionRow
    <3>2. run'[w].pc = "begin" /\ run'[w].at = e /\ run'[w].mem = ctx[e]
      BY <1>1, <2>5 DEF Idle
    <3>3. ASSUME NEW f \in Executions, NEW v \in Workers, exec'[f].worker_id = v
          PROVE  (f = e /\ v = w) \/ (f # e /\ v # w /\ exec[f].worker_id = v)
      <4>1. CASE f = e BY <3>1, <3>3, <4>1
      <4>2. CASE f # e BY <2>2, <3>1, <3>3, <4>2
      <4> QED BY <4>1, <4>2
    <3> QED BY <2>1, <2>3, <3>1, <3>2, <3>3 DEF OwnerIsCurrent, At, Mem
  <2> QED BY <1>8, <2>4, <2>5 DEF Start
<1>9. ASSUME NEW w \in Workers, RunStep(w) PROVE OwnerIsCurrent'
  BY <1>5, <1>6, <1>7, <1>8, <1>9, RunsMove, Zenon DEF RunMoves
<1>10. CASE UNCHANGED vars BY <1>2, <1>10 DEF vars, executionVars
<1> QED BY <1>4, <1>9, <1>10 DEF Next

(* An execution has one owner. *)
LEMMA OwnerIsOne ==
  ASSUME TypeOK, NEW e \in Executions, NEW v, NEW w, Owns(e, v), Owns(e, w)
  PROVE  v = w
  BY DEF Owns

(* A step makes at most the run that starts an owner. *)
LEMMA OwnersMove ==
  ASSUME TypeOK, Shape, OwnerIsCurrent, [Next]_vars,
         NEW e \in Executions, NEW w \in Workers, Owns(e, w)'
  PROVE  \/ Owns(e, w)
         \/ /\ Start(w, e) /\ ClaimExecution(e, w)
            /\ run'[w].pc = "begin" /\ run'[w].at = e /\ run'[w].mem = ctx[e]
<1>1. exec \in [Executions -> ExecutionRow] /\ run \in [Workers -> Run]
  BY DEF TypeOK, ExecutionsTypeOK
<1>2. CASE UNCHANGED exec BY <1>2 DEF Owns
<1>3. ASSUME NEW f \in Executions, Prepare(f) \/ ExpireLease(f) PROVE Owns(e, w)
  BY <1>1, <1>3 DEF Owns, Prepare, ExpireLease, ExecutionRow
<1>4. ASSUME NEW v \in Workers, LoseOwner(v) PROVE Owns(e, w)
  BY <1>1, <1>4, OwnersAreDistinct DEF Owns, LoseOwner, ExecutionRow
<1>5. CASE UserStep \/ Environment BY <1>2, <1>3, <1>4, <1>5, OthersMove DEF Crash
<1>6. ASSUME NEW v \in Workers, Ends(v) PROVE Owns(e, w)
  <2>1. Release(At(v), v) BY <1>6 DEF Ends, EndRun
  <2> QED BY <1>1, <2>1, OwnersAreDistinct DEF Owns, Release, ExecutionRow
<1>7. ASSUME NEW v \in Workers, NEW s, NEW m, NEW pc, Saves(v, s, m, pc) PROVE Owns(e, w)
  <2>1. SaveStatus(At(v), v, s) BY <1>7 DEF Saves, Save
  <2> QED BY <1>1, <2>1 DEF Owns, SaveStatus, ExecutionRow
<1>8. ASSUME NEW v \in Workers, NEW f \in Executions, Start(v, f), ~Owns(e, w)
      PROVE  /\ Start(w, e) /\ ClaimExecution(e, w)
             /\ run'[w].pc = "begin" /\ run'[w].at = e /\ run'[w].mem = ctx[e]
  <2>1. /\ ClaimExecution(f, v)
        /\ run' = [run EXCEPT ![v] = [Idle EXCEPT !.at = f, !.pc = "begin", !.mem = ctx[f]]]
    BY <1>8 DEF Start, Owns
  <2>2. e = f /\ w = v BY <1>1, <1>8, <2>1 DEF ClaimExecution, Owns, ExecutionRow
  <2> QED BY <1>1, <1>8, <2>1, <2>2 DEF Idle
<1>9. ASSUME NEW v \in Workers, RunStep(v)
      PROVE  \/ Owns(e, w)
             \/ /\ Start(w, e) /\ ClaimExecution(e, w)
                /\ run'[w].pc = "begin" /\ run'[w].at = e /\ run'[w].mem = ctx[e]
  <2>1. CASE GoesOn(v) BY <1>2, <2>1 DEF GoesOn
  <2> QED BY <1>6, <1>7, <1>8, <1>9, <2>1, RunsMove, Zenon DEF RunMoves
<1> QED BY <1>2, <1>5, <1>9 DEF Next, vars, executionVars

-----------------------------------------------------------------------------
(* A call that changed something after the cancellation is the one its owner *)
(* is still at, unless the owner winds up: no other call starts.             *)
LateIsOne ==
    \A s \in late :
        /\ s[1] \in cancellations
        /\ \A w \in Workers : Owns(s[1], w) => run[w].pc \in Winding \/ Step(w) = s
        /\ \A r \in late : r[1] = s[1] => r = s

(* The owner of a cancelled execution stays at its call, or winds up.        *)
LEMMA OwnerStays ==
  ASSUME TypeOK, Shape, OwnerIsCurrent, [Next]_vars,
         NEW e \in cancellations, NEW w \in Workers, Owns(e, w)'
  PROVE  \/ run'[w].pc \in Winding
         \/ Owns(e, w) /\ run[w].pc \notin Winding /\ Step(w)' = Step(w)
<1>1. e \in Executions BY DEF TypeOK, ExecutionsTypeOK
<1>2. CASE ~Owns(e, w)
  <2>1. run'[w].pc = "begin" BY <1>1, <1>2, OwnersMove
  <2> QED BY <2>1 DEF Winding
<1>3. CASE Owns(e, w)
  <2>1. run[w].pc # "idle" /\ At(w) = e BY <1>1, <1>3 DEF OwnerIsCurrent, Owns
  <2>2. run'[w].pc # "idle" /\ At(w)' = e
    BY <1>1, OwnerKept DEF OwnerIsCurrent, Owns
  <2>3. run \in [Workers -> Run] BY DEF TypeOK
  <2>4. CASE run'[w] = run[w] BY <1>3, <2>4 DEF Step, StepOf, At, Mem
  <2>5. CASE GoesOn(w)
    <3>1. PICK pc \in Places : \E h, n :
            /\ Moved(w, pc, Mem(w), h, n)
            /\ run[w].pc \in Winding /\ At(w) \in cancellations => pc \in Winding
      BY <2>5 DEF GoesOn
    <3> QED BY <1>3, <2>1, <3>1 DEF Moved, Step, StepOf, At, Mem
  <2>6. ASSUME NEW s, NEW m, NEW pc, Saves(w, s, m, pc)
        PROVE  \/ run'[w].pc \in Winding
               \/ run[w].pc \notin Winding /\ Step(w)' = Step(w)
    BY <2>3, <2>6 DEF Saves, Save, Step, StepOf, At, Mem, Run
  <2>7. CASE Ends(w)
    BY <2>2, <2>3, <2>7 DEF Ends, EndRun, Idle
  <2>8. ASSUME NEW f \in Executions, Start(w, f) PROVE FALSE BY <2>1, <2>8 DEF Start
  <2>9. ASSUME RunStep(w) PROVE \/ run'[w] = run[w] \/ GoesOn(w) \/ Ends(w)
                                \/ \E s, m, pc : Saves(w, s, m, pc)
    BY <2>8, <2>9, RunsMove, Zenon DEF RunMoves
  <2>10. ASSUME NEW v \in Workers \ {w}, RunStep(v) PROVE run'[w] = run[w]
    <3>1. CASE GoesOn(v) BY <3>1 DEF GoesOn, Moved
    <3>2. CASE Ends(v) BY <2>3, <3>2 DEF Ends, EndRun
    <3>3. ASSUME NEW s, NEW m, NEW pc, Saves(v, s, m, pc) PROVE run'[w] = run[w]
      BY <2>3, <3>3 DEF Saves, Save
    <3>4. ASSUME NEW f \in Executions, Start(v, f) PROVE run'[w] = run[w]
      BY <2>3, <3>4 DEF Start
    <3> QED BY <2>10, <3>1, <3>2, <3>3, <3>4, RunsMove, Zenon DEF RunMoves
  <2>11. ASSUME UserStep \/ Environment PROVE run'[w] = run[w]
    <3>1. ASSUME NEW v \in Workers, Crash(v) PROVE run'[w] = run[w]
      BY <2>2, <2>3, <3>1 DEF Crash, Idle
    <3> QED BY <2>11, <3>1, OthersMove
  <2>12. UNCHANGED vars => run'[w] = run[w] BY DEF vars
  <2>13. \/ run'[w] = run[w] \/ GoesOn(w) \/ Ends(w) \/ \E s, m, pc : Saves(w, s, m, pc)
    BY <2>9, <2>10, <2>11, <2>12, Zenon DEF Next
  <2> QED BY <1>3, <2>4, <2>5, <2>6, <2>7, <2>13
<1> QED BY <1>2, <1>3

(* A cancellation is never withdrawn. *)
LEMMA CancellationsStay ==
  ASSUME TypeOK, Shape, [Next]_vars
  PROVE  cancellations \subseteq cancellations'
<1>1. ASSUME NEW w \in Workers, RunStep(w) PROVE UNCHANGED cancellations
  BY <1>1, RunsMove DEF RunMoves, Ends, EndRun, GoesOn, Saves, Save, Start
<1> QED BY <1>1, OthersMove DEF Next, vars, executionVars

LEMMA LateKept ==
  ASSUME TypeOK, Shape, OwnerIsCurrent, LateIsOne, [Next]_vars
  PROVE  LateIsOne'
<1>1. cancellations \subseteq cancellations' BY CancellationsStay
<1>2. ASSUME NEW s \in late, NEW w \in Workers, Owns(s[1], w)'
      PROVE  run'[w].pc \in Winding \/ Step(w)' = s
  BY <1>2, OwnerStays DEF LateIsOne
<1>3. CASE UNCHANGED late BY <1>1, <1>2, <1>3 DEF LateIsOne
<1>4. ASSUME NEW w \in Workers, Adds(w) \/ ChangesOne(w) \/ ChangesChild(w)
      PROVE  LateIsOne'
  <2>1. PICK s \in Steps, e \in Executions :
          /\ s = Step(w) /\ Owns(e, w) /\ s[1] = e
          /\ run[w].pc \in {"work", "approved", "children"}
          /\ late' = IF e \in cancellations THEN late \cup {s} ELSE late
    BY <1>4, ChangesAre
  <2>2. run[w].pc \notin Winding BY <2>1 DEF Winding
  <2>3. CASE e \in cancellations
    <3>1. late' = late \cup {s} BY <2>1, <2>3
    <3>2. \A r \in late : r[1] = e => r = s BY <2>1, <2>2 DEF LateIsOne
    <3>3. ASSUME NEW v \in Workers, Owns(e, v)' PROVE run'[v].pc \in Winding \/ Step(v)' = s
      <4>1. \/ run'[v].pc \in Winding
            \/ Owns(e, v) /\ Step(v)' = Step(v)
        BY <2>3, <3>3, OwnerStays
      <4>2. Owns(e, v) => v = w BY <2>1, OwnerIsOne
      <4> QED BY <2>1, <4>1, <4>2
    <3> QED BY <1>1, <1>2, <2>1, <2>3, <3>1, <3>2, <3>3 DEF LateIsOne
  <2>4. CASE e \notin cancellations BY <1>3, <2>1, <2>4
  <2> QED BY <2>3, <2>4
<1> QED BY <1>3, <1>4, EffectsMove

(* A stage authorised before the cancellation may finish, no later one       *)
(* starts: after a cancellation at most one call still changes something.    *)
THEOREM CancellationStopsCalls == Spec => []OneCallAfterCancel
<1> DEFINE IInv == TypeOK /\ Shape /\ OwnerIsCurrent /\ LateIsOne
<1>1. Init => IInv
  <2>1. Init => OwnerIsCurrent
    BY OwnersAreDistinct DEF Init, ExecutionsInit, OwnerIsCurrent
  <2>2. Init => LateIsOne BY DEF Init, InventoryInit, LateIsOne
  <2> QED BY <2>1, <2>2, InitIsShaped
<1>2. IInv /\ [Next]_vars => IInv' BY ShapeKept, OwnerKept, LateKept
<1>3. IInv => OneCallAfterCancel BY DEF LateIsOne, OneCallAfterCancel
<1> QED BY <1>1, <1>2, <1>3, PTL DEF Spec
=============================================================================
