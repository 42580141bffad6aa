----------------------------- MODULE ChatProofs ------------------------------
(***************************************************************************)
(* What holds of a browser session for every number of conversations and   *)
(* executions and every loss: the types, one conversation on the screen,   *)
(* no gap in what a read covered, how each step judges the user's drafts,  *)
(* and that observation does not stop before the work rests and is shown.  *)
(*                                                                         *)
(* Flows meet the server at different times, so the argument is about what *)
(* outlasts an await: the log only grows, an answer stays true of the log  *)
(* it was made from, and the conversation a flow asked about is compared   *)
(* with the one on the screen, or cannot have changed.                     *)
(***************************************************************************)
EXTENDS ChatSession, FiniteSetTheorems, SequenceTheorems, WellFoundedInduction, TLAPS

(* The server: an event belongs to an accepted execution of its            *)
(* conversation, and a delivery rests only when an event tells of it.      *)
Announced(e) == \E i \in 1..Len(LogOf(e)) : LogOf(e)[i].execution = e
LogFits ==
    \A t \in Threads : \A i \in 1..Len(log[t]) :
        ThreadOf[log[t][i].execution] = t /\ Accepted(log[t][i].execution)
RestFits ==
    \A e \in Executions : work[e].settled \/ work[e].blocked => Announced(e)

(* A screen shows events of one conversation, and no echo beside them.      *)
Screen == [thread : Threads \cup {NoThread}, events : SUBSET Sequence,
           echo : SUBSET Own, watching : BOOLEAN, restored : BOOLEAN,
           active : BOOLEAN, initialized : BOOLEAN]
IsScreen(l, s) ==
    /\ s \in Screen
    /\ \A x \in s.events : /\ x[1] = s.thread /\ s.thread \in Threads
                           /\ x[2] \in 1..Len(l[s.thread])
                           /\ l[x[1]][x[2]].execution \notin s.echo
    /\ s.thread = NoThread => s.initialized /\ ~s.watching
ScreenFits == IsScreen(log, ui) /\ (ui.watching => ~Pending)

Operation == [op : {"none", "restore", "refresh", "select", "submit", "decide", "resume"},
              pc : {"idle", "reading", "posted", "streaming", "recovering"},
              thread : Threads \cup {NoThread},
              execution : Executions \cup {Nothing}, position : Nat]
Requesting == {"posted", "streaming", "recovering"}
MainFits ==
    /\ main.op = "none" <=> main.pc = "idle"
    /\ main.pc = "reading" =>
         /\ main.thread \in Threads /\ main.op \in {"restore", "refresh", "select", "resume"}
         /\ main.op # "select" => main.thread = ui.thread
         /\ main.op = "resume" =>
              main.execution \in Executions /\ ThreadOf[main.execution] = main.thread
    /\ main.pc \in Requesting =>
         /\ main.op \in {"submit", "decide", "resume"} /\ main.execution \in Executions
         /\ main.thread = ui.thread /\ ThreadOf[main.execution] = main.thread
    /\ main.op = "submit" => main.execution \in Own /\ draft[main.execution] = "sent"
    /\ main.pc = "streaming" => Accepted(main.execution)
CancelFits ==
    cancelling.pc # "idle" =>
        /\ cancelling.execution \in Executions
        /\ cancelling.thread = ThreadOf[cancelling.execution]

(* An answer is a part of the log and tells what was so; if it says that an *)
(* execution was accepted and nothing active, an event told of it.          *)
AnswerFits(l, w, r) ==
    \E n \in r.after..Len(l[r.thread]) :
        /\ r.answer.events = (r.after + 1)..n
        /\ r.answer.accepted => r.execution \in Executions
                                /\ w[r.execution].status # "unknown"
        /\ r.answer.accepted /\ ~r.answer.active /\ ThreadOf[r.execution] = r.thread =>
             \E i \in 1..n : l[r.thread][i].execution = r.execution
ReadFits(l, w, r) ==
    /\ r.after \in 0..Len(l[r.thread])
    /\ r.answer # Nothing => AnswerFits(l, w, r)
PrefixShown(s, r) ==
    r.thread = s.thread /\ \A i \in 1..r.after : <<s.thread, i>> \in s.events
(* The cancellation may ask with the cursor of another conversation: of its *)
(* answer only the numbers are right.                                       *)
NumbersFit(l, r) == r.answer # Nothing => r.answer.events \subseteq 1..Len(l[r.thread])
ReadsFit ==
    /\ reads["main"] # Nothing =>
         /\ ReadFits(log, work, reads["main"])
         /\ \/ main.pc = "reading" /\ reads["main"].thread = main.thread
                 /\ reads["main"].after = 0
            \/ main.pc = "recovering" /\ PrefixShown(ui, reads["main"])
                 /\ (main.op # "decide" => reads["main"].execution = main.execution)
    /\ reads["watch"] # Nothing =>
         ReadFits(log, work, reads["watch"]) /\ ui.watching /\ PrefixShown(ui, reads["watch"])
    /\ reads["cancel"] # Nothing =>
         /\ NumbersFit(log, reads["cancel"])
         /\ cancelling.pc = "confirming" /\ reads["cancel"].thread = cancelling.thread

(* A text that was not sent is not known to the server.                    *)
DraftsFit ==
    \A e \in Own :
        draft[e] = "editing" =>
            ~Accepted(e) /\ [op |-> "submit", execution |-> e] \notin posts

(* A submission that the server has not handled is not known to it.        *)
PostsFit ==
    \A e \in Executions :
        [op |-> "submit", execution |-> e] \in posts => e \in Own /\ ~Accepted(e)

IInv ==
    /\ TypeOK /\ LogFits /\ RestFits
    /\ ScreenFits /\ MainFits /\ CancelFits /\ ReadsFit /\ DraftsFit /\ PostsFit
    /\ SyncedIsComplete

-----------------------------------------------------------------------------
(* Operators.                                                                *)

(* A bounded set of numbers has its maximum. *)
LEMMA MaxOfBounded ==
  ASSUME NEW S \in SUBSET Nat, NEW c \in Nat, S # {}, \A n \in S : n <= c
  PROVE  /\ Max(S) \in S /\ Max(S) \in Nat /\ \A n \in S : n <= Max(S)
<1> DEFINE T == {k \in Nat : \E n \in S : k = c - n}
           R == OpToRel(<, Nat)
<1>1. T \subseteq Nat /\ T # {}
  <2>1. PICK n \in S : TRUE OBVIOUS
  <2>2. c - n \in T OBVIOUS
  <2> QED BY <2>2
<1>2. PICK x \in T : \A y \in T : ~(<<y, x>> \in R)
  <2> HIDE DEF T
  <2> QED BY <1>1, NatLessThanWellFounded, WFMin
<1>3. \A y \in T : ~(y < x) BY <1>2 DEF OpToRel
<1>4. PICK m \in S : x = c - m OBVIOUS
<1>5. ASSUME NEW n \in S PROVE m >= n
  <2>1. c - n \in T OBVIOUS
  <2> QED BY <1>3, <1>4, <2>1
<1> QED BY <1>4, <1>5 DEF Max

LEMMA MaxOfInterval ==
  ASSUME NEW a \in Nat, NEW n \in Nat, a <= n
  PROVE  Max({a} \cup ((a + 1)..n)) = n
<1> DEFINE S == {a} \cup ((a + 1)..n)
<1>1. n \in S /\ \A y \in S : n >= y /\ y \in Nat OBVIOUS
<1>2. ASSUME NEW x \in S, \A y \in S : x >= y PROVE x = n BY <1>1, <1>2
<1> HIDE DEF S
<1>3. Max(S) = n BY <1>1, <1>2 DEF Max
<1> QED BY <1>3 DEF S

(* cursor is the length of a prefix that the screen shows. *)
LEMMA CursorIs ==
  ASSUME ServerTypeOK, NEW s, IsScreen(log, s), s.thread \in Threads
  PROVE  /\ CursorOf(s) \in 0..Len(log[s.thread])
         /\ \A i \in 1..CursorOf(s) : <<s.thread, i>> \in s.events
<1> DEFINE t == s.thread
           S == {n \in 0..Cardinality(s.events) : \A i \in 1..n : <<t, i>> \in s.events}
<1>1. Len(log[t]) \in Nat BY LenProperties DEF ServerTypeOK
<1>2. \A x \in s.events : x \in {t} \X (1..Len(log[t]))
  BY DEF IsScreen, Screen, Sequence
<1>3. IsFiniteSet(s.events)
  <2>1. IsFiniteSet({t} \X (1..Len(log[t])))
    <3>1. IsFiniteSet({t}) BY FS_Singleton
    <3>2. PICK n \in Int : n = Len(log[t]) BY <1>1
    <3>3. IsFiniteSet(1..n) BY FS_Interval
    <3> QED BY <3>1, <3>2, <3>3, FS_Product, Zenon
  <2>2. s.events \in SUBSET ({t} \X (1..Len(log[t]))) BY <1>2
  <2> QED BY <2>1, <2>2, FS_Subset
<1>4. Cardinality(s.events) \in Nat BY <1>3, FS_CardinalityType
<1>5. S \in SUBSET Nat /\ S # {} /\ \A n \in S : n <= Cardinality(s.events)
  <2>1. 0 \in S BY <1>4
  <2> QED BY <1>4, <2>1
<1> HIDE DEF S
<1>6. Max(S) \in S /\ Max(S) \in Nat BY <1>4, <1>5, MaxOfBounded
<1>7. CursorOf(s) = Max(S) BY DEF CursorOf, S
<1>8. \A i \in 1..Max(S) : <<t, i>> \in s.events BY <1>6 DEF S
<1>9. Max(S) <= Len(log[t])
  <2>1. CASE Max(S) = 0 BY <1>1, <2>1
  <2>2. CASE Max(S) >= 1
    <3>1. <<t, Max(S)>> \in s.events BY <1>6, <1>8, <2>2
    <3> QED BY <1>1, <1>2, <1>6, <3>1
  <2> QED BY <1>6, <2>1, <2>2
<1> QED BY <1>1, <1>6, <1>7, <1>8, <1>9

(* receive keeps the screen one. *)
At(s, t) == s.thread = t
Received(l, s, t, events, r) ==
    /\ IsScreen(l, r) /\ r.thread = t /\ (r.watching <=> s.watching)
    /\ s.events \subseteq r.events /\ r.echo \subseteq s.echo
    /\ \A i \in events : <<t, i>> \in r.events /\ l[t][i].execution \notin r.echo

LEMMA Receives ==
  ASSUME ServerTypeOK, NEW s, IsScreen(log, s), NEW t \in Threads, At(s, t),
         NEW events, events \subseteq 1..Len(log[t])
  PROVE  Received(log, s, t, events, Receive(s, t, events))
<1> PICK r : r = Receive(s, t, events) OBVIOUS
<1> USE DEF At
<1> DEFINE new == {<<t, i>> : i \in events}
           gone == {log[t][i].execution : i \in events}
<1>1. Len(log[t]) \in Nat BY LenProperties DEF ServerTypeOK
<1>2. s \in Screen BY DEF IsScreen
<1>3. /\ r.thread = t /\ r.watching = s.watching
      /\ r.restored = s.restored /\ r.active = s.active
      /\ r.initialized = s.initialized
      /\ r.events = s.events \cup new /\ r.echo = s.echo \ gone
  BY <1>2 DEF Receive, Screen
<1>4. r \in Screen
  <2>1. new \subseteq Sequence BY <1>1 DEF Sequence
  <2>2. s.events \cup new \in SUBSET Sequence /\ s.echo \ gone \in SUBSET Own
    BY <1>2, <2>1 DEF Screen
  <2> HIDE DEF new, gone
  <2>3. r = [s EXCEPT !.events = s.events \cup new, !.echo = s.echo \ gone]
    BY DEF Receive, new, gone
  <2> QED BY <1>2, <2>2, <2>3, Zenon DEF Screen
<1>5. ASSUME NEW x \in r.events
      PROVE  x[1] = t /\ x[2] \in 1..Len(log[t]) /\ log[x[1]][x[2]].execution \notin r.echo
  <2>1. CASE x \in s.events BY <1>3, <2>1 DEF IsScreen
  <2>2. CASE x \in new BY <1>3, <2>2
  <2> QED BY <1>3, <1>5, <2>1, <2>2
<1>6. r.thread = NoThread => r.initialized /\ ~r.watching BY <1>3 DEF IsScreen
<1>7. /\ s.events \subseteq r.events /\ r.echo \subseteq s.echo
      /\ \A i \in events : <<t, i>> \in r.events /\ log[t][i].execution \notin r.echo
  BY <1>3
<1> HIDE DEF new, gone
<1>8. IsScreen(log, r) BY <1>3, <1>4, <1>5, <1>6 DEF IsScreen
<1> QED BY <1>3, <1>7, <1>8 DEF Received

-----------------------------------------------------------------------------
(* The server.                                                               *)

(* The log only grows, and an acceptance stays. *)
LogGrows ==
    \A t \in Threads : /\ Len(log[t]) <= Len(log'[t])
                       /\ \A i \in 1..Len(log[t]) : log'[t][i] = log[t][i]
ServerMoves ==
    /\ ServerTypeOK' /\ LogGrows /\ LogFits' /\ RestFits'
    /\ \A e \in Executions : Accepted(e) => Accepted(e)'
ServerFits == ServerTypeOK /\ LogFits /\ RestFits

LEMMA AppendMoves ==
  ASSUME ServerTypeOK, NEW e \in Executions, NEW kind \in Kinds, AppendOnce(e, kind)
  PROVE  /\ log' \in [Threads -> Seq(Event)] /\ LogGrows
         /\ \A t \in Threads : \A i \in 1..Len(log'[t]) :
              \/ i \in 1..Len(log[t])
              \/ t = ThreadOf[e] /\ log'[t][i].execution = e
<1>1. \A t \in Threads : log[t] \in Seq(Event) /\ Len(log[t]) \in Nat
  BY LenProperties DEF ServerTypeOK
<1>2. ThreadOf[e] \in Threads BY ConversationAssumption
<1>3. CASE UNCHANGED log BY <1>1, <1>3 DEF ServerTypeOK, LogGrows
<1>4. CASE log' = [log EXCEPT ![ThreadOf[e]] =
                      Append(log[ThreadOf[e]], [kind |-> kind, execution |-> e])]
  <2> DEFINE u == ThreadOf[e]
             x == [kind |-> kind, execution |-> e]
  <2>1. x \in Event BY DEF Event
  <2>2. /\ Append(log[u], x) \in Seq(Event) /\ Len(Append(log[u], x)) = Len(log[u]) + 1
        /\ \A i \in 1..Len(log[u]) : Append(log[u], x)[i] = log[u][i]
        /\ Append(log[u], x)[Len(log[u]) + 1] = x
    BY <1>1, <1>2, <2>1, AppendProperties
  <2>3. log'[u] = Append(log[u], x) /\ \A t \in Threads \ {u} : log'[t] = log[t]
    BY <1>2, <1>4 DEF ServerTypeOK
  <2>4. log' \in [Threads -> Seq(Event)] BY <1>4, <2>2 DEF ServerTypeOK
  <2>5. x.execution = e OBVIOUS
  <2> HIDE DEF u, x
  <2>6. LogGrows BY <1>1, <2>2, <2>3 DEF LogGrows
  <2>7. \A i \in 1..Len(log'[u]) : i \in 1..Len(log[u]) \/ log'[u][i].execution = e
    BY <1>1, <1>2, <2>2, <2>3, <2>5 DEF u
  <2> QED BY <2>3, <2>4, <2>6, <2>7 DEF u
<1> QED BY <1>3, <1>4 DEF AppendOnce

(* What a server step may do: it writes the row of an accepted execution or  *)
(* accepts one, publishes at most one event of it, and leaves a row at rest  *)
(* only where an event tells of it.                                          *)
LEMMA RowMoves ==
  ASSUME ServerFits, NEW e \in Executions, NEW r \in Work,
         UNCHANGED work \/ work' = [work EXCEPT ![e] = r],
         UNCHANGED log \/ (Accepted(e) /\ \E kind \in Kinds : AppendOnce(e, kind)),
         Accepted(e) => r.status # "unknown",
         r.settled \/ r.blocked => work[e].settled \/ work[e].blocked \/ Announced(e)
  PROVE  ServerMoves
<1>1. work \in [Executions -> Work] /\ \A t \in Threads : Len(log[t]) \in Nat
  BY LenProperties DEF ServerFits, ServerTypeOK
<1>2. /\ log' \in [Threads -> Seq(Event)] /\ LogGrows
      /\ \A t \in Threads : \A i \in 1..Len(log'[t]) :
           \/ i \in 1..Len(log[t])
           \/ t = ThreadOf[e] /\ log'[t][i].execution = e /\ Accepted(e)
  <2>1. CASE UNCHANGED log BY <1>1, <2>1 DEF ServerFits, ServerTypeOK, LogGrows
  <2>2. CASE Accepted(e) /\ \E kind \in Kinds : AppendOnce(e, kind)
    BY <2>2, AppendMoves DEF ServerFits
  <2> QED BY <2>1, <2>2
<1>3. ServerTypeOK' BY <1>1, <1>2 DEF ServerTypeOK
<1>4. \A x \in Executions : Accepted(x) => Accepted(x)' BY <1>1 DEF Accepted
<1>5. \A t \in Threads : \A i \in 1..Len(log'[t]) : log'[t][i].execution \in Executions
  <2> SUFFICES ASSUME NEW t \in Threads, NEW i \in 1..Len(log'[t])
               PROVE  log'[t][i].execution \in Executions
    OBVIOUS
  <2>1. PICK s \in Seq(Event) : s = log'[t] BY <1>2
  <2>2. s[i] \in Event BY <2>1, ElementOfSeq
  <2> QED BY <2>1, <2>2 DEF Event
<1>6. LogFits'
  <2> SUFFICES ASSUME NEW t \in Threads, NEW i \in 1..Len(log'[t]), NEW x \in Executions,
                      x = log'[t][i].execution
               PROVE  ThreadOf[x] = t /\ Accepted(x)'
    BY <1>5 DEF LogFits, Accepted
  <2>1. CASE i \in 1..Len(log[t])
    <3>1. x = log[t][i].execution BY <1>2, <2>1 DEF LogGrows
    <3> QED BY <1>4, <2>1, <3>1 DEF ServerFits, LogFits
  <2>2. CASE t = ThreadOf[e] /\ log'[t][i].execution = e /\ Accepted(e) BY <1>4, <2>2
  <2> QED BY <1>2, <2>1, <2>2
<1>7. ASSUME NEW x \in Executions, Announced(x) PROVE Announced(x)'
  <2> PICK t \in Threads : t = ThreadOf[x] BY ConversationAssumption
  <2> PICK i \in 1..Len(log[t]) : log[t][i].execution = x BY <1>7 DEF Announced, LogOf
  <2>1. Len(log[t]) <= Len(log'[t]) /\ log'[t][i] = log[t][i] BY <1>2 DEF LogGrows
  <2>2. Len(log'[t]) \in Nat BY <1>2, LenProperties
  <2>3. i \in 1..Len(log'[t]) BY <1>1, <2>1, <2>2
  <2> QED BY <2>1, <2>3 DEF Announced, LogOf
<1>8. RestFits'
  <2> SUFFICES ASSUME NEW x \in Executions, work'[x].settled \/ work'[x].blocked
               PROVE  Announced(x)'
    BY DEF RestFits
  <2>1. work[x].settled \/ work[x].blocked \/ Announced(x) BY <1>1
  <2> QED BY <1>7, <2>1 DEF ServerFits, RestFits
<1> QED BY <1>2, <1>3, <1>4, <1>6, <1>8 DEF ServerMoves

(* Every step of the server. *)
LEMMA ServerSteps ==
  ASSUME ServerFits, NEW e \in Executions,
         \/ Deliver(e) \/ Park(e) \/ Accept(e)
         \/ Accepted(e) /\ (Decide(e) \/ Wake(e) \/ RequestCancellation(e))
  PROVE  ServerMoves
<1>1. work \in [Executions -> Work] /\ work[e] \in Work BY DEF ServerFits, ServerTypeOK
<1> DEFINE r == work'[e]
<1>2. ASSUME NEW kind, Published(e, kind) PROVE Announced(e)
  <2>1. LogOf(e) \in Seq(Event)
    BY ConversationAssumption DEF ServerFits, ServerTypeOK, LogOf
  <2>2. PICK i \in 1..Len(LogOf(e)) : LogOf(e)[i] = [kind |-> kind, execution |-> e]
    BY <1>2, <2>1, LenProperties DEF Published
  <2>3. LogOf(e)[i].execution = e BY <2>2
  <2> QED BY <2>3 DEF Announced
<1>3. ASSUME NEW x \in Work, work' = [work EXCEPT ![e] = x],
             UNCHANGED log \/ (Accepted(e) /\ \E kind \in Kinds : AppendOnce(e, kind)),
             Accepted(e) => x.status # "unknown",
             x.settled \/ x.blocked => work[e].settled \/ work[e].blocked \/ Announced(e)
      PROVE  ServerMoves
  BY <1>3, RowMoves
<1>4. ASSUME NEW kind \in Kinds, Accepted(e), AppendOnce(e, kind), UNCHANGED work
      PROVE  ServerMoves
  BY <1>1, <1>4, RowMoves DEF Accepted
<1>5. ASSUME NEW s \in {"ready", "awaiting_approval", "completed", "cancelled"},
             work' = [work EXCEPT ![e] = [work[e] EXCEPT !.status = s]], UNCHANGED log
      PROVE  ServerMoves
  <2> DEFINE x == [work[e] EXCEPT !.status = s]
  <2>1. x \in Work /\ x.status = s /\ x.settled = work[e].settled /\ x.blocked = work[e].blocked
    BY <1>1 DEF Work
  <2> QED BY <1>3, <1>5, <2>1
<1>6. ASSUME Accepted(e) PROVE /\ Woken(work[e]) \in Work
                               /\ Woken(work[e]).status = work[e].status
                               /\ ~Woken(work[e]).settled /\ ~Woken(work[e]).blocked
  BY <1>1 DEF Woken, Work
<1>7. CASE Accept(e) BY <1>1, <1>5, <1>7 DEF Accept
<1>8. CASE Accepted(e) /\ Wake(e) BY <1>3, <1>6, <1>8 DEF Wake, Accepted
<1>9. CASE Accepted(e) /\ Decide(e)
  <2> DEFINE x == [Woken(work[e]) EXCEPT !.decided = TRUE]
  <2>1. x \in Work /\ x.status = work[e].status /\ ~x.settled /\ ~x.blocked
    BY <1>6, <1>9 DEF Work
  <2> QED BY <1>3, <1>9, <2>1 DEF Decide, Accepted
<1>10. CASE Accepted(e) /\ RequestCancellation(e)
  <2> DEFINE x == [Woken(work[e]) EXCEPT !.cancelled = TRUE]
  <2>1. x \in Work /\ x.status = work[e].status /\ ~x.settled /\ ~x.blocked
    BY <1>6, <1>10 DEF Work
  <2>2. CASE IsFinal(e)
    BY <1>1, <1>10, <2>2, RowMoves DEF RequestCancellation, serverVars, Accepted
  <2>3. CASE ~IsFinal(e)
    <3>1. "cancellation_requested" \in Kinds BY DEF Kinds
    <3> QED BY <1>3, <1>10, <2>1, <2>3, <3>1 DEF RequestCancellation, Accepted
  <2> QED BY <2>2, <2>3
<1>11. CASE Park(e)
  <2> DEFINE x == [work[e] EXCEPT !.blocked = TRUE]
  <2>1. x \in Work /\ x.status = work[e].status BY <1>1 DEF Work
  <2>2. work' = [work EXCEPT ![e] = x] /\ UNCHANGED log /\ Announced(e)
    BY <1>2, <1>11 DEF Park
  <2> HIDE DEF x
  <2> QED BY <1>3, <2>1, <2>2 DEF Accepted
<1>12. CASE Settle(e)
  <2> DEFINE x == [work[e] EXCEPT !.settled = TRUE]
  <2>1. x \in Work /\ x.status = work[e].status BY <1>1 DEF Work
  <2>2. work' = [work EXCEPT ![e] = x] /\ UNCHANGED log /\ Announced(e)
    BY <1>2, <1>12 DEF Settle
  <2> HIDE DEF x
  <2> QED BY <1>3, <2>1, <2>2 DEF Accepted
<1>13. Kinds = {"user_message", "approval_request", "paused", "approval_decision",
                "cancellation_requested", "busy", "completed"}
  BY DEF Kinds
<1>14. CASE AnnounceUser(e) BY <1>4, <1>13, <1>14 DEF AnnounceUser
<1>15. CASE AskApproval(e) BY <1>5, <1>15 DEF AskApproval
<1>16. CASE Pause(e) BY <1>4, <1>13, <1>16 DEF Pause, InStage, Publish
<1>17. CASE AnnounceDecision(e)
  BY <1>4, <1>13, <1>17 DEF AnnounceDecision, InStage, Publish
<1>18. CASE Complete(e) BY <1>5, <1>18 DEF Complete
<1>19. CASE CleanUp(e) BY <1>5, <1>19 DEF CleanUp
<1>20. CASE AnnounceOutcome(e)
  BY <1>4, <1>13, <1>20 DEF AnnounceOutcome, InStage, Publish
<1>21. CASE AnnounceParked(e)
  <2>1. PICK i \in 1..Len(LogOf(e)) : LogOf(e)[i].execution = e
    BY <1>21 DEF AnnounceParked, ServerFits, RestFits, Announced
  <2>2. Accepted(e)
    BY <2>1, ConversationAssumption DEF ServerFits, LogFits, LogOf
  <2> QED BY <1>4, <1>13, <1>21, <2>2 DEF AnnounceParked, Publish
<1>22. CASE GoOn(e) BY <1>5, <1>22 DEF GoOn
<1> QED BY <1>7, <1>8, <1>9, <1>10, <1>11, <1>12, <1>14, <1>15, <1>16, <1>17, <1>18,
           <1>19, <1>20, <1>21, <1>22 DEF Deliver

(* Only Accept accepts. *)
LEMMA OnlyAccept ==
  ASSUME ServerFits, NEW e \in Executions,
         \/ Deliver(e) \/ Park(e) \/ Accept(e)
         \/ Accepted(e) /\ (Decide(e) \/ Wake(e) \/ RequestCancellation(e))
  PROVE  \A x \in Executions : Accepted(x)' => Accepted(x) \/ (x = e /\ Accept(e))
<1>1. work \in [Executions -> Work] BY DEF ServerFits, ServerTypeOK
<1>2. ASSUME NEW r, UNCHANGED work \/ work' = [work EXCEPT ![e] = r],
             Accepted(e) \/ Accept(e)
      PROVE  \A x \in Executions : Accepted(x)' => Accepted(x) \/ (x = e /\ Accept(e))
  BY <1>1, <1>2 DEF Accepted
<1>3. ASSUME UNCHANGED work
      PROVE  \A x \in Executions : Accepted(x)' => Accepted(x)
  BY <1>3 DEF Accepted
<1>4. CASE Accept(e) BY <1>2, <1>4 DEF Accept
<1>5. CASE Park(e) BY <1>2, <1>5 DEF Park, InStage
<1>6. CASE Accepted(e) /\ (Decide(e) \/ Wake(e) \/ RequestCancellation(e))
  BY <1>2, <1>6 DEF Decide, Wake, RequestCancellation, serverVars
<1>7. CASE Deliver(e)
  <2>1. CASE AnnounceUser(e) \/ AnnounceDecision(e) \/ AnnounceOutcome(e) \/ AnnounceParked(e)
    BY <1>3, <2>1 DEF AnnounceUser, AnnounceDecision, AnnounceOutcome, AnnounceParked, Publish
  <2>2. CASE Pause(e) BY <1>3, <2>2 DEF Pause, Publish
  <2>3. CASE AskApproval(e) \/ GoOn(e) \/ Complete(e) \/ CleanUp(e) \/ Settle(e)
    BY <1>2, <2>3 DEF AskApproval, GoOn, Complete, CleanUp, Settle, InStage
  <2> QED BY <1>7, <2>1, <2>2, <2>3 DEF Deliver
<1> QED BY <1>4, <1>5, <1>6, <1>7

(* What was read stays true of the server, and a screen stays a screen. *)
LEMMA ReadStays ==
  ASSUME ServerFits, ServerMoves, NEW r, r.thread \in Threads, r.after \in Nat
  PROVE  /\ ReadFits(log, work, r) => ReadFits(log', work', r)
         /\ NumbersFit(log, r) => NumbersFit(log', r)
<1> PICK t \in Threads : t = r.thread OBVIOUS
<1>1. /\ Len(log[t]) \in Nat /\ Len(log'[t]) \in Nat /\ Len(log[t]) <= Len(log'[t])
      /\ \A i \in 1..Len(log[t]) : log'[t][i] = log[t][i]
  BY LenProperties DEF ServerFits, ServerMoves, LogGrows, ServerTypeOK
<1>2. NumbersFit(log, r) => NumbersFit(log', r) BY <1>1 DEF NumbersFit
<1>3. ASSUME AnswerFits(log, work, r) PROVE AnswerFits(log', work', r)
  <2> DEFINE Fits(l, w, n) ==
        /\ r.answer.events = (r.after + 1)..n
        /\ r.answer.accepted => r.execution \in Executions
                                /\ w[r.execution].status # "unknown"
        /\ r.answer.accepted /\ ~r.answer.active /\ ThreadOf[r.execution] = t =>
             \E i \in 1..n : l[t][i].execution = r.execution
  <2>1. PICK n \in r.after..Len(log[t]) : Fits(log, work, n) BY <1>3 DEF AnswerFits
  <2>2. n \in r.after..Len(log'[t]) BY <1>1
  <2>3. r.answer.accepted => r.execution \in Executions
                             /\ work'[r.execution].status # "unknown"
    BY <2>1 DEF ServerMoves, Accepted
  <2>4. \A i \in 1..n : log'[t][i] = log[t][i] BY <1>1
  <2>5. Fits(log', work', n) BY <2>1, <2>3, <2>4
  <2> QED BY <2>2, <2>5 DEF AnswerFits
<1> QED BY <1>1, <1>2, <1>3 DEF ReadFits

LEMMA ScreenStays ==
  ASSUME ServerFits, ServerMoves, NEW s, IsScreen(log, s)
  PROVE  IsScreen(log', s)
<1>1. \A t \in Threads : /\ Len(log[t]) \in Nat /\ Len(log'[t]) \in Nat
                         /\ Len(log[t]) <= Len(log'[t])
                         /\ \A i \in 1..Len(log[t]) : log'[t][i] = log[t][i]
  BY LenProperties DEF ServerFits, ServerMoves, LogGrows, ServerTypeOK
<1>2. ASSUME NEW x \in s.events
      PROVE  /\ x[1] = s.thread /\ s.thread \in Threads
             /\ x[2] \in 1..Len(log'[s.thread])
             /\ log'[x[1]][x[2]].execution \notin s.echo
  BY <1>1, <1>2 DEF IsScreen
<1> QED BY <1>2 DEF IsScreen

(* replay, and the switches of the watcher and of the session. *)
Replaced(l, s, t, events, r) ==
    /\ IsScreen(l, r) /\ r.thread = t /\ (r.watching <=> s.watching)
    /\ \A i \in events : <<t, i>> \in r.events

LEMMA Replaces ==
  ASSUME ServerTypeOK, NEW s \in Screen, NEW t \in Threads,
         main.op = "select" \/ At(s, t), NEW answer,
         answer.active \in BOOLEAN, answer.events \subseteq 1..Len(log[t])
  PROVE  Replaced(log, s, t, answer.events, Replace(s, t, answer))
<1> USE DEF At
<1> PICK r : r = Replace(s, t, answer) OBVIOUS
<1> DEFINE new == {<<t, i>> : i \in answer.events}
<1>1. Len(log[t]) \in Nat BY LenProperties DEF ServerTypeOK
<1>2. new \in SUBSET Sequence BY <1>1 DEF Sequence
<1>3. /\ r.thread = t /\ r.echo = {} /\ r.events = new /\ r.watching = s.watching
  BY DEF Replace, Screen
<1>4. r \in Screen
  <2> HIDE DEF new
  <2>1. r = [s EXCEPT !.thread = IF main.op = "select" THEN t ELSE s.thread,
                      !.events = new, !.echo = {}, !.active = answer.active,
                      !.restored = TRUE]
    BY DEF Replace, new
  <2>2. (IF main.op = "select" THEN t ELSE s.thread) \in Threads \cup {NoThread} BY DEF Screen
  <2> QED BY <1>2, <2>1, <2>2, Zenon DEF Screen
<1>5. ASSUME NEW x \in r.events PROVE x[1] = t /\ x[2] \in 1..Len(log[t]) BY <1>3, <1>5
<1>6. t # NoThread BY SessionAssumption
<1>7. IsScreen(log, r) BY <1>3, <1>4, <1>5, <1>6 DEF IsScreen
<1> QED BY <1>3, <1>7 DEF Replaced

LEMMA Switches ==
  ASSUME NEW s, IsScreen(log, s), NEW b \in BOOLEAN
  PROVE  /\ IsScreen(log, [s EXCEPT !.restored = b])
         /\ IsScreen(log, [s EXCEPT !.active = b])
         /\ IsScreen(log, [s EXCEPT !.watching = FALSE])
         /\ IsScreen(log, [s EXCEPT !.initialized = @ \/ b])
         /\ IsScreen(log, [s EXCEPT !.initialized = TRUE])
         /\ s.thread # NoThread => IsScreen(log, [s EXCEPT !.watching = b])
<1>1. s \in Screen BY DEF IsScreen
<1>2. /\ [s EXCEPT !.restored = b] \in Screen
      /\ [s EXCEPT !.active = b] \in Screen
      /\ [s EXCEPT !.watching = b] \in Screen
      /\ [s EXCEPT !.watching = FALSE] \in Screen
      /\ [s EXCEPT !.initialized = s.initialized \/ b] \in Screen
      /\ [s EXCEPT !.initialized = TRUE] \in Screen
  BY <1>1, Zenon DEF Screen
<1> QED BY <1>1, <1>2 DEF IsScreen, Screen

LEMMA Watches ==
  ASSUME NEW s, IsScreen(log, s), NEW pending \in BOOLEAN
  PROVE  LET r == StartWatching(s, pending)
         IN  /\ IsScreen(log, r) /\ r.thread = s.thread /\ r.events = s.events
             /\ r.echo = s.echo /\ (s.watching => r.watching)
             /\ r.watching => s.watching \/ ~pending
<1>1. s \in Screen BY DEF IsScreen
<1>2. CASE ~s.watching /\ ~pending /\ s.restored /\ s.active /\ s.thread # NoThread
  <2>1. StartWatching(s, pending) = [s EXCEPT !.watching = TRUE] BY <1>2 DEF StartWatching
  <2> QED BY <1>1, <1>2, <2>1, Switches DEF Screen
<1>3. CASE ~(~s.watching /\ ~pending /\ s.restored /\ s.active /\ s.thread # NoThread)
  BY <1>3 DEF StartWatching
<1> QED BY <1>2, <1>3

LEMMA FreshIsScreen ==
  ASSUME NEW t \in Threads \cup {NoThread}
  PROVE  /\ IsScreen(log, Fresh(t)) /\ Fresh(t).thread = t /\ Fresh(t).events = {}
         /\ Fresh(t).watching = FALSE
         /\ IsScreen(log, [Fresh(t) EXCEPT !.initialized = TRUE])
         /\ [Fresh(t) EXCEPT !.initialized = TRUE].thread = t
         /\ [Fresh(t) EXCEPT !.initialized = TRUE].events = {}
         /\ [Fresh(t) EXCEPT !.initialized = TRUE].watching = FALSE
BY DEF Fresh, IsScreen, Screen

-----------------------------------------------------------------------------
(* Steps of the session that leave the server alone.                         *)

LEMMA ServerSame ==
  ASSUME IInv, UNCHANGED serverVars
  PROVE  /\ log' = log /\ work' = work
         /\ ServerTypeOK' /\ LogFits' /\ RestFits'
         /\ \A e \in Executions : Accepted(e)' = Accepted(e)
BY DEF IInv, TypeOK, serverVars, ServerTypeOK, LogFits, RestFits, Announced, LogOf, Accepted

(* What the types say of the parts. *)
LEMMA Parts ==
  ASSUME IInv
  PROVE  /\ ServerFits /\ ServerTypeOK /\ LogFits /\ RestFits /\ IsScreen(log, ui) /\ ui \in Screen
         /\ Own \subseteq Executions /\ NoThread \notin Threads /\ Nothing \notin Executions
         /\ \A e \in Executions : ThreadOf[e] \in Threads
         /\ ui.thread \in Threads \cup {NoThread} /\ ui.watching \in BOOLEAN
         /\ ~Pending <=> main.op = "none"
         /\ ~Pending <=> main.pc = "idle"
BY ConversationAssumption, SessionAssumption
   DEF IInv, TypeOK, ServerFits, ScreenFits, IsScreen, Screen, MainFits, Pending

(* A read that begins asks for what a read may ask for. *)
LEMMA ReadBegins ==
  ASSUME NEW t \in Threads, NEW after \in Nat, NEW e \in Executions \cup {Nothing},
         NEW r, r = [thread |-> t, after |-> after, execution |-> e, answer |-> Nothing]
  PROVE  /\ r \in Read /\ r.thread = t /\ r.after = after /\ r.execution = e
         /\ r.answer = Nothing /\ NumbersFit(log, r)
         /\ (after \in 0..Len(log[t]) => ReadFits(log, work, r))
BY DEF Read, NumbersFit, ReadFits

(* restore, refresh, selectConversation and resume begin. *)
LEMMA HistoryBegins ==
  ASSUME IInv, ~Pending, NEW op \in {"restore", "refresh", "select", "resume"},
         NEW t \in Threads, NEW e \in Executions \cup {Nothing},
         op # "select" => t = ui.thread,
         op = "resume" => e \in Executions /\ ThreadOf[e] = t,
         ReadHistory(op, t, e)
  PROVE  IInv'
<1> DEFINE r == [thread |-> t, after |-> 0, execution |-> Nothing, answer |-> Nothing]
           s == [ui EXCEPT !.watching = FALSE]
<1>1. /\ main' = [Idle EXCEPT !.op = op, !.pc = "reading", !.thread = t, !.execution = e]
      /\ ui' = [ui EXCEPT !.watching = FALSE, !.initialized = @ \/ op # "restore"]
      /\ reads' = [reads EXCEPT !["watch"] = Nothing, !["main"] = r]
      /\ UNCHANGED <<serverVars, cancelling, posts, draft, synced, disturbed, losses>>
  <2>1. main' = [Idle EXCEPT !.op = op, !.pc = "reading", !.thread = t, !.execution = e]
    BY Zenon DEF ReadHistory
  <2>2. ui' = [ui EXCEPT !.watching = FALSE, !.initialized = @ \/ op # "restore"]
    BY Zenon DEF ReadHistory
  <2>3. reads' = [reads EXCEPT !["watch"] = Nothing, !["main"] = r]
    BY Zenon DEF ReadHistory, StopThenSend
  <2>4. UNCHANGED <<serverVars, cancelling, posts, draft, synced, disturbed, losses>>
    BY SMT DEF ReadHistory, boundVars
  <2> HIDE DEF r, s
  <2> QED BY <2>1, <2>2, <2>3, <2>4
<1>2. /\ main'.op = op /\ main'.pc = "reading" /\ main'.thread = t /\ main'.execution = e
      /\ main'.position = 0
  BY <1>1 DEF Idle
<1>3. main' \in Operation
  BY <1>1 DEF Idle, Operation
<1>4. IsScreen(log, s) BY Parts, Switches
<1>5. ui' = [s EXCEPT !.initialized = @ \/ (op # "restore")]
  BY <1>1, Parts DEF Screen
<1>6. IsScreen(log, ui') /\ ui' \in Screen
  <2> HIDE DEF s
  <2> PICK b \in BOOLEAN : b = (op # "restore") OBVIOUS
  <2>1. ui' = [s EXCEPT !.initialized = @ \/ b] BY <1>5
  <2>2. IsScreen(log, [s EXCEPT !.initialized = @ \/ b]) BY <1>4, Switches
  <2> QED BY <2>1, <2>2, Zenon DEF IsScreen
<1>7. ui'.thread = ui.thread /\ ui'.events = ui.events /\ ui'.watching = FALSE
  BY <1>1, Parts DEF Screen
<1>8. Len(log[t]) \in Nat BY Parts, LenProperties DEF ServerTypeOK
<1>9. /\ r \in Read /\ r.thread = t /\ r.after = 0 /\ ReadFits(log, work, r)
  BY <1>8, ReadBegins, Parts DEF ReadFits
<1> HIDE DEF r
<1>10. /\ reads' \in [Flows -> {Nothing} \cup Read]
       /\ reads'["main"] = r /\ reads'["watch"] = Nothing /\ reads'["cancel"] = reads["cancel"]
  BY <1>1, <1>9 DEF IInv, TypeOK, Flows
<1>11. TypeOK'
  BY <1>1, <1>3, <1>6, <1>10, ServerSame DEF IInv, TypeOK, Screen, Operation
<1>12. ScreenFits' BY <1>1, <1>6, <1>7, ServerSame DEF ScreenFits
<1>13. MainFits' BY <1>2, <1>7 DEF MainFits, Requesting
<1>14. CancelFits' BY <1>1 DEF IInv, CancelFits
<1>15. ReadsFit'
  BY <1>1, <1>2, <1>9, <1>10, ServerSame DEF IInv, ReadsFit
<1>16. DraftsFit' /\ PostsFit'
  BY <1>1, ServerSame, Parts DEF IInv, DraftsFit, PostsFit
<1>17. SyncedIsComplete' BY <1>1, <1>7 DEF IInv, SyncedIsComplete
<1> QED BY <1>1, <1>11, <1>12, <1>13, <1>14, <1>15, <1>16, <1>17, ServerSame DEF IInv

LEMMA ChatBegins ==
  ASSUME IInv, NewChat PROVE IInv'
<1>1. /\ ui' = [Fresh(NoThread) EXCEPT !.initialized = TRUE]
      /\ reads' = [reads EXCEPT !["watch"] = Nothing] /\ synced' = 0 /\ ~Pending
      /\ UNCHANGED <<serverVars, main, cancelling, posts, draft, disturbed, losses>>
  BY DEF NewChat, boundVars
<1>2. /\ IsScreen(log, ui') /\ ui' \in Screen /\ ui'.watching = FALSE
  BY <1>1, FreshIsScreen DEF IsScreen
<1>3. /\ reads' \in [Flows -> {Nothing} \cup Read] /\ reads'["main"] = reads["main"]
      /\ reads'["watch"] = Nothing /\ reads'["cancel"] = reads["cancel"]
  BY <1>1 DEF IInv, TypeOK, Flows
<1>4. main.pc = "idle" /\ main.op = "none" BY <1>1, Parts
<1>5. TypeOK' BY <1>1, <1>2, <1>3, ServerSame DEF IInv, TypeOK, Screen
<1>6. ScreenFits' BY <1>1, <1>2, ServerSame DEF ScreenFits
<1>7. MainFits' /\ CancelFits'
  BY <1>1, <1>4 DEF IInv, MainFits, CancelFits, Requesting
<1>8. ReadsFit' BY <1>1, <1>3, <1>4, ServerSame DEF IInv, ReadsFit
<1>9. DraftsFit' /\ PostsFit'
  BY <1>1, ServerSame, Parts DEF IInv, DraftsFit, PostsFit
<1>10. SyncedIsComplete' BY <1>1 DEF SyncedIsComplete
<1> QED BY <1>1, <1>5, <1>6, <1>7, <1>8, <1>9, <1>10, ServerSame DEF IInv

(* sendProgress begins. *)
LEMMA PostBegins ==
  ASSUME IInv, NEW op \in {"submit", "decide", "resume"}, NEW s, IsScreen(log, s),
         NEW e \in Executions, s.thread = ThreadOf[e], Post(op, s, e)
  PROVE  /\ main' \in Operation /\ main'.op = op /\ main'.pc = "posted"
         /\ main'.thread = s.thread /\ main'.execution = e
         /\ IsScreen(log, ui') /\ ui' \in Screen /\ ui'.watching = FALSE
         /\ ui'.thread = s.thread /\ ui'.events = s.events
         /\ posts' = posts \cup {[op |-> op, execution |-> e]}
         /\ posts' \subseteq [op : {"submit", "decide", "resume", "cancel"},
                              execution : Executions]
<1>1. s \in Screen /\ s.thread \in Threads BY Parts DEF IsScreen
<1>2. main' \in Operation /\ main'.op = op /\ main'.pc = "posted"
      /\ main'.thread = s.thread /\ main'.execution = e
  BY <1>1 DEF Post, Operation
<1>3. IsScreen(log, ui') /\ ui' \in Screen
  <2>1. ui' = [s EXCEPT !.watching = FALSE] BY Zenon DEF Post
  <2>2. IsScreen(log, [s EXCEPT !.watching = FALSE]) BY Switches
  <2> QED BY <2>1, <2>2, Zenon DEF IsScreen
<1>4. ui'.watching = FALSE /\ ui'.thread = s.thread /\ ui'.events = s.events
  BY <1>1 DEF Post, Screen
<1>5. posts' = posts \cup {[op |-> op, execution |-> e]} BY DEF Post
<1> QED BY <1>2, <1>3, <1>4, <1>5 DEF IInv, TypeOK

LEMMA SubmitBegins ==
  ASSUME IInv, NEW e \in Own, Submit(e) PROVE IInv'
<1> DEFINE s == [ui EXCEPT !.echo = @ \cup {e}, !.thread = ThreadOf[e]]
<1>1. /\ Post("submit", s, e) /\ ~Pending /\ ~ui.watching /\ draft[e] = "editing"
      /\ draft' = [draft EXCEPT ![e] = "sent"]
      /\ ui.thread \in {ThreadOf[e], NoThread}
      /\ UNCHANGED <<serverVars, cancelling, reads, synced, disturbed, losses>>
  BY DEF Submit, boundVars
<1>2. /\ e \in Executions /\ ThreadOf[e] \in Threads /\ ui \in Screen
      /\ ThreadOf[e] # NoThread
  BY Parts
<1>3. \A x \in ui.events : /\ x[1] = ThreadOf[e] /\ x[2] \in 1..Len(log[ThreadOf[e]])
                           /\ log[x[1]][x[2]].execution \notin ui.echo
                           /\ ui.thread = ThreadOf[e]
  BY <1>1, Parts DEF IsScreen
<1>4. ~Accepted(e) BY <1>1 DEF IInv, DraftsFit
<1>5. /\ s.thread = ThreadOf[e] /\ s.events = ui.events /\ s.echo = ui.echo \cup {e}
      /\ s.watching = ui.watching
  BY <1>2 DEF Screen
<1>6. s \in Screen
  <2>1. ui.echo \cup {e} \in SUBSET Own BY <1>2 DEF Screen
  <2> QED BY <1>2, <2>1, Zenon DEF Screen
<1>7. IsScreen(log, s)
  <2>1. \A x \in ui.events : log[x[1]][x[2]].execution # e
    BY <1>2, <1>3, <1>4, Parts DEF LogFits
  <2> HIDE DEF s
  <2> QED BY <1>1, <1>2, <1>3, <1>5, <1>6, <2>1 DEF IsScreen
<1> HIDE DEF s
<1>8. /\ main' \in Operation /\ main'.op = "submit" /\ main'.pc = "posted"
      /\ main'.thread = ThreadOf[e] /\ main'.execution = e
      /\ IsScreen(log, ui') /\ ui' \in Screen /\ ui'.watching = FALSE
      /\ ui'.thread = ThreadOf[e] /\ ui'.events = ui.events
      /\ posts' = posts \cup {[op |-> "submit", execution |-> e]}
      /\ posts' \subseteq [op : {"submit", "decide", "resume", "cancel"},
                           execution : Executions]
  BY <1>1, <1>2, <1>5, <1>7, PostBegins
<1>9. draft' \in [Own -> {"editing", "sent", "cleared", "kept"}]
      /\ draft'[e] = "sent" /\ \A x \in Own \ {e} : draft'[x] = draft[x]
  BY <1>1 DEF IInv, TypeOK
<1>10. TypeOK' BY <1>1, <1>8, <1>9, ServerSame DEF IInv, TypeOK, Screen, Operation
<1>11. ScreenFits' BY <1>1, <1>8, ServerSame DEF ScreenFits
<1>12. MainFits' BY <1>2, <1>8, <1>9 DEF MainFits, Requesting
<1>13. CancelFits' BY <1>1 DEF IInv, CancelFits
<1>14. ReadsFit'
  <2>1. reads["main"] = Nothing /\ reads["watch"] = Nothing
    BY <1>1, Parts DEF IInv, ReadsFit
  <2> QED BY <1>1, <2>1, ServerSame DEF IInv, ReadsFit
<1>15. DraftsFit' /\ PostsFit'
  BY <1>1, <1>2, <1>8, <1>9, ServerSame, Parts DEF IInv, DraftsFit, PostsFit
<1>16. SyncedIsComplete'
  <2>1. \A i \in 1..synced : <<ui.thread, i>> \in ui.events
    BY DEF IInv, SyncedIsComplete
  <2>2. \A i \in 1..synced : <<ThreadOf[e], i>> \in ui.events BY <1>3, <2>1
  <2> QED BY <1>1, <1>8, <2>2 DEF SyncedIsComplete
<1> QED BY <1>1, <1>10, <1>11, <1>12, <1>13, <1>14, <1>15, <1>16, ServerSame DEF IInv

LEMMA AnswerBegins ==
  ASSUME IInv, NEW e \in Executions, Answers(e) PROVE IInv'
<1>1. /\ Post("decide", ui, e) /\ ~Pending /\ ~ui.watching /\ ui.thread = ThreadOf[e]
      /\ UNCHANGED <<serverVars, cancelling, reads, draft, synced, disturbed, losses>>
  BY DEF Answers, boundVars
<1>2. /\ main' \in Operation /\ main'.op = "decide" /\ main'.pc = "posted"
      /\ main'.thread = ThreadOf[e] /\ main'.execution = e
      /\ IsScreen(log, ui') /\ ui' \in Screen /\ ui'.watching = FALSE
      /\ ui'.thread = ThreadOf[e] /\ ui'.events = ui.events
      /\ posts' = posts \cup {[op |-> "decide", execution |-> e]}
      /\ posts' \subseteq [op : {"submit", "decide", "resume", "cancel"},
                           execution : Executions]
  BY <1>1, Parts, PostBegins
<1>3. TypeOK' BY <1>1, <1>2, ServerSame DEF IInv, TypeOK, Screen, Operation
<1>4. ScreenFits' BY <1>1, <1>2, ServerSame DEF ScreenFits
<1>5. MainFits' BY <1>2 DEF MainFits, Requesting
<1>6. CancelFits' BY <1>1 DEF IInv, CancelFits
<1>7. ReadsFit'
  <2>1. reads["main"] = Nothing /\ reads["watch"] = Nothing
    BY <1>1, Parts DEF IInv, ReadsFit
  <2> QED BY <1>1, <2>1, ServerSame DEF IInv, ReadsFit
<1>8. DraftsFit' /\ PostsFit'
  BY <1>1, <1>2, ServerSame, Parts DEF IInv, DraftsFit, PostsFit
<1>9. SyncedIsComplete' BY <1>1, <1>2 DEF IInv, SyncedIsComplete
<1> QED BY <1>1, <1>3, <1>4, <1>5, <1>6, <1>7, <1>8, <1>9, ServerSame DEF IInv

LEMMA CancelBegins ==
  ASSUME IInv, NEW e \in Executions, Cancel(e) PROVE IInv'
<1>1. /\ cancelling.pc = "idle" /\ ui.thread = ThreadOf[e]
      /\ cancelling' = [pc |-> "posted", thread |-> ui.thread, execution |-> e]
      /\ posts' = posts \cup {[op |-> "cancel", execution |-> e]} /\ disturbed' = TRUE
      /\ UNCHANGED <<serverVars, ui, main, reads, draft, synced, losses>>
  BY DEF Cancel
<1>2. TypeOK' BY <1>1, Parts, ServerSame DEF IInv, TypeOK
<1>3. ScreenFits' BY <1>1, ServerSame DEF IInv, ScreenFits, Pending
<1>4. MainFits' BY <1>1, ServerSame DEF IInv, MainFits, Requesting, Accepted
<1>5. CancelFits' BY <1>1 DEF CancelFits
<1>6. ReadsFit' BY <1>1, ServerSame DEF IInv, ReadsFit
<1>7. DraftsFit' /\ PostsFit'
  BY <1>1, ServerSame, Parts DEF IInv, DraftsFit, PostsFit
<1>8. SyncedIsComplete' BY <1>1 DEF IInv, SyncedIsComplete
<1> QED BY <1>1, <1>2, <1>3, <1>4, <1>5, <1>6, <1>7, <1>8, ServerSame DEF IInv

-----------------------------------------------------------------------------
(* Steps of the server, and requests that it handles.                        *)

LEMMA ServerStays ==
  ASSUME IInv, UNCHANGED serverVars PROVE ServerMoves
<1>1. \A t \in Threads : Len(log[t]) \in Nat
  BY LenProperties DEF IInv, TypeOK, ServerTypeOK
<1>2. LogGrows BY <1>1, ServerSame DEF LogGrows
<1> QED BY <1>2, ServerSame DEF ServerMoves

LEMMA ReadsSurvive ==
  ASSUME IInv, ServerMoves
  PROVE  /\ \A f \in {"main", "watch"} :
              reads[f] # Nothing => ReadFits(log', work', reads[f])
         /\ reads["cancel"] # Nothing => NumbersFit(log', reads["cancel"])
<1>1. \A f \in Flows : reads[f] # Nothing => reads[f].thread \in Threads /\ reads[f].after \in Nat
  BY DEF IInv, TypeOK, Read
<1>2. ASSUME NEW f \in {"main", "watch"}, reads[f] # Nothing
      PROVE  ReadFits(log', work', reads[f])
  <2>1. ReadFits(log, work, reads[f]) BY <1>2 DEF IInv, ReadsFit
  <2> QED BY <1>1, <1>2, <2>1, ReadStays, Parts DEF Flows
<1>3. ASSUME reads["cancel"] # Nothing PROVE NumbersFit(log', reads["cancel"])
  <2>1. NumbersFit(log, reads["cancel"]) BY <1>3 DEF IInv, ReadsFit
  <2> QED BY <1>1, <1>3, <2>1, ReadStays, Parts DEF Flows
<1> QED BY <1>2, <1>3

(* Nobody but this tab accepts its executions. *)
LEMMA OwnStay ==
  ASSUME IInv, NEW e \in Executions, Deliver(e) \/ Park(e) \/ (e \notin Own /\ Accept(e))
  PROVE  \A x \in Own : Accepted(x)' => Accepted(x)
<1>1. \A x \in Executions : Accepted(x)' => Accepted(x) \/ (x = e /\ Accept(e))
  BY OnlyAccept, Parts
<1>2. CASE e \notin Own BY <1>1, <1>2, Parts
<1>3. CASE e \in Own
  <2>1. Accepted(e)
    <3>1. Deliver(e) \/ Park(e) BY <1>3
    <3>2. CASE Park(e) BY <3>2 DEF Park, InStage
    <3>3. CASE AnnounceParked(e)
      <4>1. PICK i \in 1..Len(LogOf(e)) : LogOf(e)[i].execution = e
        BY <3>3, Parts DEF AnnounceParked, RestFits, Announced
      <4> QED BY <4>1, Parts DEF LogFits, LogOf
    <3>4. CASE Deliver(e) /\ ~AnnounceParked(e)
      BY <3>4 DEF Deliver, AnnounceUser, AskApproval, Pause, AnnounceDecision, GoOn,
                  Complete, CleanUp, AnnounceOutcome, Settle, InStage
    <3> QED BY <3>1, <3>2, <3>3, <3>4
  <2>2. ~Accept(e) BY <2>1 DEF Accept
  <2> QED BY <1>1, <2>2, Parts
<1> QED BY <1>2, <1>3

(* What remains of the invariant when only the server moves, and a request   *)
(* may be gone.                                                              *)
LEMMA OnlyServerMoves ==
  ASSUME IInv, ServerMoves, UNCHANGED <<ui, main, cancelling, reads, draft, synced, disturbed>>,
         posts' \subseteq posts, losses' \in 0..MaxLosses, DraftsFit', PostsFit'
  PROVE  IInv'
<1>1. TypeOK' BY DEF IInv, TypeOK, ServerMoves
<1>2. ScreenFits' BY ScreenStays, Parts DEF IInv, ScreenFits, Pending
<1>3. MainFits'
  <2>1. \A x \in Executions : Accepted(x) => work'[x].status # "unknown"
    BY DEF ServerMoves, Accepted
  <2>2. main.pc = "streaming" => work'[main.execution].status # "unknown"
    BY <2>1 DEF IInv, MainFits, Requesting
  <2> QED BY <2>2 DEF IInv, MainFits, Requesting, Accepted
<1>4. CancelFits' BY DEF IInv, CancelFits
<1>5. ReadsFit' BY ReadsSurvive DEF IInv, ReadsFit
<1>6. SyncedIsComplete' BY DEF IInv, SyncedIsComplete
<1> QED BY <1>1, <1>2, <1>3, <1>4, <1>5, <1>6 DEF IInv, ServerMoves

LEMMA ServerStep ==
  ASSUME IInv, Server PROVE IInv'
<1>1. /\ UNCHANGED <<ui, main, cancelling, reads, posts, draft, synced, disturbed, losses>>
      /\ \E e \in Executions : Deliver(e) \/ Park(e) \/ (e \notin Own /\ Accept(e))
  BY DEF Server, clientVars, boundVars
<1>2. PICK e \in Executions : Deliver(e) \/ Park(e) \/ (e \notin Own /\ Accept(e)) BY <1>1
<1>3. ServerMoves BY <1>2, ServerSteps, Parts
<1>4. \A x \in Own : Accepted(x)' => Accepted(x) BY <1>2, OwnStay
<1>5. losses' \in 0..MaxLosses BY <1>1 DEF IInv, TypeOK
<1>6. DraftsFit'
  <2> SUFFICES ASSUME NEW x \in Own, draft'[x] = "editing"
               PROVE  ~Accepted(x)' /\ [op |-> "submit", execution |-> x] \notin posts'
    BY DEF DraftsFit, Accepted
  <2> QED BY <1>1, <1>4 DEF IInv, DraftsFit
<1>7. PostsFit'
  <2> SUFFICES ASSUME NEW x \in Executions, [op |-> "submit", execution |-> x] \in posts'
               PROVE  x \in Own /\ ~Accepted(x)'
    BY DEF PostsFit, Accepted
  <2> QED BY <1>1, <1>4 DEF IInv, PostsFit
<1> QED BY <1>1, <1>3, <1>5, <1>6, <1>7, OnlyServerMoves

(* cancel asks for the stored events. *)
LEMMA Confirms ==
  ASSUME IInv, cancelling.pc = "posted", Confirm
  PROVE  /\ cancelling' \in [pc : {"idle", "posted", "confirming"},
                             thread : Threads \cup {NoThread},
                             execution : Executions \cup {Nothing}]
         /\ cancelling'.pc = "confirming" /\ cancelling'.thread = cancelling.thread
         /\ cancelling'.execution = cancelling.execution
         /\ reads' \in [Flows -> {Nothing} \cup Read]
         /\ reads'["main"] = reads["main"] /\ reads'["watch"] = reads["watch"]
         /\ reads'["cancel"].thread = cancelling.thread
         /\ \A l : NumbersFit(l, reads'["cancel"])
<1> DEFINE after == IF ui.thread = NoThread THEN 0 ELSE CursorOf(ui)
           r == [thread |-> cancelling.thread, after |-> after,
                 execution |-> cancelling.execution, answer |-> Nothing]
<1>1. /\ cancelling' = [cancelling EXCEPT !.pc = "confirming"]
      /\ reads' = [reads EXCEPT !["cancel"] = r]
  BY Zenon DEF Confirm, Send
<1>2. after \in Nat
  <2>1. CASE ui.thread = NoThread BY <2>1
  <2>2. CASE ui.thread # NoThread
    <3>1. ui.thread \in Threads /\ Len(log[ui.thread]) \in Nat
      BY <2>2, Parts, LenProperties DEF ServerTypeOK
    <3>2. CursorOf(ui) \in 0..Len(log[ui.thread]) BY <3>1, Parts, CursorIs
    <3> QED BY <2>2, <3>1, <3>2
  <2> QED BY <2>1, <2>2
<1>3. cancelling.thread \in Threads /\ cancelling.execution \in Executions
  BY Parts DEF IInv, CancelFits
<1> HIDE DEF after
<1>4. r \in Read /\ r.thread = cancelling.thread /\ r.answer = Nothing
  BY <1>2, <1>3 DEF Read
<1> HIDE DEF r
<1>5. /\ reads' \in [Flows -> {Nothing} \cup Read]
      /\ reads'["main"] = reads["main"] /\ reads'["watch"] = reads["watch"]
      /\ reads'["cancel"] = r
  BY <1>1, <1>4 DEF IInv, TypeOK, Flows
<1>6. /\ cancelling' \in [pc : {"idle", "posted", "confirming"},
                          thread : Threads \cup {NoThread},
                          execution : Executions \cup {Nothing}]
      /\ cancelling'.pc = "confirming" /\ cancelling'.thread = cancelling.thread
      /\ cancelling'.execution = cancelling.execution
  BY <1>1 DEF IInv, TypeOK
<1> QED BY <1>4, <1>5, <1>6 DEF NumbersFit

LEMMA HandledServer ==
  ASSUME IInv, NEW p \in posts, NEW refused \in BOOLEAN, Refused(p) => refused,
         IF refused THEN UNCHANGED serverVars ELSE Effect(p)
  PROVE  /\ ServerMoves /\ p.execution \in Executions
         /\ ~refused => Accepted(p.execution)'
         /\ \A x \in Executions :
              Accepted(x)' => Accepted(x) \/ (p.op = "submit" /\ x = p.execution)
<1> DEFINE e == p.execution
<1>1. e \in Executions /\ p.op \in {"submit", "decide", "resume", "cancel"}
  BY DEF IInv, TypeOK
<1>2. CASE refused
  BY <1>1, <1>2, ServerStays, ServerSame
<1>3. CASE ~refused
  <2>1. \/ p.op = "submit" /\ Accept(e)
        \/ p.op # "submit" /\ Accepted(e) /\ (Decide(e) \/ Wake(e) \/ RequestCancellation(e))
    BY <1>1, <1>3 DEF Refused, Effect
  <2>2. ServerMoves BY <1>1, <2>1, ServerSteps, Parts
  <2>3. \A x \in Executions : Accepted(x)' => Accepted(x) \/ (x = e /\ Accept(e))
    BY <1>1, <2>1, OnlyAccept, Parts
  <2>4. Accept(e) => ~Accepted(e) BY DEF Accept
  <2>5. Accept(e) => Accepted(e)'
    BY <1>1 DEF Accept, Accepted, IInv, TypeOK, ServerTypeOK
  <2> QED BY <1>1, <2>1, <2>2, <2>3, <2>4, <2>5 DEF ServerMoves
<1> QED BY <1>2, <1>3

(* exclusive ends with an error. *)
LEMMA Fails ==
  ASSUME IInv, NEW s, IsScreen(log, s), Fail(s)
  PROVE  /\ main' = Idle /\ main' \in Operation /\ main'.op = "none" /\ main'.pc = "idle"
         /\ IsScreen(log, ui') /\ ui' \in Screen /\ ui'.thread = s.thread
         /\ ui'.events = s.events /\ ui'.watching = s.watching /\ ~ui'.restored
<1>1. s \in Screen BY DEF IsScreen
<1>2. main' = Idle /\ ui' = [s EXCEPT !.restored = FALSE] BY DEF Fail
<1>3. IsScreen(log, [s EXCEPT !.restored = FALSE]) BY Switches
<1>4. main' \in Operation /\ main'.op = "none" /\ main'.pc = "idle"
  BY <1>2 DEF Idle, Operation
<1>5. /\ ui'.thread = s.thread /\ ui'.events = s.events /\ ui'.watching = s.watching
      /\ ~ui'.restored
  BY <1>1, <1>2 DEF Screen
<1> QED BY <1>2, <1>3, <1>4, <1>5, Zenon DEF IsScreen

(* exclusive ends well. *)
LEMMA Succeeds ==
  ASSUME IInv, NEW s, IsScreen(log, s), Succeed(s)
  PROVE  /\ main' = Idle /\ main' \in Operation /\ main'.op = "none" /\ main'.pc = "idle"
         /\ IsScreen(log, ui') /\ ui' \in Screen /\ ui'.thread = s.thread
         /\ ui'.events = s.events /\ (s.watching => ui'.watching)
<1>1. main' = Idle /\ ui' = StartWatching(s, FALSE) BY DEF Succeed
<1>2. main' \in Operation /\ main'.op = "none" /\ main'.pc = "idle"
  BY <1>1 DEF Idle, Operation
<1>3. /\ IsScreen(log, StartWatching(s, FALSE))
      /\ StartWatching(s, FALSE).thread = s.thread
      /\ StartWatching(s, FALSE).events = s.events
      /\ (s.watching => StartWatching(s, FALSE).watching)
  BY Watches
<1> QED BY <1>1, <1>2, <1>3 DEF IsScreen

(* The server refuses what it has to, and may refuse the rest. *)
LEMMA HandleIs ==
  ASSUME IInv, NEW p \in posts, Handle(p)
  PROVE  /\ \E refused \in BOOLEAN : (Refused(p) => refused) /\ Respond(p, refused)
         /\ losses' \in 0..MaxLosses
<1>1. losses' \in 0..MaxLosses
  <2>1. losses' = losses \/ Lose
    <3> HIDE DEF Lose
    <3> QED BY DEF Handle
  <2>2. losses \in 0..MaxLosses BY DEF IInv, TypeOK
  <2> QED BY <2>1, <2>2, SessionAssumption DEF Lose
<1>2. CASE Respond(p, TRUE) BY <1>1, <1>2
<1>3. CASE Respond(p, Refused(p)) /\ Refused(p)
  <2>1. Respond(p, TRUE) BY <1>3, Zenon DEF Respond
  <2> QED BY <1>1, <2>1
<1>4. CASE Respond(p, Refused(p)) /\ ~Refused(p)
  <2>1. Respond(p, FALSE) BY <1>4, Zenon DEF Respond
  <2> QED BY <1>1, <1>4, <2>1
<1> QED BY <1>2, <1>3, <1>4 DEF Handle

(* What an answered request does to the operation that waits for it. *)
LEMMA HandledMain ==
  ASSUME IInv, NEW p \in posts, NEW refused \in BOOLEAN, Respond(p, refused)
  PROVE  /\ main' \in Operation /\ IsScreen(log, ui') /\ ui' \in Screen
         /\ ui'.thread = ui.thread /\ ui'.events = ui.events /\ ui'.watching = ui.watching
         /\ draft' \in [Own -> {"editing", "sent", "cleared", "kept"}]
         /\ \A e \in Own : draft'[e] = draft[e] \/ draft'[e] = "kept"
         /\ \/ main' = main /\ draft' = draft
            \/ main'.op = "none" /\ main'.pc = "idle" /\ main.pc = "posted"
            \/ /\ main.pc = "posted" /\ main'.pc = "streaming" /\ draft' = draft
               /\ main'.op = main.op /\ main'.thread = main.thread
               /\ main'.execution = main.execution
               /\ p.execution = main.execution /\ ~refused
<1>1. main \in Operation /\ draft \in [Own -> {"editing", "sent", "cleared", "kept"}]
  BY DEF IInv, TypeOK, Operation
<1>2. CASE ~Waits(p)
  <2>1. UNCHANGED <<main, ui, draft>> BY <1>2 DEF Respond
  <2> QED BY <1>1, <2>1, Parts
<1>3. CASE Waits(p) /\ refused
  <2>1. /\ Fail(ui) /\ main.pc = "posted" /\ main.op = p.op /\ main.execution = p.execution
        /\ draft' = IF p.op = "submit" THEN [draft EXCEPT ![p.execution] = "kept"] ELSE draft
    BY <1>3 DEF Respond, TakeRefusal, Waits
  <2>2. /\ draft' \in [Own -> {"editing", "sent", "cleared", "kept"}]
        /\ \A e \in Own : draft'[e] = draft[e] \/ draft'[e] = "kept"
    BY <1>1, <2>1
  <2> QED BY <2>1, <2>2, Fails, Parts
<1>4. CASE Waits(p) /\ ~refused
  <2>1. /\ main' = [main EXCEPT !.pc = "streaming", !.position = FollowFrom(p)]
        /\ UNCHANGED <<ui, draft>> /\ main.pc = "posted" /\ main.execution = p.execution
    BY <1>4 DEF Respond, Waits
  <2>2. FollowFrom(p) \in Nat
    <3>1. p.execution \in Executions BY DEF IInv, TypeOK
    <3>2. LogOf(p.execution) \in Seq(Event) BY <3>1, Parts DEF ServerTypeOK, LogOf
    <3> QED BY <3>2, LenProperties DEF FollowFrom
  <2>3. main' \in Operation
    <3> PICK n \in Nat : n = FollowFrom(p) BY <2>2
    <3>1. main' = [main EXCEPT !.pc = "streaming", !.position = n] BY <2>1
    <3> QED BY <1>1, <3>1, Zenon DEF Operation
  <2>4. /\ main'.pc = "streaming" /\ main'.op = main.op /\ main'.thread = main.thread
        /\ main'.execution = main.execution
    BY <1>1, <2>1 DEF Operation
  <2> QED BY <1>1, <1>4, <2>1, <2>3, <2>4, Parts
<1> QED BY <1>2, <1>3, <1>4

LEMMA RequestHandled ==
  ASSUME IInv, NEW p \in posts, Handle(p) PROVE IInv'
<1> PICK refused \in BOOLEAN : (Refused(p) => refused) /\ Respond(p, refused) BY HandleIs
<1>1. /\ posts' = posts \ {p} /\ UNCHANGED synced /\ losses' \in 0..MaxLosses
      /\ disturbed' = (disturbed \/ ~(Waits(p) \/ CancelWaits(p)))
      /\ IF refused THEN UNCHANGED serverVars ELSE Effect(p)
      /\ IF CancelWaits(p) THEN Confirm ELSE UNCHANGED <<cancelling, reads>>
  BY HandleIs DEF Respond
<1>2. /\ ServerMoves /\ p.execution \in Executions
      /\ ~refused => Accepted(p.execution)'
      /\ \A x \in Executions :
           Accepted(x)' => Accepted(x) \/ (p.op = "submit" /\ x = p.execution)
  BY <1>1, HandledServer
<1> DEFINE MainMoves ==
      \/ main' = main /\ draft' = draft
      \/ main'.op = "none" /\ main'.pc = "idle" /\ main.pc = "posted"
      \/ /\ main.pc = "posted" /\ main'.pc = "streaming" /\ draft' = draft
         /\ main'.op = main.op /\ main'.thread = main.thread
         /\ main'.execution = main.execution
         /\ p.execution = main.execution /\ ~refused
<1>3. /\ main' \in Operation /\ IsScreen(log, ui') /\ ui' \in Screen
      /\ ui'.thread = ui.thread /\ ui'.events = ui.events /\ ui'.watching = ui.watching
      /\ draft' \in [Own -> {"editing", "sent", "cleared", "kept"}]
      /\ \A e \in Own : draft'[e] = draft[e] \/ draft'[e] = "kept"
      /\ MainMoves
  BY HandledMain
<1>4. /\ cancelling' \in [pc : {"idle", "posted", "confirming"},
                          thread : Threads \cup {NoThread},
                          execution : Executions \cup {Nothing}]
      /\ reads' \in [Flows -> {Nothing} \cup Read]
      /\ reads'["main"] = reads["main"] /\ reads'["watch"] = reads["watch"]
      /\ \/ cancelling' = cancelling /\ reads'["cancel"] = reads["cancel"]
         \/ /\ cancelling.pc = "posted" /\ cancelling'.pc = "confirming"
            /\ cancelling'.thread = cancelling.thread
            /\ cancelling'.execution = cancelling.execution
            /\ reads'["cancel"].thread = cancelling.thread
            /\ NumbersFit(log', reads'["cancel"])
  <2>1. CASE CancelWaits(p)
    <3>1. cancelling.pc = "posted" /\ Confirm BY <1>1, <2>1 DEF CancelWaits
    <3> QED BY <3>1, Confirms
  <2>2. CASE ~CancelWaits(p)
    BY <1>1, <2>2 DEF IInv, TypeOK
  <2> QED BY <2>1, <2>2
<1>5. TypeOK'
  <2>1. disturbed' \in BOOLEAN BY <1>1 DEF Waits, CancelWaits, IInv, TypeOK
  <2> HIDE DEF MainMoves
  <2> QED BY <1>1, <1>2, <1>3, <1>4, <2>1
          DEF IInv, TypeOK, ServerMoves, Screen, Operation
<1>6. ScreenFits'
  <2>1. IsScreen(log', ui')
    <3> PICK s : s = ui' OBVIOUS
    <3> QED BY <1>2, <1>3, ScreenStays, Parts
  <2>2. ui'.watching => main'.op = "none"
    BY <1>3 DEF IInv, ScreenFits, MainFits, Pending
  <2> QED BY <2>1, <2>2 DEF ScreenFits, Pending
<1>7. MainFits'
  <2>1. \A x \in Executions : Accepted(x) => work'[x].status # "unknown"
    BY <1>2 DEF ServerMoves, Accepted
  <2>2. CASE main' = main /\ draft' = draft
    BY <1>3, <2>1, <2>2 DEF IInv, MainFits, Requesting, Accepted
  <2>3. CASE main'.op = "none" /\ main'.pc = "idle" /\ main.pc = "posted"
    BY <2>3 DEF MainFits, Requesting
  <2>4. CASE /\ main.pc = "posted" /\ main'.pc = "streaming" /\ draft' = draft
             /\ main'.op = main.op /\ main'.thread = main.thread
             /\ main'.execution = main.execution
             /\ p.execution = main.execution /\ ~refused
    <3>1. work'[main'.execution].status # "unknown" BY <1>2, <2>4 DEF Accepted
    <3> QED BY <1>3, <2>4, <3>1 DEF IInv, MainFits, Requesting, Accepted
  <2> QED BY <1>3, <2>2, <2>3, <2>4
<1>8. CancelFits' BY <1>4 DEF IInv, CancelFits
<1>9. ReadsFit'
  <2>1. reads["main"] # Nothing => main' = main BY <1>3 DEF IInv, ReadsFit
  <2>2. \A r : PrefixShown(ui, r) => PrefixShown(ui', r) BY <1>3 DEF PrefixShown
  <2>3. reads'["main"] # Nothing =>
          /\ ReadFits(log', work', reads'["main"])
          /\ \/ main'.pc = "reading" /\ reads'["main"].thread = main'.thread
                  /\ reads'["main"].after = 0
             \/ main'.pc = "recovering" /\ PrefixShown(ui', reads'["main"])
                  /\ (main'.op # "decide" => reads'["main"].execution = main'.execution)
    BY <1>2, <1>4, <2>1, <2>2, ReadsSurvive DEF IInv, ReadsFit
  <2>4. reads'["watch"] # Nothing =>
          /\ ReadFits(log', work', reads'["watch"]) /\ ui'.watching
          /\ PrefixShown(ui', reads'["watch"])
    BY <1>2, <1>3, <1>4, <2>2, ReadsSurvive DEF IInv, ReadsFit
  <2>5. reads'["cancel"] # Nothing =>
          /\ NumbersFit(log', reads'["cancel"])
          /\ cancelling'.pc = "confirming" /\ reads'["cancel"].thread = cancelling'.thread
    BY <1>2, <1>4, ReadsSurvive DEF IInv, ReadsFit
  <2> QED BY <2>3, <2>4, <2>5 DEF ReadsFit
<1>10. DraftsFit'
  <2> SUFFICES ASSUME NEW x \in Own, draft'[x] = "editing"
               PROVE  ~Accepted(x)' /\ [op |-> "submit", execution |-> x] \notin posts'
    BY DEF DraftsFit, Accepted
  <2>1. ~Accepted(x) /\ [op |-> "submit", execution |-> x] \notin posts
    BY <1>3 DEF IInv, DraftsFit
  <2>2. p \in [op : {"submit", "decide", "resume", "cancel"}, execution : Executions]
    BY DEF IInv, TypeOK
  <2>3. ~(p.op = "submit" /\ p.execution = x) BY <2>1, <2>2
  <2> QED BY <1>1, <1>2, <2>1, <2>3, Parts
<1>11. PostsFit'
  <2> SUFFICES ASSUME NEW x \in Executions, [op |-> "submit", execution |-> x] \in posts'
               PROVE  x \in Own /\ ~Accepted(x)'
    BY DEF PostsFit, Accepted
  <2>1. p \in [op : {"submit", "decide", "resume", "cancel"}, execution : Executions]
    BY DEF IInv, TypeOK
  <2>2. ~(p.op = "submit" /\ p.execution = x) BY <1>1, <2>1
  <2> QED BY <1>1, <1>2, <2>2 DEF IInv, PostsFit
<1>12. SyncedIsComplete' BY <1>1, <1>3 DEF IInv, SyncedIsComplete
<1> QED BY <1>2, <1>5, <1>6, <1>7, <1>8, <1>9, <1>10, <1>11, <1>12 DEF IInv, ServerMoves

(* A submission is accepted and its answer is still to come. *)
LEMMA AcceptanceFails ==
  ASSUME IInv, NEW p \in posts, AcceptThenFail(p) PROVE IInv'
<1>1. /\ p.op = "submit" /\ Accept(p.execution) /\ posts' = posts \ {p}
      /\ losses < MaxLosses /\ losses' = losses + 1
      /\ UNCHANGED <<ui, main, cancelling, reads, draft, synced, disturbed>>
  BY DEF AcceptThenFail, Lose
<1>2. p \in [op : {"submit", "decide", "resume", "cancel"}, execution : Executions]
  BY DEF IInv, TypeOK
<1> PICK e \in Executions : e = p.execution BY <1>2
<1>3. p = [op |-> "submit", execution |-> e] BY <1>1, <1>2
<1>4. ServerMoves BY <1>1, ServerSteps, Parts
<1>5. \A x \in Executions : Accepted(x)' => Accepted(x) \/ x = e
  BY <1>1, OnlyAccept, Parts
<1>6. losses' \in 0..MaxLosses BY <1>1, SessionAssumption DEF IInv, TypeOK
<1>7. DraftsFit'
  <2> SUFFICES ASSUME NEW x \in Own, draft'[x] = "editing"
               PROVE  ~Accepted(x)' /\ [op |-> "submit", execution |-> x] \notin posts'
    BY DEF DraftsFit, Accepted
  <2>1. ~Accepted(x) /\ [op |-> "submit", execution |-> x] \notin posts
    BY <1>1 DEF IInv, DraftsFit
  <2>2. x # e BY <1>3, <2>1
  <2> QED BY <1>1, <1>5, <2>1, <2>2, Parts
<1>8. PostsFit'
  <2> SUFFICES ASSUME NEW x \in Executions, [op |-> "submit", execution |-> x] \in posts'
               PROVE  x \in Own /\ ~Accepted(x)'
    BY DEF PostsFit, Accepted
  <2>1. x # e BY <1>1, <1>3
  <2> QED BY <1>1, <1>5, <2>1 DEF IInv, PostsFit
<1> QED BY <1>1, <1>4, <1>6, <1>7, <1>8, OnlyServerMoves

-----------------------------------------------------------------------------
(* Losses, and reads that begin or are answered.                             *)

LEMMA PostLost ==
  ASSUME IInv, LosePost PROVE IInv'
<1>1. /\ losses < MaxLosses /\ losses' = losses + 1
      /\ UNCHANGED <<serverVars, ui, draft, synced, disturbed>>
      /\ posts' \subseteq posts
  BY DEF LosePost, Lose
<1>2. losses' \in 0..MaxLosses BY <1>1, SessionAssumption DEF IInv, TypeOK
<1>3. /\ main' \in Operation
      /\ \/ main' = main
         \/ /\ main.pc = "posted" /\ main'.pc = "recovering" /\ main'.op = main.op
            /\ main'.thread = main.thread /\ main'.execution = main.execution
  <2>1. main \in Operation BY DEF IInv, TypeOK, Operation
  <2>2. main' = main \/ (main.pc = "posted" /\ main' = [main EXCEPT !.pc = "recovering"])
    BY DEF LosePost
  <2> QED BY <2>1, <2>2 DEF Operation
<1>4. /\ cancelling' \in [pc : {"idle", "posted", "confirming"},
                          thread : Threads \cup {NoThread},
                          execution : Executions \cup {Nothing}]
      /\ reads' \in [Flows -> {Nothing} \cup Read]
      /\ reads'["main"] = reads["main"] /\ reads'["watch"] = reads["watch"]
      /\ \/ cancelling' = cancelling /\ reads'["cancel"] = reads["cancel"]
         \/ /\ cancelling.pc = "posted" /\ cancelling'.pc = "confirming"
            /\ cancelling'.thread = cancelling.thread
            /\ cancelling'.execution = cancelling.execution
            /\ reads'["cancel"].thread = cancelling.thread
            /\ NumbersFit(log, reads'["cancel"])
  <2>1. CASE cancelling.pc = "posted" /\ Confirm BY <2>1, Confirms
  <2>2. CASE UNCHANGED <<cancelling, reads>> BY <2>2 DEF IInv, TypeOK
  <2> QED BY <2>1, <2>2 DEF LosePost
<1>5. TypeOK'
  BY <1>1, <1>2, <1>3, <1>4, ServerSame DEF IInv, TypeOK, Operation
<1>6. ScreenFits'
  <2>1. ui.watching => main'.op = "none" BY <1>3 DEF IInv, ScreenFits, Pending
  <2> QED BY <1>1, <2>1, ServerSame DEF IInv, ScreenFits, Pending
<1>7. MainFits'
  <2>1. CASE main' = main
    BY <1>1, <2>1, ServerSame DEF IInv, MainFits, Requesting, Accepted
  <2>2. CASE /\ main.pc = "posted" /\ main'.pc = "recovering" /\ main'.op = main.op
             /\ main'.thread = main.thread /\ main'.execution = main.execution
    BY <1>1, <2>2 DEF IInv, MainFits, Requesting
  <2> QED BY <1>3, <2>1, <2>2
<1>8. CancelFits' BY <1>4 DEF IInv, CancelFits
<1>9. ReadsFit'
  <2>1. reads["main"] # Nothing => main' = main BY <1>3 DEF IInv, ReadsFit
  <2>2. reads'["main"] # Nothing =>
          /\ ReadFits(log, work, reads'["main"])
          /\ \/ main'.pc = "reading" /\ reads'["main"].thread = main'.thread
                  /\ reads'["main"].after = 0
             \/ main'.pc = "recovering" /\ PrefixShown(ui, reads'["main"])
                  /\ (main'.op # "decide" => reads'["main"].execution = main'.execution)
    BY <1>4, <2>1 DEF IInv, ReadsFit
  <2>3. reads'["watch"] # Nothing =>
          /\ ReadFits(log, work, reads'["watch"]) /\ ui.watching
          /\ PrefixShown(ui, reads'["watch"])
    BY <1>4 DEF IInv, ReadsFit
  <2>4. reads'["cancel"] # Nothing =>
          /\ NumbersFit(log, reads'["cancel"])
          /\ cancelling'.pc = "confirming" /\ reads'["cancel"].thread = cancelling'.thread
    BY <1>4 DEF IInv, ReadsFit
  <2> QED BY <1>1, <2>2, <2>3, <2>4, ServerSame DEF ReadsFit
<1>10. DraftsFit' /\ PostsFit'
  BY <1>1, ServerSame, Parts DEF IInv, DraftsFit, PostsFit
<1>11. SyncedIsComplete' BY <1>1 DEF IInv, SyncedIsComplete
<1> QED BY <1>1, <1>5, <1>6, <1>7, <1>8, <1>9, <1>10, <1>11, ServerSame DEF IInv

LEMMA StreamEnded ==
  ASSUME IInv, StreamEnds PROVE IInv'
<1>1. /\ main.pc = "streaming" /\ main' = [main EXCEPT !.pc = "recovering"]
      /\ UNCHANGED losses \/ (losses < MaxLosses /\ losses' = losses + 1)
      /\ UNCHANGED <<serverVars, ui, cancelling, reads, posts, draft, synced, disturbed>>
  BY DEF StreamEnds, Lose
<1>2. losses' \in 0..MaxLosses BY <1>1, SessionAssumption DEF IInv, TypeOK
<1>3. /\ main' \in Operation /\ main'.pc = "recovering" /\ main'.op = main.op
      /\ main'.thread = main.thread /\ main'.execution = main.execution
  BY <1>1 DEF IInv, TypeOK, Operation
<1>4. TypeOK' BY <1>1, <1>2, <1>3, ServerSame DEF IInv, TypeOK, Operation
<1>5. ScreenFits' BY <1>1, <1>3, ServerSame DEF IInv, ScreenFits, Pending
<1>6. MainFits' BY <1>1, <1>3 DEF IInv, MainFits, Requesting
<1>7. CancelFits' BY <1>1 DEF IInv, CancelFits
<1>8. ReadsFit' BY <1>1, ServerSame DEF IInv, ReadsFit
<1>9. DraftsFit' /\ PostsFit'
  BY <1>1, ServerSame, Parts DEF IInv, DraftsFit, PostsFit
<1>10. SyncedIsComplete' BY <1>1 DEF IInv, SyncedIsComplete
<1> QED BY <1>1, <1>4, <1>5, <1>6, <1>7, <1>8, <1>9, <1>10, ServerSame DEF IInv

(* A read after the cursor. *)
LEMMA CursorRead ==
  ASSUME IInv, NEW f \in {"main", "watch"}, ui.thread \in Threads,
         NEW e \in Executions \cup {Nothing}, Send(f, ui.thread, CursorOf(ui), e)
  PROVE  /\ reads' \in [Flows -> {Nothing} \cup Read]
         /\ \A g \in Flows \ {f} : reads'[g] = reads[g]
         /\ ReadFits(log, work, reads'[f]) /\ PrefixShown(ui, reads'[f])
         /\ reads'[f].execution = e
<1> DEFINE r == [thread |-> ui.thread, after |-> CursorOf(ui), execution |-> e,
                 answer |-> Nothing]
<1>1. /\ CursorOf(ui) \in 0..Len(log[ui.thread])
      /\ \A i \in 1..CursorOf(ui) : <<ui.thread, i>> \in ui.events
  BY CursorIs, Parts
<1>2. reads' = [reads EXCEPT ![f] = r] BY Zenon DEF Send
<1>3. Len(log[ui.thread]) \in Nat BY Parts, LenProperties DEF ServerTypeOK
<1> PICK t \in Threads : t = ui.thread OBVIOUS
<1> PICK n \in Nat : n = CursorOf(ui) BY <1>1, <1>3
<1>4. r = [thread |-> t, after |-> n, execution |-> e, answer |-> Nothing] OBVIOUS
<1> HIDE DEF r
<1>5. /\ r \in Read /\ ReadFits(log, work, r) /\ r.execution = e
      /\ r.thread = t /\ r.after = n
  BY <1>1, <1>4, ReadBegins
<1>6. PrefixShown(ui, r) BY <1>1, <1>5 DEF PrefixShown
<1>7. /\ reads' \in [Flows -> {Nothing} \cup Read] /\ reads'[f] = r
      /\ \A g \in Flows \ {f} : reads'[g] = reads[g]
  BY <1>2, <1>5 DEF IInv, TypeOK, Flows
<1> QED BY <1>5, <1>6, <1>7

LEMMA RecoveryBegins ==
  ASSUME IInv, SendRecovery PROVE IInv'
<1> DEFINE e == IF main.op = "decide" THEN Nothing ELSE main.execution
<1>1. /\ main.pc = "recovering" /\ Send("main", ui.thread, CursorOf(ui), e)
      /\ UNCHANGED <<serverVars, ui, main, cancelling, posts, draft, synced,
                     disturbed, losses>>
  BY DEF SendRecovery, boundVars
<1>2. ui.thread \in Threads /\ e \in Executions \cup {Nothing}
  BY <1>1, Parts DEF IInv, MainFits, Requesting
<1>3. main.op # "decide" => e = main.execution OBVIOUS
<1> HIDE DEF e
<1>4. /\ reads' \in [Flows -> {Nothing} \cup Read]
      /\ reads'["watch"] = reads["watch"] /\ reads'["cancel"] = reads["cancel"]
      /\ ReadFits(log, work, reads'["main"]) /\ PrefixShown(ui, reads'["main"])
      /\ reads'["main"].execution = e
  BY <1>1, <1>2, CursorRead DEF Flows
<1>5. TypeOK' BY <1>1, <1>4, ServerSame DEF IInv, TypeOK
<1>6. ScreenFits' BY <1>1, ServerSame DEF IInv, ScreenFits, Pending
<1>7. MainFits' BY <1>1, ServerSame DEF IInv, MainFits, Requesting, Accepted
<1>8. CancelFits' BY <1>1 DEF IInv, CancelFits
<1>9. ReadsFit' BY <1>1, <1>3, <1>4, ServerSame DEF IInv, ReadsFit
<1>10. DraftsFit' /\ PostsFit'
  BY <1>1, ServerSame, Parts DEF IInv, DraftsFit, PostsFit
<1>11. SyncedIsComplete' BY <1>1 DEF IInv, SyncedIsComplete
<1> QED BY <1>1, <1>5, <1>6, <1>7, <1>8, <1>9, <1>10, <1>11, ServerSame DEF IInv

LEMMA WatchBegins ==
  ASSUME IInv, Watch PROVE IInv'
<1>1. /\ ui.watching /\ Send("watch", ui.thread, CursorOf(ui), Nothing)
      /\ UNCHANGED <<serverVars, ui, main, cancelling, posts, draft, synced,
                     disturbed, losses>>
  BY DEF Watch, boundVars
<1>2. ui.thread \in Threads BY <1>1, Parts DEF IsScreen
<1>3. /\ reads' \in [Flows -> {Nothing} \cup Read]
      /\ reads'["main"] = reads["main"] /\ reads'["cancel"] = reads["cancel"]
      /\ ReadFits(log, work, reads'["watch"]) /\ PrefixShown(ui, reads'["watch"])
  BY <1>1, <1>2, CursorRead DEF Flows
<1>4. TypeOK' BY <1>1, <1>3, ServerSame DEF IInv, TypeOK
<1>5. ScreenFits' BY <1>1, ServerSame DEF IInv, ScreenFits, Pending
<1>6. MainFits' BY <1>1, ServerSame DEF IInv, MainFits, Requesting, Accepted
<1>7. CancelFits' BY <1>1 DEF IInv, CancelFits
<1>8. ReadsFit' BY <1>1, <1>3, ServerSame DEF IInv, ReadsFit
<1>9. DraftsFit' /\ PostsFit'
  BY <1>1, ServerSame, Parts DEF IInv, DraftsFit, PostsFit
<1>10. SyncedIsComplete' BY <1>1 DEF IInv, SyncedIsComplete
<1> QED BY <1>1, <1>4, <1>5, <1>6, <1>7, <1>8, <1>9, <1>10, ServerSame DEF IInv

(* progress_snapshot answers with a part of the log, and says that nothing   *)
(* is active only when an event tells of every accepted execution.           *)
LEMMA SnapshotFits ==
  ASSUME ServerFits, NEW r, r \in Read, NEW r2,
         r2 = [r EXCEPT !.answer = Snapshot(r.thread, r.after, r.execution)]
  PROVE  /\ r2 \in Read /\ NumbersFit(log, r2)
         /\ r2.thread = r.thread /\ r2.after = r.after /\ r2.execution = r.execution
         /\ ReadFits(log, work, r) => ReadFits(log, work, r2)
<1>1. r.thread \in Threads /\ r.after \in Nat BY DEF Read
<1> PICK t \in Threads : t = r.thread BY <1>1
<1> PICK e : e = r.execution OBVIOUS
<1> DEFINE answer == Snapshot(t, r.after, e)
<1>2. Len(log[t]) \in Nat BY LenProperties DEF ServerFits, ServerTypeOK
<1>3. /\ answer.events = (r.after + 1)..Len(log[t]) /\ answer.active = Active(t)
      /\ answer.accepted = (e \in Executions /\ Accepted(e))
  BY DEF Snapshot
<1>4. answer \in [events : SUBSET Nat, active : BOOLEAN, accepted : BOOLEAN,
                  decided : SUBSET Executions]
  <2>1. (r.after + 1)..Len(log[t]) \in SUBSET Nat BY <1>1, <1>2
  <2>2. {x \in Executions : work[x].decided} \in SUBSET Executions OBVIOUS
  <2>3. Active(t) \in BOOLEAN BY DEF Active
  <2>4. (e \in Executions /\ Accepted(e)) \in BOOLEAN OBVIOUS
  <2> QED BY <2>1, <2>2, <2>3, <2>4, Zenon DEF Snapshot
<1> HIDE DEF answer
<1>5. r2 = [r EXCEPT !.answer = answer] BY DEF answer
<1>6. /\ r2.thread = t /\ r2.after = r.after /\ r2.execution = e /\ r2.answer = answer
  BY <1>5 DEF Read
<1>7. r2 \in Read
  <2>1. answer \in {Nothing} \cup [events : SUBSET Nat, active : BOOLEAN,
                                   accepted : BOOLEAN, decided : SUBSET Executions]
    BY <1>4
  <2> QED BY <1>5, <2>1, Zenon DEF Read
<1>8. NumbersFit(log, r2) BY <1>1, <1>2, <1>3, <1>6 DEF NumbersFit
<1>9. ASSUME ReadFits(log, work, r) PROVE ReadFits(log, work, r2)
  <2>1. r.after \in 0..Len(log[t]) BY <1>9 DEF ReadFits
  <2>2. answer.accepted => e \in Executions /\ work[e].status # "unknown"
    BY <1>3 DEF Accepted
  <2>3. ASSUME answer.accepted, ~answer.active, ThreadOf[e] = t
        PROVE  \E i \in 1..Len(log[t]) : log[t][i].execution = e
    <3>1. e \in Executions /\ Accepted(e) /\ ~Active(t) BY <1>3, <2>3
    <3>2. work[e].settled \/ work[e].blocked BY <2>3, <3>1 DEF Active
    <3> QED BY <2>3, <3>1, <3>2 DEF ServerFits, RestFits, Announced, LogOf
  <2>4. AnswerFits(log, work, r2)
    <3>1. Len(log[t]) \in r.after..Len(log[t]) BY <1>1, <1>2, <2>1
    <3> QED BY <1>3, <1>6, <2>2, <2>3, <3>1 DEF AnswerFits
  <2> QED BY <1>6, <2>1, <2>4 DEF ReadFits
<1> QED BY <1>6, <1>7, <1>8, <1>9

LEMMA ReadServed ==
  ASSUME IInv, NEW f \in Flows, Serve(f) PROVE IInv'
<1>1. /\ reads[f] # Nothing
      /\ reads' = [reads EXCEPT ![f].answer =
                     Snapshot(reads[f].thread, reads[f].after, reads[f].execution)]
      /\ UNCHANGED <<serverVars, ui, main, cancelling, posts, draft, synced,
                     disturbed, losses>>
  BY DEF Serve, boundVars
<1>2. reads \in [Flows -> {Nothing} \cup Read] /\ reads[f] \in Read
  BY <1>1 DEF IInv, TypeOK
<1> PICK r \in Read : r = reads[f] BY <1>2
<1> PICK r2 : r2 = [r EXCEPT !.answer = Snapshot(r.thread, r.after, r.execution)] OBVIOUS
<1>3. /\ r2 \in Read /\ NumbersFit(log, r2)
      /\ r2.thread = r.thread /\ r2.after = r.after /\ r2.execution = r.execution
      /\ ReadFits(log, work, r) => ReadFits(log, work, r2)
  BY SnapshotFits, Parts
<1>4. /\ reads' = [reads EXCEPT ![f] = r2]
  BY <1>1, <1>2
<1>5. /\ reads' \in [Flows -> {Nothing} \cup Read] /\ reads'[f] = r2
      /\ \A g \in Flows \ {f} : reads'[g] = reads[g]
  BY <1>2, <1>3, <1>4
<1>6. PrefixShown(ui, r) => PrefixShown(ui, r2) BY <1>3 DEF PrefixShown
<1>7. TypeOK' BY <1>1, <1>5, ServerSame DEF IInv, TypeOK
<1>8. ScreenFits' BY <1>1, ServerSame DEF IInv, ScreenFits, Pending
<1>9. MainFits' BY <1>1, ServerSame DEF IInv, MainFits, Requesting, Accepted
<1>10. CancelFits' BY <1>1 DEF IInv, CancelFits
<1>11. ReadsFit'
  <2>1. reads'["main"] # Nothing =>
          /\ ReadFits(log, work, reads'["main"])
          /\ \/ main.pc = "reading" /\ reads'["main"].thread = main.thread
                  /\ reads'["main"].after = 0
             \/ main.pc = "recovering" /\ PrefixShown(ui, reads'["main"])
                  /\ (main.op # "decide" => reads'["main"].execution = main.execution)
    <3>1. CASE f = "main" BY <1>1, <1>3, <1>5, <1>6, <3>1 DEF IInv, ReadsFit
    <3>2. CASE f # "main" BY <1>5, <3>2 DEF IInv, ReadsFit, Flows
    <3> QED BY <3>1, <3>2
  <2>2. reads'["watch"] # Nothing =>
          ReadFits(log, work, reads'["watch"]) /\ ui.watching /\ PrefixShown(ui, reads'["watch"])
    <3>1. CASE f = "watch" BY <1>1, <1>3, <1>5, <1>6, <3>1 DEF IInv, ReadsFit
    <3>2. CASE f # "watch" BY <1>5, <3>2 DEF IInv, ReadsFit, Flows
    <3> QED BY <3>1, <3>2
  <2>3. reads'["cancel"] # Nothing =>
          /\ NumbersFit(log, reads'["cancel"])
          /\ cancelling.pc = "confirming" /\ reads'["cancel"].thread = cancelling.thread
    <3>1. CASE f = "cancel" BY <1>1, <1>3, <1>5, <3>1 DEF IInv, ReadsFit
    <3>2. CASE f # "cancel" BY <1>5, <3>2 DEF IInv, ReadsFit, Flows
    <3> QED BY <3>1, <3>2
  <2> QED BY <1>1, <2>1, <2>2, <2>3, ServerSame DEF ReadsFit
<1>12. DraftsFit' /\ PostsFit'
  BY <1>1, ServerSame, Parts DEF IInv, DraftsFit, PostsFit
<1>13. SyncedIsComplete' BY <1>1 DEF IInv, SyncedIsComplete
<1> QED BY <1>1, <1>7, <1>8, <1>9, <1>10, <1>11, <1>12, <1>13, ServerSame DEF IInv

-----------------------------------------------------------------------------
(* Streams and answers that arrive.                                          *)

(* While an operation is under way the watcher asks for nothing. *)
LEMMA PendingIsAlone ==
  ASSUME IInv, main.op # "none" PROVE ~ui.watching /\ reads["watch"] = Nothing
BY DEF IInv, ScreenFits, ReadsFit, Pending

(* What remains of the invariant when the operation has ended: nothing but   *)
(* the drafts, the screen and the reads of the others.                       *)
LEMMA OperationOver ==
  ASSUME IInv, main.op # "none", main'.op = "none", main'.pc = "idle", main' \in Operation,
         IsScreen(log, ui'), ui' \in Screen,
         UNCHANGED <<serverVars, cancelling, disturbed>>,
         posts' = posts, losses' \in 0..MaxLosses, synced' \in Nat,
         reads' = [reads EXCEPT !["main"] = Nothing],
         draft' \in [Own -> {"editing", "sent", "cleared", "kept"}],
         \A e \in Own : draft'[e] = "editing" => draft[e] = "editing",
         SyncedIsComplete'
  PROVE  IInv'
<1>1. reads["watch"] = Nothing BY PendingIsAlone
<1>2. /\ reads' \in [Flows -> {Nothing} \cup Read] /\ reads'["main"] = Nothing
      /\ reads'["watch"] = Nothing /\ reads'["cancel"] = reads["cancel"]
  BY <1>1 DEF IInv, TypeOK, Flows
<1>3. TypeOK' BY <1>2, ServerSame DEF IInv, TypeOK, Screen, Operation
<1>4. ScreenFits' BY ServerSame DEF ScreenFits, Pending
<1>5. MainFits' BY DEF MainFits, Requesting
<1>6. CancelFits' BY DEF IInv, CancelFits
<1>7. ReadsFit' BY <1>2, ServerSame DEF IInv, ReadsFit
<1>8. DraftsFit' BY ServerSame, Parts DEF IInv, DraftsFit
<1>9. PostsFit' BY ServerSame DEF IInv, PostsFit
<1> QED BY <1>3, <1>4, <1>5, <1>6, <1>7, <1>8, <1>9, ServerSame DEF IInv

(* The end of sendProgress: nothing of the screen is lost, and the text of   *)
(* the submission is judged.                                                 *)
Over(s) ==
    /\ main'.op = "none" /\ main'.pc = "idle" /\ main' \in Operation
    /\ IsScreen(log, ui') /\ ui' \in Screen
    /\ ui'.thread = s.thread /\ ui'.events = s.events
Judged(verdict) ==
    /\ draft' \in [Own -> {"editing", "sent", "cleared", "kept"}]
    /\ \A e \in Own : \/ draft'[e] = draft[e]
                      \/ main.op = "submit" /\ e = main.execution /\ draft'[e] = verdict

LEMMA ProgressEnds ==
  ASSUME IInv, NEW s, IsScreen(log, s), NEW verdict \in {"cleared", "kept"},
         Succeed(s) \/ Fail(s),
         draft' = IF main.op # "submit" THEN draft
                  ELSE [draft EXCEPT ![main.execution] = verdict]
  PROVE  Over(s) /\ Judged(verdict)
<1>1. Over(s)
  <2>1. CASE Succeed(s) BY <2>1, Succeeds DEF Over
  <2>2. CASE Fail(s) BY <2>2, Fails DEF Over
  <2> QED BY <2>1, <2>2
<1>2. draft \in [Own -> {"editing", "sent", "cleared", "kept"}]
  BY DEF IInv, TypeOK
<1>3. draft' \in [Own -> {"editing", "sent", "cleared", "kept"}] BY <1>2
<1>4. ASSUME NEW e \in Own
      PROVE  \/ draft'[e] = draft[e]
             \/ main.op = "submit" /\ e = main.execution /\ draft'[e] = verdict
  BY <1>2
<1> QED BY <1>1, <1>3, <1>4 DEF Judged

LEMMA RefusalArrives ==
  ASSUME IInv, RefuseAccepted PROVE IInv'
<1>1. /\ main.op = "submit" /\ main.pc = "posted" /\ Fail(ui)
      /\ draft' = [draft EXCEPT ![main.execution] = "kept"]
      /\ UNCHANGED <<serverVars, cancelling, reads, posts, synced, disturbed, losses>>
  BY DEF RefuseAccepted, TakeRefusal, boundVars
<1>2. Over(ui) /\ Judged("kept") BY <1>1, ProgressEnds, Parts
<1>3. reads' = [reads EXCEPT !["main"] = Nothing]
  BY <1>1 DEF IInv, TypeOK, ReadsFit, Flows
<1>4. losses' \in 0..MaxLosses /\ synced' \in Nat BY <1>1 DEF IInv, TypeOK
<1>5. SyncedIsComplete' BY <1>1, <1>2 DEF IInv, SyncedIsComplete, Over
<1>6. \A x \in Own : draft'[x] = "editing" => draft[x] = "editing" BY <1>2 DEF Judged
<1> QED BY <1>1, <1>2, <1>3, <1>4, <1>5, <1>6, OperationOver DEF Over, Judged

LEMMA StreamMoves ==
  ASSUME IInv, StreamNext
  PROVE  /\ IInv'
         /\ \A x \in Own : draft'[x] # draft[x] => draft'[x] = "cleared" /\ Accepted(x)
<1> DEFINE Clears == \A x \in Own :
              draft'[x] # draft[x] => draft'[x] = "cleared" /\ Accepted(x)
<1>1. PICK i \in NextOf(main.execution, main.position) :
        LET s == Receive(ui, main.thread, {i})
        IN  IF EndsStream(main.execution, i)
            THEN EndProgress(s, Acknowledged(s))
            ELSE /\ ui' = s /\ main' = [main EXCEPT !.position = i]
                 /\ UNCHANGED draft
  BY DEF StreamNext
<1>2. /\ main.pc = "streaming"
      /\ UNCHANGED <<serverVars, cancelling, reads, posts, synced, disturbed, losses>>
  BY DEF StreamNext, boundVars
<1> PICK e \in Executions : e = main.execution BY <1>2 DEF IInv, MainFits, Requesting
<1> PICK t \in Threads : t = main.thread BY <1>2, Parts DEF IInv, MainFits, Requesting
<1>3. /\ t = ui.thread /\ ThreadOf[e] = t /\ Accepted(e)
      /\ main.op \in {"submit", "decide", "resume"}
  BY <1>2 DEF IInv, MainFits, Requesting
<1>4. log[t] \in Seq(Event) /\ Len(log[t]) \in Nat /\ DOMAIN log[t] = 1..Len(log[t])
  BY Parts, LenProperties DEF ServerTypeOK
<1>5. i \in 1..Len(log[t]) /\ i \in Nat /\ log[t][i].execution = e
  BY <1>1, <1>3, <1>4 DEF NextOf, LogOf
<1> PICK new : new = {i} OBVIOUS
<1> PICK s : s = Receive(ui, t, new) OBVIOUS
<1>6. /\ IsScreen(log, s) /\ s.thread = t /\ (s.watching <=> ui.watching)
      /\ ui.events \subseteq s.events
      /\ \A j \in new : log[t][j].execution \notin s.echo
  <2>1. At(ui, t) /\ ServerTypeOK /\ IsScreen(log, ui) BY <1>3, Parts DEF At
  <2>2. new \subseteq 1..Len(log[t]) BY <1>5
  <2>3. Received(log, ui, t, new, s) BY <2>1, <2>2, Receives
  <2> QED BY <2>3 DEF Received
<1>7. e \notin s.echo BY <1>5, <1>6
<1>8. ASSUME ui'.thread = s.thread, ui'.events = s.events PROVE SyncedIsComplete'
  BY <1>2, <1>3, <1>6, <1>7, <1>8 DEF IInv, SyncedIsComplete
<1>9. reads["main"] = Nothing /\ reads["watch"] = Nothing
  BY <1>2, <1>3, PendingIsAlone DEF IInv, ReadsFit
<1>10. reads' = [reads EXCEPT !["main"] = Nothing]
  BY <1>2, <1>9 DEF IInv, TypeOK, Flows
<1>11. CASE EndsStream(e, i)
  <2> PICK verdict : verdict = IF Acknowledged(s) THEN "cleared" ELSE "kept" OBVIOUS
  <2>1. main.op = "submit" => verdict = "cleared" BY <1>7 DEF Acknowledged
  <2>2. /\ Succeed(s) \/ Fail(s)
        /\ draft' = IF main.op # "submit" THEN draft
                    ELSE [draft EXCEPT ![main.execution] = verdict]
    BY <1>1, <1>11 DEF EndProgress
  <2>3. Over(s) /\ Judged(verdict) BY <1>6, <2>2, ProgressEnds
  <2>4. \A x \in Own : draft'[x] = "editing" => draft[x] = "editing"
    BY <2>1, <2>3 DEF Judged
  <2>5. SyncedIsComplete' BY <1>8, <2>3 DEF Over
  <2>6. losses' \in 0..MaxLosses /\ synced' \in Nat BY <1>2 DEF IInv, TypeOK
  <2>7. Clears BY <1>3, <2>1, <2>3 DEF Judged
  <2> HIDE DEF Clears
  <2>8. IInv'
    BY <1>2, <1>3, <1>10, <2>3, <2>4, <2>5, <2>6, OperationOver DEF Over, Judged
  <2> QED BY <2>7, <2>8 DEF Clears
<1>12. CASE ~EndsStream(e, i)
  <2>1. ui' = s /\ main' = [main EXCEPT !.position = i] /\ draft' = draft BY <1>1, <1>12
  <2>2. /\ main' \in Operation /\ main'.op = main.op /\ main'.pc = main.pc
        /\ main'.thread = main.thread /\ main'.execution = main.execution
    BY <1>5, <2>1 DEF IInv, TypeOK, Operation
  <2>3. IsScreen(log, ui') /\ ui' \in Screen /\ ui'.thread = ui.thread
        /\ ui'.events = s.events /\ (ui'.watching <=> ui.watching)
    BY <1>3, <1>6, <2>1 DEF IsScreen
  <2>4. TypeOK'
    BY <1>2, <2>1, <2>2, <2>3, ServerSame DEF IInv, TypeOK, Screen, Operation
  <2>5. ScreenFits' BY <1>2, <2>2, <2>3, ServerSame DEF IInv, ScreenFits, Pending
  <2>6. MainFits'
    BY <1>2, <2>1, <2>2, <2>3, ServerSame DEF IInv, MainFits, Requesting, Accepted
  <2>7. CancelFits' BY <1>2 DEF IInv, CancelFits
  <2>8. ReadsFit' BY <1>2, <1>9, ServerSame DEF IInv, ReadsFit
  <2>9. DraftsFit' /\ PostsFit'
    BY <1>2, <2>1, ServerSame, Parts DEF IInv, DraftsFit, PostsFit
  <2>10. SyncedIsComplete' BY <1>3, <1>6, <1>8, <2>3
  <2>11. Clears BY <2>1
  <2> HIDE DEF Clears
  <2>12. IInv'
    BY <1>2, <2>4, <2>5, <2>6, <2>7, <2>8, <2>9, <2>10, ServerSame DEF IInv
  <2> QED BY <2>11, <2>12 DEF Clears
<1> QED BY <1>11, <1>12

(* What the answer of a read covers. *)
LEMMA Covers ==
  ASSUME IInv, NEW f \in {"main", "watch"}, Answered(f)
  PROVE  \E n \in Nat :
           /\ CoveredBy(f) = n /\ n <= Len(log[reads[f].thread])
           /\ reads[f].after \in Nat /\ reads[f].after <= n
           /\ Answer(f).events = (reads[f].after + 1)..n
           /\ Answer(f).events \subseteq 1..Len(log[reads[f].thread])
           /\ reads[f].thread \in Threads /\ Answer(f).active \in BOOLEAN
           /\ Answer(f).accepted \in BOOLEAN
           /\ Answer(f).accepted => reads[f].execution \in Executions
                                    /\ Accepted(reads[f].execution)
           /\ Answer(f).accepted /\ ~Answer(f).active
                /\ ThreadOf[reads[f].execution] = reads[f].thread =>
              \E i \in 1..n : log[reads[f].thread][i].execution = reads[f].execution
<1>1. /\ reads[f] # Nothing /\ reads[f].answer # Nothing /\ reads[f] \in Read
      /\ ReadFits(log, work, reads[f])
  BY DEF Answered, IInv, TypeOK, ReadsFit, Flows
<1>2. /\ reads[f].thread \in Threads /\ reads[f].after \in Nat
      /\ Answer(f).active \in BOOLEAN /\ Answer(f).accepted \in BOOLEAN
  BY <1>1 DEF Read, Answer
<1> PICK t \in Threads : t = reads[f].thread BY <1>2
<1>3. Len(log[t]) \in Nat BY Parts, LenProperties DEF ServerTypeOK
<1>4. PICK n \in reads[f].after..Len(log[t]) :
        /\ Answer(f).events = (reads[f].after + 1)..n
        /\ Answer(f).accepted => reads[f].execution \in Executions
                                 /\ work[reads[f].execution].status # "unknown"
        /\ Answer(f).accepted /\ ~Answer(f).active /\ ThreadOf[reads[f].execution] = t =>
             \E i \in 1..n : log[t][i].execution = reads[f].execution
  BY <1>1 DEF ReadFits, AnswerFits, Answer
<1>5. n \in Nat /\ reads[f].after <= n /\ n <= Len(log[t]) BY <1>2, <1>3, <1>4
<1>6. CoveredBy(f) = n
  <2>1. Max({reads[f].after} \cup ((reads[f].after + 1)..n)) = n
    BY <1>2, <1>5, MaxOfInterval
  <2> QED BY <1>4, <2>1 DEF CoveredBy
<1>7. Answer(f).events \subseteq 1..Len(log[t]) BY <1>2, <1>3, <1>4, <1>5
<1> QED BY <1>2, <1>4, <1>5, <1>6, <1>7 DEF Accepted

LEMMA HistoryArrives ==
  ASSUME IInv, GotHistory PROVE IInv'
<1> PICK s : s = Replace(ui, main.thread, Answer("main")) OBVIOUS
<1> PICK e : e = main.execution OBVIOUS
<1> DEFINE r == [s EXCEPT !.initialized = TRUE]
<1>1. /\ main.pc = "reading" /\ Answered("main") /\ synced' = CoveredBy("main")
      /\ reads' = [reads EXCEPT !["main"] = Nothing]
      /\ UNCHANGED <<serverVars, cancelling, draft, disturbed, losses>>
      /\ \/ (Succeed(r) \/ Fail(s)) /\ posts' = posts
         \/ main.op = "resume" /\ Post("resume", s, e)
  BY DEF GotHistory, Consume, boundVars
<1>2. /\ reads["main"] # Nothing /\ reads["main"].thread = main.thread
      /\ reads["main"].after = 0
  BY <1>1 DEF IInv, ReadsFit, Answered
<1> PICK t \in Threads : t = main.thread BY <1>1 DEF IInv, MainFits
<1> PICK n \in Nat : /\ CoveredBy("main") = n /\ Answer("main").events = 1..n
                     /\ Answer("main").events \subseteq 1..Len(log[t])
                     /\ Answer("main").active \in BOOLEAN
  BY <1>1, <1>2, Covers
<1>3. /\ main.op \in {"restore", "refresh", "select", "resume"}
      /\ main.op = "select" \/ At(ui, t)
      /\ main.op = "resume" => e \in Executions /\ ThreadOf[e] = t
      /\ main.op # "none" /\ main.op # "submit"
  BY <1>1 DEF IInv, MainFits, At
<1>4. Replaced(log, ui, t, Answer("main").events, s)
  BY <1>3, Parts, Replaces
<1>5. /\ IsScreen(log, s) /\ s \in Screen /\ s.thread = t
      /\ (s.watching <=> ui.watching) /\ \A i \in 1..n : <<t, i>> \in s.events
  BY <1>4 DEF Replaced, IsScreen
<1>6. /\ IsScreen(log, r) /\ r.thread = s.thread /\ r.events = s.events
  BY <1>5, Switches DEF Screen
<1> HIDE DEF r
<1>7. ASSUME ui'.thread = t, ui'.events = s.events PROVE SyncedIsComplete'
  BY <1>1, <1>5, <1>7 DEF SyncedIsComplete
<1>8. synced' \in Nat /\ losses' \in 0..MaxLosses BY <1>1 DEF IInv, TypeOK
<1>9. CASE (Succeed(r) \/ Fail(s)) /\ posts' = posts
  <2>1. /\ main'.op = "none" /\ main'.pc = "idle" /\ main' \in Operation
        /\ IsScreen(log, ui') /\ ui' \in Screen
        /\ ui'.thread = t /\ ui'.events = s.events
    <3>1. CASE Succeed(r) BY <1>5, <1>6, <3>1, Succeeds
    <3>2. CASE Fail(s) BY <1>5, <3>2, Fails
    <3> QED BY <1>9, <3>1, <3>2
  <2>2. /\ draft' \in [Own -> {"editing", "sent", "cleared", "kept"}]
        /\ \A x \in Own : draft'[x] = "editing" => draft[x] = "editing"
    BY <1>1 DEF IInv, TypeOK
  <2> QED BY <1>1, <1>3, <1>7, <1>8, <1>9, <2>1, <2>2, OperationOver
<1>10. CASE main.op = "resume" /\ Post("resume", s, e)
  <2>1. e \in Executions /\ s.thread = ThreadOf[e] BY <1>3, <1>5, <1>10
  <2>2. /\ main' \in Operation /\ main'.op = "resume" /\ main'.pc = "posted"
        /\ main'.thread = t /\ main'.execution = e
        /\ IsScreen(log, ui') /\ ui' \in Screen /\ ui'.watching = FALSE
        /\ ui'.thread = t /\ ui'.events = s.events
        /\ posts' = posts \cup {[op |-> "resume", execution |-> e]}
        /\ posts' \subseteq [op : {"submit", "decide", "resume", "cancel"},
                             execution : Executions]
    BY <1>5, <1>10, <2>1, PostBegins
  <2>3. /\ reads' \in [Flows -> {Nothing} \cup Read] /\ reads'["main"] = Nothing
        /\ reads'["watch"] = Nothing /\ reads'["cancel"] = reads["cancel"]
    BY <1>1, <1>3, PendingIsAlone DEF IInv, TypeOK, Flows
  <2>4. TypeOK'
    BY <1>1, <1>8, <2>2, <2>3, ServerSame DEF IInv, TypeOK, Screen, Operation
  <2>5. ScreenFits' BY <1>1, <2>2, ServerSame DEF ScreenFits
  <2>6. MainFits' BY <1>5, <2>1, <2>2 DEF MainFits, Requesting
  <2>7. CancelFits' BY <1>1 DEF IInv, CancelFits
  <2>8. ReadsFit' BY <1>1, <2>3, ServerSame DEF IInv, ReadsFit
  <2>9. DraftsFit' /\ PostsFit'
    BY <1>1, <2>2, ServerSame, Parts DEF IInv, DraftsFit, PostsFit
  <2>10. SyncedIsComplete' BY <1>7, <2>2
  <2> QED BY <1>1, <2>4, <2>5, <2>6, <2>7, <2>8, <2>9, <2>10, ServerSame DEF IInv
<1> QED BY <1>1, <1>9, <1>10

(* The recovery of sendProgress: when the server knows the execution and     *)
(* nothing is active, an event of it is in the answer or was shown before.   *)
LEMMA RecoveryArrives ==
  ASSUME IInv, GotRecovery
  PROVE  /\ IInv'
         /\ \A x \in Own : draft'[x] # draft[x] =>
              \/ draft'[x] = "cleared" /\ Accepted(x)
              \/ /\ draft'[x] = "kept" /\ ~ui'.restored
                 /\ main.pc = "recovering" /\ ~Answer("main").accepted
<1> PICK answer : answer = Answer("main") OBVIOUS
<1> PICK t \in Threads : t = ui.thread /\ t = reads["main"].thread
  BY Parts DEF GotRecovery, Answered, IInv, MainFits, Requesting, ReadsFit, PrefixShown
<1> PICK s : s = Receive(ui, t, answer.events) OBVIOUS
<1> PICK r : r = [s EXCEPT !.active = answer.active] OBVIOUS
<1> PICK e \in Executions : e = main.execution
  BY DEF GotRecovery, IInv, MainFits, Requesting
<1> DEFINE known == main.op = "decide" \/ answer.accepted
           Decides == \A x \in Own : draft'[x] # draft[x] =>
              \/ draft'[x] = "cleared" /\ Accepted(x)
              \/ /\ draft'[x] = "kept" /\ ~ui'.restored
                 /\ main.pc = "recovering" /\ ~Answer("main").accepted
<1>1. /\ main.pc = "recovering" /\ Answered("main") /\ synced' = CoveredBy("main")
      /\ reads' = [reads EXCEPT !["main"] = Nothing]
      /\ UNCHANGED <<serverVars, cancelling, posts, disturbed, losses>>
  BY DEF GotRecovery, Consume, boundVars
<1>2. IF known /\ ReadsAgain(r, answer)
      THEN ui' = r /\ UNCHANGED <<main, draft>>
      ELSE EndProgress(r, known /\ Acknowledged(r))
  BY DEF GotRecovery
<1> HIDE DEF known
<1>3. /\ main.op \in {"submit", "decide", "resume"} /\ ThreadOf[e] = t
      /\ PrefixShown(ui, reads["main"])
      /\ main.op # "decide" => reads["main"].execution = e
  BY <1>1 DEF Answered, IInv, MainFits, Requesting, ReadsFit
<1> PICK after \in Nat : after = reads["main"].after BY <1>1, Covers
<1> PICK n \in Nat :
      /\ CoveredBy("main") = n /\ n <= Len(log[t]) /\ after <= n
      /\ answer.events = (after + 1)..n /\ answer.events \subseteq 1..Len(log[t])
      /\ answer.active \in BOOLEAN /\ answer.accepted \in BOOLEAN
      /\ answer.accepted => Accepted(reads["main"].execution)
      /\ answer.accepted /\ ~answer.active /\ ThreadOf[reads["main"].execution] = t =>
           \E i \in 1..n : log[t][i].execution = reads["main"].execution
  BY <1>1, Covers
<1>4. Received(log, ui, t, answer.events, s)
  <2>1. At(ui, t) /\ ServerTypeOK /\ IsScreen(log, ui) BY Parts DEF At
  <2> QED BY <2>1, Receives
<1>5. /\ IsScreen(log, s) /\ s \in Screen /\ s.thread = t
      /\ ui.events \subseteq s.events /\ s.echo \subseteq ui.echo
      /\ (s.watching <=> ui.watching)
      /\ \A i \in (after + 1)..n : <<t, i>> \in s.events /\ log[t][i].execution \notin s.echo
  BY <1>4 DEF Received, IsScreen
<1>6. /\ IsScreen(log, r) /\ r \in Screen /\ r.thread = t /\ r.events = s.events
      /\ r.echo = s.echo /\ (r.watching <=> ui.watching)
  <2>1. IsScreen(log, r) BY <1>5, Switches
  <2> QED BY <1>5, <2>1 DEF IsScreen, Screen
<1>7. \A i \in 1..n : <<t, i>> \in s.events
  <2>1. \A i \in 1..after : <<t, i>> \in ui.events BY <1>3 DEF PrefixShown
  <2> QED BY <1>5, <2>1
<1>8. \A i \in 1..n : log[t][i].execution \notin s.echo BY <1>5, <1>7 DEF IsScreen
<1>9. ASSUME ui'.thread = t, ui'.events = s.events PROVE SyncedIsComplete'
  BY <1>1, <1>7, <1>9 DEF SyncedIsComplete
<1>10. synced' \in Nat /\ losses' \in 0..MaxLosses BY <1>1 DEF IInv, TypeOK
<1>11. CASE known /\ ReadsAgain(r, answer)
  <2>1. ui' = r /\ main' = main /\ draft' = draft BY <1>2, <1>11
  <2>2. /\ reads' \in [Flows -> {Nothing} \cup Read] /\ reads'["main"] = Nothing
        /\ reads'["watch"] = Nothing /\ reads'["cancel"] = reads["cancel"]
    BY <1>1, <1>3, PendingIsAlone DEF IInv, TypeOK, Flows
  <2>3. TypeOK'
    BY <1>1, <1>6, <1>10, <2>1, <2>2, ServerSame DEF IInv, TypeOK, Screen
  <2>4. ScreenFits' BY <1>1, <1>6, <2>1, ServerSame DEF IInv, ScreenFits, Pending
  <2>5. MainFits'
    BY <1>1, <1>6, <2>1, ServerSame DEF IInv, MainFits, Requesting, Accepted
  <2>6. CancelFits' BY <1>1 DEF IInv, CancelFits
  <2>7. ReadsFit' BY <1>1, <2>2, ServerSame DEF IInv, ReadsFit
  <2>8. DraftsFit' /\ PostsFit'
    BY <1>1, <2>1, ServerSame, Parts DEF IInv, DraftsFit, PostsFit
  <2>9. SyncedIsComplete' BY <1>6, <1>9, <2>1
  <2>10. Decides BY <2>1
  <2> HIDE DEF Decides
  <2>11. IInv' BY <1>1, <2>3, <2>4, <2>5, <2>6, <2>7, <2>8, <2>9, ServerSame DEF IInv
  <2> QED BY <2>10, <2>11 DEF Decides
<1>12. CASE ~(known /\ ReadsAgain(r, answer))
  <2> PICK verdict : verdict = IF known /\ Acknowledged(r) THEN "cleared" ELSE "kept"
    OBVIOUS
  <2>1. main.op = "submit" /\ known => Acknowledged(r)
    <3> SUFFICES ASSUME main.op = "submit", known, ~Acknowledged(r) PROVE FALSE OBVIOUS
    <3>1. answer.accepted BY DEF known
    <3>2. e \in r.echo BY DEF Acknowledged
    <3>3. ~answer.active BY <1>12, <3>2 DEF ReadsAgain
    <3>4. PICK i \in 1..n : log[t][i].execution = e BY <1>3, <3>1, <3>3
    <3> QED BY <1>6, <1>8, <3>2, <3>4
  <2>2. main.op = "submit" /\ verdict = "cleared" => Accepted(e)
    BY <1>3 DEF known
  <2>3. /\ Succeed(r) \/ Fail(r)
        /\ draft' = IF main.op # "submit" THEN draft
                    ELSE [draft EXCEPT ![main.execution] = verdict]
    BY <1>2, <1>12 DEF EndProgress
  <2>4. Over(r) /\ Judged(verdict) BY <1>6, <2>3, ProgressEnds
  <2>5. \A x \in Own : draft'[x] = "editing" => draft[x] = "editing"
    BY <2>4 DEF Judged
  <2>6. SyncedIsComplete' BY <1>6, <1>9, <2>4 DEF Over
  <2>7. main.op = "submit" /\ verdict = "kept" => ~answer.accepted /\ ~ui'.restored
    <3> SUFFICES ASSUME main.op = "submit", verdict = "kept"
                 PROVE  ~answer.accepted /\ ~ui'.restored
      OBVIOUS
    <3>1. ~(known /\ Acknowledged(r)) OBVIOUS
    <3>2. ~known BY <2>1, <3>1
    <3>3. Fail(r) BY <1>2, <1>12, <3>1 DEF EndProgress
    <3> QED BY <1>6, <3>2, <3>3, Fails DEF known
  <2>8. Decides
    <3> SUFFICES ASSUME NEW x \in Own, draft'[x] # draft[x]
                 PROVE  \/ draft'[x] = "cleared" /\ Accepted(x)
                        \/ /\ draft'[x] = "kept" /\ ~ui'.restored
                           /\ main.pc = "recovering" /\ ~Answer("main").accepted
      OBVIOUS
    <3>1. main.op = "submit" /\ x = e /\ draft'[x] = verdict BY <2>4 DEF Judged
    <3> QED BY <1>1, <2>2, <2>7, <3>1
  <2> HIDE DEF Decides
  <2>9. IInv' BY <1>1, <1>3, <1>10, <2>4, <2>5, <2>6, OperationOver DEF Over, Judged
  <2> QED BY <2>8, <2>9 DEF Decides
<1> QED BY <1>11, <1>12

(* What remains of the invariant when only the screen, and a read of the     *)
(* cancellation or of the watcher, change.                                   *)
LEMMA ScreenMoves ==
  ASSUME IInv, UNCHANGED <<serverVars, main, posts, draft, disturbed>>,
         losses' \in 0..MaxLosses, synced' \in Nat, SyncedIsComplete',
         IsScreen(log, ui'), ui' \in Screen,
         ui'.thread = ui.thread, ui.events \subseteq ui'.events,
         ui'.watching => ui.watching \/ ~Pending,
         reads' \in [Flows -> {Nothing} \cup Read], reads'["main"] = reads["main"],
         \/ reads'["watch"] = Nothing
         \/ reads'["watch"] = reads["watch"] /\ (ui.watching => ui'.watching),
         \/ UNCHANGED cancelling /\ reads'["cancel"] = reads["cancel"]
         \/ cancelling' = NoCancel /\ reads'["cancel"] = Nothing
  PROVE  IInv'
<1>1. /\ cancelling' \in [pc : {"idle", "posted", "confirming"},
                          thread : Threads \cup {NoThread},
                          execution : Executions \cup {Nothing}]
      /\ cancelling' = cancelling \/ cancelling'.pc = "idle"
  BY DEF IInv, TypeOK, NoCancel
<1>2. TypeOK' BY <1>1, ServerSame DEF IInv, TypeOK, Screen
<1>3. ScreenFits' BY ServerSame DEF IInv, ScreenFits, Pending
<1>4. MainFits' BY ServerSame DEF IInv, MainFits, Requesting, Accepted
<1>5. CancelFits' BY <1>1 DEF IInv, CancelFits
<1>6. \A r : PrefixShown(ui, r) => PrefixShown(ui', r) BY DEF PrefixShown
<1>7. ReadsFit'
  <2>1. reads'["main"] # Nothing =>
          /\ ReadFits(log, work, reads'["main"])
          /\ \/ main.pc = "reading" /\ reads'["main"].thread = main.thread
                  /\ reads'["main"].after = 0
             \/ main.pc = "recovering" /\ PrefixShown(ui', reads'["main"])
                  /\ (main.op # "decide" => reads'["main"].execution = main.execution)
    BY <1>6 DEF IInv, ReadsFit
  <2>2. reads'["watch"] # Nothing =>
          /\ ReadFits(log, work, reads'["watch"]) /\ ui'.watching
          /\ PrefixShown(ui', reads'["watch"])
    BY <1>6 DEF IInv, ReadsFit
  <2>3. reads'["cancel"] # Nothing =>
          /\ NumbersFit(log, reads'["cancel"])
          /\ cancelling'.pc = "confirming" /\ reads'["cancel"].thread = cancelling'.thread
    BY DEF IInv, ReadsFit
  <2> QED BY <2>1, <2>2, <2>3, ServerSame DEF ReadsFit
<1>8. DraftsFit' /\ PostsFit'
  BY ServerSame, Parts DEF IInv, DraftsFit, PostsFit
<1> QED BY <1>2, <1>3, <1>4, <1>5, <1>7, <1>8, ServerSame DEF IInv

(* startWatching as part of a step. *)
WatchedFrom(s) ==
    /\ IsScreen(log, ui') /\ ui' \in Screen /\ ui'.thread = s.thread
    /\ ui'.events = s.events /\ (s.watching => ui'.watching)
    /\ ui'.watching => s.watching \/ ~Pending

LEMMA WatchingStarts ==
  ASSUME IInv, NEW s, IsScreen(log, s), ui' = StartWatching(s, Pending)
  PROVE  WatchedFrom(s)
<1> PICK pending \in BOOLEAN : pending = Pending BY DEF Pending
<1>1. ui' = StartWatching(s, pending) BY DEF StartWatching
<1>2. /\ IsScreen(log, ui') /\ ui'.thread = s.thread /\ ui'.events = s.events
      /\ (s.watching => ui'.watching) /\ (ui'.watching => s.watching \/ ~pending)
  BY <1>1, Watches
<1> QED BY <1>2 DEF WatchedFrom, IsScreen

LEMMA ConfirmationArrives ==
  ASSUME IInv, GotConfirmation PROVE IInv'
<1>1. /\ cancelling.pc = "confirming" /\ Answered("cancel")
      /\ cancelling' = NoCancel /\ reads' = [reads EXCEPT !["cancel"] = Nothing]
      /\ UNCHANGED <<serverVars, main, posts, draft, synced, disturbed, losses>>
  BY DEF GotConfirmation, Consume, boundVars
<1>2. /\ reads' \in [Flows -> {Nothing} \cup Read] /\ reads'["main"] = reads["main"]
      /\ reads'["watch"] = reads["watch"] /\ reads'["cancel"] = Nothing
  BY <1>1 DEF IInv, TypeOK, Flows
<1>3. ASSUME NEW s, IsScreen(log, s), s.thread = ui.thread, ui.events \subseteq s.events,
             s.watching <=> ui.watching, ui' = StartWatching(s, Pending)
      PROVE  IInv'
  <2>1. WatchedFrom(s) BY <1>3, WatchingStarts
  <2>2. SyncedIsComplete'
    BY <1>1, <1>3, <2>1 DEF WatchedFrom, IInv, SyncedIsComplete
  <2>3. losses' \in 0..MaxLosses /\ synced' \in Nat BY <1>1 DEF IInv, TypeOK
  <2> QED BY <1>1, <1>2, <1>3, <2>1, <2>2, <2>3, ScreenMoves DEF WatchedFrom
<1>4. CASE ui.thread # cancelling.thread
  <2>1. ui' = StartWatching(ui, Pending) BY <1>4 DEF GotConfirmation
  <2> QED BY <1>3, <2>1, Parts
<1>5. CASE ui.thread = cancelling.thread
  <2> PICK answer : answer = Answer("cancel") OBVIOUS
  <2> PICK t \in Threads : t = cancelling.thread BY <1>1, Parts DEF IInv, CancelFits
  <2>1. reads["cancel"].thread = t /\ NumbersFit(log, reads["cancel"]) /\ reads["cancel"] \in Read
        /\ reads["cancel"].answer # Nothing
    BY <1>1 DEF Answered, IInv, TypeOK, Flows, ReadsFit
  <2>2. answer.events \subseteq 1..Len(log[t]) /\ answer.active \in BOOLEAN
    BY <2>1 DEF NumbersFit, Answer, Read
  <2> PICK a : a = Receive(ui, t, answer.events) OBVIOUS
  <2> PICK b : b = [a EXCEPT !.active = answer.active] OBVIOUS
  <2> DEFINE confirmed == \E x \in b.events :
                    /\ EventAt(x).execution = cancelling.execution
                    /\ EventAt(x).kind \in {"cancellation_requested", "completed"}
  <2>3. ui' = StartWatching([b EXCEPT !.restored = @ \/ confirmed], Pending)
    BY <1>5, <2>1 DEF GotConfirmation
  <2> HIDE DEF confirmed
  <2>4. Received(log, ui, t, answer.events, a)
    <3>1. At(ui, t) /\ ServerTypeOK /\ IsScreen(log, ui) BY <1>5, Parts DEF At
    <3> QED BY <2>2, <3>1, Receives
  <2>5. /\ IsScreen(log, a) /\ a \in Screen /\ a.thread = t
        /\ ui.events \subseteq a.events /\ (a.watching <=> ui.watching)
    BY <2>4 DEF Received, IsScreen
  <2>6. /\ IsScreen(log, b) /\ b \in Screen /\ b.thread = t
        /\ b.events = a.events /\ (b.watching <=> ui.watching)
    <3>1. IsScreen(log, b) BY <2>2, <2>5, Switches
    <3> QED BY <2>5, <3>1 DEF IsScreen, Screen
  <2> PICK known \in BOOLEAN : known = (b.restored \/ confirmed) OBVIOUS
  <2> PICK s : s = [b EXCEPT !.restored = known] OBVIOUS
  <2>7. ui' = StartWatching(s, Pending)
    <3>1. s = [b EXCEPT !.restored = @ \/ confirmed] OBVIOUS
    <3> QED BY <2>3, <3>1
  <2>8. /\ IsScreen(log, s) /\ s.thread = t /\ s.events = b.events
        /\ (s.watching <=> ui.watching)
    <3>1. IsScreen(log, s) BY <2>6, Switches
    <3> QED BY <2>6, <3>1 DEF Screen
  <2> QED BY <1>3, <1>5, <2>5, <2>6, <2>7, <2>8
<1> QED BY <1>4, <1>5

LEMMA ProgressArrives ==
  ASSUME IInv, GotProgress PROVE IInv'
<1> PICK answer : answer = Answer("watch") OBVIOUS
<1>1. /\ ui.watching /\ Answered("watch") /\ synced' = CoveredBy("watch")
      /\ reads' = [reads EXCEPT !["watch"] = Nothing]
      /\ UNCHANGED <<serverVars, main, cancelling, posts, draft, disturbed, losses>>
  BY DEF GotProgress, Consume, boundVars
<1> PICK t \in Threads : t = ui.thread BY <1>1, Parts DEF IsScreen
<1>2. reads["watch"].thread = t /\ PrefixShown(ui, reads["watch"])
  BY <1>1 DEF Answered, IInv, ReadsFit, PrefixShown
<1> PICK after \in Nat : after = reads["watch"].after BY <1>1, Covers
<1> PICK n \in Nat :
      /\ CoveredBy("watch") = n /\ n <= Len(log[t]) /\ after <= n
      /\ answer.events = (after + 1)..n /\ answer.events \subseteq 1..Len(log[t])
      /\ answer.active \in BOOLEAN
  BY <1>1, <1>2, Covers
<1> PICK a : a = Receive(ui, t, answer.events) OBVIOUS
<1> PICK b : b = [a EXCEPT !.active = answer.active] OBVIOUS
<1>3. Received(log, ui, t, answer.events, a)
  <2>1. At(ui, t) /\ ServerTypeOK /\ IsScreen(log, ui) BY Parts DEF At
  <2> QED BY <2>1, Receives
<1>4. /\ IsScreen(log, a) /\ a \in Screen /\ a.thread = t
      /\ ui.events \subseteq a.events
      /\ \A i \in (after + 1)..n : <<t, i>> \in a.events
  BY <1>3 DEF Received, IsScreen
<1>5. ui' = [b EXCEPT !.watching = answer.active]
  <2>1. ui' = [a EXCEPT !.active = answer.active, !.watching = answer.active]
    BY <1>2, Zenon DEF GotProgress
  <2> QED BY <1>4, <2>1 DEF Screen
<1>6. IsScreen(log, b) /\ b \in Screen /\ b.thread = t /\ b.events = a.events
  <2>1. IsScreen(log, b) BY <1>4, Switches
  <2> QED BY <1>4, <2>1 DEF IsScreen, Screen
<1>7. /\ IsScreen(log, ui') /\ ui' \in Screen /\ ui'.thread = t /\ ui'.events = a.events
  <2>1. t # NoThread BY Parts
  <2>2. IsScreen(log, ui') BY <1>5, <1>6, <2>1, Switches
  <2> QED BY <1>5, <1>6, <2>2 DEF IsScreen, Screen
<1>8. SyncedIsComplete'
  <2>1. \A i \in 1..after : <<t, i>> \in ui.events BY <1>2 DEF PrefixShown
  <2>2. \A i \in 1..n : <<t, i>> \in a.events BY <1>4, <2>1
  <2> QED BY <1>1, <1>7, <2>2 DEF SyncedIsComplete
<1>9. /\ reads' \in [Flows -> {Nothing} \cup Read] /\ reads'["main"] = reads["main"]
      /\ reads'["watch"] = Nothing /\ reads'["cancel"] = reads["cancel"]
  BY <1>1 DEF IInv, TypeOK, Flows
<1>10. losses' \in 0..MaxLosses /\ synced' \in Nat BY <1>1 DEF IInv, TypeOK
<1> QED BY <1>1, <1>4, <1>7, <1>8, <1>9, <1>10, ScreenMoves

LEMMA Reloads ==
  ASSUME IInv, Reload PROVE IInv'
<1>1. /\ losses < MaxLosses /\ losses' = losses + 1 /\ ui' = Fresh(ui.thread)
      /\ main' = Idle /\ cancelling' = NoCancel
      /\ reads' = [f \in Flows |-> Nothing] /\ synced' = 0
      /\ UNCHANGED <<serverVars, posts, draft, disturbed>>
  BY DEF Reload, Lose
<1>2. losses' \in 0..MaxLosses BY <1>1, SessionAssumption DEF IInv, TypeOK
<1>3. IsScreen(log, ui') /\ ui' \in Screen /\ ui'.watching = FALSE
  BY <1>1, Parts, FreshIsScreen DEF IsScreen
<1>4. main' \in Operation /\ main'.op = "none" /\ main'.pc = "idle"
  BY <1>1 DEF Idle, Operation
<1>5. /\ cancelling' \in [pc : {"idle", "posted", "confirming"},
                          thread : Threads \cup {NoThread},
                          execution : Executions \cup {Nothing}]
      /\ cancelling'.pc = "idle"
  BY <1>1 DEF NoCancel
<1>6. reads' \in [Flows -> {Nothing} \cup Read] BY <1>1
<1>7. TypeOK'
  BY <1>1, <1>2, <1>3, <1>4, <1>5, <1>6, ServerSame DEF IInv, TypeOK, Screen, Operation
<1>8. ScreenFits' BY <1>1, <1>3, ServerSame DEF ScreenFits
<1>9. MainFits' BY <1>4 DEF MainFits, Requesting
<1>10. CancelFits' BY <1>5 DEF CancelFits
<1>11. ReadsFit' BY <1>1 DEF ReadsFit, Flows
<1>12. DraftsFit' /\ PostsFit'
  BY <1>1, ServerSame, Parts DEF IInv, DraftsFit, PostsFit
<1>13. SyncedIsComplete' BY <1>1 DEF SyncedIsComplete
<1> QED BY <1>1, <1>7, <1>8, <1>9, <1>10, <1>11, <1>12, <1>13, ServerSame DEF IInv

LEMMA ReadLost ==
  ASSUME IInv, NEW retryable \in BOOLEAN, LoseRead(retryable)
  PROVE  /\ IInv'
         /\ \A x \in Own : draft'[x] # draft[x] =>
              /\ draft'[x] = "kept" /\ ~ui'.restored
              /\ main.pc = "recovering" /\ losses' # losses
<1> DEFINE Keeps == \A x \in Own : draft'[x] # draft[x] =>
              /\ draft'[x] = "kept" /\ ~ui'.restored
              /\ main.pc = "recovering" /\ losses' # losses
<1>1. PICK f \in Flows :
        /\ reads[f] # Nothing /\ reads' = [reads EXCEPT ![f] = Nothing]
        /\ \/ /\ f = "main" /\ main.pc = "recovering"
              /\ IF retryable THEN UNCHANGED <<main, ui, draft>>
                 ELSE EndProgress(ui, FALSE)
              /\ UNCHANGED cancelling
           \/ /\ f = "main" /\ main.pc = "reading"
              /\ IF main.op = "select" THEN Succeed(ui)
                 ELSE Fail([ui EXCEPT !.initialized = @ \/ ~retryable])
              /\ UNCHANGED <<cancelling, draft>>
           \/ /\ f = "cancel" /\ cancelling' = NoCancel
              /\ ui' = StartWatching(ui, Pending)
              /\ UNCHANGED <<main, draft>>
           \/ /\ f = "watch"
              /\ ui' = IF retryable THEN ui
                       ELSE [ui EXCEPT !.restored = FALSE, !.watching = FALSE]
              /\ UNCHANGED <<main, cancelling, draft>>
  BY DEF LoseRead, Consume
<1>2. /\ losses < MaxLosses /\ losses' = losses + 1
      /\ UNCHANGED <<serverVars, posts, synced, disturbed>>
  BY DEF LoseRead, Lose
<1>3. losses' \in 0..MaxLosses /\ synced' \in Nat
  BY <1>2, SessionAssumption DEF IInv, TypeOK
<1>4. draft \in [Own -> {"editing", "sent", "cleared", "kept"}]
  BY DEF IInv, TypeOK
<1>5. /\ reads' \in [Flows -> {Nothing} \cup Read] /\ reads'[f] = Nothing
      /\ \A g \in Flows \ {f} : reads'[g] = reads[g]
  BY <1>1 DEF IInv, TypeOK
<1>6. \A s : ui'.thread = ui.thread /\ ui'.events = ui.events => SyncedIsComplete'
  BY <1>2 DEF IInv, SyncedIsComplete
<1>7. CASE f = "main" /\ main.pc = "recovering" /\ retryable
  <2>1. UNCHANGED <<main, ui, draft, cancelling>> BY <1>1, <1>7
  <2>2. /\ reads'["main"] = Nothing /\ reads'["watch"] = reads["watch"]
        /\ reads'["cancel"] = reads["cancel"]
    BY <1>5, <1>7 DEF Flows
  <2>3. TypeOK' BY <1>2, <1>3, <1>5, <2>1, ServerSame DEF IInv, TypeOK
  <2>4. ScreenFits' BY <1>2, <2>1, ServerSame DEF IInv, ScreenFits, Pending
  <2>5. MainFits' BY <1>2, <2>1, ServerSame DEF IInv, MainFits, Requesting, Accepted
  <2>6. CancelFits' BY <2>1 DEF IInv, CancelFits
  <2>7. ReadsFit' BY <1>2, <2>1, <2>2, ServerSame DEF IInv, ReadsFit
  <2>8. DraftsFit' /\ PostsFit'
    BY <1>2, <2>1, ServerSame, Parts DEF IInv, DraftsFit, PostsFit
  <2>9. SyncedIsComplete' BY <1>6, <2>1
  <2>10. Keeps BY <2>1
  <2> HIDE DEF Keeps
  <2>11. IInv' BY <1>2, <2>3, <2>4, <2>5, <2>6, <2>7, <2>8, <2>9, ServerSame DEF IInv
  <2> QED BY <2>10, <2>11 DEF Keeps
<1>8. CASE f = "main" /\ main.pc = "recovering" /\ ~retryable
  <2>1. EndProgress(ui, FALSE) /\ UNCHANGED cancelling BY <1>1, <1>8
  <2>2. /\ Fail(ui)
        /\ draft' = IF main.op # "submit" THEN draft
                    ELSE [draft EXCEPT ![main.execution] = "kept"]
    BY <2>1 DEF EndProgress
  <2>3. Over(ui) /\ Judged("kept") BY <2>2, ProgressEnds, Parts
  <2>4. main.op # "none" BY <1>8 DEF IInv, MainFits
  <2>5. \A x \in Own : draft'[x] = "editing" => draft[x] = "editing"
    BY <2>3 DEF Judged
  <2>6. SyncedIsComplete' BY <1>6, <2>3 DEF Over
  <2>7. ~ui'.restored BY <2>2, Fails, Parts
  <2>8. losses' # losses BY <1>2 DEF IInv, TypeOK
  <2>9. Keeps BY <1>8, <2>3, <2>7, <2>8 DEF Judged
  <2> HIDE DEF Keeps
  <2>10. IInv'
    BY <1>1, <1>2, <1>3, <1>8, <2>1, <2>3, <2>4, <2>5, <2>6, OperationOver
       DEF Over, Judged
  <2> QED BY <2>9, <2>10 DEF Keeps
<1>9. CASE f = "main" /\ main.pc = "reading"
  <2>1. /\ UNCHANGED <<cancelling, draft>>
        /\ IF main.op = "select" THEN Succeed(ui)
           ELSE Fail([ui EXCEPT !.initialized = @ \/ ~retryable])
    BY <1>1, <1>9
  <2>2. Over(ui)
    <3>1. CASE main.op = "select" BY <2>1, <3>1, Succeeds, Parts DEF Over
    <3>2. CASE main.op # "select"
      <4> PICK b \in BOOLEAN : b = ~retryable OBVIOUS
      <4> PICK s : s = [ui EXCEPT !.initialized = @ \/ b] OBVIOUS
      <4>1. Fail(s) BY <2>1, <3>2
      <4>2. IsScreen(log, s) BY Switches, Parts
      <4>3. s.thread = ui.thread /\ s.events = ui.events BY Parts DEF Screen
      <4> QED BY <4>1, <4>2, <4>3, Fails DEF Over
    <3> QED BY <3>1, <3>2
  <2>3. main.op # "none" BY <1>9 DEF IInv, MainFits
  <2>4. SyncedIsComplete' BY <1>6, <2>2 DEF Over
  <2>5. Keeps BY <2>1
  <2> HIDE DEF Keeps
  <2>6. IInv'
    BY <1>1, <1>2, <1>3, <1>4, <1>9, <2>1, <2>2, <2>3, <2>4, OperationOver DEF Over
  <2> QED BY <2>5, <2>6 DEF Keeps
<1>10. CASE f = "cancel"
  <2>1. /\ cancelling' = NoCancel /\ ui' = StartWatching(ui, Pending)
        /\ UNCHANGED <<main, draft>>
    BY <1>1, <1>10
  <2>2. WatchedFrom(ui) BY <2>1, WatchingStarts, Parts
  <2>3. SyncedIsComplete' BY <1>6, <2>2 DEF WatchedFrom
  <2>4. /\ reads'["main"] = reads["main"] /\ reads'["watch"] = reads["watch"]
        /\ reads'["cancel"] = Nothing
    BY <1>5, <1>10 DEF Flows
  <2>5. Keeps BY <2>1
  <2> HIDE DEF Keeps
  <2>6. IInv'
    BY <1>2, <1>3, <1>5, <2>1, <2>2, <2>3, <2>4, ScreenMoves DEF WatchedFrom
  <2> QED BY <2>5, <2>6 DEF Keeps
<1>11. CASE f = "watch"
  <2>1. /\ ui' = IF retryable THEN ui
                 ELSE [ui EXCEPT !.restored = FALSE, !.watching = FALSE]
        /\ UNCHANGED <<main, cancelling, draft>>
    BY <1>1, <1>11
  <2>2. /\ IsScreen(log, ui') /\ ui' \in Screen /\ ui'.thread = ui.thread
        /\ ui'.events = ui.events /\ (ui'.watching => ui.watching)
    <3>1. CASE retryable BY <2>1, <3>1, Parts
    <3>2. CASE ~retryable
      <4>s. PICK s : s = [ui EXCEPT !.restored = FALSE] OBVIOUS
      <4>0. IsScreen(log, [ui EXCEPT !.restored = FALSE]) BY Switches, Parts
      <4>1. IsScreen(log, s) BY <4>0, <4>s
      <4>2. ui' = [s EXCEPT !.watching = FALSE]
        <5>1. ui' = [[ui EXCEPT !.restored = FALSE] EXCEPT !.watching = FALSE]
          BY <2>1, <3>2, Zenon
        <5> QED BY <5>1, <4>s, Zenon
      <4>3. IsScreen(log, [s EXCEPT !.watching = FALSE]) BY <4>1, Switches
      <4>4. IsScreen(log, ui') BY <4>2, <4>3
      <4> QED BY <2>1, <3>2, <4>4, Parts DEF IsScreen, Screen
    <3> QED BY <3>1, <3>2
  <2>3. SyncedIsComplete' BY <1>6, <2>2
  <2>4. /\ reads'["main"] = reads["main"] /\ reads'["cancel"] = reads["cancel"]
        /\ reads'["watch"] = Nothing
    BY <1>5, <1>11 DEF Flows
  <2>5. Keeps BY <2>1
  <2> HIDE DEF Keeps
  <2>6. IInv' BY <1>2, <1>3, <1>5, <2>1, <2>2, <2>3, <2>4, ScreenMoves
  <2> QED BY <2>5, <2>6 DEF Keeps
<1> QED BY <1>1, <1>7, <1>8, <1>9, <1>10, <1>11

-----------------------------------------------------------------------------
(* The invariant, and what it says.                                          *)

LEMMA Starts ==
  ASSUME Init PROVE IInv
<1>1. PICK t \in Threads \cup {NoThread} : ui = Fresh(t) BY DEF Init
<1>2. /\ ServerInit /\ main = Idle /\ cancelling = NoCancel
      /\ reads = [f \in Flows |-> Nothing] /\ posts = {}
      /\ draft = [e \in Own |-> "editing"]
      /\ synced = 0 /\ disturbed = FALSE /\ losses = 0
  BY DEF Init
<1>3. ServerTypeOK
  <2>1. <<>> \in Seq(Event) BY EmptySeq
  <2> QED BY <1>2, <2>1 DEF ServerInit, ServerTypeOK, Work
<1>4. LogFits
  <2>1. \A t2 \in Threads : log[t2] = << >> BY <1>2 DEF ServerInit
  <2> QED BY <2>1 DEF LogFits
<1>5. RestFits BY <1>2 DEF RestFits, ServerInit
<1>6. IsScreen(log, ui) /\ ui \in Screen /\ ui.watching = FALSE
  BY <1>1, FreshIsScreen DEF IsScreen
<1>7. main \in Operation /\ main.op = "none" /\ main.pc = "idle"
  BY <1>2 DEF Idle, Operation
<1>8. /\ cancelling \in [pc : {"idle", "posted", "confirming"},
                         thread : Threads \cup {NoThread},
                         execution : Executions \cup {Nothing}]
      /\ cancelling.pc = "idle"
  BY <1>2 DEF NoCancel
<1>9. 0 \in 0..MaxLosses BY SessionAssumption
<1>10. TypeOK
  BY <1>2, <1>3, <1>6, <1>7, <1>8, <1>9 DEF TypeOK, Screen, Operation
<1>11. ScreenFits BY <1>6 DEF ScreenFits
<1>12. MainFits BY <1>7 DEF MainFits, Requesting
<1>13. CancelFits BY <1>8 DEF CancelFits
<1>14. ReadsFit BY <1>2 DEF ReadsFit, Flows
<1>15. DraftsFit /\ PostsFit
  BY <1>2, SessionAssumption DEF DraftsFit, PostsFit, ServerInit, Accepted
<1>16. SyncedIsComplete BY <1>2 DEF SyncedIsComplete
<1> QED BY <1>4, <1>5, <1>10, <1>11, <1>12, <1>13, <1>14, <1>15, <1>16 DEF IInv

LEMMA Steps ==
  ASSUME IInv, [Next]_vars PROVE IInv'
<1>1. CASE Server BY <1>1, ServerStep
<1>2. CASE User
  <2>1. CASE Refresh
    <3>1. ui.thread \in Threads BY <2>1, Parts DEF Refresh
    <3>2. Nothing \in Executions \cup {Nothing} OBVIOUS
    <3> QED BY <2>1, <3>1, <3>2, HistoryBegins DEF Refresh
  <2>2. CASE NewChat BY <2>2, ChatBegins
  <2>3. ASSUME NEW t \in Threads, SelectConversation(t) PROVE IInv'
    <3>1. Nothing \in Executions \cup {Nothing} OBVIOUS
    <3> QED BY <2>3, <3>1, HistoryBegins DEF SelectConversation
  <2>4. ASSUME NEW e \in Own, Submit(e) PROVE IInv' BY <2>4, SubmitBegins
  <2>5. ASSUME NEW e \in Executions, Resume(e) PROVE IInv'
    <3>1. ui.thread \in Threads /\ ui.thread = ThreadOf[e] BY <2>5, Parts DEF Resume
    <3>2. e \in Executions \cup {Nothing} OBVIOUS
    <3> QED BY <2>5, <3>1, <3>2, HistoryBegins DEF Resume
  <2>6. ASSUME NEW e \in Executions, Answers(e) PROVE IInv' BY <2>6, AnswerBegins
  <2>7. ASSUME NEW e \in Executions, Cancel(e) PROVE IInv' BY <2>7, CancelBegins
  <2> QED BY <1>2, <2>1, <2>2, <2>3, <2>4, <2>5, <2>6, <2>7 DEF User
<1>3. ASSUME NEW p \in posts, Handle(p) PROVE IInv' BY <1>3, RequestHandled
<1>4. CASE Restore
  <2>1. ui.thread \in Threads BY <1>4, Parts DEF Restore, IsScreen
  <2>2. Nothing \in Executions \cup {Nothing} OBVIOUS
  <2> QED BY <1>4, <2>1, <2>2, HistoryBegins DEF Restore
<1>5. ASSUME NEW f \in Flows, Serve(f) PROVE IInv' BY <1>5, ReadServed
<1>6. CASE MainFlow
  BY <1>3, <1>4, <1>5, <1>6, AcceptanceFails, RefusalArrives, StreamMoves, StreamEnded,
     RecoveryBegins, HistoryArrives, RecoveryArrives DEF MainFlow, Flows
<1>7. CASE CancelFlow
  BY <1>3, <1>5, <1>7, ConfirmationArrives DEF CancelFlow, Flows
<1>8. CASE WatchFlow
  BY <1>5, <1>8, WatchBegins, ProgressArrives DEF WatchFlow, Flows
<1>9. CASE Reload BY <1>9, Reloads
<1>10. CASE LosePost BY <1>10, PostLost
<1>11. ASSUME NEW retryable \in BOOLEAN, LoseRead(retryable) PROVE IInv' BY <1>11, ReadLost
<1>12. CASE UNCHANGED vars
  <2>1. UNCHANGED <<log, work, ui, main, cancelling, reads, posts, draft, synced,
                    disturbed, losses>>
    BY <1>12 DEF vars, serverVars, clientVars, boundVars
  <2>2. UNCHANGED serverVars BY <2>1 DEF serverVars
  <2>3. TypeOK' BY <2>1 DEF IInv, TypeOK, ServerTypeOK
  <2>4. ScreenFits' /\ MainFits' /\ CancelFits' /\ ReadsFit'
    BY <2>1 DEF IInv, ScreenFits, MainFits, CancelFits, ReadsFit, Pending, Requesting, Accepted
  <2>5. DraftsFit' /\ PostsFit'
    BY <2>1 DEF IInv, DraftsFit, PostsFit, Accepted
  <2>6. SyncedIsComplete' BY <2>1 DEF IInv, SyncedIsComplete
  <2> QED BY <2>2, <2>3, <2>4, <2>5, <2>6, ServerSame DEF IInv
<1> QED BY <1>1, <1>2, <1>3, <1>6, <1>7, <1>8, <1>9, <1>10, <1>11, <1>12 DEF Next

(* Every variable of a session and of its conversations keeps its type, for  *)
(* any number of conversations, executions and losses.                       *)
THEOREM SessionTypes == Spec => []TypeOK
<1>1. Init => IInv BY Starts
<1>2. IInv /\ [Next]_vars => IInv' BY Steps
<1>3. IInv => TypeOK BY DEF IInv
<1> QED BY <1>1, <1>2, <1>3, PTL DEF Spec

(* No answer lands in a conversation that was chosen after it was asked for, *)
(* whichever flows are under way: receive need not check it again.           *)
THEOREM AnswersStayInTheirConversation == Spec => []OneConversation
<1>1. Init => IInv BY Starts
<1>2. IInv /\ [Next]_vars => IInv' BY Steps
<1>3. IInv => OneConversation BY DEF IInv, ScreenFits, IsScreen, OneConversation
<1> QED BY <1>1, <1>2, <1>3, PTL DEF Spec

(* What a read of the operation or of the watcher covered is on the screen   *)
(* without a gap (cursor), whatever the streams between them left out.       *)
THEOREM ReadsLeaveNoGap == Spec => []SyncedIsComplete
<1>1. Init => IInv BY Starts
<1>2. IInv /\ [Next]_vars => IInv' BY Steps
<1>3. IInv => SyncedIsComplete BY DEF IInv
<1> QED BY <1>1, <1>2, <1>3, PTL DEF Spec

(* Who judges a draft. *)
LEMMA DraftsChange ==
  ASSUME IInv, [Next]_vars, NEW e \in Own, draft'[e] # draft[e]
  PROVE  \/ Submit(e)
         \/ \E p \in posts : Handle(p)
         \/ RefuseAccepted \/ StreamNext \/ GotRecovery
         \/ \E retryable \in BOOLEAN : LoseRead(retryable)
<1> DEFINE same == draft' = draft
<1>1. Server => same BY DEF Server, clientVars
<1>2. ASSUME NEW x \in Own, Submit(x) PROVE x = e
  BY <1>2 DEF Submit, IInv, TypeOK
<1>3. User => same \/ \E x \in Own : Submit(x)
  BY DEF User, Refresh, NewChat, SelectConversation, Resume, Answers, Cancel, ReadHistory
<1>4. MainFlow => \/ same \/ \E p \in posts : Handle(p)
                  \/ RefuseAccepted \/ StreamNext \/ GotRecovery
  BY DEF MainFlow, AcceptThenFail, StreamEnds, SendRecovery, Serve, GotHistory, Restore,
         ReadHistory
<1>5. CancelFlow => same \/ \E p \in posts : Handle(p)
  BY DEF CancelFlow, Serve, GotConfirmation
<1>6. WatchFlow \/ Reload \/ LosePost \/ UNCHANGED vars => same
  BY DEF WatchFlow, Watch, Serve, GotProgress, Reload, LosePost, vars, clientVars
<1> QED BY <1>1, <1>2, <1>3, <1>4, <1>5, <1>6 DEF Next

(* A refusal keeps the text of a message that the server does not know, or   *)
(* of one that it accepted in the same request.                              *)
LEMMA RefusalsKeep ==
  ASSUME IInv, NEW e \in Own, draft'[e] # draft[e],
         RefuseAccepted \/ \E p \in posts : Handle(p)
  PROVE  /\ draft'[e] = "kept" /\ ~ui'.restored
         /\ \/ ~Accepted(e)
            \/ main.pc = "posted" /\ [op |-> "submit", execution |-> e] \notin posts
<1>1. draft \in [Own -> {"editing", "sent", "cleared", "kept"}] BY DEF IInv, TypeOK
<1>2. CASE RefuseAccepted
  <2>1. /\ Fail(ui) /\ draft' = [draft EXCEPT ![main.execution] = "kept"]
        /\ main.pc = "posted" /\ [op |-> "submit", execution |-> main.execution] \notin posts
    BY <1>2 DEF RefuseAccepted, TakeRefusal
  <2>2. e = main.execution /\ draft'[e] = "kept" BY <1>1, <2>1
  <2> QED BY <2>1, <2>2, Fails, Parts
<1>3. ASSUME NEW p \in posts, Handle(p)
      PROVE  draft'[e] = "kept" /\ ~ui'.restored /\ ~Accepted(e)
  <2> PICK refused \in BOOLEAN : Respond(p, refused) BY <1>3, HandleIs
  <2>1. Waits(p) /\ TakeRefusal BY DEF Respond
  <2>2. /\ Fail(ui) /\ main.op = "submit" /\ draft' = [draft EXCEPT ![main.execution] = "kept"]
        /\ p.op = "submit" /\ p.execution = main.execution
    BY <2>1 DEF TakeRefusal, Waits
  <2>3. e = p.execution /\ draft'[e] = "kept" BY <1>1, <2>2
  <2>4. p = [op |-> "submit", execution |-> e] BY <2>2, <2>3 DEF IInv, TypeOK
  <2>5. ~Accepted(e) BY <2>4, Parts DEF IInv, PostsFit
  <2> QED BY <2>2, <2>3, <2>5, Fails, Parts
<1> QED BY <1>2, <1>3

(* A text is cleared only when its execution was accepted, and is left with  *)
(* the user after an acceptance only when the request was refused after it,  *)
(* the read that asks about it failed for good, or its answer came before    *)
(* the acceptance; whenever it is left, the session sends nothing until it   *)
(* has read the conversation again (submit, sendProgress).                   *)
THEOREM DraftsAreSafe == Spec => DraftsAreJudgedRightly
<1> DEFINE Judged1 == \A e \in Own : draft'[e] # draft[e] =>
      /\ draft'[e] = "cleared" => Accepted(e)
      /\ draft'[e] = "kept" =>
            /\ ~ui'.restored
            /\ \/ ~Accepted(e)
               \/ /\ main.pc = "posted"
                  /\ [op |-> "submit", execution |-> e] \notin posts
               \/ /\ main.pc = "recovering"
                  /\ losses' # losses \/ ~Answer("main").accepted
<1>1. Init => IInv BY Starts
<1>2. IInv /\ [Next]_vars => IInv' BY Steps
<1>3. IInv /\ [Next]_vars => Judged1
  <2> SUFFICES ASSUME IInv, [Next]_vars, NEW e \in Own, draft'[e] # draft[e]
               PROVE  /\ draft'[e] = "cleared" => Accepted(e)
                      /\ draft'[e] = "kept" =>
                            /\ ~ui'.restored
                            /\ \/ ~Accepted(e)
                               \/ /\ main.pc = "posted"
                                  /\ [op |-> "submit", execution |-> e] \notin posts
                               \/ /\ main.pc = "recovering"
                                  /\ losses' # losses \/ ~Answer("main").accepted
    OBVIOUS
  <2>1. CASE Submit(e)
    <3>1. draft'[e] = "sent" BY <2>1 DEF Submit, IInv, TypeOK
    <3> QED BY <3>1
  <2>2. CASE RefuseAccepted \/ \E p \in posts : Handle(p) BY <2>2, RefusalsKeep
  <2>3. CASE StreamNext BY <2>3, StreamMoves
  <2>4. CASE GotRecovery BY <2>4, RecoveryArrives
  <2>5. ASSUME NEW retryable \in BOOLEAN, LoseRead(retryable)
        PROVE  draft'[e] = "kept" /\ ~ui'.restored /\ main.pc = "recovering" /\ losses' # losses
    BY <2>5, ReadLost
  <2> QED BY <2>1, <2>2, <2>3, <2>4, <2>5, DraftsChange
<1> HIDE DEF Judged1
<1>4. IInv /\ [Next]_vars => [Judged1]_vars BY <1>3
<1>5. [][Judged1]_vars => DraftsAreJudgedRightly BY PTL DEF DraftsAreJudgedRightly, Judged1
<1> QED BY <1>1, <1>2, <1>4, <1>5, PTL DEF Spec

-----------------------------------------------------------------------------
(* Observation.  In a session without cancellations and late requests: what  *)
(* the log says of the work on e, and where its last event is.               *)

IsOf(e, i) == i \in 1..Len(LogOf(e)) /\ LogOf(e)[i].execution = e
Notable(e, i) == IsOf(e, i) /\ LogOf(e)[i].kind # "busy"
LastOf(e, i) == \A j \in Nat : Notable(e, j) => j <= i
EndIsLast(e) == \A i \in Nat : IsOf(e, i) /\ EndsStream(e, i) => LastOf(e, i)
WorkFits(e) ==
    /\ ~work[e].cancelled /\ work[e].status # "cancelled"
    /\ work[e].settled => Rests(e)
    /\ work[e].blocked => ~IsFinal(e) /\ Published(e, "user_message")
    /\ work[e].status \in {"awaiting_approval", "completed"} => Published(e, "user_message")
    /\ Published(e, "completed") => IsFinal(e)
    /\ Published(e, "approval_decision") => work[e].decided
    /\ Published(e, "paused") => Published(e, "approval_request")
    /\ Published(e, "approval_request") =>
         \/ work[e].status \in {"awaiting_approval", "completed"}
         \/ work[e].status = "ready" /\ work[e].decided
    /\ EndIsLast(e)

LEMMA LogIs ==
  ASSUME ServerTypeOK, NEW e \in Executions
  PROVE  /\ ThreadOf[e] \in Threads /\ LogOf(e) \in Seq(Event) /\ Len(LogOf(e)) \in Nat
         /\ DOMAIN LogOf(e) = 1..Len(LogOf(e))
         /\ \A i \in 1..Len(LogOf(e)) : LogOf(e)[i] \in Event
<1>1. ThreadOf[e] \in Threads BY ConversationAssumption
<1>2. LogOf(e) \in Seq(Event) BY <1>1 DEF ServerTypeOK, LogOf
<1> QED BY <1>1, <1>2, LenProperties, ElementOfSeq

(* An event of e of this kind is its publication. *)
LEMMA EventIs ==
  ASSUME ServerTypeOK, NEW e \in Executions, NEW i, IsOf(e, i)
  PROVE  Published(e, LogOf(e)[i].kind)
<1>1. LogOf(e)[i] \in Event /\ i \in DOMAIN LogOf(e) BY LogIs DEF IsOf
<1>2. LogOf(e)[i] = [kind |-> LogOf(e)[i].kind, execution |-> e] BY <1>1 DEF Event, IsOf
<1> QED BY <1>1, <1>2 DEF Published

(* What a publication adds. *)
LEMMA Publishes ==
  ASSUME ServerTypeOK, NEW e \in Executions, NEW kind \in Kinds, Publish(e, kind)
  PROVE  /\ work' = work /\ LogGrows
         /\ \E n \in Nat : /\ n = Len(LogOf(e)) + 1
              /\ \A x \in Executions, j \in Nat :
                   /\ IsOf(x, j)' <=> IsOf(x, j) \/ (x = e /\ j = n)
                   /\ IsOf(x, j) => LogOf(x)'[j] = LogOf(x)[j]
                   /\ Notable(x, j)' <=> Notable(x, j) \/ (x = e /\ j = n /\ kind # "busy")
              /\ LogOf(e)'[n].kind = kind
         /\ \A x \in Executions, k \in Kinds :
              Published(x, k)' <=> Published(x, k) \/ (x = e /\ k = kind)
<1> PICK n : n = Len(LogOf(e)) + 1 OBVIOUS
<1> PICK u : u = ThreadOf[e] OBVIOUS
<1> PICK v : v = [kind |-> kind, execution |-> e] OBVIOUS
<1>1. /\ log' = [log EXCEPT ![u] = Append(log[u], v)] /\ work' = work
      /\ AppendOnce(e, kind)
  BY DEF Publish, AppendOnce
<1>2. u \in Threads /\ log[u] \in Seq(Event) /\ n = Len(log[u]) + 1 /\ n \in Nat
  BY LogIs DEF LogOf
<1>3. v \in Event /\ v.kind = kind /\ v.execution = e BY DEF Event
<1>4. /\ Len(Append(log[u], v)) = n
      /\ \A i \in 1..Len(log[u]) : Append(log[u], v)[i] = log[u][i]
      /\ Append(log[u], v)[n] = v
  BY <1>2, <1>3, AppendProperties
<1>5. log'[u] = Append(log[u], v) /\ \A t \in Threads \ {u} : log'[t] = log[t]
  BY <1>1, <1>2 DEF ServerTypeOK
<1>6. LogGrows /\ log' \in [Threads -> Seq(Event)] BY <1>1, AppendMoves
<1>7. \A x \in Executions : LogOf(x)' = log'[ThreadOf[x]] /\ LogOf(x) = log[ThreadOf[x]]
  BY DEF LogOf
<1>8. \A x \in Executions : ThreadOf[x] \in Threads /\ Len(LogOf(x)) \in Nat BY LogIs
<1>9. ASSUME NEW x \in Executions, NEW j \in Nat
      PROVE  /\ IsOf(x, j)' <=> IsOf(x, j) \/ (x = e /\ j = n)
             /\ IsOf(x, j) => LogOf(x)'[j] = LogOf(x)[j]
             /\ Notable(x, j)' <=> Notable(x, j) \/ (x = e /\ j = n /\ kind # "busy")
  <2>1. CASE ThreadOf[x] = u
    <3>1. /\ LogOf(x)' = Append(log[u], v) /\ LogOf(x) = log[u] /\ Len(log[u]) = n - 1
      BY <1>2, <1>5, <1>7, <2>1
    <3>2. Len(LogOf(x)') = n BY <1>4, <3>1
    <3>3. Len(LogOf(x))' = n BY <3>2
    <3>4. j \in 1..Len(log[u]) => LogOf(x)'[j] = LogOf(x)[j] BY <1>4, <3>1
    <3>5. LogOf(x)'[n] = v BY <1>4, <3>1
    <3>6. j \in 1..n <=> j \in 1..Len(log[u]) \/ j = n BY <1>2, <3>1
    <3>7. n \notin 1..Len(log[u]) BY <1>2, <3>1
    <3> QED BY <1>3, <3>1, <3>3, <3>4, <3>5, <3>6, <3>7 DEF IsOf, Notable
  <2>2. CASE ThreadOf[x] # u
    <3>1. LogOf(x)' = LogOf(x) /\ x # e BY <1>5, <1>7, <1>8, <2>2
    <3> QED BY <3>1 DEF IsOf, Notable
  <2> QED BY <2>1, <2>2
<1>10. LogOf(e)'[n].kind = kind BY <1>3, <1>4, <1>5, <1>7
<1>11. ASSUME NEW x \in Executions, NEW k \in Kinds
       PROVE  Published(x, k)' <=> Published(x, k) \/ (x = e /\ k = kind)
  <2>1. /\ LogOf(x) \in Seq(Event) /\ LogOf(x)' \in Seq(Event)
        /\ DOMAIN LogOf(x) = 1..Len(LogOf(x)) /\ DOMAIN LogOf(x)' = 1..Len(LogOf(x)')
        /\ Len(LogOf(x)) \in Nat /\ Len(LogOf(x)') \in Nat
    BY <1>6, <1>7, <1>8, LogIs, LenProperties
  <2>2. Published(x, k) <=> \E j \in Nat : IsOf(x, j) /\ LogOf(x)[j].kind = k
    <3>1. \A j \in 1..Len(LogOf(x)) : LogOf(x)[j] \in Event BY LogIs
    <3>2. \A j \in 1..Len(LogOf(x)) :
             LogOf(x)[j] = [kind |-> k, execution |-> x]
               <=> LogOf(x)[j].kind = k /\ LogOf(x)[j].execution = x
      BY <3>1 DEF Event
    <3>3. Published(x, k) <=> \E j \in 1..Len(LogOf(x)) :
                                 LogOf(x)[j] = [kind |-> k, execution |-> x]
      BY <2>1 DEF Published
    <3>4. \A j \in 1..Len(LogOf(x)) : j \in Nat OBVIOUS
    <3> QED BY <3>2, <3>3, <3>4 DEF IsOf
  <2>3. Published(x, k)' <=> \E j \in Nat : IsOf(x, j)' /\ LogOf(x)'[j].kind = k
    <3>1. \A j \in 1..Len(LogOf(x)') : LogOf(x)'[j] \in Event BY <2>1, ElementOfSeq
    <3>2. \A j \in 1..Len(LogOf(x)') :
             LogOf(x)'[j] = [kind |-> k, execution |-> x]
               <=> LogOf(x)'[j].kind = k /\ LogOf(x)'[j].execution = x
      BY <3>1 DEF Event
    <3>3. Published(x, k)' <=> \E j \in 1..Len(LogOf(x)') :
                                  LogOf(x)'[j] = [kind |-> k, execution |-> x]
      BY <2>1 DEF Published
    <3>4. \A j \in 1..Len(LogOf(x)') : j \in Nat OBVIOUS
    <3> QED BY <3>2, <3>3, <3>4 DEF IsOf
  <2>4. ASSUME Published(x, k) PROVE Published(x, k)'
    BY <1>9, <2>2, <2>3, <2>4
  <2>5. ASSUME x = e, k = kind PROVE Published(x, k)'
    BY <1>2, <1>9, <1>10, <2>3, <2>5
  <2>6. ASSUME Published(x, k)' PROVE Published(x, k) \/ (x = e /\ k = kind)
    BY <1>9, <1>10, <2>2, <2>3, <2>6
  <2> QED BY <2>4, <2>5, <2>6
<1> QED BY <1>1, <1>2, <1>6, <1>9, <1>10, <1>11

(* What a step of the server for x leaves of the others, and of x when it    *)
(* rests: nothing notable is published any more.                             *)
Stays(e) == /\ Rests(e) => Rests(e)'
            /\ \A j \in Nat : Notable(e, j)' <=> Notable(e, j)
Goes(e) == \A j \in Nat : /\ Notable(e, j) => Notable(e, j)'
                          /\ Notable(e, j)' => Notable(e, j) \/ j > Len(LogOf(e))

(* A publication of x that keeps the order of its events. *)
LEMMA PublicationFits ==
  ASSUME ServerTypeOK, NEW x \in Executions,
         NEW kind \in Kinds \ {"cancellation_requested"}, Publish(x, kind),
         \A e \in Executions : WorkFits(e),
         kind \in {"user_message", "approval_request", "paused", "approval_decision", "completed"} =>
             (\A i \in Nat : IsOf(x, i) => ~EndsStream(x, i)) /\ ~Rests(x),
         kind = "completed" => IsFinal(x),
         kind = "approval_decision" => work[x].decided,
         kind = "paused" => Published(x, "approval_request"),
         kind = "approval_request" => work[x].status = "awaiting_approval"
  PROVE  /\ \A e \in Executions : WorkFits(e)'
         /\ \A e \in Executions : Goes(e) /\ (Rests(e) => Stays(e))
<1>1. PICK n \in Nat :
        /\ n = Len(LogOf(x)) + 1
        /\ \A e \in Executions, j \in Nat :
             /\ IsOf(e, j)' <=> IsOf(e, j) \/ (e = x /\ j = n)
             /\ IsOf(e, j) => LogOf(e)'[j] = LogOf(e)[j]
             /\ Notable(e, j)' <=> Notable(e, j) \/ (e = x /\ j = n /\ kind # "busy")
        /\ LogOf(x)'[n].kind = kind
  BY Publishes
<1>2. /\ work' = work
      /\ \A e \in Executions, k \in Kinds :
           Published(e, k)' <=> Published(e, k) \/ (e = x /\ k = kind)
  BY Publishes
<1>3. \A e \in Executions : /\ Rests(e) => Rests(e)'
                            /\ IsFinal(e)' <=> IsFinal(e)
  <2>1. {"completed", "paused"} \subseteq Kinds BY DEF Kinds
  <2> QED BY <1>2, <2>1 DEF Rests, IsFinal
<1>4. ASSUME NEW e \in Executions, NEW i \in Nat, IsOf(e, i)', EndsStream(e, i)'
      PROVE  LastOf(e, i)'
  <2>1. CASE IsOf(e, i)
    <3>1. LogOf(e)'[i] = LogOf(e)[i] BY <1>1, <2>1
    <3>2. EndsStream(e, i) BY <1>2, <1>4, <3>1 DEF EndsStream
    <3>3. LastOf(e, i) BY <2>1, <3>2 DEF WorkFits, EndIsLast
    <3>4. kind = "busy" \/ e # x BY <2>1, <3>2 DEF Kinds
    <3>5. \A j \in Nat : Notable(e, j)' <=> Notable(e, j) BY <1>1, <3>4
    <3> QED BY <3>3, <3>5 DEF LastOf
  <2>2. CASE ~IsOf(e, i)
    <3>1. e = x /\ i = n BY <1>1, <1>4, <2>2
    <3>2. \A j \in Nat : Notable(x, j) => j <= n
      BY <1>1, LogIs DEF Notable, IsOf
    <3>3. \A j \in Nat : Notable(x, j)' => j <= n BY <1>1, <3>2
    <3> QED BY <3>1, <3>3 DEF LastOf
  <2> QED BY <2>1, <2>2
<1>5. ASSUME NEW e \in Executions PROVE WorkFits(e)'
  <2>1. EndIsLast(e)' BY <1>4 DEF EndIsLast
  <2>2. \A k \in Kinds : Published(e, k) => Published(e, k)' BY <1>2
  <2>3. {"user_message", "completed", "approval_decision", "paused", "approval_request"} \subseteq Kinds
    BY DEF Kinds
  <2> QED BY <1>2, <1>3, <2>1, <2>2, <2>3 DEF WorkFits
<1>6. ASSUME NEW e \in Executions PROVE Goes(e) /\ (Rests(e) => Stays(e))
  <2>1. Goes(e)
    <3>1. Len(LogOf(e)) \in Nat BY LogIs
    <3> QED BY <1>1, <3>1 DEF Goes
  <2>2. Rests(e) => e # x \/ kind = "busy" BY DEF Kinds
  <2> QED BY <1>1, <1>3, <2>1, <2>2 DEF Stays
<1> QED BY <1>5, <1>6

(* A step that writes only the row of x. *)
LEMMA RowFits ==
  ASSUME ServerTypeOK, NEW x \in Executions, NEW r \in Work, UNCHANGED log,
         work' = [work EXCEPT ![x] = r],
         \A e \in Executions : WorkFits(e),
         \A i \in Nat : IsOf(x, i) /\ EndsStream(x, i)' => LastOf(x, i),
         ~r.cancelled, r.status # "cancelled",
         r.settled => Rests(x)',
         r.blocked => r.status \notin {"completed", "cancelled"} /\ Published(x, "user_message"),
         r.status \in {"awaiting_approval", "completed"} => Published(x, "user_message"),
         Published(x, "completed") => r.status = "completed",
         Published(x, "approval_decision") => r.decided,
         Published(x, "approval_request") =>
             \/ r.status \in {"awaiting_approval", "completed"}
             \/ r.status = "ready" /\ r.decided
  PROVE  /\ \A e \in Executions : WorkFits(e)' /\ Goes(e)
         /\ \A e \in Executions : e # x \/ (Rests(x) => Rests(x)') => Stays(e)
<1>1. /\ work'[x] = r /\ \A e \in Executions \ {x} : work'[e] = work[e]
  BY DEF ServerTypeOK
<1>2. \A e \in Executions : LogOf(e)' = LogOf(e) BY DEF LogOf
<1>3. \A e \in Executions, k \in Kinds : Published(e, k)' <=> Published(e, k)
  BY <1>2 DEF Published
<1>4. \A e \in Executions, j \in Nat : /\ IsOf(e, j)' <=> IsOf(e, j)
                                       /\ Notable(e, j)' <=> Notable(e, j)
  BY <1>2 DEF IsOf, Notable
<1>5. \A e \in Executions, i \in Nat : LastOf(e, i)' <=> LastOf(e, i)
  BY <1>4 DEF LastOf
<1>6. {"user_message", "completed", "approval_decision", "paused", "approval_request"} \subseteq Kinds
  BY DEF Kinds
<1>7. ASSUME NEW e \in Executions, e # x
      PROVE  WorkFits(e)' /\ (Rests(e)' <=> Rests(e))
  <2>1. work'[e] = work[e] BY <1>1, <1>7
  <2>2. \A i \in Nat : EndsStream(e, i)' <=> EndsStream(e, i) BY <1>2, <2>1 DEF EndsStream
  <2>3. EndIsLast(e)' BY <1>4, <1>5, <2>2 DEF WorkFits, EndIsLast
  <2>4. Rests(e)' <=> Rests(e) BY <1>3, <1>6, <2>1 DEF Rests, IsFinal
  <2> QED BY <1>3, <1>6, <2>1, <2>3, <2>4 DEF WorkFits, IsFinal
<1>8. WorkFits(x)'
  <2>1. EndIsLast(x)' BY <1>4, <1>5 DEF EndIsLast
  <2>2. IsFinal(x)' <=> r.status \in {"completed", "cancelled"} BY <1>1 DEF IsFinal
  <2> QED BY <1>1, <1>3, <1>6, <2>1, <2>2 DEF WorkFits
<1>9. \A e \in Executions : Goes(e) BY <1>4 DEF Goes
<1> QED BY <1>4, <1>7, <1>8, <1>9 DEF Stays

(* Every step of the server but a cancellation. *)
LEMMA WorkSteps ==
  ASSUME ServerTypeOK, NEW x \in Executions, \A e \in Executions : WorkFits(e),
         \/ Deliver(x) \/ Park(x) \/ Accept(x)
         \/ Accepted(x) /\ (Decide(x) \/ Wake(x))
  PROVE  /\ \A e \in Executions : WorkFits(e)' /\ Goes(e)
         /\ \A e \in Executions : e # x \/ Deliver(x) \/ Park(x) => (Rests(e) => Stays(e))
<1> DEFINE good == /\ \A e \in Executions : WorkFits(e)' /\ Goes(e)
                   /\ \A e \in Executions :
                        e # x \/ Deliver(x) \/ Park(x) => (Rests(e) => Stays(e))
<1>1. /\ WorkFits(x) /\ work[x] \in Work /\ work \in [Executions -> Work]
      /\ LogOf(x)' = log'[ThreadOf[x]]
  BY DEF ServerTypeOK, LogOf
<1>2. \A i \in Nat : IsOf(x, i) => Published(x, LogOf(x)[i].kind) BY EventIs
<1>3. \A i \in Nat : IsOf(x, i) /\ EndsStream(x, i) =>
        \/ Published(x, "completed")
        \/ Published(x, "paused") /\ work[x].status = "awaiting_approval" /\ ~work[x].decided
        \/ Published(x, "busy") /\ work[x].blocked
  BY <1>2 DEF EndsStream
<1>4. ASSUME NEW kind \in Kinds \ {"cancellation_requested"}, Publish(x, kind),
             kind \in {"user_message", "approval_request", "paused", "approval_decision", "completed"} =>
                 (\A i \in Nat : IsOf(x, i) => ~EndsStream(x, i)) /\ ~Rests(x),
             kind = "completed" => IsFinal(x),
             kind = "approval_decision" => work[x].decided,
             kind = "paused" => Published(x, "approval_request"),
             kind = "approval_request" => work[x].status = "awaiting_approval"
      PROVE  good
  BY <1>4, PublicationFits
<1>5. ASSUME NEW r \in Work, UNCHANGED log, work' = [work EXCEPT ![x] = r],
             \A i \in Nat : IsOf(x, i) /\ EndsStream(x, i)' => LastOf(x, i),
             ~r.cancelled, r.status # "cancelled",
             r.settled => Rests(x)',
             r.blocked => r.status \notin {"completed", "cancelled"} /\ Published(x, "user_message"),
             r.status \in {"awaiting_approval", "completed"} => Published(x, "user_message"),
             Published(x, "completed") => r.status = "completed",
             Published(x, "approval_decision") => r.decided,
             Published(x, "approval_request") =>
                 \/ r.status \in {"awaiting_approval", "completed"}
                 \/ r.status = "ready" /\ r.decided,
             Deliver(x) \/ Park(x) => (Rests(x) => Rests(x)')
      PROVE  good
  <2>1. /\ \A e \in Executions : WorkFits(e)' /\ Goes(e)
        /\ \A e \in Executions : e # x \/ (Rests(x) => Rests(x)') => Stays(e)
    BY <1>5, RowFits
  <2> QED BY <1>5, <2>1
<1>6. ASSUME UNCHANGED log, NEW r \in Work, work' = [work EXCEPT ![x] = r]
      PROVE  /\ LogOf(x)' = LogOf(x) /\ work'[x] = r
             /\ \A k : Published(x, k)' <=> Published(x, k)
             /\ \A i \in Nat : EndsStream(x, i)' <=>
                  \/ LogOf(x)[i].kind = "completed"
                  \/ /\ LogOf(x)[i].kind = "paused"
                     /\ r.status = "awaiting_approval" /\ ~r.decided
                  \/ LogOf(x)[i].kind = "busy" /\ r.blocked
  <2>1. LogOf(x)' = LogOf(x) /\ work'[x] = r BY <1>1, <1>6 DEF LogOf
  <2> QED BY <2>1 DEF Published, EndsStream
<1>7. \A i \in Nat : IsOf(x, i) /\ EndsStream(x, i) => LastOf(x, i)
  BY <1>1 DEF WorkFits, EndIsLast
<1>8. CASE AnnounceUser(x)
  <2>1. Publish(x, "user_message") /\ ~Published(x, "user_message")
    BY <1>8 DEF AnnounceUser, Publish
  <2>2. \A i \in Nat : IsOf(x, i) => ~EndsStream(x, i)
    BY <1>1, <1>3, <2>1 DEF WorkFits, IsFinal
  <2>3. ~Rests(x) BY <1>1, <2>1 DEF WorkFits, Rests, IsFinal
  <2>4. "user_message" \in Kinds \ {"cancellation_requested"} BY DEF Kinds
  <2> QED BY <1>4, <2>1, <2>2, <2>3, <2>4
<1>9. CASE AskApproval(x)
  <2> PICK r : r = [work[x] EXCEPT !.status = "awaiting_approval"] OBVIOUS
  <2>1. /\ InStage(x) /\ work[x].status = "ready" /\ Published(x, "user_message")
        /\ ~work[x].decided /\ work' = [work EXCEPT ![x] = r] /\ UNCHANGED log
    BY <1>1, <1>9 DEF AskApproval
  <2>2. r \in Work BY <1>1, Zenon DEF Work
  <2>3. /\ r.status = "awaiting_approval" /\ r.settled = work[x].settled
        /\ r.blocked = work[x].blocked /\ r.decided = work[x].decided
        /\ r.cancelled = work[x].cancelled
    BY <1>1 DEF Work
  <2>4. ~Published(x, "completed") /\ ~Published(x, "paused")
    BY <1>1, <2>1 DEF WorkFits, IsFinal
  <2>5. \A i \in Nat : IsOf(x, i) /\ EndsStream(x, i)' => LastOf(x, i)
    BY <1>2, <1>6, <1>7, <2>1, <2>2, <2>3, <2>4 DEF EndsStream
  <2>6. ~Rests(x) BY <2>1 DEF Rests, IsFinal, InStage
  <2> QED BY <1>1, <1>5, <2>1, <2>2, <2>3, <2>4, <2>5, <2>6 DEF WorkFits, InStage
<1>10. CASE Pause(x)
  <2>1. InStage(x) /\ work[x].status = "awaiting_approval" BY <1>10 DEF Pause
  <2>2. ~Published(x, "completed") BY <1>1, <2>1 DEF WorkFits, IsFinal
  <2>3. ~Published(x, "paused") =>
          (\A i \in Nat : IsOf(x, i) => ~EndsStream(x, i)) /\ ~Rests(x)
    BY <1>3, <2>1, <2>2 DEF InStage, Rests
  <2>4. CASE Publish(x, "approval_request")
    <3>1. ~Published(x, "paused") BY <1>1, <2>4 DEF WorkFits, Publish
    <3>2. "approval_request" \in Kinds \ {"cancellation_requested"} BY DEF Kinds
    <3> QED BY <1>4, <2>1, <2>3, <2>4, <3>1, <3>2
  <2>5. CASE Publish(x, "paused") /\ Published(x, "approval_request")
    <3>1. ~Published(x, "paused") BY <2>5 DEF Publish
    <3>2. "paused" \in Kinds \ {"cancellation_requested"} BY DEF Kinds
    <3> QED BY <1>4, <2>3, <2>5, <3>1, <3>2
  <2> QED BY <1>10, <2>4, <2>5 DEF Pause
<1>11. CASE AnnounceDecision(x)
  <2>1. /\ InStage(x) /\ work[x].status = "awaiting_approval" /\ work[x].decided
        /\ Publish(x, "approval_decision")
    BY <1>11 DEF AnnounceDecision
  <2>2. ~Published(x, "completed") BY <1>1, <2>1 DEF WorkFits, IsFinal
  <2>3. (\A i \in Nat : IsOf(x, i) => ~EndsStream(x, i)) /\ ~Rests(x)
    BY <1>3, <2>1, <2>2 DEF InStage, Rests
  <2>4. "approval_decision" \in Kinds \ {"cancellation_requested"} BY DEF Kinds
  <2> QED BY <1>4, <2>1, <2>3, <2>4
<1>12. CASE Complete(x)
  <2> PICK r : r = [work[x] EXCEPT !.status = "completed"] OBVIOUS
  <2>1. /\ InStage(x) /\ Published(x, "user_message") /\ UNCHANGED log
        /\ work' = [work EXCEPT ![x] = r] /\ work[x].status = "ready"
    BY <1>1, <1>12 DEF Complete
  <2>2. r \in Work BY <1>1, Zenon DEF Work
  <2>3. /\ r.status = "completed" /\ r.settled = work[x].settled
        /\ r.blocked = work[x].blocked /\ r.decided = work[x].decided
        /\ r.cancelled = work[x].cancelled
    BY <1>1 DEF Work
  <2>4. \A i \in Nat : IsOf(x, i) /\ EndsStream(x, i)' => LastOf(x, i)
    BY <1>6, <1>7, <2>1, <2>2, <2>3 DEF EndsStream
  <2>5. ~Rests(x) BY <1>1, <2>1 DEF Rests, IsFinal, InStage, WorkFits
  <2> QED BY <1>1, <1>5, <2>1, <2>2, <2>3, <2>4, <2>5 DEF WorkFits, InStage
<1>13. ~CleanUp(x) BY <1>1 DEF CleanUp, WorkFits
<1>14. CASE AnnounceOutcome(x)
  <2>1. InStage(x) /\ IsFinal(x) /\ Publish(x, "completed") /\ ~Published(x, "completed")
    BY <1>14 DEF AnnounceOutcome, Publish
  <2>2. (\A i \in Nat : IsOf(x, i) => ~EndsStream(x, i)) /\ ~Rests(x)
    BY <1>3, <2>1 DEF InStage, Rests, IsFinal
  <2>3. "completed" \in Kinds \ {"cancellation_requested"} BY DEF Kinds
  <2> QED BY <1>4, <2>1, <2>2, <2>3
<1>15. CASE Settle(x)
  <2> PICK r : r = [work[x] EXCEPT !.settled = TRUE] OBVIOUS
  <2>1. /\ InStage(x) /\ Rests(x) /\ work' = [work EXCEPT ![x] = r] /\ UNCHANGED log
    BY <1>1, <1>15 DEF Settle, Rests
  <2>2. r \in Work BY <1>1, Zenon DEF Work
  <2>3. /\ r.status = work[x].status /\ r.blocked = work[x].blocked
        /\ r.decided = work[x].decided /\ r.cancelled = work[x].cancelled
    BY <1>1 DEF Work
  <2>4. \A i \in Nat : IsOf(x, i) /\ EndsStream(x, i)' => LastOf(x, i)
    BY <1>6, <1>7, <2>1, <2>2, <2>3 DEF EndsStream
  <2>5. Rests(x)' BY <1>6, <2>1, <2>2, <2>3 DEF Rests, IsFinal
  <2> QED BY <1>1, <1>5, <2>1, <2>2, <2>3, <2>4, <2>5 DEF WorkFits, IsFinal
<1>16. CASE AnnounceParked(x)
  <2>1. Publish(x, "busy") BY <1>16 DEF AnnounceParked
  <2>2. "busy" \in Kinds \ {"cancellation_requested"} BY DEF Kinds
  <2> QED BY <1>4, <2>1, <2>2
<1>17. CASE Park(x)
  <2> PICK r : r = [work[x] EXCEPT !.blocked = TRUE] OBVIOUS
  <2>1. /\ InStage(x) /\ ~IsFinal(x) /\ Published(x, "user_message") /\ ~Published(x, "busy")
        /\ work' = [work EXCEPT ![x] = r] /\ UNCHANGED log
    BY <1>1, <1>17 DEF Park
  <2>2. r \in Work BY <1>1, Zenon DEF Work
  <2>3. /\ r.status = work[x].status /\ r.blocked /\ r.settled = work[x].settled
        /\ r.decided = work[x].decided /\ r.cancelled = work[x].cancelled
    BY <1>1 DEF Work
  <2>4. \A i \in Nat : IsOf(x, i) /\ EndsStream(x, i)' => LastOf(x, i)
    BY <1>2, <1>6, <1>7, <2>1, <2>2, <2>3 DEF EndsStream
  <2>5. Rests(x)' BY <1>6, <2>1, <2>2, <2>3 DEF Rests
  <2> QED BY <1>1, <1>5, <2>1, <2>2, <2>3, <2>4, <2>5 DEF WorkFits, IsFinal
<1>18. CASE Accept(x)
  <2> PICK r : r = [work[x] EXCEPT !.status = "ready"] OBVIOUS
  <2>1. /\ work[x].status = "unknown" /\ work' = [work EXCEPT ![x] = r] /\ UNCHANGED log
    BY <1>1, <1>18 DEF Accept, Accepted
  <2>2. r \in Work BY <1>1, Zenon DEF Work
  <2>3. /\ r.status = "ready" /\ r.blocked = work[x].blocked /\ r.settled = work[x].settled
        /\ r.decided = work[x].decided /\ r.cancelled = work[x].cancelled
    BY <1>1 DEF Work
  <2>4. \A i \in Nat : IsOf(x, i) /\ EndsStream(x, i)' => LastOf(x, i)
    BY <1>6, <1>7, <2>1, <2>2, <2>3 DEF EndsStream
  <2>5. r.settled => Rests(x)'
    BY <1>1, <1>6, <2>1, <2>2, <2>3 DEF WorkFits, Rests, IsFinal
  <2>6. Rests(x) => Rests(x)' BY <1>6, <2>1, <2>2, <2>3 DEF Rests, IsFinal
  <2> QED BY <1>1, <1>5, <2>1, <2>2, <2>3, <2>4, <2>5, <2>6 DEF WorkFits, IsFinal
<1>19. CASE Accepted(x) /\ (Decide(x) \/ Wake(x)) /\ ~Deliver(x) /\ ~Park(x)
  <2> PICK r : r = work'[x] OBVIOUS
  <2>1. /\ UNCHANGED log /\ work' = [work EXCEPT ![x] = r] /\ r \in Work
        /\ r.status = work[x].status /\ ~r.blocked /\ ~r.settled /\ r.cancelled = work[x].cancelled
        /\ work[x].decided => r.decided
    <3>1. CASE Decide(x)
      <4>1. /\ UNCHANGED log
            /\ work' = [work EXCEPT ![x] =
                 [work[x] EXCEPT !.settled = FALSE, !.blocked = FALSE, !.decided = TRUE]]
        BY <1>1, <3>1 DEF Decide, Woken
      <4>2. r = [work[x] EXCEPT !.settled = FALSE, !.blocked = FALSE, !.decided = TRUE]
        BY <1>1, <4>1
      <4>3. r \in Work BY <1>1, <4>2, Zenon DEF Work
      <4> QED BY <1>1, <4>1, <4>2, <4>3 DEF Work
    <3>2. CASE Wake(x)
      <4>1. /\ UNCHANGED log
            /\ work' = [work EXCEPT ![x] = [work[x] EXCEPT !.settled = FALSE, !.blocked = FALSE]]
        BY <1>1, <3>2 DEF Wake, Woken
      <4>2. r = [work[x] EXCEPT !.settled = FALSE, !.blocked = FALSE] BY <1>1, <4>1
      <4>3. r \in Work BY <1>1, <4>2, Zenon DEF Work
      <4> QED BY <1>1, <4>1, <4>2, <4>3 DEF Work
    <3> QED BY <1>19, <3>1, <3>2
  <2>2. \A i \in Nat : IsOf(x, i) /\ EndsStream(x, i)' => LastOf(x, i)
    BY <1>6, <1>7, <2>1 DEF EndsStream
  <2> QED BY <1>1, <1>5, <1>19, <2>1, <2>2 DEF WorkFits, IsFinal
<1>20. CASE GoOn(x)
  <2> PICK r : r = [work[x] EXCEPT !.status = "ready"] OBVIOUS
  <2>1. /\ InStage(x) /\ work[x].status = "awaiting_approval"
        /\ Published(x, "approval_decision") /\ UNCHANGED log
        /\ work' = [work EXCEPT ![x] = r]
    BY <1>1, <1>20 DEF GoOn
  <2>2. r \in Work BY <1>1, Zenon DEF Work
  <2>3. /\ r.status = "ready" /\ r.settled = work[x].settled
        /\ r.blocked = work[x].blocked /\ r.decided = work[x].decided
        /\ r.cancelled = work[x].cancelled
    BY <1>1 DEF Work
  <2>4. work[x].decided /\ ~Published(x, "completed")
    BY <1>1, <2>1 DEF WorkFits, IsFinal
  <2>5. \A i \in Nat : IsOf(x, i) /\ EndsStream(x, i)' => LastOf(x, i)
    BY <1>2, <1>6, <2>1, <2>2, <2>3, <2>4 DEF InStage
  <2>6. ~Rests(x) BY <2>1, <2>4 DEF Rests, IsFinal, InStage
  <2> QED BY <1>1, <1>5, <2>1, <2>2, <2>3, <2>4, <2>5, <2>6 DEF WorkFits, InStage
<1>21. CASE Deliver(x)
  BY <1>8, <1>9, <1>10, <1>11, <1>12, <1>13, <1>14, <1>15, <1>16, <1>20, <1>21 DEF Deliver
<1> QED BY <1>17, <1>18, <1>19, <1>21

(* What a screen, the operation and a read know of the work on e.            *)
ShownTo(s, e, n) == \A j \in Nat : Notable(e, j) /\ j <= n => <<ThreadOf[e], j>> \in s.events
Known(s, e) == Rests(e) /\ \A j \in Nat : Notable(e, j) => <<ThreadOf[e], j>> \in s.events
Covered(s, e) == s.active \/ Known(s, e)
Followed(m, s, e) ==
    /\ m.execution = e
    /\ \/ m.pc = "posted" /\ m.op = "submit"
       \/ m.pc = "streaming" /\ m.position <= Len(LogOf(e)) /\ ShownTo(s, e, m.position)
       \/ m.pc = "recovering"
Owned(t) == {e \in Own : Accepted(e) /\ ThreadOf[e] = t}
Judges(r) ==
    r # Nothing => (r.answer # Nothing /\ ~r.answer.active =>
        \A e \in Owned(r.thread) :
            /\ Rests(e)
            /\ \A j \in Nat : Notable(e, j) => j <= r.after \/ j \in r.answer.events)

(* An active conversation is watched as soon as no operation is under way; a *)
(* decision began where nothing was active.                                  *)
Watched(m, s) ==
    m.op = "none" /\ s.restored /\ s.active /\ s.thread # NoThread => s.watching
Posted(m, s) == m.pc = "posted" /\ m.op = "decide" => ~s.active
Seen(m, s) ==
    s.restored => \A e \in Owned(s.thread) : Covered(s, e) \/ Followed(m, s, e)
Observes ==
    /\ Watched(main, ui) /\ Posted(main, ui) /\ Seen(main, ui)
    /\ Judges(reads["main"]) /\ Judges(reads["watch"])
Undisturbed ==
    /\ NothingIsCancelled /\ \A e \in Executions : WorkFits(e)
    /\ Observes
Observed == ~disturbed => Undisturbed

(* The same when the server does nothing. *)
LEMMA NothingServed ==
  ASSUME UNCHANGED serverVars
  PROVE  /\ \A e : WorkFits(e)' <=> WorkFits(e)
         /\ \A e : Rests(e)' <=> Rests(e)
         /\ \A e, j : Notable(e, j)' <=> Notable(e, j)
         /\ \A e : Len(LogOf(e))' = Len(LogOf(e))
         /\ \A e : Accepted(e)' <=> Accepted(e)
         /\ \A t : Owned(t)' = Owned(t)
<1>1. log' = log /\ work' = work BY DEF serverVars
<1>2. \A e : LogOf(e)' = LogOf(e) /\ (Accepted(e)' <=> Accepted(e)) BY <1>1 DEF LogOf, Accepted
<1>3. \A e, i : /\ IsOf(e, i)' <=> IsOf(e, i)
                /\ Notable(e, i)' <=> Notable(e, i)
                /\ EndsStream(e, i)' <=> EndsStream(e, i)
  BY <1>1, <1>2 DEF IsOf, Notable, EndsStream
<1>4. \A e, k : Published(e, k)' <=> Published(e, k) BY <1>2 DEF Published
<1>5. \A e : (Rests(e)' <=> Rests(e)) /\ (IsFinal(e)' <=> IsFinal(e))
  BY <1>1, <1>4 DEF Rests, IsFinal
<1>6. \A e, i : LastOf(e, i)' <=> LastOf(e, i) BY <1>3 DEF LastOf
<1>7. \A e : EndIsLast(e)' <=> EndIsLast(e) BY <1>3, <1>6 DEF EndIsLast
<1>8. \A e : WorkFits(e)' <=> WorkFits(e) BY <1>1, <1>4, <1>5, <1>7 DEF WorkFits
<1> QED BY <1>2, <1>3, <1>5, <1>8 DEF Owned

(* A step of the client in which the screen keeps what it knows. *)
LEMMA ClientObserves ==
  ASSUME UNCHANGED serverVars, NEW m, NEW s, m = main', s = ui',
         NEW a, NEW b, a = reads'["main"], b = reads'["watch"],
         Watched(m, s), Posted(m, s), Seen(m, s), Judges(a), Judges(b),
         \A e \in Executions : WorkFits(e), NothingIsCancelled,
         cancelling' = cancelling \/ cancelling' = NoCancel,
         \A e \in Executions : [op |-> "cancel", execution |-> e] \notin posts'
  PROVE  Undisturbed'
<1>1. /\ \A e : WorkFits(e)' <=> WorkFits(e)
      /\ \A e : Rests(e)' <=> Rests(e)
      /\ \A e, j : Notable(e, j)' <=> Notable(e, j)
      /\ \A e : Len(LogOf(e))' = Len(LogOf(e))
      /\ \A e : Accepted(e)' <=> Accepted(e)
      /\ \A t : Owned(t)' = Owned(t)
  BY NothingServed
<1>2. NothingIsCancelled' BY DEF NothingIsCancelled, serverVars, NoCancel
<1>3. Watched(main, ui)' BY DEF Watched
<1>4. Posted(main, ui)' BY <1>1 DEF Posted
<1>5. Seen(main, ui)' BY <1>1 DEF Seen, Covered, Known, Followed, ShownTo
<1>6. Judges(reads["main"])' /\ Judges(reads["watch"])' BY <1>1 DEF Judges
<1> QED BY <1>1, <1>2, <1>3, <1>4, <1>5, <1>6 DEF Undisturbed, Observes

(* startWatching keeps the screen, and watches what is active. *)
LEMMA WatchingKeeps ==
  ASSUME NEW s \in Screen, NEW r, r = StartWatching(s, FALSE)
  PROVE  /\ r.thread = s.thread /\ r.events = s.events /\ r.active = s.active
         /\ r.restored = s.restored
         /\ r.restored /\ r.active /\ r.thread # NoThread => r.watching
BY DEF StartWatching, Screen

(* More on the screen and nothing less known. *)
LEMMA CoversMore ==
  ASSUME NEW s, NEW r, NEW e, Covered(s, e), s.events \subseteq r.events,
         s.active => r.active
  PROVE  Covered(r, e)
BY DEF Covered, Known

LEMMA Successful ==
  ASSUME NEW s \in Screen, Succeed(s), \A e \in Owned(s.thread) : Covered(s, e)
  PROVE  Watched(main', ui') /\ Posted(main', ui') /\ Seen(main', ui')
<1> PICK r : r = ui' OBVIOUS
<1>1. main' = Idle /\ r = StartWatching(s, FALSE) BY DEF Succeed
<1>2. main'.op = "none" /\ main'.pc = "idle" BY <1>1 DEF Idle
<1>3. /\ r.thread = s.thread /\ r.events = s.events /\ r.active = s.active
      /\ r.restored /\ r.active /\ r.thread # NoThread => r.watching
  BY <1>1, WatchingKeeps
<1>4. \A e \in Owned(r.thread) : Covered(r, e) BY <1>3, CoversMore
<1> QED BY <1>2, <1>3, <1>4 DEF Watched, Posted, Seen

LEMMA Failed ==
  ASSUME NEW s \in Screen, Fail(s)
  PROVE  Watched(main', ui') /\ Posted(main', ui') /\ Seen(main', ui')
<1>1. main'.op = "none" /\ main'.pc = "idle" /\ ui'.restored = FALSE
  BY DEF Fail, Idle, Screen
<1> QED BY <1>1 DEF Watched, Posted, Seen

(* The server: what rests stays as it was shown, and what is published comes *)
(* after the position of a stream.                                           *)
LEMMA ServerObserves ==
  ASSUME IInv, Undisturbed, Server PROVE Undisturbed'
<1>1. UNCHANGED <<ui, main, cancelling, reads, posts>>
  BY DEF Server, clientVars
<1>2. PICK x \in Executions : Deliver(x) \/ Park(x) \/ (x \notin Own /\ Accept(x))
  BY DEF Server
<1>3. ServerMoves BY <1>2, ServerSteps, Parts
<1>4. /\ \A e \in Executions : WorkFits(e)' /\ Goes(e)
      /\ \A e \in Executions : e # x \/ Deliver(x) \/ Park(x) => (Rests(e) => Stays(e))
  BY <1>2, Parts, WorkSteps DEF Undisturbed
<1>5. \A e \in Own : e \in Executions /\ (Rests(e) => Stays(e)) BY <1>2, <1>4, Parts
<1>6. \A e \in Own : Accepted(e)' <=> Accepted(e)
  BY <1>2, <1>3, Parts, OwnStay DEF ServerMoves
<1>7. \A t : Owned(t)' = Owned(t) BY <1>6 DEF Owned
<1>8. \A t : \A e \in Owned(t) : e \in Own BY DEF Owned
<1>9. NothingIsCancelled'
  <2>1. \A e \in Executions : ~work'[e].cancelled BY <1>4 DEF WorkFits
  <2> QED BY <1>1, <2>1 DEF Undisturbed, NothingIsCancelled
<1>10. Watched(main, ui)' BY <1>1 DEF Undisturbed, Observes, Watched
<1>11. Posted(main, ui)' BY <1>1 DEF Undisturbed, Observes, Posted
<1>12. Seen(main, ui)'
  <2> SUFFICES ASSUME ui.restored, NEW e \in Owned(ui.thread)
               PROVE  Covered(ui, e)' \/ Followed(main, ui, e)'
    BY <1>1, <1>7 DEF Seen
  <2>1. Covered(ui, e) \/ Followed(main, ui, e) BY DEF Undisturbed, Observes, Seen
  <2>2. CASE Covered(ui, e) BY <1>1, <1>5, <1>8, <2>2 DEF Covered, Known, Stays
  <2>3. CASE Followed(main, ui, e)
    <3>1. /\ Len(LogOf(e)) \in Nat /\ Len(LogOf(e))' \in Nat /\ Len(LogOf(e)) <= Len(LogOf(e))'
          /\ main.position \in Nat
      <4>1. e \in Executions /\ ThreadOf[e] \in Threads BY <1>5, <1>8, Parts
      <4>2. ServerTypeOK' => log'[ThreadOf[e]] \in Seq(Event) BY <4>1 DEF ServerTypeOK
      <4>3. Len(log[ThreadOf[e]]) <= Len(log'[ThreadOf[e]]) BY <1>3, <4>1 DEF ServerMoves, LogGrows
      <4>4. Len(log'[ThreadOf[e]]) \in Nat BY <1>3, <4>2, LenProperties DEF ServerMoves
      <4> QED BY <4>1, <4>3, <4>4, LogIs, Parts DEF LogOf, IInv, TypeOK
    <3>2. Goes(e) BY <1>4, <1>5, <1>8
    <3> QED BY <1>1, <2>3, <3>1, <3>2 DEF Followed, ShownTo, Goes
  <2> QED BY <2>1, <2>2, <2>3
<1>13. \A f \in Flows : Judges(reads[f]) => Judges(reads[f])'
  BY <1>1, <1>5, <1>7, <1>8 DEF Judges, Stays
<1> QED BY <1>4, <1>9, <1>10, <1>11, <1>12, <1>13 DEF Undisturbed, Observes, Flows

(* The user. *)
LEMMA HistoryObserves ==
  ASSUME IInv, Undisturbed, NEW op \in {"restore", "refresh", "select", "resume"},
         NEW t \in Threads, NEW e \in Executions \cup {Nothing}, ~Pending,
         ReadHistory(op, t, e)
  PROVE  Undisturbed'
<1> PICK m : m = main' OBVIOUS
<1> PICK s : s = ui' OBVIOUS
<1> PICK a : a = reads'["main"] OBVIOUS
<1> PICK b : b = reads'["watch"] OBVIOUS
<1>1. /\ m.op = op /\ m.pc = "reading"
      /\ s = [ui EXCEPT !.watching = FALSE, !.initialized = @ \/ op # "restore"]
      /\ UNCHANGED serverVars /\ cancelling' = cancelling /\ posts' = posts
  BY DEF ReadHistory, Idle
<1>2. s.thread = ui.thread /\ s.events = ui.events /\ s.active = ui.active
      /\ s.restored = ui.restored
  BY <1>1, Parts DEF Screen
<1>3. a.answer = Nothing /\ b = Nothing
  <2>1. reads \in [Flows -> {Nothing} \cup Read] BY DEF IInv, TypeOK
  <2> QED BY <2>1 DEF ReadHistory, StopThenSend, Flows
<1>4. main.pc = "idle" BY Parts
<1>5. Seen(m, s)
  <2> SUFFICES ASSUME s.restored, NEW x \in Owned(s.thread) PROVE Covered(s, x)
    BY DEF Seen
  <2>1. Covered(ui, x) \/ Followed(main, ui, x) BY <1>2 DEF Undisturbed, Observes, Seen
  <2> QED BY <1>2, <1>4, <2>1, CoversMore DEF Followed
<1>6. Watched(m, s) /\ Posted(m, s) /\ Judges(a) /\ Judges(b)
  BY <1>1, <1>3 DEF Watched, Posted, Judges
<1> QED BY <1>1, <1>5, <1>6, ClientObserves DEF Undisturbed, NothingIsCancelled

LEMMA ChatObserves ==
  ASSUME IInv, Undisturbed, NewChat PROVE Undisturbed'
<1> PICK s : s = ui' OBVIOUS
<1>1. /\ s = [Fresh(NoThread) EXCEPT !.initialized = TRUE] /\ main' = main
      /\ reads' = [reads EXCEPT !["watch"] = Nothing] /\ ~Pending
      /\ UNCHANGED serverVars /\ cancelling' = cancelling /\ posts' = posts
  BY DEF NewChat
<1>2. s.thread = NoThread BY <1>1 DEF Fresh
<1>3. Owned(NoThread) = {} BY Parts DEF Owned
<1>4. reads'["main"] = reads["main"] /\ reads'["watch"] = Nothing
  BY <1>1 DEF IInv, TypeOK, Flows
<1>5. main.pc = "idle" BY <1>1, Parts
<1>6. /\ Watched(main', s) /\ Posted(main', s) /\ Seen(main', s)
      /\ Judges(reads'["main"]) /\ Judges(reads'["watch"])
  BY <1>1, <1>2, <1>3, <1>4, <1>5 DEF Watched, Posted, Seen, Judges, Undisturbed, Observes
<1> QED BY <1>1, <1>6, ClientObserves DEF Undisturbed, NothingIsCancelled

(* An operation that posts begins where nothing is active or unseen. *)
LEMMA NothingOpen ==
  ASSUME IInv, Undisturbed, ~Pending, ~ui.watching, ui.restored, ui.thread # NoThread
  PROVE  ~ui.active /\ \A e \in Owned(ui.thread) : Covered(ui, e)
<1>1. main.pc = "idle" /\ main.op = "none" BY Parts
<1> QED BY <1>1 DEF Undisturbed, Observes, Watched, Seen, Followed

LEMMA SubmitObserves ==
  ASSUME IInv, Undisturbed, NEW e \in Own, Submit(e) PROVE Undisturbed'
<1> PICK m : m = main' OBVIOUS
<1> PICK s : s = ui' OBVIOUS
<1> PICK t \in Threads : t = ThreadOf[e] BY Parts
<1>1. /\ ~Pending /\ ~ui.watching /\ ui.restored /\ draft[e] = "editing"
      /\ \/ ui.thread = t
         \/ ui.thread = NoThread /\ Owned(t) = {}
  BY Parts DEF Submit, Owned
<1> PICK u : u = [ui EXCEPT !.echo = @ \cup {e}, !.thread = t] OBVIOUS
<1>2. Post("submit", u, e) /\ reads' = reads /\ UNCHANGED serverVars /\ cancelling' = cancelling
  BY DEF Submit
<1>3. /\ m.op = "submit" /\ m.pc = "posted" /\ m.execution = e
      /\ posts' = posts \cup {[op |-> "submit", execution |-> e]}
      /\ s = [u EXCEPT !.watching = FALSE]
  BY <1>2 DEF Post
<1>4. /\ s.thread = t /\ s.events = ui.events /\ s.active = ui.active
  BY <1>3, Parts DEF Screen
<1>5. Seen(m, s)
  <2>1. CASE ui.thread = t
    <3>1. \A x \in Owned(t) : Covered(ui, x) BY <1>1, <2>1, NothingOpen, Parts
    <3>2. \A x \in Owned(t) : Covered(s, x) BY <1>4, <3>1, CoversMore
    <3> QED BY <1>4, <3>2 DEF Seen
  <2>2. CASE Owned(t) = {} BY <1>4, <2>2 DEF Seen
  <2> QED BY <1>1, <2>1, <2>2
<1>6. Watched(m, s) /\ Posted(m, s) BY <1>3 DEF Watched, Posted
<1>7. Judges(reads'["main"]) /\ Judges(reads'["watch"]) BY <1>2 DEF Undisturbed, Observes
<1>8. \A x \in Executions : [op |-> "cancel", execution |-> x] \notin posts'
  BY <1>3 DEF Undisturbed, NothingIsCancelled
<1> QED BY <1>2, <1>5, <1>6, <1>7, <1>8, ClientObserves DEF Undisturbed

LEMMA AnswerObserves ==
  ASSUME IInv, Undisturbed, NEW e \in Executions, Answers(e) PROVE Undisturbed'
<1> PICK m : m = main' OBVIOUS
<1> PICK s : s = ui' OBVIOUS
<1>1. /\ ~Pending /\ ~ui.watching /\ ui.restored /\ ui.thread = ThreadOf[e]
      /\ Post("decide", ui, e)
      /\ reads' = reads /\ UNCHANGED serverVars /\ cancelling' = cancelling
  BY DEF Answers
<1>2. /\ m.op = "decide" /\ m.pc = "posted"
      /\ posts' = posts \cup {[op |-> "decide", execution |-> e]}
      /\ s = [ui EXCEPT !.watching = FALSE]
  BY <1>1 DEF Post
<1>3. /\ s.thread = ui.thread /\ s.events = ui.events /\ s.active = ui.active
  BY <1>2, Parts DEF Screen
<1>4. ~ui.active /\ \A x \in Owned(ui.thread) : Covered(ui, x)
  BY <1>1, NothingOpen, Parts
<1>5. \A x \in Owned(s.thread) : Covered(s, x) BY <1>3, <1>4, CoversMore
<1>6. Watched(m, s) /\ Posted(m, s) /\ Seen(m, s)
  BY <1>2, <1>3, <1>4, <1>5 DEF Watched, Posted, Seen
<1>7. Judges(reads'["main"]) /\ Judges(reads'["watch"]) BY <1>1 DEF Undisturbed, Observes
<1>8. \A x \in Executions : [op |-> "cancel", execution |-> x] \notin posts'
  BY <1>2 DEF Undisturbed, NothingIsCancelled
<1> QED BY <1>1, <1>6, <1>7, <1>8, ClientObserves DEF Undisturbed

(* A request that is handled while its sender waits. *)
LEMMA RequestObserves ==
  ASSUME IInv, Undisturbed, NEW p \in posts, Handle(p), ~disturbed' PROVE Undisturbed'
<1> PICK refused \in BOOLEAN : (Refused(p) => refused) /\ Respond(p, refused) BY HandleIs
<1>1. /\ cancelling.pc = "idle"
      /\ \A x \in Executions : [op |-> "cancel", execution |-> x] \notin posts
  BY DEF Undisturbed, NothingIsCancelled
<1>2. p.op \in {"submit", "decide", "resume", "cancel"} /\ p.execution \in Executions
      /\ p = [op |-> p.op, execution |-> p.execution]
  BY DEF IInv, TypeOK
<1>3. p.op # "cancel" BY <1>1, <1>2
<1>4. Waits(p) /\ ~CancelWaits(p) /\ posts' = posts \ {p} /\ UNCHANGED <<cancelling, reads>>
  BY <1>3 DEF Respond, CancelWaits
<1> PICK e \in Executions : e = p.execution BY <1>2
<1>5. main.pc = "posted" /\ main.op = p.op /\ main.execution = e BY <1>4 DEF Waits
<1>6. /\ main.thread = ui.thread /\ ThreadOf[e] = ui.thread /\ ~ui.watching /\ Pending
  BY <1>5, PendingIsAlone DEF IInv, MainFits, Requesting, Pending
<1>7. reads["main"] = Nothing /\ reads["watch"] = Nothing
  BY <1>5, <1>6 DEF IInv, ReadsFit
<1>8. \A x \in Executions : [op |-> "cancel", execution |-> x] \notin posts' BY <1>1, <1>4
<1>9. Judges(reads'["main"]) /\ Judges(reads'["watch"]) BY <1>4, <1>7 DEF Judges
<1>10. CASE refused
  <2>1. UNCHANGED serverVars /\ Fail(ui) BY <1>4, <1>10 DEF Respond, TakeRefusal
  <2>2. Watched(main', ui') /\ Posted(main', ui') /\ Seen(main', ui')
    BY <2>1, Parts, Failed
  <2> QED BY <1>4, <1>8, <1>9, <2>1, <2>2, ClientObserves DEF Undisturbed
<1>11. CASE ~refused
  <2>1. /\ Effect(p) /\ ui' = ui
        /\ main' = [main EXCEPT !.pc = "streaming", !.position = FollowFrom(p)]
    BY <1>4, <1>11 DEF Respond
  <2>2. /\ \/ p.op = "submit" /\ Accept(e)
           \/ p.op = "decide" /\ Accepted(e) /\ Decide(e)
           \/ p.op = "resume" /\ Accepted(e) /\ Wake(e)
    BY <1>2, <1>3, <1>11, <2>1 DEF Effect, Refused
  <2>3. ServerMoves BY <2>2, ServerSteps, Parts
  <2>4. /\ \A x \in Executions : WorkFits(x)' /\ Goes(x)
        /\ \A x \in Executions \ {e} : Rests(x) => Stays(x)
    BY <2>2, Parts, WorkSteps DEF Undisturbed
  <2>5. \A x \in Executions \ {e} : Accepted(x)' <=> Accepted(x)
    BY <2>2, Parts DEF Accept, Decide, Wake, Accepted, IInv, TypeOK, ServerTypeOK
  <2>6. log' = log BY <2>2 DEF Accept, Decide, Wake
  <2>7. \A x : /\ Len(LogOf(x))' = Len(LogOf(x))
               /\ \A j \in Nat : Notable(x, j)' <=> Notable(x, j)
    BY <2>6 DEF LogOf, Notable, IsOf
  <2> PICK n : n = FollowFrom(p) OBVIOUS
  <2> PICK m : m = main' OBVIOUS
  <2>8. /\ m.pc = "streaming" /\ m.position = n /\ m.execution = e /\ m.op = main.op
    BY <1>5, <2>1 DEF IInv, TypeOK
  <2>9. e \in Own /\ ui.restored => n <= Len(LogOf(e)) /\ ShownTo(ui, e, n)
    <3>1. Len(LogOf(e)) \in Nat BY LogIs, Parts
    <3>2. CASE n = 0
      <4>1. \A j \in Nat : Notable(e, j) => j >= 1 BY DEF Notable, IsOf
      <4> QED BY <3>1, <3>2, <4>1 DEF ShownTo
    <3>3. CASE n # 0
      <4>1. n = Len(LogOf(e)) /\ p.op = "decide" BY <3>3 DEF FollowFrom
      <4>2. ~ui.active /\ Accepted(e)
        BY <1>5, <2>2, <4>1 DEF Undisturbed, Observes, Posted
      <4>3. e \in Own /\ ui.restored => Covered(ui, e) \/ Followed(main, ui, e)
        BY <1>6, <4>2 DEF Undisturbed, Observes, Seen, Owned
      <4>4. ~Followed(main, ui, e) BY <1>5, <4>1 DEF Followed
      <4>5. e \in Own /\ ui.restored =>
              \A j \in Nat : Notable(e, j) => <<ThreadOf[e], j>> \in ui.events
        BY <4>2, <4>3, <4>4 DEF Covered, Known
      <4> QED BY <3>1, <4>1, <4>5 DEF ShownTo
    <3> QED BY <3>2, <3>3
  <2>10. Seen(main, ui)'
    <3> SUFFICES ASSUME ui.restored, NEW x \in Own, Accepted(x)', ThreadOf[x] = ui.thread
                 PROVE  Covered(ui, x)' \/ Followed(main, ui, x)'
      BY <2>1 DEF Seen, Owned
    <3>1. CASE x = e
      <4>1. Followed(main, ui, e)' BY <2>1, <2>7, <2>8, <2>9, <3>1 DEF Followed, ShownTo
      <4> QED BY <3>1, <4>1
    <3>2. CASE x # e
      <4>1. x \in Executions \ {e} BY <3>2, Parts
      <4>2. Covered(ui, x) \/ Followed(main, ui, x)
        BY <2>5, <4>1 DEF Undisturbed, Observes, Seen, Owned
      <4>3. Covered(ui, x) BY <1>5, <3>2, <4>2 DEF Followed
      <4>4. Rests(x) => Stays(x) BY <2>4, <4>1
      <4> QED BY <2>1, <4>3, <4>4 DEF Covered, Known, Stays
    <3> QED BY <3>1, <3>2
  <2>11. Watched(main, ui)' /\ Posted(main, ui)'
    BY <1>5, <1>6, <2>8 DEF Watched, Posted, Pending
  <2>12. NothingIsCancelled'
    <3>1. \A x \in Executions : ~work'[x].cancelled BY <2>4 DEF WorkFits
    <3> QED BY <1>1, <1>4, <1>8, <3>1 DEF NothingIsCancelled
  <2>13. Judges(reads["main"])' /\ Judges(reads["watch"])' BY <1>4, <1>7 DEF Judges
  <2> QED BY <2>4, <2>10, <2>11, <2>12, <2>13 DEF Undisturbed, Observes
<1> QED BY <1>10, <1>11

(* A message is accepted before its answer: it is still followed. *)
LEMMA AcceptanceObserves ==
  ASSUME IInv, Undisturbed, NEW p \in posts, AcceptThenFail(p) PROVE Undisturbed'
<1>1. /\ p.op = "submit" /\ Waits(p) /\ Accept(p.execution) /\ posts' = posts \ {p}
      /\ UNCHANGED <<ui, main, cancelling, reads>>
  BY DEF AcceptThenFail
<1> PICK e \in Executions : e = p.execution BY DEF IInv, TypeOK
<1>2. main.pc = "posted" /\ main.op = "submit" /\ main.execution = e
  BY <1>1 DEF Waits
<1>3. reads["main"] = Nothing /\ reads["watch"] = Nothing
  BY <1>2, PendingIsAlone DEF IInv, ReadsFit
<1>4. /\ \A x \in Executions : WorkFits(x)'
      /\ \A x \in Executions \ {e} : Rests(x) => Stays(x)
  BY <1>1, Parts, WorkSteps DEF Undisturbed
<1>5. \A x \in Executions \ {e} : Accepted(x)' <=> Accepted(x)
  BY <1>1, Parts DEF Accept, Accepted, IInv, TypeOK, ServerTypeOK
<1>6. Seen(main, ui)'
  <2> SUFFICES ASSUME ui.restored, NEW x \in Own, Accepted(x)', ThreadOf[x] = ui.thread
               PROVE  Covered(ui, x)' \/ Followed(main, ui, x)'
    BY <1>1 DEF Seen, Owned
  <2>1. CASE x = e BY <1>1, <1>2, <2>1 DEF Followed
  <2>2. CASE x # e
    <3>1. x \in Executions \ {e} BY <2>2, Parts
    <3>2. Covered(ui, x) \/ Followed(main, ui, x)
      BY <1>5, <3>1 DEF Undisturbed, Observes, Seen, Owned
    <3>3. Covered(ui, x) BY <1>2, <2>2, <3>2 DEF Followed
    <3>4. Rests(x) => Stays(x) BY <1>4, <3>1
    <3> QED BY <1>1, <3>3, <3>4 DEF Covered, Known, Stays
  <2> QED BY <2>1, <2>2
<1>7. Watched(main, ui)' /\ Posted(main, ui)'
  BY <1>1, <1>2 DEF Watched, Posted
<1>8. NothingIsCancelled'
  <2>1. \A x \in Executions : ~work'[x].cancelled BY <1>4 DEF WorkFits
  <2> QED BY <1>1, <2>1 DEF Undisturbed, NothingIsCancelled
<1>9. Judges(reads["main"])' /\ Judges(reads["watch"])' BY <1>1, <1>3 DEF Judges
<1> QED BY <1>4, <1>6, <1>7, <1>8, <1>9 DEF Undisturbed, Observes

LEMMA RefusalObserves ==
  ASSUME IInv, Undisturbed, RefuseAccepted PROVE Undisturbed'
<1>1. Fail(ui) /\ UNCHANGED <<serverVars, cancelling, reads, posts>>
  BY DEF RefuseAccepted, TakeRefusal
<1>2. Watched(main', ui') /\ Posted(main', ui') /\ Seen(main', ui')
  BY <1>1, Parts, Failed
<1>3. Judges(reads'["main"]) /\ Judges(reads'["watch"])
  BY <1>1 DEF Undisturbed, Observes
<1> QED BY <1>1, <1>2, <1>3, ClientObserves DEF Undisturbed, NothingIsCancelled

(* Requests and streams that break are read again. *)
LEMMA LostPostObserves ==
  ASSUME IInv, Undisturbed, LosePost PROVE Undisturbed'
<1>1. cancelling.pc = "idle" BY DEF Undisturbed, NothingIsCancelled
<1>2. /\ main.pc = "posted" /\ main' = [main EXCEPT !.pc = "recovering"]
      /\ posts' \subseteq posts /\ UNCHANGED <<cancelling, reads, ui, serverVars>>
  BY <1>1 DEF LosePost
<1> PICK m : m = main' OBVIOUS
<1>3. m.pc = "recovering" /\ m.op = main.op /\ m.execution = main.execution
  BY <1>2 DEF IInv, TypeOK
<1>4. Seen(m, ui)
  <2>1. \A e : Followed(main, ui, e) => Followed(m, ui, e) BY <1>2, <1>3 DEF Followed
  <2> QED BY <2>1 DEF Undisturbed, Observes, Seen
<1>5. Watched(m, ui) /\ Posted(m, ui) BY <1>3 DEF Undisturbed, Observes, Watched, Posted
<1>6. Judges(reads'["main"]) /\ Judges(reads'["watch"]) BY <1>2 DEF Undisturbed, Observes
<1>7. \A x \in Executions : [op |-> "cancel", execution |-> x] \notin posts'
  BY <1>2 DEF Undisturbed, NothingIsCancelled
<1> QED BY <1>2, <1>4, <1>5, <1>6, <1>7, ClientObserves DEF Undisturbed

LEMMA StreamEndObserves ==
  ASSUME IInv, Undisturbed, StreamEnds PROVE Undisturbed'
<1>1. /\ main.pc = "streaming" /\ main' = [main EXCEPT !.pc = "recovering"]
      /\ UNCHANGED <<cancelling, reads, ui, posts, serverVars>>
  BY DEF StreamEnds
<1> PICK m : m = main' OBVIOUS
<1>2. m.pc = "recovering" /\ m.op = main.op /\ m.execution = main.execution
  BY <1>1 DEF IInv, TypeOK
<1>3. Seen(m, ui) BY <1>2 DEF Undisturbed, Observes, Seen, Followed
<1>4. Watched(m, ui) /\ Posted(m, ui) BY <1>2 DEF Undisturbed, Observes, Watched, Posted
<1>5. Judges(reads'["main"]) /\ Judges(reads'["watch"]) BY <1>1 DEF Undisturbed, Observes
<1> QED BY <1>1, <1>3, <1>4, <1>5, ClientObserves DEF Undisturbed, NothingIsCancelled

(* What ends a stream is the last event of work that rests. *)
LEMMA EndRests ==
  ASSUME IInv, Undisturbed, NEW e \in Executions, NEW i \in Nat, IsOf(e, i), EndsStream(e, i)
  PROVE  Rests(e) /\ LastOf(e, i)
<1>1. Published(e, LogOf(e)[i].kind) BY EventIs, Parts
<1>2. WorkFits(e) BY DEF Undisturbed
<1>3. LastOf(e, i) BY <1>2 DEF WorkFits, EndIsLast
<1>4. Rests(e) BY <1>1, <1>2 DEF WorkFits, EndsStream, Rests
<1> QED BY <1>3, <1>4

LEMMA StreamObserves ==
  ASSUME IInv, Undisturbed, StreamNext PROVE Undisturbed'
<1>1. PICK i \in NextOf(main.execution, main.position) :
        LET s == Receive(ui, main.thread, {i})
        IN  IF EndsStream(main.execution, i)
            THEN EndProgress(s, Acknowledged(s))
            ELSE /\ ui' = s /\ main' = [main EXCEPT !.position = i]
                 /\ UNCHANGED draft
  BY DEF StreamNext
<1>2. main.pc = "streaming" /\ UNCHANGED <<serverVars, cancelling, reads, posts>>
  BY DEF StreamNext
<1> PICK e \in Executions : e = main.execution BY <1>2 DEF IInv, MainFits, Requesting
<1> PICK t \in Threads : t = main.thread BY <1>2, Parts DEF IInv, MainFits, Requesting
<1> PICK p \in Nat : p = main.position BY DEF IInv, TypeOK
<1>3. t = ui.thread /\ ThreadOf[e] = t /\ Accepted(e)
  BY <1>2 DEF IInv, MainFits, Requesting
<1>4. Len(LogOf(e)) \in Nat /\ DOMAIN LogOf(e) = 1..Len(LogOf(e)) /\ LogOf(e) = log[t]
  BY <1>3, LogIs, Parts DEF LogOf
<1>5. /\ i \in Nat /\ i <= Len(LogOf(e)) /\ IsOf(e, i)
      /\ \A j \in Nat : IsOf(e, j) /\ j < i => j <= p
  <2>1. /\ i \in 1..Len(LogOf(e)) /\ i > p /\ LogOf(e)[i].execution = e
        /\ \A j \in (p + 1)..(i - 1) : LogOf(e)[j].execution # e
    BY <1>1, <1>4 DEF NextOf
  <2>2. \A j \in Nat : j < i => j <= p \/ j \in (p + 1)..(i - 1) BY <1>4, <2>1
  <2> QED BY <1>4, <2>1, <2>2 DEF IsOf
<1> PICK new : new = {i} OBVIOUS
<1> PICK s : s = Receive(ui, t, new) OBVIOUS
<1>6. /\ s \in Screen /\ s.thread = t /\ ui.events \subseteq s.events /\ <<t, i>> \in s.events
      /\ s.active = ui.active /\ s.restored = ui.restored
  <2>1. At(ui, t) /\ ServerTypeOK /\ IsScreen(log, ui) BY <1>3, Parts DEF At
  <2>2. new \subseteq 1..Len(log[t]) BY <1>4, <1>5 DEF IsOf
  <2>3. Received(log, ui, t, new, s) BY <2>1, <2>2, Receives
  <2>4. s.active = ui.active /\ s.restored = ui.restored BY Parts DEF Receive, Screen
  <2> QED BY <2>3, <2>4 DEF Received, IsScreen
<1>7. ASSUME ui.restored, NEW x \in Owned(t), x # e PROVE Covered(s, x)
  <2>1. Covered(ui, x) BY <1>3, <1>7 DEF Undisturbed, Observes, Seen, Followed
  <2> QED BY <1>6, <2>1, CoversMore
<1>8. ASSUME ui.restored, e \in Owned(t) PROVE Covered(ui, e) \/ ShownTo(s, e, i)
  <2>1. Covered(ui, e) \/ ShownTo(ui, e, p)
    BY <1>2, <1>3, <1>8 DEF Undisturbed, Observes, Seen, Followed
  <2>2. CASE ShownTo(ui, e, p)
    <3> SUFFICES ASSUME NEW j \in Nat, Notable(e, j), j <= i PROVE <<ThreadOf[e], j>> \in s.events
      BY DEF ShownTo
    <3>1. j = i \/ j <= p BY <1>5 DEF Notable
    <3> QED BY <1>3, <1>6, <2>2, <3>1 DEF ShownTo
  <2> QED BY <2>1, <2>2
<1>9. Judges(reads'["main"]) /\ Judges(reads'["watch"]) BY <1>2 DEF Undisturbed, Observes
<1>10. CASE EndsStream(e, i)
  <2>1. Succeed(s) \/ Fail(s) BY <1>1, <1>10 DEF EndProgress
  <2>2. ASSUME Succeed(s) PROVE Watched(main', ui') /\ Posted(main', ui') /\ Seen(main', ui')
    <3>1. CASE ui.restored
      <4>1. ASSUME e \in Owned(t) PROVE Covered(s, e)
        <5>1. CASE Covered(ui, e) BY <1>6, <5>1, CoversMore
        <5>2. CASE ShownTo(s, e, i)
          <6>1. Rests(e) /\ LastOf(e, i) BY <1>5, <1>10, EndRests
          <6> QED BY <5>2, <6>1 DEF ShownTo, LastOf, Covered, Known
        <5> QED BY <1>8, <3>1, <4>1, <5>1, <5>2
      <4>2. \A x \in Owned(s.thread) : Covered(s, x) BY <1>6, <1>7, <3>1, <4>1
      <4> QED BY <1>6, <2>2, <4>2, Successful
    <3>2. CASE ~ui.restored
      <4> PICK r : r = ui' OBVIOUS
      <4>1. main' = Idle /\ r = StartWatching(s, FALSE) BY <2>2 DEF Succeed
      <4>2. ~r.restored BY <1>6, <3>2, <4>1, WatchingKeeps
      <4> QED BY <4>1, <4>2 DEF Watched, Posted, Seen, Idle
    <3> QED BY <3>1, <3>2
  <2>3. Watched(main', ui') /\ Posted(main', ui') /\ Seen(main', ui')
    BY <1>6, <2>1, <2>2, Failed
  <2> QED BY <1>2, <1>9, <2>3, ClientObserves DEF Undisturbed, NothingIsCancelled
<1>11. CASE ~EndsStream(e, i)
  <2> PICK m : m = main' OBVIOUS
  <2>1. ui' = s /\ m = [main EXCEPT !.position = i] BY <1>1, <1>11
  <2>2. m.pc = "streaming" /\ m.position = i /\ m.execution = e /\ m.op = main.op
    BY <1>2, <2>1 DEF IInv, TypeOK
  <2>3. Seen(m, s)
    <3> SUFFICES ASSUME s.restored, NEW x \in Owned(t) PROVE Covered(s, x) \/ Followed(m, s, x)
      BY <1>6 DEF Seen
    <3>1. CASE x # e BY <1>6, <1>7, <3>1
    <3>2. CASE x = e
      <4>1. CASE Covered(ui, e) BY <1>6, <3>2, <4>1, CoversMore
      <4>2. CASE ShownTo(s, e, i) BY <1>5, <2>2, <3>2, <4>2 DEF Followed
      <4> QED BY <1>6, <1>8, <3>2, <4>1, <4>2
    <3> QED BY <3>1, <3>2
  <2>4. main.op # "none" BY <1>2 DEF IInv, MainFits
  <2>5. Watched(m, s) /\ Posted(m, s) BY <2>2, <2>4 DEF Watched, Posted
  <2> QED BY <1>2, <1>9, <2>1, <2>3, <2>5, ClientObserves DEF Undisturbed, NothingIsCancelled
<1> QED BY <1>10, <1>11

(* Reads that begin, and their answers. *)
LEMMA RecoveryObserves ==
  ASSUME IInv, Undisturbed, SendRecovery \/ Watch PROVE Undisturbed'
<1>1. /\ UNCHANGED <<serverVars, ui, main, cancelling, posts>>
      /\ reads \in [Flows -> {Nothing} \cup Read]
  BY DEF SendRecovery, Watch, IInv, TypeOK
<1>2. \A f \in {"main", "watch"} : reads'[f] = reads[f] \/ reads'[f].answer = Nothing
  <2>1. CASE SendRecovery BY <1>1, <2>1 DEF SendRecovery, Send, Flows
  <2>2. CASE Watch BY <1>1, <2>2 DEF Watch, Send, Flows
  <2> QED BY <2>1, <2>2
<1>3. Judges(reads'["main"]) /\ Judges(reads'["watch"])
  BY <1>2 DEF Undisturbed, Observes, Judges
<1> QED BY <1>1, <1>3, ClientObserves DEF Undisturbed, NothingIsCancelled, Observes

LEMMA ServeObserves ==
  ASSUME IInv, Undisturbed, NEW f \in Flows, Serve(f) PROVE Undisturbed'
<1>1. /\ UNCHANGED <<serverVars, ui, main, cancelling, posts>> /\ reads[f] # Nothing
      /\ reads' = [reads EXCEPT ![f].answer =
                     Snapshot(reads[f].thread, reads[f].after, reads[f].execution)]
      /\ reads \in [Flows -> {Nothing} \cup Read]
  BY DEF Serve, IInv, TypeOK
<1> PICK r \in Read : r = reads[f] BY <1>1
<1> PICK v : v = reads'[f] OBVIOUS
<1> PICK t \in Threads : t = r.thread BY DEF Read
<1> PICK answer : answer = Snapshot(t, r.after, r.execution) OBVIOUS
<1>2. v = [r EXCEPT !.answer = answer] /\ \A g \in Flows \ {f} : reads'[g] = reads[g]
  BY <1>1
<1>3. v.thread = t /\ v.after = r.after /\ v.answer = answer BY <1>2 DEF Read
<1>4. answer.events = (r.after + 1)..Len(log[t]) /\ answer.active = Active(t) BY DEF Snapshot
<1>5. Judges(v)
  <2> SUFFICES ASSUME ~Active(t), NEW e \in Owned(t)
               PROVE  /\ Rests(e)
                      /\ \A j \in Nat : Notable(e, j) => j <= r.after \/ j \in answer.events
    BY <1>3, <1>4 DEF Judges
  <2>1. e \in Executions /\ ThreadOf[e] = t /\ Accepted(e) BY Parts DEF Owned
  <2>2. work[e].blocked \/ work[e].settled BY <2>1 DEF Active
  <2>3. Rests(e) BY <2>1, <2>2 DEF Undisturbed, WorkFits, Rests
  <2>4. LogOf(e) = log[t] /\ Len(log[t]) \in Nat /\ r.after \in Nat
    BY <2>1, LogIs, Parts DEF LogOf, Read
  <2>5. \A j \in Nat : Notable(e, j) => j <= r.after \/ j \in answer.events
    BY <1>4, <2>4 DEF Notable, IsOf
  <2> QED BY <2>3, <2>5
<1>6. Judges(reads'["main"]) /\ Judges(reads'["watch"])
  BY <1>2, <1>5 DEF Undisturbed, Observes, Flows
<1> QED BY <1>1, <1>6, ClientObserves DEF Undisturbed, NothingIsCancelled, Observes

LEMMA AnswerCovers ==
  ASSUME IInv, Undisturbed, NEW f \in {"main", "watch"}, Answered(f),
         NEW t, t = reads[f].thread, NEW r, r.active = Answer(f).active,
         \A i \in Answer(f).events : <<t, i>> \in r.events,
         \A i \in 1..reads[f].after : <<t, i>> \in r.events
  PROVE  \A e \in Owned(t) : Covered(r, e)
<1>1. Judges(reads[f]) /\ reads[f] # Nothing /\ reads[f].answer # Nothing
  BY DEF Undisturbed, Observes, Answered
<1>2. reads[f].after \in Nat BY <1>1 DEF IInv, TypeOK, Read, Flows
<1>3. ASSUME NEW e \in Owned(t), ~r.active PROVE Known(r, e)
  <2>1. /\ Rests(e)
        /\ \A j \in Nat : Notable(e, j) => j <= reads[f].after \/ j \in Answer(f).events
    BY <1>1, <1>3 DEF Judges, Answer
  <2>2. ThreadOf[e] = t BY DEF Owned
  <2>3. \A j \in Nat : Notable(e, j) => j >= 1 BY DEF Notable, IsOf
  <2> QED BY <1>2, <2>1, <2>2, <2>3 DEF Known
<1> QED BY <1>3 DEF Covered

LEMMA HistoryCovers ==
  ASSUME IInv, Undisturbed, GotHistory PROVE Undisturbed'
<1> PICK s : s = Replace(ui, main.thread, Answer("main")) OBVIOUS
<1> PICK e : e = main.execution OBVIOUS
<1> PICK r : r = [s EXCEPT !.initialized = TRUE] OBVIOUS
<1>1. /\ main.pc = "reading" /\ Answered("main")
      /\ reads' = [reads EXCEPT !["main"] = Nothing]
      /\ UNCHANGED <<serverVars, cancelling>>
      /\ \/ (Succeed(r) \/ Fail(s)) /\ posts' = posts
         \/ main.op = "resume" /\ Post("resume", s, e)
  BY DEF GotHistory, Consume
<1>2. /\ reads["main"] # Nothing /\ reads["main"].thread = main.thread
      /\ reads["main"].after = 0
  BY <1>1 DEF IInv, ReadsFit, Answered
<1> PICK t \in Threads : t = main.thread BY <1>1 DEF IInv, MainFits
<1>3. main.op = "select" \/ At(ui, t) BY <1>1 DEF IInv, MainFits, At
<1>4. /\ Answer("main").events \subseteq 1..Len(log[t]) /\ Answer("main").active \in BOOLEAN
  BY <1>1, <1>2, Covers
<1>5. /\ s \in Screen /\ s.thread = t /\ \A i \in Answer("main").events : <<t, i>> \in s.events
      /\ s.active = Answer("main").active
  <2>1. Replaced(log, ui, t, Answer("main").events, s)
    BY <1>3, <1>4, Parts, Replaces
  <2>2. s.active = Answer("main").active BY Parts DEF Replace, Screen
  <2> QED BY <2>1, <2>2 DEF Replaced, IsScreen
<1>6. \A x \in Owned(t) : Covered(s, x) BY <1>1, <1>2, <1>5, AnswerCovers
<1>7. r \in Screen /\ r.thread = t /\ r.events = s.events /\ r.active = s.active
  BY <1>5 DEF Screen
<1>8. \A x \in Owned(t) : Covered(r, x) BY <1>6, <1>7, CoversMore
<1>9. reads'["main"] = Nothing /\ reads'["watch"] = reads["watch"]
  BY <1>1 DEF IInv, TypeOK, Flows
<1>10. Judges(reads'["main"]) /\ Judges(reads'["watch"])
  BY <1>9 DEF Undisturbed, Observes, Judges
<1>11. CASE (Succeed(r) \/ Fail(s)) /\ posts' = posts
  <2>1. Watched(main', ui') /\ Posted(main', ui') /\ Seen(main', ui')
    BY <1>5, <1>7, <1>8, <1>11, Successful, Failed
  <2> QED BY <1>1, <1>10, <1>11, <2>1, ClientObserves DEF Undisturbed, NothingIsCancelled
<1>12. CASE main.op = "resume" /\ Post("resume", s, e)
  <2> PICK m : m = main' OBVIOUS
  <2> PICK u : u = ui' OBVIOUS
  <2>1. /\ m.op = "resume" /\ m.pc = "posted" /\ u = [s EXCEPT !.watching = FALSE]
        /\ posts' = posts \cup {[op |-> "resume", execution |-> e]}
    BY <1>12 DEF Post
  <2>2. u.thread = t /\ u.events = s.events /\ u.active = s.active BY <1>5, <2>1 DEF Screen
  <2>3. \A x \in Owned(u.thread) : Covered(u, x) BY <1>6, <2>2, CoversMore
  <2>4. Watched(m, u) /\ Posted(m, u) /\ Seen(m, u)
    BY <2>1, <2>3 DEF Watched, Posted, Seen
  <2>5. \A x \in Executions : [op |-> "cancel", execution |-> x] \notin posts'
    BY <2>1 DEF Undisturbed, NothingIsCancelled
  <2> QED BY <1>1, <1>10, <2>4, <2>5, ClientObserves DEF Undisturbed
<1> QED BY <1>1, <1>11, <1>12

LEMMA RecoveryCovers ==
  ASSUME IInv, Undisturbed, GotRecovery PROVE Undisturbed'
<1> PICK answer : answer = Answer("main") OBVIOUS
<1> PICK t \in Threads : t = ui.thread /\ t = reads["main"].thread
  BY Parts DEF GotRecovery, Answered, IInv, MainFits, Requesting, ReadsFit, PrefixShown
<1> PICK s : s = Receive(ui, t, answer.events) OBVIOUS
<1> PICK r : r = [s EXCEPT !.active = answer.active] OBVIOUS
<1>1. /\ main.pc = "recovering" /\ Answered("main")
      /\ reads' = [reads EXCEPT !["main"] = Nothing]
      /\ UNCHANGED <<serverVars, cancelling, posts>>
      /\ \/ ui' = r /\ main' = main
         \/ Succeed(r) \/ Fail(r)
  BY DEF GotRecovery, Consume, EndProgress
<1>2. /\ PrefixShown(ui, reads["main"]) /\ main.op # "none"
      /\ answer.events \subseteq 1..Len(log[t]) /\ answer.active \in BOOLEAN
  BY <1>1, Covers DEF Answered, IInv, ReadsFit, MainFits, Requesting
<1>3. /\ s \in Screen /\ s.thread = t /\ ui.events \subseteq s.events
      /\ \A i \in answer.events : <<t, i>> \in s.events
  <2>1. At(ui, t) /\ ServerTypeOK /\ IsScreen(log, ui) BY Parts DEF At
  <2>2. Received(log, ui, t, answer.events, s) BY <1>2, <2>1, Receives
  <2> QED BY <2>2 DEF Received, IsScreen
<1>4. r \in Screen /\ r.thread = t /\ r.events = s.events /\ r.active = answer.active
  BY <1>2, <1>3 DEF Screen
<1>5. \A e \in Owned(t) : Covered(r, e)
  <2>1. \A i \in 1..reads["main"].after : <<t, i>> \in r.events
    BY <1>2, <1>3, <1>4 DEF PrefixShown
  <2>2. \A i \in answer.events : <<t, i>> \in r.events BY <1>3, <1>4
  <2> QED BY <1>1, <1>4, <2>1, <2>2, AnswerCovers
<1>6. reads'["main"] = Nothing /\ reads'["watch"] = reads["watch"]
  BY <1>1 DEF IInv, TypeOK, Flows
<1>7. Judges(reads'["main"]) /\ Judges(reads'["watch"])
  BY <1>6 DEF Undisturbed, Observes, Judges
<1>8. Watched(main', ui') /\ Posted(main', ui') /\ Seen(main', ui')
  <2>1. CASE ui' = r /\ main' = main
    BY <1>1, <1>2, <1>4, <1>5, <2>1 DEF Watched, Posted, Seen
  <2>2. CASE Succeed(r) BY <1>4, <1>5, <2>2, Successful
  <2>3. CASE Fail(r) BY <1>4, <2>3, Failed
  <2> QED BY <1>1, <2>1, <2>2, <2>3
<1> QED BY <1>1, <1>7, <1>8, ClientObserves DEF Undisturbed, NothingIsCancelled

LEMMA ProgressCovers ==
  ASSUME IInv, Undisturbed, GotProgress PROVE Undisturbed'
<1> PICK answer : answer = Answer("watch") OBVIOUS
<1>1. /\ ui.watching /\ Answered("watch")
      /\ reads' = [reads EXCEPT !["watch"] = Nothing]
      /\ UNCHANGED <<serverVars, main, cancelling, posts>>
  BY DEF GotProgress, Consume
<1> PICK t \in Threads : t = ui.thread BY <1>1, Parts DEF IsScreen
<1>2. reads["watch"].thread = t /\ PrefixShown(ui, reads["watch"])
  BY <1>1 DEF Answered, IInv, ReadsFit, PrefixShown
<1>3. answer.events \subseteq 1..Len(log[t]) /\ answer.active \in BOOLEAN
  BY <1>1, <1>2, Covers
<1> PICK s : s = Receive(ui, t, answer.events) OBVIOUS
<1> PICK r : r = ui' OBVIOUS
<1>4. /\ s \in Screen /\ s.thread = t /\ ui.events \subseteq s.events
      /\ \A i \in answer.events : <<t, i>> \in s.events
  <2>1. At(ui, t) /\ ServerTypeOK /\ IsScreen(log, ui) BY Parts DEF At
  <2>2. Received(log, ui, t, answer.events, s) BY <1>3, <2>1, Receives
  <2> QED BY <2>2 DEF Received, IsScreen
<1>5. r = [s EXCEPT !.active = answer.active, !.watching = answer.active]
  BY <1>2, Zenon DEF GotProgress
<1>6. /\ r.thread = t /\ r.events = s.events /\ r.active = answer.active
      /\ r.watching = answer.active
  BY <1>4, <1>5 DEF Screen
<1>7. \A e \in Owned(t) : Covered(r, e)
  <2>1. \A i \in 1..reads["watch"].after : <<t, i>> \in r.events
    BY <1>2, <1>4, <1>6 DEF PrefixShown
  <2>2. \A i \in answer.events : <<t, i>> \in r.events BY <1>4, <1>6
  <2> QED BY <1>1, <1>2, <1>6, <2>1, <2>2, AnswerCovers
<1>8. main.pc = "idle" BY <1>1, Parts DEF IInv, ScreenFits
<1>9. Watched(main, r) /\ Posted(main, r) /\ Seen(main, r)
  BY <1>6, <1>7, <1>8 DEF Watched, Posted, Seen
<1>10. reads'["watch"] = Nothing /\ reads'["main"] = reads["main"]
  BY <1>1 DEF IInv, TypeOK, Flows
<1>11. Judges(reads'["main"]) /\ Judges(reads'["watch"])
  BY <1>10 DEF Undisturbed, Observes, Judges
<1> QED BY <1>1, <1>9, <1>11, ClientObserves DEF Undisturbed, NothingIsCancelled

(* A read that fails, and a reload. *)
LEMMA LostReadObserves ==
  ASSUME IInv, Undisturbed, NEW retryable \in BOOLEAN, LoseRead(retryable) PROVE Undisturbed'
<1>1. PICK f \in Flows :
        /\ reads[f] # Nothing /\ reads' = [reads EXCEPT ![f] = Nothing]
        /\ \/ /\ f = "main" /\ main.pc = "recovering" /\ cancelling' = cancelling
              /\ (main' = main /\ ui' = ui) \/ Fail(ui)
           \/ /\ f = "main" /\ main.pc = "reading" /\ cancelling' = cancelling
              /\ IF main.op = "select" THEN Succeed(ui)
                 ELSE Fail([ui EXCEPT !.initialized = @ \/ ~retryable])
           \/ f = "cancel"
           \/ /\ f = "watch" /\ main' = main /\ cancelling' = cancelling
              /\ ui' = IF retryable THEN ui
                       ELSE [ui EXCEPT !.restored = FALSE, !.watching = FALSE]
  BY DEF LoseRead, Consume, EndProgress
<1>2. UNCHANGED <<serverVars, posts>> BY DEF LoseRead
<1>3. f # "cancel"
  BY <1>1 DEF IInv, ReadsFit, Undisturbed, NothingIsCancelled
<1>4. reads'[f] = Nothing /\ \A g \in Flows \ {f} : reads'[g] = reads[g]
  BY <1>1 DEF IInv, TypeOK
<1>5. Judges(reads'["main"]) /\ Judges(reads'["watch"])
  BY <1>4 DEF Undisturbed, Observes, Judges, Flows
<1>6. Watched(main, ui) /\ Posted(main, ui) /\ Seen(main, ui) /\ ui \in Screen
  BY Parts DEF Undisturbed, Observes
<1>7. /\ cancelling' = cancelling
      /\ Watched(main', ui') /\ Posted(main', ui') /\ Seen(main', ui')
  <2>1. CASE f = "main" /\ main.pc = "recovering"
    BY <1>1, <1>6, <2>1, Failed
  <2>2. CASE f = "main" /\ main.pc = "reading"
    <3>1. CASE main.op = "select"
      <4>1. \A e : ~Followed(main, ui, e) BY <2>2 DEF Followed
      <4>2. Succeed(ui) /\ cancelling' = cancelling BY <1>1, <2>2, <3>1
      <4>3. CASE ui.restored
        <5>1. \A e \in Owned(ui.thread) : Covered(ui, e) BY <1>6, <4>1, <4>3 DEF Seen
        <5> QED BY <1>6, <4>2, <5>1, Successful
      <4>4. CASE ~ui.restored
        <5> PICK r : r = ui' OBVIOUS
        <5>1. main' = Idle /\ r = StartWatching(ui, FALSE) BY <4>2 DEF Succeed
        <5>2. ~r.restored BY <1>6, <4>4, <5>1, WatchingKeeps
        <5> QED BY <4>2, <5>1, <5>2 DEF Watched, Posted, Seen, Idle
      <4> QED BY <4>3, <4>4
    <3>2. CASE main.op # "select"
      <4> PICK s : s = [ui EXCEPT !.initialized = @ \/ ~retryable] OBVIOUS
      <4>1. Fail(s) /\ cancelling' = cancelling BY <1>1, <2>2, <3>2
      <4>2. s \in Screen BY <1>6, Zenon DEF Screen
      <4> QED BY <4>1, <4>2, Failed
    <3> QED BY <3>1, <3>2
  <2>3. CASE f = "watch"
    <3>1. CASE retryable BY <1>1, <1>6, <2>3, <3>1
    <3>2. CASE ~retryable
      <4>1. /\ main' = main /\ cancelling' = cancelling
            /\ ui' = [ui EXCEPT !.restored = FALSE, !.watching = FALSE]
        BY <1>1, <2>3, <3>2
      <4>2. ui'.restored = FALSE /\ ui'.active = ui.active BY <1>6, <4>1 DEF Screen
      <4> QED BY <1>6, <4>1, <4>2 DEF Watched, Posted, Seen
    <3> QED BY <3>1, <3>2
  <2> QED BY <1>1, <1>3, <2>1, <2>2, <2>3
<1> QED BY <1>2, <1>5, <1>7, ClientObserves DEF Undisturbed, NothingIsCancelled

LEMMA ReloadObserves ==
  ASSUME IInv, Undisturbed, Reload PROVE Undisturbed'
<1> PICK s : s = ui' OBVIOUS
<1>1. /\ s = Fresh(ui.thread) /\ main' = Idle /\ cancelling' = NoCancel
      /\ reads' = [f \in Flows |-> Nothing] /\ UNCHANGED <<serverVars, posts>>
  BY DEF Reload
<1>2. s.thread = ui.thread /\ s.active = FALSE /\ (s.restored => s.thread = NoThread)
  <2>1. PICK b \in BOOLEAN : b <=> ui.thread = NoThread OBVIOUS
  <2>2. s = [thread |-> ui.thread, events |-> {}, echo |-> {}, watching |-> FALSE,
             restored |-> b, active |-> FALSE, initialized |-> b]
    <3>1. b = (ui.thread = NoThread) BY <2>1
    <3> QED BY <1>1, <3>1, Zenon DEF Fresh
  <2>3. s.thread = ui.thread /\ s.active = FALSE /\ s.restored = b BY <2>2
  <2> QED BY <2>1, <2>3
<1>3. Owned(NoThread) = {} BY Parts DEF Owned
<1>4. Watched(main', s) /\ Posted(main', s) /\ Seen(main', s)
  BY <1>1, <1>2, <1>3 DEF Watched, Posted, Seen, Idle
<1>5. Judges(reads'["main"]) /\ Judges(reads'["watch"]) BY <1>1 DEF Judges, Flows
<1> QED BY <1>1, <1>4, <1>5, ClientObserves DEF Undisturbed, NothingIsCancelled

LEMMA ObservationStarts ==
  ASSUME Init PROVE Observed
<1>1. IInv BY Starts
<1>2. PICK t \in Threads \cup {NoThread} : ui = Fresh(t) BY DEF Init
<1>3. /\ log = [u \in Threads |-> << >>] /\ main = Idle /\ cancelling = NoCancel
      /\ reads = [f \in Flows |-> Nothing] /\ posts = {}
      /\ \A e \in Executions :
           work[e] = [status |-> "unknown", settled |-> FALSE, blocked |-> FALSE,
                      decided |-> FALSE, cancelled |-> FALSE]
  BY DEF Init, ServerInit
<1>4. \A e \in Executions : LogOf(e) = << >> BY <1>1, <1>3, Parts DEF LogOf
<1>5. \A e \in Executions :
        /\ \A i : ~IsOf(e, i)
        /\ \A kind : ~Published(e, kind)
  BY <1>4 DEF IsOf, Published
<1>6. \A e \in Executions : WorkFits(e) BY <1>3, <1>5 DEF WorkFits, EndIsLast
<1>7. NothingIsCancelled BY <1>3 DEF NothingIsCancelled, NoCancel
<1>8. \A t2 : Owned(t2) = {} BY <1>1, <1>3, Parts DEF Owned, Accepted
<1>9. Watched(main, ui) /\ Posted(main, ui) /\ Seen(main, ui)
  BY <1>2, <1>3, <1>8 DEF Watched, Posted, Seen, Idle, Fresh
<1>10. Judges(reads["main"]) /\ Judges(reads["watch"]) BY <1>3 DEF Judges, Flows
<1> QED BY <1>6, <1>7, <1>9, <1>10 DEF Observed, Undisturbed, Observes

LEMMA ObservationContinues ==
  ASSUME IInv, Observed, [Next]_vars PROVE Observed'
<1> SUFFICES ASSUME ~disturbed' PROVE Undisturbed' BY DEF Observed
<1>1. disturbed' = disturbed \/ (\E e \in Executions : Cancel(e))
                             \/ (\E p \in posts : Handle(p))
  BY DEF Next, vars, Server, User, MainFlow, CancelFlow, WatchFlow, Reload, LosePost, LoseRead,
         clientVars, boundVars, Refresh, NewChat, SelectConversation, Resume, Submit, Answers,
         Restore, ReadHistory, AcceptThenFail, RefuseAccepted, StreamNext, StreamEnds,
         SendRecovery, Serve, GotHistory, GotRecovery, GotConfirmation, GotProgress, Watch
<1>2. ~disturbed /\ \A e \in Executions : ~Cancel(e)
  BY <1>1, HandleIs DEF Cancel, Respond, IInv, TypeOK
<1>3. Undisturbed BY <1>2 DEF Observed
<1>4. CASE Server BY <1>3, <1>4, ServerObserves
<1>5. CASE User
  <2>1. CASE Refresh
    <3>1. ui.thread \in Threads BY <2>1, Parts DEF Refresh
    <3>2. "refresh" \in {"restore", "refresh", "select", "resume"}
          /\ Nothing \in Executions \cup {Nothing}
      OBVIOUS
    <3> QED BY <1>3, <2>1, <3>1, <3>2, HistoryObserves DEF Refresh
  <2>2. CASE NewChat BY <1>3, <2>2, ChatObserves
  <2>3. ASSUME NEW t \in Threads, SelectConversation(t) PROVE Undisturbed'
    <3>1. "select" \in {"restore", "refresh", "select", "resume"}
          /\ Nothing \in Executions \cup {Nothing}
      OBVIOUS
    <3> QED BY <1>3, <2>3, <3>1, HistoryObserves DEF SelectConversation
  <2>4. ASSUME NEW e \in Own, Submit(e) PROVE Undisturbed' BY <1>3, <2>4, SubmitObserves
  <2>5. ASSUME NEW e \in Executions, Resume(e) PROVE Undisturbed'
    <3>1. ui.thread \in Threads BY <2>5, Parts DEF Resume
    <3>2. "resume" \in {"restore", "refresh", "select", "resume"}
          /\ e \in Executions \cup {Nothing}
      OBVIOUS
    <3> QED BY <1>3, <2>5, <3>1, <3>2, HistoryObserves DEF Resume
  <2>6. ASSUME NEW e \in Executions, Answers(e) PROVE Undisturbed' BY <1>3, <2>6, AnswerObserves
  <2> QED BY <1>2, <1>5, <2>1, <2>2, <2>3, <2>4, <2>5, <2>6 DEF User
<1>6. ASSUME NEW p \in posts, Handle(p) PROVE Undisturbed' BY <1>3, <1>6, RequestObserves
<1>7. CASE Restore
  <2>1. ui.thread \in Threads BY <1>7, Parts DEF Restore, IsScreen
  <2>2. "restore" \in {"restore", "refresh", "select", "resume"}
        /\ Nothing \in Executions \cup {Nothing}
    OBVIOUS
  <2> QED BY <1>3, <1>7, <2>1, <2>2, HistoryObserves DEF Restore
<1>8. ASSUME NEW f \in Flows, Serve(f) PROVE Undisturbed' BY <1>3, <1>8, ServeObserves
<1>9. CASE MainFlow
  BY <1>3, <1>6, <1>7, <1>8, <1>9, AcceptanceObserves, RefusalObserves,
     StreamObserves, StreamEndObserves, RecoveryObserves, HistoryCovers, RecoveryCovers
     DEF MainFlow, Flows
<1>10. CASE CancelFlow
  <2>1. ~GotConfirmation BY <1>3 DEF GotConfirmation, Undisturbed, NothingIsCancelled
  <2> QED BY <1>6, <1>8, <1>10, <2>1 DEF CancelFlow, Flows
<1>11. CASE WatchFlow
  BY <1>3, <1>8, <1>11, RecoveryObserves, ProgressCovers DEF WatchFlow, Flows
<1>12. CASE Reload BY <1>3, <1>12, ReloadObserves
<1>13. CASE LosePost BY <1>3, <1>13, LostPostObserves
<1>14. ASSUME NEW retryable \in BOOLEAN, LoseRead(retryable) PROVE Undisturbed'
  BY <1>3, <1>14, LostReadObserves
<1>15. CASE UNCHANGED vars
  <2>1. UNCHANGED <<serverVars, ui, main, cancelling, reads, posts>>
    BY <1>15 DEF vars, clientVars
  <2>2. /\ Watched(main', ui') /\ Posted(main', ui') /\ Seen(main', ui')
        /\ Judges(reads'["main"]) /\ Judges(reads'["watch"])
    BY <1>3, <2>1 DEF Undisturbed, Observes
  <2> QED BY <1>3, <2>1, <2>2, ClientObserves DEF Undisturbed, NothingIsCancelled
<1> QED BY <1>4, <1>5, <1>6, <1>9, <1>10, <1>11, <1>12, <1>13, <1>14, <1>15 DEF Next

(* Observation does not stop early: in an undisturbed session that nothing   *)
(* reads any more, the work on the user's messages rests, and all that was   *)
(* published of it but the notice of a parked delivery is on the screen.     *)
THEOREM ObservationIsComplete == Spec => []ObservationEndsAtRest
<1>1. Init => IInv /\ Observed BY Starts, ObservationStarts
<1>2. IInv /\ Observed /\ [Next]_vars => IInv' /\ Observed' BY Steps, ObservationContinues
<1>3. IInv /\ Observed => ObservationEndsAtRest
  <2> SUFFICES ASSUME IInv, Observed, NEW e \in Own, ui.restored, ui.thread = ThreadOf[e],
                      Accepted(e), ~Pending, ~ui.watching, ~disturbed
               PROVE  Rests(e) /\ AllShown(e)
    BY DEF ObservationEndsAtRest
  <2>1. Undisturbed /\ e \in Executions /\ ui.thread # NoThread BY Parts DEF Observed
  <2>2. ~ui.active /\ \A x \in Owned(ui.thread) : Covered(ui, x) BY <2>1, NothingOpen
  <2>3. e \in Owned(ui.thread) BY DEF Owned
  <2>4. Known(ui, e) BY <2>2, <2>3 DEF Covered
  <2>5. DOMAIN LogOf(e) = 1..Len(LogOf(e)) BY <2>1, LogIs, Parts
  <2> QED BY <2>4, <2>5 DEF Known, AllShown, Notable, IsOf
<1> QED BY <1>1, <1>2, <1>3, PTL DEF Spec
=============================================================================
