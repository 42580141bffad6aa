----------------------------- MODULE ChatSession -----------------------------
(***************************************************************************)
(* AgentSession (agentSession.ts) in one browser tab, driven by the        *)
(* controls of Chat.tsx, against the server of Conversation.               *)
(*                                                                         *)
(* JavaScript runs one continuation at a time, so an action is the code    *)
(* between two awaits.  Three flows interleave at their awaits: the        *)
(* operation that holds `pending', a cancellation, and the watcher.  Each  *)
(* has at most one read (GET) in flight, which the server may answer long  *)
(* before the answer arrives.  A POST may be handled after its sender has  *)
(* given up on it, or never.                                               *)
(***************************************************************************)
EXTENDS Conversation, FiniteSetsExt

CONSTANTS
    Own,            \* executions this tab submits; others come from elsewhere
    NoThread, Nothing,
    MixedCancels,   \* bound: whether cancellations meet executions from elsewhere
    MaxLosses       \* bound: POSTs, streams and reads that are lost, and reloads

ASSUME SessionAssumption ==
    /\ Own \subseteq Executions /\ MixedCancels \in BOOLEAN
    /\ NoThread \notin Threads /\ Nothing \notin Executions
    /\ MaxLosses \in Nat

VARIABLES
    ui,             \* AgentSnapshot, with `active' and `initialized'
    main,           \* the operation that holds `pending'
    cancelling,     \* the cancellation in progress
    reads,          \* the read in flight of each flow
    posts,          \* POSTs that the server has not handled
    draft,          \* what became of the text of each own execution
    synced,         \* length of the log that the last read of the operation or
                    \* of the watcher covered
    disturbed,      \* whether a cancellation was asked for, or a request was
                    \* handled after its sender had given up
    losses
boundVars == <<disturbed, losses>>
clientVars == <<ui, main, cancelling, reads, posts, draft, synced, boundVars>>
vars == <<serverVars, clientVars>>

Flows == {"main", "cancel", "watch"}
Sequence == Threads \X (Nat \ {0})
Read == [thread : Threads, after : Nat, execution : Executions \cup {Nothing},
         answer : {Nothing} \cup [events : SUBSET Nat, active : BOOLEAN,
                                  accepted : BOOLEAN, decided : SUBSET Executions]]
Idle == [op |-> "none", pc |-> "idle", thread |-> NoThread, execution |-> Nothing,
         position |-> 0]
NoCancel == [pc |-> "idle", thread |-> NoThread, execution |-> Nothing]

Fresh(t) == [thread |-> t, events |-> {}, echo |-> {}, watching |-> FALSE,
             restored |-> t = NoThread, active |-> FALSE, initialized |-> t = NoThread]

(* Type invariant of the module. *)
TypeOK ==
    /\ ServerTypeOK
    /\ ui \in [thread : Threads \cup {NoThread}, events : SUBSET Sequence,
               echo : SUBSET Own, watching : BOOLEAN, restored : BOOLEAN,
               active : BOOLEAN, initialized : BOOLEAN]
    /\ main \in [op : {"none", "restore", "refresh", "select",
                       "submit", "decide", "resume"},
                 pc : {"idle", "reading", "posted", "streaming", "recovering"},
                 thread : Threads \cup {NoThread},
                 execution : Executions \cup {Nothing}, position : Nat]
    /\ cancelling \in [pc : {"idle", "posted", "confirming"},
                       thread : Threads \cup {NoThread},
                       execution : Executions \cup {Nothing}]
    /\ reads \in [Flows -> {Nothing} \cup Read]
    /\ posts \subseteq [op : {"submit", "decide", "resume", "cancel"},
                        execution : Executions]
    /\ draft \in [Own -> {"editing", "sent", "cleared", "kept"}]
    /\ synced \in Nat /\ disturbed \in BOOLEAN
    /\ losses \in 0..MaxLosses

Init ==
    /\ ServerInit
    /\ \E t \in Threads \cup {NoThread} : ui = Fresh(t)
    /\ main = Idle /\ cancelling = NoCancel
    /\ reads = [f \in Flows |-> Nothing]
    /\ posts = {} /\ draft = [e \in Own |-> "editing"]
    /\ synced = 0 /\ disturbed = FALSE /\ losses = 0

-----------------------------------------------------------------------------
(* What the events on the screen say. *)
EventAt(x) == log[x[1]][x[2]]
ShownOf(s, e) == {x \in s.events : EventAt(x).execution = e}
Tells(s, e, kind) == \E x \in ShownOf(s, e) : EventAt(x).kind = kind
Shows(e, kind) == Tells(ui, e, kind)

(* unfinishedExecutions: the last event that is not `busy' decides. *)
LastShown(s, e) ==
    LET told == {x \in ShownOf(s, e) : EventAt(x).kind # "busy"}
    IN  IF told = {} THEN "user_message"
        ELSE EventAt(CHOOSE x \in told : \A y \in told : y[2] <= x[2]).kind
Unfinished(s, e) ==
    /\ ShownOf(s, e) # {} \/ e \in s.echo
    /\ LastShown(s, e) # "completed"

(* Fault: the event before the first gap is asked for again. *)
CursorBeforeGap(s) ==
    Max({n \in 0..Cardinality(s.events) :
            \A i \in 1..n : <<s.thread, i>> \in s.events}) - 1

(* Fault: gaps that streams left are not filled. *)
CursorAtLast(s) == Max({0} \cup {x[2] : x \in s.events})

(* cursor: the longest prefix without a gap. *)
CursorOf(s) ==
    Max({n \in 0..Cardinality(s.events) : \A i \in 1..n : <<s.thread, i>> \in s.events})

(* receive, for each of the events of conversation t: an echo gives way to   *)
(* any stored event of its execution.  That t is the selected conversation   *)
(* is checked in cancel and in the watcher; what receive checks again is     *)
(* left out, so that OneConversation has to follow from them.                *)
Receive(s, t, events) ==
    [s EXCEPT !.events = @ \cup {<<t, i>> : i \in events},
              !.echo = @ \ {log[t][i].execution : i \in events}]

(* replay replaces what was there; selectConversation changes the            *)
(* conversation with it.                                                     *)
Replace(s, t, answer) ==
    [s EXCEPT !.thread = IF main.op = "select" THEN t ELSE @,
              !.events = {<<t, i>> : i \in answer.events},
              !.echo = {}, !.active = answer.active, !.restored = TRUE]

(* startWatching, called when `pending' is as given. *)
StartWatching(s, pending) ==
    IF ~s.watching /\ ~pending /\ s.restored /\ s.active /\ s.thread # NoThread
    THEN [s EXCEPT !.watching = TRUE] ELSE s

Send(f, t, after, e) ==
    reads' = [reads EXCEPT ![f] = [thread |-> t, after |-> after, execution |-> e,
                                   answer |-> Nothing]]
(* stopWatching aborts the read of the watcher. *)
StopThenSend(t, after, e) ==
    reads' = [reads EXCEPT !["watch"] = Nothing,
                           !["main"] = [thread |-> t, after |-> after, execution |-> e,
                                        answer |-> Nothing]]
Answered(f) == reads[f] # Nothing /\ reads[f].answer # Nothing
Answer(f) == reads[f].answer
CoveredBy(f) == Max({reads[f].after} \cup Answer(f).events)

(* exclusive: the operation ends well, or its error ends the session's claim *)
(* to know the conversation.                                                 *)
Succeed(s) == main' = Idle /\ ui' = StartWatching(s, FALSE)
Fail(s) == main' = Idle /\ ui' = [s EXCEPT !.restored = FALSE]
Pending == main.op # "none"

-----------------------------------------------------------------------------
(* The user, as far as the controls of Chat.tsx allow. *)
ReadHistory(op, t, e) ==
    /\ main' = [Idle EXCEPT !.op = op, !.pc = "reading", !.thread = t, !.execution = e]
    /\ ui' = [ui EXCEPT !.watching = FALSE, !.initialized = @ \/ op # "restore"]
    /\ StopThenSend(t, 0, Nothing)
    /\ UNCHANGED <<serverVars, cancelling, posts, draft, synced, boundVars>>

Restore == ~Pending /\ ~ui.initialized /\ ReadHistory("restore", ui.thread, Nothing)
Refresh ==
    ~Pending /\ ui.thread # NoThread /\ ReadHistory("refresh", ui.thread, Nothing)
SelectConversation(t) == ~Pending /\ t # ui.thread /\ ReadHistory("select", t, Nothing)
Resume(e) ==
    /\ ~Pending /\ ~ui.watching /\ ui.restored /\ ui.thread = ThreadOf[e]
    /\ Unfinished(ui, e) /\ LastShown(ui, e) # "paused"
    /\ ~Shows(e, "cancellation_requested")
    /\ ReadHistory("resume", ui.thread, e)

(* Fault: a new chat may begin while a refresh waits for its answer. *)
NewChatWhileReading ==
    /\ ui.thread # NoThread /\ main.op \in {"none", "refresh"}
    /\ ui' = [Fresh(NoThread) EXCEPT !.initialized = TRUE]
    /\ reads' = [reads EXCEPT !["watch"] = Nothing]
    /\ synced' = 0
    /\ UNCHANGED <<serverVars, main, cancelling, posts, draft, boundVars>>

NewChat ==
    /\ ~Pending /\ ui.thread # NoThread
    /\ ui' = [Fresh(NoThread) EXCEPT !.initialized = TRUE]
    /\ reads' = [reads EXCEPT !["watch"] = Nothing]
    /\ synced' = 0
    /\ UNCHANGED <<serverVars, main, cancelling, posts, draft, boundVars>>

(* sendProgress begins. *)
Post(op, s, e) ==
    /\ main' = [op |-> op, pc |-> "posted", thread |-> s.thread, execution |-> e,
                position |-> 0]
    /\ posts' = posts \cup {[op |-> op, execution |-> e]}
    /\ ui' = [s EXCEPT !.watching = FALSE]

Submit(e) ==
    /\ ~Pending /\ ~ui.watching /\ ui.restored /\ draft[e] = "editing"
    /\ \/ ui.thread = ThreadOf[e]
       \/ /\ ui.thread = NoThread                      \* a new conversation
          /\ \A x \in Executions : ThreadOf[x] = ThreadOf[e] => ~Accepted(x)
    /\ Post("submit", [ui EXCEPT !.echo = @ \cup {e}, !.thread = ThreadOf[e]], e)
    /\ draft' = [draft EXCEPT ![e] = "sent"]
    /\ UNCHANGED <<serverVars, cancelling, reads, synced, boundVars>>

Answers(e) ==
    /\ ~Pending /\ ~ui.watching /\ ui.restored /\ ui.thread = ThreadOf[e]
    /\ Unfinished(ui, e) /\ ~Shows(e, "cancellation_requested")
    /\ Shows(e, "approval_request") /\ ~Shows(e, "approval_decision")
    /\ Post("decide", ui, e)
    /\ UNCHANGED <<serverVars, cancelling, reads, draft, synced, boundVars>>

Cancel(e) ==
    /\ cancelling.pc = "idle" /\ ui.thread = ThreadOf[e] /\ Unfinished(ui, e)
    /\ MixedCancels \/ \A other \in Executions \ Own : ~Accepted(other)
    /\ cancelling' = [pc |-> "posted", thread |-> ui.thread, execution |-> e]
    /\ posts' = posts \cup {[op |-> "cancel", execution |-> e]}
    /\ disturbed' = TRUE
    /\ UNCHANGED <<serverVars, ui, main, reads, draft, synced, losses>>

-----------------------------------------------------------------------------
(* The server handles a request and answers the flow that still waits.      *)
Waits(p) == main.pc = "posted" /\ main.op = p.op /\ main.execution = p.execution
CancelWaits(p) == p.op = "cancel" /\ cancelling.pc = "posted"
                  /\ cancelling.execution = p.execution

Refused(p) ==
    CASE p.op = "submit" -> Occupied(ThreadOf[p.execution])
      [] p.op = "cancel" -> ~Accepted(p.execution)
      [] OTHER -> ~Accepted(p.execution) \/ work[p.execution].cancelled

(* The decision is followed from the end of the log, everything else from    *)
(* its beginning.                                                            *)
FollowFrom(p) ==
    IF p.op = "decide" /\ ~IsFinal(p.execution) THEN Len(LogOf(p.execution)) ELSE 0

Effect(p) ==
    CASE p.op = "submit" -> Accept(p.execution)
      [] p.op = "decide" -> Decide(p.execution)
      [] p.op = "resume" -> Wake(p.execution)
      [] p.op = "cancel" -> RequestCancellation(p.execution)

(* cancel: whatever became of its POST, the stored events tell. *)
Confirm ==
    /\ cancelling' = [cancelling EXCEPT !.pc = "confirming"]
    /\ Send("cancel", cancelling.thread,
            IF ui.thread = NoThread THEN 0 ELSE CursorOf(ui), cancelling.execution)

(* A refusal is final for the operation, and a submission keeps its draft.   *)
TakeRefusal ==
    /\ Fail(ui)
    /\ draft' = IF main.op = "submit" THEN [draft EXCEPT ![main.execution] = "kept"]
                ELSE draft

Respond(p, refused) ==
    /\ p \in posts /\ posts' = posts \ {p}
    /\ IF refused THEN UNCHANGED serverVars ELSE Effect(p)
    /\ \/ ~Waits(p) /\ UNCHANGED <<main, ui, draft>>
       \/ Waits(p) /\ refused /\ TakeRefusal
       \/ /\ Waits(p) /\ ~refused
          /\ main' = [main EXCEPT !.pc = "streaming", !.position = FollowFrom(p)]
          /\ UNCHANGED <<ui, draft>>
    /\ IF CancelWaits(p) THEN Confirm ELSE UNCHANGED <<cancelling, reads>>
    /\ disturbed' = (disturbed \/ ~(Waits(p) \/ CancelWaits(p)))
    /\ UNCHANGED synced

Lose == losses < MaxLosses /\ losses' = losses + 1

(* The database may stay busy for a request as long as it is tried. *)
Handle(p) ==
    \/ Respond(p, Refused(p)) /\ UNCHANGED losses
    \/ Respond(p, TRUE) /\ Lose

(* A submission is accepted, and a later unit of the same request (its user  *)
(* message, the claim for its photo) finds the database busy.                *)
AcceptThenFail(p) ==
    /\ p \in posts /\ p.op = "submit" /\ Waits(p) /\ Lose
    /\ Accept(p.execution) /\ posts' = posts \ {p}
    /\ UNCHANGED <<ui, main, cancelling, reads, draft, synced, disturbed>>

(* The answer to it is a refusal like any other. *)
RefuseAccepted ==
    /\ main.op = "submit" /\ main.pc = "posted"
    /\ [op |-> "submit", execution |-> main.execution] \notin posts
    /\ TakeRefusal
    /\ UNCHANGED <<serverVars, cancelling, reads, posts, synced, boundVars>>

(* A connection fails before the answer; the request may still arrive. *)
LosePost ==
    /\ Lose
    /\ \/ /\ main.pc = "posted"
          /\ main' = [main EXCEPT !.pc = "recovering"]
          /\ posts' \in {posts, posts \ {[op |-> main.op,
                                          execution |-> main.execution]}}
          /\ UNCHANGED <<cancelling, reads>>
       \/ /\ cancelling.pc = "posted" /\ Confirm
          /\ posts' \in {posts, posts \ {[op |-> "cancel",
                                          execution |-> cancelling.execution]}}
          /\ UNCHANGED main
    /\ UNCHANGED <<serverVars, ui, draft, synced, disturbed>>

-----------------------------------------------------------------------------
(* The stream of an accepted request. *)
Acknowledged(s) ==
    CASE main.op = "submit" -> main.execution \notin s.echo
      [] main.op = "decide" -> Tells(s, main.execution, "approval_decision")
      [] OTHER -> TRUE

(* The end of sendProgress, and the checks of submit and decide after it. *)
EndProgress(s, acknowledged) ==
    /\ IF acknowledged THEN Succeed(s) ELSE Fail(s)
    /\ draft' = IF main.op # "submit" THEN draft
                ELSE [draft EXCEPT ![main.execution] =
                         IF acknowledged THEN "cleared" ELSE "kept"]

StreamNext ==
    /\ main.pc = "streaming"
    /\ \E i \in NextOf(main.execution, main.position) :
          LET s == Receive(ui, main.thread, {i})
          IN  IF EndsStream(main.execution, i)
              THEN EndProgress(s, Acknowledged(s))
              ELSE /\ ui' = s /\ main' = [main EXCEPT !.position = i]
                   /\ UNCHANGED draft
    /\ UNCHANGED <<serverVars, cancelling, reads, posts, synced, boundVars>>

(* The stream breaks, or nothing comes for fifteen seconds. *)
StreamEnds ==
    /\ main.pc = "streaming"
    /\ IF NextOf(main.execution, main.position) = {} THEN UNCHANGED losses ELSE Lose
    /\ main' = [main EXCEPT !.pc = "recovering"]
    /\ UNCHANGED <<serverVars, ui, cancelling, reads, posts, draft, synced, disturbed>>

-----------------------------------------------------------------------------
(* Reads. *)
SendRecovery ==
    /\ main.pc = "recovering" /\ reads["main"] = Nothing
    /\ Send("main", ui.thread, CursorOf(ui),
            IF main.op = "decide" THEN Nothing ELSE main.execution)
    /\ UNCHANGED <<serverVars, ui, main, cancelling, posts, draft, synced, boundVars>>

Watch ==
    /\ ui.watching /\ reads["watch"] = Nothing
    /\ Send("watch", ui.thread, CursorOf(ui), Nothing)
    /\ UNCHANGED <<serverVars, ui, main, cancelling, posts, draft, synced, boundVars>>

Serve(f) ==
    /\ reads[f] # Nothing /\ reads[f].answer = Nothing
    /\ reads' = [reads EXCEPT ![f].answer =
                    Snapshot(reads[f].thread, reads[f].after, reads[f].execution)]
    /\ UNCHANGED <<serverVars, ui, main, cancelling, posts, draft, synced, boundVars>>

Consume(f) == reads' = [reads EXCEPT ![f] = Nothing]

(* restore, refresh, selectConversation and the first half of resume. *)
GotHistory ==
    /\ main.pc = "reading" /\ Answered("main")
    /\ synced' = CoveredBy("main")
    /\ LET s == Replace(ui, main.thread, Answer("main"))
           e == main.execution
       IN  \/ /\ main.op # "resume" \/ ~Unfinished(s, e)
              /\ Succeed([s EXCEPT !.initialized = TRUE]) /\ UNCHANGED posts
           \/ /\ main.op = "resume" /\ Unfinished(s, e)
              /\ IF Tells(s, e, "cancellation_requested") \/ LastShown(s, e) = "paused"
                 THEN Fail(s) /\ UNCHANGED posts
                 ELSE Post("resume", s, e)
    /\ Consume("main")
    /\ UNCHANGED <<serverVars, cancelling, draft, boundVars>>

(* Fault: a message that is not stored yet counts as not acknowledged. *)
GivesUp(s, answer) == FALSE

(* A submission whose message is not stored yet is read again while its      *)
(* conversation is active.                                                   *)
ReadsAgain(s, answer) ==
    main.op = "submit" /\ main.execution \in s.echo /\ answer.active

(* The recovery of sendProgress. *)
GotRecovery ==
    /\ main.pc = "recovering" /\ Answered("main")
    /\ synced' = CoveredBy("main")
    /\ LET answer == Answer("main")
           s == [Receive(ui, reads["main"].thread, answer.events)
                   EXCEPT !.active = answer.active]
           known == main.op = "decide" \/ answer.accepted
       IN  IF known /\ ReadsAgain(s, answer)
           THEN ui' = s /\ UNCHANGED <<main, draft>>
           ELSE EndProgress(s, known /\ Acknowledged(s))
    /\ Consume("main")
    /\ UNCHANGED <<serverVars, cancelling, posts, boundVars>>

GotConfirmation ==
    /\ cancelling.pc = "confirming" /\ Answered("cancel")
    /\ IF ui.thread # cancelling.thread
       THEN ui' = StartWatching(ui, Pending)
       ELSE LET s == [Receive(ui, reads["cancel"].thread, Answer("cancel").events)
                        EXCEPT !.active = Answer("cancel").active]
                confirmed == \E x \in s.events :
                    /\ EventAt(x).execution = cancelling.execution
                    /\ EventAt(x).kind \in {"cancellation_requested", "completed"}
            IN  ui' = StartWatching([s EXCEPT !.restored = @ \/ confirmed], Pending)
    /\ cancelling' = NoCancel
    /\ Consume("cancel")
    /\ UNCHANGED <<serverVars, main, posts, draft, synced, boundVars>>

GotProgress ==
    /\ ui.watching /\ Answered("watch")
    /\ ui' = [Receive(ui, reads["watch"].thread, Answer("watch").events)
                EXCEPT !.active = Answer("watch").active,
                       !.watching = Answer("watch").active]
    /\ synced' = CoveredBy("watch")
    /\ Consume("watch")
    /\ UNCHANGED <<serverVars, main, cancelling, posts, draft, boundVars>>

(* A read fails; only a failure of the network or of the server is retried. *)
LoseRead(retryable) ==
    /\ Lose
    /\ \E f \in Flows :
          /\ reads[f] # Nothing /\ Consume(f)
          /\ \/ /\ f = "main" /\ main.pc = "recovering"
                /\ IF retryable THEN UNCHANGED <<main, ui, draft>>
                   ELSE EndProgress(ui, FALSE)
                /\ UNCHANGED cancelling
             \/ /\ f = "main" /\ main.pc = "reading"
                /\ IF main.op = "select" THEN Succeed(ui)
                   ELSE Fail([ui EXCEPT !.initialized = @ \/ ~retryable])
                /\ UNCHANGED <<cancelling, draft>>
             \/ /\ f = "cancel" /\ cancelling' = NoCancel
                /\ ui' = StartWatching(ui, Pending)
                /\ UNCHANGED <<main, draft>>
             \/ /\ f = "watch"
                /\ ui' = IF retryable THEN ui
                         ELSE [ui EXCEPT !.restored = FALSE, !.watching = FALSE]
                /\ UNCHANGED <<main, cancelling, draft>>
    /\ UNCHANGED <<serverVars, posts, synced, disturbed>>

(* A reload keeps nothing but the pointer to the conversation. *)
Reload ==
    /\ Lose
    /\ ui' = Fresh(ui.thread)
    /\ main' = Idle /\ cancelling' = NoCancel
    /\ reads' = [f \in Flows |-> Nothing]
    /\ synced' = 0
    /\ UNCHANGED <<serverVars, posts, draft, disturbed>>

-----------------------------------------------------------------------------
NothingIsCancelled ==
    /\ cancelling.pc = "idle"
    /\ \A e \in Executions : /\ ~work[e].cancelled
                            /\ [op |-> "cancel", execution |-> e] \notin posts

Server ==
    /\ \/ \E e \in Executions : Deliver(e) \/ Park(e)
       \/ /\ MixedCancels \/ NothingIsCancelled
          /\ \E e \in Executions \ Own : Accept(e)
    /\ UNCHANGED clientVars

User ==
    \/ Refresh \/ NewChat
    \/ \E t \in Threads : SelectConversation(t)
    \/ \E e \in Own : Submit(e)
    \/ \E e \in Executions : Resume(e) \/ Answers(e) \/ Cancel(e)

MainFlow ==
    \/ \E p \in posts : Waits(p) /\ (Handle(p) \/ AcceptThenFail(p))
    \/ RefuseAccepted \/ StreamNext \/ StreamEnds \/ SendRecovery \/ Serve("main")
    \/ GotHistory \/ GotRecovery \/ Restore
CancelFlow ==
    \/ \E p \in posts : CancelWaits(p) /\ Handle(p)
    \/ Serve("cancel") \/ GotConfirmation
WatchFlow == Watch \/ Serve("watch") \/ GotProgress

Next ==
    \/ Server \/ User \/ MainFlow \/ CancelFlow \/ WatchFlow \/ Reload
    \/ \E p \in posts : ~Waits(p) /\ ~CancelWaits(p) /\ Handle(p)
    \/ LosePost \/ \E retryable \in BOOLEAN : LoseRead(retryable)

Spec == Init /\ [][Next]_vars

-----------------------------------------------------------------------------
(* PROPERTIES *)

(* What is on the screen belongs to the conversation that is selected: no    *)
(* answer lands in a conversation that was chosen after it was asked for     *)
(* (receive, cancel, selectConversation).                                    *)
OneConversation == \A s \in ui.events : s[1] = ui.thread

(* A read leaves no gap: what it covered is shown completely, although       *)
(* streams leave out the events of other executions (cursor).                *)
SyncedIsComplete == \A i \in 1..synced : <<ui.thread, i>> \in ui.events

(* A text is cleared only when the server has accepted its execution.  The   *)
(* user is left with the text of an accepted execution, and may send and pay *)
(* it again, in three cases only: its request was refused after the unit     *)
(* that accepted it; the read that asks about it fails for good, which       *)
(* counts as a loss; or it was accepted after that read was answered.  An    *)
(* answer that arrives and says accepted never leaves it with the user.      *)
(* Whatever he keeps, the session sends nothing before it has read what the  *)
(* server stored (submit, sendProgress, exclusive, submit_agent_message).    *)
DraftsAreJudgedRightly ==
    [][\A e \in Own : draft'[e] # draft[e] =>
          /\ draft'[e] = "cleared" => Accepted(e)
          /\ draft'[e] = "kept" =>
                /\ ~ui'.restored
                /\ \/ ~Accepted(e)
                   \/ /\ main.pc = "posted"
                      /\ [op |-> "submit", execution |-> e] \notin posts
                   \/ /\ main.pc = "recovering"
                      /\ losses' # losses \/ ~Answer("main").accepted]_vars

(* The work on e rests: parked, over, or waiting for a decision; and nothing *)
(* but the notice that it was parked is still to be published.               *)
Rests(e) ==
    \/ work[e].blocked
    \/ IsFinal(e) /\ Published(e, "completed")
    \/ work[e].status = "awaiting_approval" /\ Published(e, "paused") /\ ~work[e].decided
AllShown(e) ==
    \A i \in DOMAIN LogOf(e) :
        LogOf(e)[i].execution = e /\ LogOf(e)[i].kind # "busy" => <<ThreadOf[e], i>> \in ui.events

(* Observation does not stop early: when no flow of a restored session reads *)
(* the conversation, the work on an accepted message rests and everything    *)
(* published of it is on the screen; the notice of a parked delivery may     *)
(* follow after the last read.  Excepted are sessions that asked for a       *)
(* cancellation, whose reads overtake those of the other flows, and requests *)
(* that arrived when nobody waited for them (sendProgress, startWatching,    *)
(* progress_state).                                                          *)
ObservationEndsAtRest ==
    \A e \in Own :
        /\ ui.restored /\ ui.thread = ThreadOf[e] /\ Accepted(e)
        /\ ~Pending /\ ~ui.watching /\ ~disturbed
        => Rests(e) /\ AllShown(e)

(* A decision that the server had saved when it answered is read back.       *)
SavedDecisionIsRead ==
    [][main.pc = "recovering" /\ main.op = "decide" /\ Answered("main")
        /\ main.execution \in Answer("main").decided /\ main' = Idle
            => ui'.restored]_vars
=============================================================================
