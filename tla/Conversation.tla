---------------------------- MODULE Conversation ----------------------------
(***************************************************************************)
(* What a browser can see of the server: the numbered events of each       *)
(* conversation (conversations.py), the delivery activity that a progress  *)
(* read reports beside them, and the stream that follows one execution.    *)
(*                                                                         *)
(* A delivery is reduced to what these three read of it.  That it settles  *)
(* only when its outcome or its approval request has been published is     *)
(* what Dispatch guarantees (SettledIsPublished).                          *)
(***************************************************************************)
EXTENDS Naturals, Sequences

CONSTANTS
    Threads,
    Executions,
    ThreadOf,       \* conversation of each execution
    Asking,         \* executions with a call that needs an approval
    Parking         \* executions whose stages may fail until they are parked

ASSUME ConversationAssumption ==
    /\ ThreadOf \in [Executions -> Threads]
    /\ Asking \subseteq Executions
    /\ Parking \subseteq Executions

Kinds == {"user_message", "approval_request", "paused", "approval_decision",
          "cancellation_requested", "busy", "completed"}
Event == [kind : Kinds, execution : Executions]

VARIABLES
    log,            \* agent_events of each conversation, by sequence
    work            \* agent_executions, agent_dispatch, agent_cancellations and
                    \* the decision on the approval, by execution
serverVars == <<log, work>>

Work == [status : {"unknown", "ready", "awaiting_approval", "completed", "cancelled"},
         settled : BOOLEAN, blocked : BOOLEAN, decided : BOOLEAN, cancelled : BOOLEAN]

ServerTypeOK ==
    /\ log \in [Threads -> Seq(Event)]
    /\ work \in [Executions -> Work]

ServerInit ==
    /\ log = [t \in Threads |-> <<>>]
    /\ work = [e \in Executions |-> [status |-> "unknown", settled |-> FALSE,
                 blocked |-> FALSE, decided |-> FALSE, cancelled |-> FALSE]]

-----------------------------------------------------------------------------
LogOf(e) == log[ThreadOf[e]]
Accepted(e) == work[e].status # "unknown"
IsFinal(e) == work[e].status \in {"completed", "cancelled"}
Published(e, kind) == \E i \in DOMAIN LogOf(e) :
                          LogOf(e)[i] = [kind |-> kind, execution |-> e]

(* Fault: a delivery whose outcome is saved counts as over, published or not. *)
ActiveUntilSaved(t) == \E e \in Executions :
    ThreadOf[e] = t /\ work[e].status = "ready" /\ ~work[e].blocked

(* progress_state: some delivery of the conversation is neither parked nor   *)
(* at rest.                                                                  *)
Active(t) == \E e \in Executions :
    /\ ThreadOf[e] = t /\ Accepted(e) /\ ~work[e].blocked
    /\ ~work[e].settled \/ work[e].status = "ready"

(* _append: the next sequence number, and nothing when the event with this   *)
(* key has been published before.                                            *)
AppendOnce(e, kind) ==
    log' = IF Published(e, kind) THEN log
           ELSE [log EXCEPT ![ThreadOf[e]] =
                    Append(@, [kind |-> kind, execution |-> e])]

-----------------------------------------------------------------------------
(* Requests.  Accepting an execution and publishing its user message are two *)
(* units; none is accepted while another one of its conversation goes on.    *)
Occupied(t) == \E e \in Executions : ThreadOf[e] = t /\ work[e].status = "ready"

Accept(e) ==
    /\ ~Accepted(e) /\ ~Occupied(ThreadOf[e])
    /\ work' = [work EXCEPT ![e].status = "ready"]
    /\ UNCHANGED log

AnnounceUser(e) ==
    /\ Accepted(e) /\ ~Published(e, "user_message")
    /\ AppendOnce(e, "user_message")
    /\ UNCHANGED work

Woken(w) == [w EXCEPT !.settled = FALSE, !.blocked = FALSE]

Decide(e) ==
    work' = [work EXCEPT ![e] = [Woken(@) EXCEPT !.decided = TRUE]] /\ UNCHANGED log

Wake(e) == work' = [work EXCEPT ![e] = Woken(@)] /\ UNCHANGED log

RequestCancellation(e) ==
    IF IsFinal(e) THEN UNCHANGED serverVars
    ELSE /\ work' = [work EXCEPT ![e] = [Woken(@) EXCEPT !.cancelled = TRUE]]
         /\ AppendOnce(e, "cancellation_requested")

-----------------------------------------------------------------------------
(* Stages of the workers. *)
InStage(e) == Accepted(e) /\ ~work[e].blocked /\ ~work[e].settled

Publish(e, kind) ==
    /\ ~Published(e, kind)
    /\ AppendOnce(e, kind)
    /\ UNCHANGED work

AskApproval(e) ==
    /\ InStage(e) /\ work[e].status = "ready" /\ e \in Asking
    /\ ~work[e].decided /\ ~work[e].cancelled /\ Published(e, "user_message")
    /\ work' = [work EXCEPT ![e].status = "awaiting_approval"]
    /\ UNCHANGED log

Pause(e) ==
    /\ InStage(e) /\ work[e].status = "awaiting_approval"
    /\ \/ Publish(e, "approval_request") /\ ~work[e].decided /\ ~work[e].cancelled
       \/ Publish(e, "paused") /\ Published(e, "approval_request")

(* The worker reads the saved decision, publishes it and goes on. *)
AnnounceDecision(e) ==
    /\ InStage(e) /\ work[e].status = "awaiting_approval"
    /\ work[e].decided /\ ~work[e].cancelled
    /\ Publish(e, "approval_decision")

(* The result of the decided call is saved, cancelled meanwhile or not. *)
GoOn(e) ==
    /\ InStage(e) /\ work[e].status = "awaiting_approval"
    /\ Published(e, "approval_decision")
    /\ work' = [work EXCEPT ![e].status = "ready"]
    /\ UNCHANGED log

Complete(e) ==
    /\ InStage(e) /\ ~work[e].cancelled /\ Published(e, "user_message")
    /\ work[e].status = "ready"
    /\ e \in Asking => Published(e, "approval_decision")
    /\ work' = [work EXCEPT ![e].status = "completed"]
    /\ UNCHANGED log

CleanUp(e) ==
    /\ InStage(e) /\ ~IsFinal(e) /\ work[e].cancelled
    /\ work' = [work EXCEPT ![e].status = "cancelled"]
    /\ UNCHANGED log

AnnounceOutcome(e) == InStage(e) /\ IsFinal(e) /\ Publish(e, "completed")

(* finish: an acknowledgement settles what has been published, unless a wake *)
(* arrived meanwhile.                                                        *)
Settle(e) ==
    /\ InStage(e)
    /\ \/ IsFinal(e) /\ Published(e, "completed")
       \/ /\ work[e].status = "awaiting_approval" /\ Published(e, "paused")
          /\ ~work[e].decided /\ ~work[e].cancelled
    /\ work' = [work EXCEPT ![e].settled = TRUE]
    /\ UNCHANGED log

(* finish of the last failure that counts, and publish_blocked after it.  A  *)
(* stage that fails repeatedly has published the message of its user.        *)
(* Bound: an execution is parked once.                                       *)
Park(e) ==
    /\ InStage(e) /\ ~IsFinal(e) /\ e \in Parking
    /\ Published(e, "user_message") /\ ~Published(e, "busy")
    /\ work' = [work EXCEPT ![e].blocked = TRUE]
    /\ UNCHANGED log
AnnounceParked(e) == work[e].blocked /\ Publish(e, "busy")

Deliver(e) ==
    \/ AnnounceUser(e) \/ AskApproval(e) \/ Pause(e) \/ AnnounceDecision(e)
    \/ GoOn(e) \/ Complete(e) \/ CleanUp(e) \/ AnnounceOutcome(e) \/ Settle(e)
    \/ AnnounceParked(e)

-----------------------------------------------------------------------------
(* follow: the next event after `position' that belongs to e, and whether    *)
(* the stream ends with it.                                                  *)
NextOf(e, position) ==
    {i \in DOMAIN LogOf(e) :
        /\ i > position /\ LogOf(e)[i].execution = e
        /\ \A j \in (position + 1)..(i - 1) : LogOf(e)[j].execution # e}

EndsStream(e, i) ==
    \/ LogOf(e)[i].kind = "completed"
    \/ /\ LogOf(e)[i].kind = "paused"
       /\ work[e].status = "awaiting_approval" /\ ~work[e].decided
    \/ LogOf(e)[i].kind = "busy" /\ work[e].blocked

(* progress_snapshot, in one read-only transaction.  `decided' is not part of *)
(* the answer: it is kept for a property.                                     *)
Snapshot(t, after, e) ==
    [events   |-> (after + 1)..Len(log[t]),
     active   |-> Active(t),
     accepted |-> e \in Executions /\ Accepted(e),
     decided  |-> {x \in Executions : work[x].decided}]
=============================================================================
