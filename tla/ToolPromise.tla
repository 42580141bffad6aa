---------------------------- MODULE ToolPromise ----------------------------
(***************************************************************************)
(* What the agent runtime promises about the tool calls of an execution,   *)
(* whatever crashes, expires or is cancelled on the way: a call changes a  *)
(* target at most once, what the conversation is told of a call is what it *)
(* changed, a call that was told of changes nothing more, and nothing is   *)
(* changed or told after the execution has its outcome.                    *)
(***************************************************************************)
EXTENDS Naturals

CONSTANTS Executions, Calls, Targets, ExecutionOf

VARIABLES
    changed,        \* <<call, target>> -> number of changes
    told,           \* <<call, claims>>: the results the conversation shows
    over            \* executions that have an outcome

promiseVars == <<changed, told, over>>

ChangedBy(c) == {t \in Targets : changed[<<c, t>>] > 0}
IsTold(c) == \E x \in told : x[1] = c

Init ==
    /\ changed = [x \in Calls \X Targets |-> 0]
    /\ told = {}
    /\ over = {}

Change(c, t) ==
    /\ ExecutionOf[c] \notin over
    /\ ~IsTold(c)
    /\ changed[<<c, t>>] = 0
    /\ changed' = [changed EXCEPT ![<<c, t>>] = 1]
    /\ UNCHANGED <<told, over>>

Tell(c) ==
    /\ ExecutionOf[c] \notin over
    /\ ~IsTold(c)
    /\ told' = told \cup {<<c, ChangedBy(c)>>}
    /\ UNCHANGED <<changed, over>>

End(e) ==
    /\ over' = over \cup {e}
    /\ UNCHANGED <<changed, told>>

Next ==
    \/ \E c \in Calls, t \in Targets : Change(c, t)
    \/ \E c \in Calls : Tell(c)
    \/ \E e \in Executions : End(e)

Spec == Init /\ [][Next]_promiseVars
=============================================================================
