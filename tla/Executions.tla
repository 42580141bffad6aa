----------------------------- MODULE Executions -----------------------------
(***************************************************************************)
(* The agent_executions and agent_cancellations tables of                  *)
(* db/postgres/execution.py: one row per accepted request, the lease that  *)
(* makes one worker its owner, and the durable request to cancel it.       *)
(*                                                                         *)
(* Every write unit updates the one pb_revision row under REPEATABLE READ  *)
(* (db/postgres/connection.py), so write units are serial and each method  *)
(* is a fragment of one atomic step.  `lease_until > now' is the Boolean   *)
(* `leased'; it becomes false by itself in ExpireExecution.  A worker_id   *)
(* is a fresh uuid for every run: the id of a run whose process died is    *)
(* Lost, which no later run can present again.                             *)
(***************************************************************************)
CONSTANTS
    Executions,     \* execution identities chosen by the browser
    Workers,        \* concurrent runs: dispatch workers and HTTP hosts
    ThreadOf,       \* the conversation of an execution
    Nobody,         \* worker_id NULL
    Lost            \* the worker_id of a run whose process died

ASSUME OwnersAreDistinct ==
    Nobody \notin Workers /\ Lost \notin Workers /\ Nobody # Lost

VARIABLES
    exec,           \* agent_executions: status, worker_id, lease
    cancellations   \* agent_cancellations: executions asked to stop

executionVars == <<exec, cancellations>>

Terminal == {"completed", "failed", "cancelled"}
Status == {"absent", "ready", "waiting_model", "awaiting_approval"} \cup Terminal
Owner == Workers \cup {Nobody, Lost}
ExecutionRow == [status : Status, worker_id : Owner, leased : BOOLEAN]

ExecutionsTypeOK ==
    /\ exec \in [Executions -> ExecutionRow]
    /\ cancellations \subseteq Executions

ExecutionsInit ==
    /\ exec = [e \in Executions |->
                 [status |-> "absent", worker_id |-> Nobody, leased |-> FALSE]]
    /\ cancellations = {}

-----------------------------------------------------------------------------
(* A thread with a ready or waiting execution takes no other message.      *)
Unfinished(e) ==
    \E f \in Executions : /\ ThreadOf[f] = ThreadOf[e]
                          /\ exec[f].status \in {"ready", "waiting_model"}

(* prepare: intake without a lease.  A repeated intake with the same digest *)
(* returns the record unchanged, which is no step.                          *)
Prepare(e) ==
    /\ exec[e].status = "absent"
    /\ ~Unfinished(e)
    /\ exec' = [exec EXCEPT ![e] = [@ EXCEPT !.status = "ready"]]

(* Fault: the update forgets to compare worker_id. *)
OwnsAnyLease(e, w) == w \in Workers /\ exec[e].leased

(* assert_owned, and the WHERE clause of save. *)
Owns(e, w) == exec[e].worker_id = w /\ exec[e].leased

(* Fault: the owner is tested for the wrong null, so no lease is respected. *)
BusyIfUnowned(e) == exec[e].worker_id = Nobody /\ exec[e].leased

(* The live lease that makes claim raise ExecutionBusy. *)
Busy(e) == exec[e].worker_id # Nobody /\ exec[e].leased

(* claim of an execution that is neither terminal nor busy. *)
ClaimExecution(e, w) ==
    /\ exec[e].status \notin Terminal \cup {"absent"}
    /\ ~Busy(e)
    /\ exec' = [exec EXCEPT ![e] = [@ EXCEPT !.worker_id = w, !.leased = TRUE]]

(* The UPDATE of save: it needs the live lease and renews it. *)
SaveStatus(e, w, s) ==
    /\ Owns(e, w)
    /\ exec' = [exec EXCEPT ![e] = [@ EXCEPT !.status = s]]

(* release: only the row still naming this worker is cleared. *)
Release(e, w) ==
    exec' = IF exec[e].worker_id = w
            THEN [exec EXCEPT ![e] = [@ EXCEPT !.worker_id = Nobody, !.leased = FALSE]]
            ELSE exec

(* The insert of request_cancellation; a terminal execution keeps its outcome. *)
RecordCancellation(e) ==
    /\ exec[e].status \notin Terminal \cup {"absent"}
    /\ cancellations' = cancellations \cup {e}

(* lease_until passes. *)
ExpireLease(e) ==
    /\ exec[e].leased
    /\ exec' = [exec EXCEPT ![e] = [@ EXCEPT !.leased = FALSE]]

(* The process of run w dies: nothing is written, the lease stays. *)
LoseOwner(w) ==
    exec' = [e \in Executions |->
               IF exec[e].worker_id = w THEN [exec[e] EXCEPT !.worker_id = Lost]
                                        ELSE exec[e]]
=============================================================================
