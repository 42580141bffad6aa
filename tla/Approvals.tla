----------------------------- MODULE Approvals ------------------------------
(***************************************************************************)
(* The inventory as the tools of an execution change it: the approvals of  *)
(* agent_runtime/approval.py, the addition receipts of tools/registry.py   *)
(* and the fence both put before an effect, the lease of the execution.    *)
(*                                                                         *)
(* A part is abstracted to the content an approval snapshot shows of it:   *)
(* its committed row, its specifications and its staged reviews.  A result *)
(* is abstracted to the set of targets it says were changed: {} for a      *)
(* refusal, a conflict or an error.  The operators are transactions, to be *)
(* joined with the step of the run that calls them.                        *)
(***************************************************************************)
EXTENDS Executions, Naturals, Sequences

CONSTANTS
    NumParts,       \* bound: parts, in the order a batch names them
    Contents,       \* what a part can be
    MaxRounds,      \* max_tool_turns: model responses of one execution
    MaxCalls,       \* bound: tool calls in one model response
    MaxRequests     \* bound: approval requests

VARIABLES
    content,        \* part -> its row, specifications and staged reviews
    approvals,      \* approval requests in the order they were made
    receipts,       \* agent_operations: <<execution, round, call>>
    unenriched,     \* those whose result says: enrichment interrupted
    effects,        \* ghost: times each call changed each target
    late            \* ghost: calls that changed one after a cancellation

inventoryVars == <<content, approvals, receipts, unenriched, effects, late>>

ASSUME SizesAreNatural ==
    NumParts \in Nat /\ MaxRounds \in Nat /\ MaxCalls \in Nat /\ MaxRequests \in Nat

Parts == 1..NumParts
Stock == 0                      \* the new stock of an addition
Targets == Parts \cup {Stock}
Steps == Executions \X (1..MaxRounds) \X (1..MaxCalls)

(* for names the call that made the request; the code keeps the link in the  *)
(* checkpoint of the execution.                                              *)
Approval ==
    [for : Steps, targets : SUBSET Parts, snapshot : [Parts -> Contents],
     decision : {"none", "yes", "no"}, done : BOOLEAN, result : SUBSET Parts,
     child : [Parts -> {"absent", "open", "changed", "rejected"}]]

InventoryTypeOK ==
    /\ content \in [Parts -> Contents]
    /\ approvals \in Seq(Approval)
    /\ receipts \subseteq Steps /\ unenriched \subseteq Steps
    /\ effects \in [Steps \X Targets -> Nat]
    /\ late \subseteq Steps

InventoryInit ==
    /\ content \in [Parts -> Contents]
    /\ approvals = <<>>
    /\ receipts = {} /\ unenriched = {}
    /\ effects = [x \in Steps \X Targets |-> 0]
    /\ late = {}

(* A call changes a target. *)
Changes(step, t) ==
    /\ effects' = [effects EXCEPT ![<<step, t>>] = @ + 1]
    /\ late' = IF step[1] \in cancellations THEN late \cup {step} ELSE late

(* A write to the row, the specifications or the staged reviews of a part. *)
Write(p) == \E c \in Contents : content' = [content EXCEPT ![p] = c]

(* request: the snapshot is taken in the transaction that stores it. *)
RequestApproval(step, targets) ==
    /\ Len(approvals) < MaxRequests
    /\ approvals' = Append(approvals,
         [for |-> step, targets |-> targets, snapshot |-> content, decision |-> "none",
          done |-> FALSE, result |-> {}, child |-> [p \in Parts |-> "absent"]])
    /\ UNCHANGED <<content, receipts, unenriched, effects, late>>

(* decide: the first decision stays, none is taken after a cancellation. *)
DecideApproval(n, e, decision) ==
    /\ approvals[n].decision = "none"
    /\ e \notin cancellations
    /\ approvals' = [approvals EXCEPT ![n].decision = decision]
    /\ UNCHANGED <<content, receipts, unenriched, effects, late>>

(* save_result of a request that has none. *)
SaveOutcome(n, result) ==
    approvals' = [approvals EXCEPT ![n].done = TRUE, ![n].result = result]

(* Fault: the inventory is not compared with what was shown. *)
AsNever(n, targets) == TRUE

(* The snapshot of the targets is still the one that was shown. *)
AsShown(n, targets) == \A p \in targets : content[p] = approvals[n].snapshot[p]

(* _execute_one on a request without a result: the change and its receipt    *)
(* commit together under the lease.                                          *)
ApplyApproved(n, step, w) ==
    LET p == CHOOSE q \in approvals[n].targets : TRUE
    IN  /\ Owns(step[1], w)
        /\ approvals[n].decision = "yes" /\ ~approvals[n].done
        /\ AsShown(n, {p})
        /\ Write(p)
        /\ Changes(step, p)
        /\ SaveOutcome(n, {p})
        /\ UNCHANGED <<receipts, unenriched>>

(* Its rejection, saved in a transaction of its own after the rollback. *)
RejectApproved(n, step, w) ==
    /\ Owns(step[1], w)
    /\ approvals[n].decision = "yes" /\ ~approvals[n].done
    /\ SaveOutcome(n, {})
    /\ UNCHANGED <<content, receipts, unenriched, effects, late>>

(* _execute_batch, first transaction: the missing children, each bound to    *)
(* the part as it was shown.                                                 *)
OpenBatch(n) ==
    /\ approvals[n].decision = "yes" /\ ~approvals[n].done
    /\ approvals' = [approvals EXCEPT ![n].child =
                       [p \in Parts |-> IF @[p] = "absent" THEN "open" ELSE @[p]]]
    /\ UNCHANGED <<content, receipts, unenriched, effects, late>>

(* Fault: a child that has a result is executed again. *)
ChildIsAny(n, p) == TRUE

ChildIsOpen(n, p) == approvals[n].child[p] = "open"

(* _execute_one on a child without a result, and its rejection. *)
ApplyChild(n, p, step, w) ==
    /\ Owns(step[1], w)
    /\ ChildIsOpen(n, p)
    /\ AsShown(n, {p})
    /\ Write(p)
    /\ Changes(step, p)
    /\ approvals' = [approvals EXCEPT ![n].child[p] = "changed"]
    /\ UNCHANGED <<receipts, unenriched>>
RejectChild(n, p, step, w) ==
    /\ Owns(step[1], w)
    /\ ChildIsOpen(n, p)
    /\ approvals' = [approvals EXCEPT ![n].child[p] = "rejected"]
    /\ UNCHANGED <<content, receipts, unenriched, effects, late>>

(* _execute_batch, last transaction. *)
CloseBatch(n, step, w, result) ==
    /\ Owns(step[1], w)
    /\ approvals[n].decision = "yes" /\ ~approvals[n].done
    /\ SaveOutcome(n, result)
    /\ UNCHANGED <<content, receipts, unenriched, effects, late>>

(* The result a receipt is stored with, when the part is to be enriched:     *)
(* the retrieval counts as interrupted until its own result is saved.        *)
Receipt(step, enriching) ==
    /\ receipts' = receipts \cup {step}
    /\ unenriched' = IF enriching THEN unenriched \cup {step} ELSE unenriched

(* Fault: the receipt of an addition is not looked for. *)
AddBlindly(step, w, enriching) ==
    /\ Owns(step[1], w)
    /\ Receipt(step, enriching)
    /\ Changes(step, Stock)
    /\ UNCHANGED <<content, approvals>>

(* _execute_addition: under the lease, with a receipt of the operation. *)
Add(step, w, enriching) ==
    /\ Owns(step[1], w)
    /\ step \notin receipts
    /\ Receipt(step, enriching)
    /\ Changes(step, Stock)
    /\ UNCHANGED <<content, approvals>>

(* save_result of an enriched addition, which no lease fences. *)
SaveEnriched(step) ==
    /\ unenriched' = unenriched \ {step}
    /\ UNCHANGED <<content, approvals, receipts, effects, late>>

(* save_pending_review of a lookup, which no lease fences. *)
StageReview(p) == Write(p) /\ UNCHANGED <<approvals, receipts, unenriched, effects, late>>

(* Any other writer of the inventory: the browser, another conversation. *)
Edit(p) == Write(p) /\ UNCHANGED <<approvals, receipts, unenriched, effects, late>>
=============================================================================
