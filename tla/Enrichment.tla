----------------------------- MODULE Enrichment -----------------------------
(***************************************************************************)
(* enrich of ingestion/supplied_source.py over db/postgres/cache.py: paid  *)
(* extractions from the document at one address, shared through a cache    *)
(* whose rows are leases while the work is done.                           *)
(*                                                                         *)
(* All callers ask the same key: part, manufacturer, address, model and    *)
(* category.  Each action is one access to the cache, the network or the   *)
(* model; between any two time passes, other callers act, the maker puts   *)
(* another version of the document at the address, and the process may     *)
(* die.  Time is counted in units of about the timeout of an extraction.   *)
(***************************************************************************)
EXTENDS Extraction

CONSTANTS
    Callers,
    Asked,          \* bound: the requests considered
    Nothing,
    Timeout,        \* asyncio.timeout(90)
    Lease,          \* LEASE_SECONDS
    Fresh,          \* CACHE_SECONDS, for a proposal
    FreshOther,     \* a day, for every other result
    MaxDelay,       \* bound: from reading the clock to the end of acquire
    Horizon         \* bound: the last moment

(* A claim is made and its work timed out before its lease ends: so long as  *)
(* the database answers within the difference.                               *)
ASSUME WorkFitsLease ==
    /\ Timeout \in Nat \ {0} /\ MaxDelay \in Nat \ {0} /\ Lease \in Nat
    /\ Fresh \in Nat /\ FreshOther \in Nat /\ Horizon \in Nat
    /\ MaxDelay + Timeout < Lease
ASSUME AskedForSomething == Asked \subseteq Requests

VARIABLES
    now,
    request,        \* what every caller asks
    served,         \* the version at the address
    cache,          \* the row of the key
    caller
vars == <<now, request, served, cache, caller>>

(* A result as it is saved: its content, the digest of the document it was   *)
(* extracted from, retrieved_at, and the version that was retrieved then     *)
(* (ghost).                                                                  *)
SavedFrom(r, d) ==
    [content : Results(r, d), sha256 : {d}, retrieved_at : 0..Horizon, read : Documents]
Saved == UNION {SavedFrom(r, d) : r \in Asked, d \in Documents}
ASSUME NothingIsNoResult == Nothing \notin Saved
Row == [result : Saved \cup {Nothing}, expires : Nat, lease_until : Nat]
Working == {"claimed", "retrieved", "extracted"}
Caller ==
    [pc : {"idle", "asking", "answered"} \cup Working,
     refresh : BOOLEAN,
     previous : Saved \cup {Nothing},
     asked : 0..Horizon,                    \* `now' of acquire
     deadline : Nat,
     document : Documents \cup {Nothing}, at : 0..Horizon,   \* the retrieved version, and when
     answer : Saved \cup {Nothing}]
Idle == [pc |-> "idle", refresh |-> FALSE, previous |-> Nothing, asked |-> 0, deadline |-> 0,
         document |-> Nothing, at |-> 0, answer |-> Nothing]

(* Type invariant. *)
TypeOK ==
    /\ now \in 0..Horizon
    /\ request \in Asked
    /\ served \in Documents
    /\ cache \in Row
    /\ caller \in [Callers -> Caller]

Init ==
    /\ now = 0
    /\ request \in Asked
    /\ served \in Documents
    /\ cache = [result |-> Nothing, expires |-> 0, lease_until |-> 0]
    /\ caller = [c \in Callers |-> Idle]

-----------------------------------------------------------------------------
(* enrich                                                                    *)

(* previous: even an expired result; then the clock is read. *)
Begin(c) ==
    /\ caller[c].pc = "idle"
    /\ \E refresh \in BOOLEAN :
         caller' = [caller EXCEPT ![c] = [Idle EXCEPT !.pc = "asking", !.refresh = refresh,
                                            !.previous = cache.result, !.asked = now]]
    /\ UNCHANGED <<now, request, served, cache>>

(* Fault: refreshing takes precedence over the lease. *)
TurnedUnlessRefreshing(c) == cache.lease_until > caller[c].asked /\ ~caller[c].refresh

(* acquire: a live lease turns every caller away. *)
Turned(c) == cache.lease_until > caller[c].asked
Busy(c) ==
    /\ caller[c].pc = "asking" /\ Turned(c)
    /\ caller' = [caller EXCEPT ![c] = Idle]
    /\ UNCHANGED <<now, request, served, cache>>

IsHit(c) ==
    cache.expires > caller[c].asked /\ cache.result # Nothing /\ ~caller[c].refresh
Hit(c) ==
    /\ caller[c].pc = "asking" /\ ~Turned(c) /\ IsHit(c)
    /\ caller' = [caller EXCEPT ![c] = [Idle EXCEPT !.pc = "answered", !.answer = cache.result]]
    /\ UNCHANGED <<now, request, served, cache>>

(* A claim clears the result. *)
Claim(c) ==
    /\ caller[c].pc = "asking" /\ ~Turned(c) /\ ~IsHit(c)
    /\ cache' = [result |-> Nothing, expires |-> 0, lease_until |-> caller[c].asked + Lease]
    /\ caller' = [caller EXCEPT ![c].pc = "claimed", ![c].refresh = FALSE,
                                 ![c].deadline = now + Timeout]
    /\ UNCHANGED <<now, request, served>>

(* retrieve_pdf *)
Retrieve(c) ==
    /\ caller[c].pc = "claimed"
    /\ caller' = [caller EXCEPT ![c].pc = "retrieved", ![c].document = served, ![c].at = now]
    /\ UNCHANGED <<now, request, served, cache>>

(* Fault: a result of any version is good enough. *)
AnyVersion(c) == caller[c].previous # Nothing
SameDocument(c) ==
    caller[c].previous # Nothing /\ caller[c].previous.sha256 = caller[c].document

Extracted(c, result) ==
    /\ caller' = [caller EXCEPT ![c].pc = "extracted", ![c].previous = Nothing,
                                 ![c].answer = result]
    /\ UNCHANGED <<now, request, served, cache>>

(* The document has not changed: its result is confirmed. *)
Reuse(c) ==
    /\ caller[c].pc = "retrieved" /\ SameDocument(c)
    /\ Extracted(c, [caller[c].previous EXCEPT !.retrieved_at = caller[c].at,
                                               !.read = caller[c].document])

(* Fault: what the model answers is taken as it is. *)
ExtractBlindly(c) ==
    /\ caller[c].pc = "retrieved" /\ ~SameDocument(c)
    /\ \E a \in ModelAnswers :
         Extracted(c, [content |-> Result(a), sha256 |-> caller[c].document,
                       retrieved_at |-> caller[c].at, read |-> caller[c].document])

(* extract: one call of the model. *)
Extract(c) ==
    /\ caller[c].pc = "retrieved" /\ ~SameDocument(c)
    /\ \E content \in Results(request, caller[c].document) :
         Extracted(c, [content |-> content, sha256 |-> caller[c].document,
                       retrieved_at |-> caller[c].at, read |-> caller[c].document])

(* save: by key alone, whoever holds the lease. *)
FreshFor(result) == IF result.content.outcome = "proposal" THEN Fresh ELSE FreshOther
Save(c) ==
    /\ caller[c].pc = "extracted"
    /\ cache' = [result |-> caller[c].answer, expires |-> now + FreshFor(caller[c].answer),
                 lease_until |-> 0]
    /\ caller' = [caller EXCEPT ![c] = [Idle EXCEPT !.pc = "answered", !.answer = caller[c].answer]]
    /\ UNCHANGED <<now, request, served>>

(* No key, a failed or refused download, an answer of the model that is not  *)
(* valid, the timeout, or the end of the process: the lease stays, as a      *)
(* cooldown.                                                                 *)
Fail(c) ==
    /\ caller[c].pc \in Working \cup {"asking"}
    /\ caller' = [caller EXCEPT ![c] = Idle]
    /\ UNCHANGED <<now, request, served, cache>>

Return(c) ==
    /\ caller[c].pc = "answered"
    /\ caller' = [caller EXCEPT ![c] = Idle]
    /\ UNCHANGED <<now, request, served, cache>>

-----------------------------------------------------------------------------
(* The maker's site, and time.                                               *)

Publish ==
    /\ served' \in Documents \ {served}
    /\ UNCHANGED <<now, request, cache, caller>>

(* The work of a claim does not outlast its timeout, nor its acquire the     *)
(* bound; an answer is returned at once.                                     *)
MayWait(c) ==
    CASE caller[c].pc = "asking" -> now < caller[c].asked + MaxDelay
      [] caller[c].pc \in Working -> now < caller[c].deadline
      [] caller[c].pc = "answered" -> FALSE
      [] OTHER -> TRUE
Tick ==
    /\ now < Horizon
    /\ \A c \in Callers : MayWait(c)
    /\ now' = now + 1
    /\ UNCHANGED <<request, served, cache, caller>>

CallerStep(c) ==
    \/ Begin(c) \/ Busy(c) \/ Hit(c) \/ Claim(c) \/ Retrieve(c) \/ Reuse(c)
    \/ Extract(c) \/ Save(c) \/ Fail(c) \/ Return(c)
Next == Publish \/ Tick \/ \E c \in Callers : CallerStep(c)
Spec == Init /\ [][Next]_vars

-----------------------------------------------------------------------------
(* Properties.                                                               *)

(* At most one extraction of a key is under way, and it still holds the      *)
(* lease of the row: neither a refresh, nor the expiry of a result, nor a    *)
(* failure lets a second one start, and no result is ever saved over the     *)
(* claim of a later one, although save() asks for no lease.                  *)
ClaimsAreExclusive ==
    \A c \in Callers : caller[c].pc \in Working =>
        /\ cache.lease_until = caller[c].asked + Lease /\ now < cache.lease_until
        /\ \A d \in Callers : caller[d].pc \in Working => d = c

(* An answer, fresh, cached or confirmed, is about the document that its     *)
(* retrieval time names and is not older than its kind may be; everything it *)
(* proposes is in what was read of that document, and it is about the part   *)
(* that was asked for: by its exact code unless the document is linked, by   *)
(* its manufacturer if known; facts come with a proposal only.               *)
AboutThePart(fields) ==
    /\ \E claim \in fields.maker :
          claim.value \in Names[claim.cite] /\ request.maker \in {Unknown, claim.value}
    /\ \E claim \in fields.code :
          claim.value \in Names[claim.cite] /\ (Linked(request) \/ claim.value = request.code)
AnswersFitTheDocument ==
    \A c \in Callers : caller[c].pc = "answered" =>
        LET a == caller[c].answer
            said == a.content
        IN  /\ now - a.retrieved_at < MaxDelay + Timeout + FreshFor(a)
            /\ Cited(said.fields) \cup UNION {fact.cites : fact \in said.facts} \subseteq Text[a.read]
            /\ said.facts # {} => said.outcome = "proposal"
            /\ said.outcome = "proposal" => AboutThePart(said.fields)
=============================================================================
