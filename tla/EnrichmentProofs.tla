-------------------------- MODULE EnrichmentProofs --------------------------
(***************************************************************************)
(* What the shared extraction cache promises for every number of callers   *)
(* and every value of the bounds: at most one paid extraction of a key is  *)
(* under way, and every answer fits the document it claims to be read      *)
(* from.  And what the lookup of suppliers and the web promises, for all   *)
(* fields, texts and replies: failures stay distinct, answers sourced.     *)
(***************************************************************************)
EXTENDS Enrichment, Lookup, TLAPS

(* A saved result is one extract may have of the document it names. *)
Fits(s) ==
    /\ s \in Saved
    /\ s.sha256 \in Documents /\ s.read = s.sha256
    /\ s.content \in Results(request, s.sha256)

CallerOK(c) ==
    /\ caller[c] \in Caller
    /\ caller[c].previous # Nothing => Fits(caller[c].previous)
    /\ caller[c].pc \in {"retrieved", "extracted"} => caller[c].document \in Documents
    /\ caller[c].pc \in {"extracted", "answered"} => Fits(caller[c].answer)

(* Types, with results that fit. *)
Sound ==
    /\ now \in 0..Horizon
    /\ request \in Asked
    /\ served \in Documents
    /\ cache \in Row
    /\ cache.result # Nothing => Fits(cache.result)
    /\ caller \in [Callers -> Caller]
    /\ \A c \in Callers : CallerOK(c)

(* How old what a caller holds can be: the clock read by enrich, the claim   *)
(* and the retrieval are no further apart than the bounds say.               *)
Timely(c) ==
    /\ caller[c].pc = "asking" =>
          caller[c].asked <= now /\ now <= caller[c].asked + MaxDelay
    /\ caller[c].pc \in Working =>
          /\ now <= caller[c].deadline
          /\ caller[c].deadline <= caller[c].asked + MaxDelay + Timeout
          /\ cache.lease_until = caller[c].asked + Lease
    /\ caller[c].pc = "claimed" => caller[c].deadline <= now + Timeout
    /\ caller[c].pc = "retrieved" => caller[c].deadline <= caller[c].at + Timeout
    /\ caller[c].pc = "extracted" => caller[c].deadline <= caller[c].answer.retrieved_at + Timeout
    /\ caller[c].pc = "answered" =>
          now - caller[c].answer.retrieved_at < MaxDelay + Timeout + FreshFor(caller[c].answer)

Timing ==
    /\ \A c \in Callers : Timely(c)
    /\ \A c, d \in Callers : caller[c].pc \in Working /\ caller[d].pc \in Working => c = d
    /\ cache.result # Nothing =>
          cache.expires <= cache.result.retrieved_at + Timeout + FreshFor(cache.result)

IInv == Sound /\ Timing
-----------------------------------------------------------------------------
(* What validate_candidate lets through.                                     *)

(* A result cites what was read only, proposes nothing without being a       *)
(* proposal, and a proposal is about the part that was asked for.            *)
LEMMA ResultsAreEvidenced ==
  ASSUME NEW r \in Requests, NEW d \in Documents, NEW said \in Results(r, d)
  PROVE  /\ Cited(said.fields) \cup UNION {fact.cites : fact \in said.facts} \subseteq Text[d]
         /\ said.facts # {} => said.outcome = "proposal"
         /\ said.outcome = "proposal" =>
               /\ \E claim \in said.fields.maker :
                     claim.value \in Names[claim.cite] /\ r.maker \in {Unknown, claim.value}
               /\ \E claim \in said.fields.code :
                     claim.value \in Names[claim.cite] /\ (Linked(r) \/ claim.value = r.code)
<1>1. CASE Text[d] = {}
  <2>1. said = Unreadable BY <1>1 DEF Results
  <2> QED BY <2>1 DEF Unreadable, NoFields, Cited
<1>2. CASE Text[d] # {}
  <2>1. PICK a \in ModelAnswers : Valid(a, r, d) /\ said = Result(a) BY <1>2 DEF Results
  <2>2. a \in Answers BY PossibleAnswers
  <2>3. /\ said.fields = a.fields
        /\ said.facts = {[name |-> fact.name, cites |-> fact.cites] :
                            fact \in {f \in a.facts : f.valid}}
        /\ said.outcome = IF a.outcome = "no_match" /\ a.mismatch = NoPassage
                          THEN "needs_clarification" ELSE a.outcome
    BY <2>1 DEF Result
  <2>4. Given[d] \subseteq Text[d] BY ExcerptsAreText
  <2>5. Cited(said.fields) \subseteq Text[d] BY <2>1, <2>3, <2>4 DEF Valid
  <2>6. ASSUME NEW g \in said.facts PROVE g.cites \subseteq Text[d]
    <3>1. PICK fact \in a.facts : g = [name |-> fact.name, cites |-> fact.cites]
      BY <2>3, <2>6
    <3> QED BY <2>1, <2>4, <3>1 DEF Valid
  <2>7. ASSUME said.facts # {} PROVE said.outcome = "proposal"
    <3>1. a.facts # {} BY <2>3, <2>7
    <3> QED BY <2>1, <2>3, <3>1 DEF Valid, Unresolved
  <2>8. ASSUME said.outcome = "proposal"
        PROVE  /\ \E claim \in said.fields.maker :
                     claim.value \in Names[claim.cite] /\ r.maker \in {Unknown, claim.value}
               /\ \E claim \in said.fields.code :
                     claim.value \in Names[claim.cite] /\ (Linked(r) \/ claim.value = r.code)
    <3>1. a.outcome = "proposal" BY <2>3, <2>8
    <3>2. Identified(a, r, d) BY <2>1, <3>1 DEF Valid, Unresolved
    <3> QED BY <2>3, <3>2 DEF Identified
  <2> QED BY <2>5, <2>6, <2>7, <2>8
<1> QED BY <1>1, <1>2

(* A new extraction, or a confirmed one, is a result that can be saved. *)
LEMMA NewResultsFit ==
  ASSUME request \in Asked, NEW d \in Documents, NEW content \in Results(request, d),
         NEW t \in 0..Horizon
  PROVE  LET s == [content |-> content, sha256 |-> d, retrieved_at |-> t, read |-> d]
         IN  Fits(s) /\ s # Nothing
<1> DEFINE s == [content |-> content, sha256 |-> d, retrieved_at |-> t, read |-> d]
<1>1. s \in SavedFrom(request, d) BY DEF SavedFrom
<1>2. s \in Saved BY <1>1 DEF Saved
<1>3. Fits(s) BY <1>2 DEF Fits
<1>4. s # Nothing BY <1>2, NothingIsNoResult
<1> QED BY <1>3, <1>4

LEMMA SavedFields ==
  ASSUME NEW s \in Saved
  PROVE  /\ s.retrieved_at \in 0..Horizon /\ s.retrieved_at \in Int
         /\ FreshFor(s) \in Nat
<1>1. PICK r \in Asked, d \in Documents : s \in SavedFrom(r, d) BY DEF Saved
<1> QED BY <1>1, WorkFitsLease DEF SavedFrom, FreshFor

LEMMA ConfirmedRecord ==
  ASSUME NEW s \in Saved, NEW t
  PROVE  [s EXCEPT !.retrieved_at = t, !.read = s.sha256]
           = [content |-> s.content, sha256 |-> s.sha256, retrieved_at |-> t, read |-> s.sha256]
<1>1. PICK r \in Asked, d \in Documents : s \in SavedFrom(r, d) BY DEF Saved
<1> DEFINE C == Results(r, d)
           u == [s EXCEPT !.retrieved_at = t]
<1>2. s \in [content : C, sha256 : {d}, retrieved_at : 0..Horizon, read : Documents]
  BY <1>1 DEF SavedFrom
<1> HIDE DEF C
<1>3. u = [content |-> s.content, sha256 |-> s.sha256, retrieved_at |-> t, read |-> s.read]
  BY <1>2
<1>4. [s EXCEPT !.retrieved_at = t, !.read = s.sha256] = [u EXCEPT !.read = s.sha256]
  OBVIOUS
<1> HIDE DEF u
<1>5. [u EXCEPT !.read = s.sha256]
        = [content |-> s.content, sha256 |-> s.sha256, retrieved_at |-> t, read |-> s.sha256]
  BY <1>3
<1> QED BY <1>4, <1>5

-----------------------------------------------------------------------------
(* Types and fit.                                                            *)

(* A caller moves to a state that is in order. *)
LEMMA SoundMove ==
  ASSUME Sound, NEW c \in Callers, NEW new \in Caller,
         caller' = [caller EXCEPT ![c] = new], UNCHANGED <<now, request, served>>,
         cache' \in Row, cache'.result # Nothing => Fits(cache'.result),
         new.previous # Nothing => Fits(new.previous),
         new.pc \in {"retrieved", "extracted"} => new.document \in Documents,
         new.pc \in {"extracted", "answered"} => Fits(new.answer)
  PROVE  Sound'
<1>1. caller \in [Callers -> Caller] BY DEF Sound
<1>2. caller' \in [Callers -> Caller] BY <1>1
<1>3. \A s : Fits(s)' <=> Fits(s) BY DEF Fits
<1>4. ASSUME NEW d \in Callers PROVE CallerOK(d)'
  <2>1. CASE d = c
    <3>1. caller'[d] = new BY <1>1, <2>1
    <3> QED BY <1>3, <3>1 DEF CallerOK
  <2>2. CASE d # c
    <3>1. caller'[d] = caller[d] BY <1>1, <2>2
    <3> QED BY <1>3, <3>1 DEF CallerOK, Sound
  <2> QED BY <2>1, <2>2
<1> QED BY <1>2, <1>3, <1>4 DEF Sound

LEMMA IdleIsOK == Idle \in Caller /\ Idle.pc = "idle" /\ Idle.previous = Nothing
BY WorkFitsLease DEF Idle, Caller

(* What each action makes of its caller. *)
LEMMA CallerStepSound ==
  ASSUME Sound, NEW c \in Callers, CallerStep(c)
  PROVE  Sound'
<1> DEFINE me == caller[c]
<1>1. /\ me \in Caller /\ CallerOK(c) /\ caller \in [Callers -> Caller]
      /\ now \in 0..Horizon /\ cache \in Row /\ request \in Asked /\ served \in Documents
      /\ cache.result # Nothing => Fits(cache.result)
      /\ me.previous # Nothing => Fits(me.previous)
  BY DEF Sound, CallerOK
<1> DEFINE Moves(new) == caller' = [caller EXCEPT ![c] = new]
<1>2. CASE Begin(c)
  <2>1. PICK refresh \in BOOLEAN :
          Moves([Idle EXCEPT !.pc = "asking", !.refresh = refresh,
                             !.previous = cache.result, !.asked = now])
    BY <1>2 DEF Begin
  <2> DEFINE new == [Idle EXCEPT !.pc = "asking", !.refresh = refresh,
                                 !.previous = cache.result, !.asked = now]
  <2>2. cache.result \in Saved \cup {Nothing} BY <1>1 DEF Row
  <2>3. new \in Caller /\ new.pc = "asking" /\ new.previous = cache.result
    BY <1>1, <2>2, IdleIsOK DEF Idle, Caller
  <2> HIDE DEF new
  <2> QED BY <1>1, <1>2, <2>1, <2>3, SoundMove DEF Begin, new
<1>3. CASE Busy(c) \/ Fail(c) \/ Return(c)
  BY <1>1, <1>3, IdleIsOK, SoundMove DEF Busy, Fail, Return
<1>4. CASE Hit(c)
  <2> DEFINE new == [Idle EXCEPT !.pc = "answered", !.answer = cache.result]
  <2>1. cache.result \in Saved /\ Fits(cache.result) BY <1>1, <1>4 DEF Hit, IsHit, Row
  <2>2. new \in Caller /\ new.pc = "answered" /\ new.previous = Nothing
        /\ new.answer = cache.result
    BY <1>1, <2>1, IdleIsOK DEF Idle, Caller
  <2>3. Moves(new) BY <1>4 DEF Hit
  <2> HIDE DEF new
  <2> QED BY <1>1, <1>4, <2>1, <2>2, <2>3, SoundMove DEF Hit
<1>5. CASE Claim(c)
  <2> DEFINE new == [me EXCEPT !.pc = "claimed", !.refresh = FALSE, !.deadline = now + Timeout]
  <2>4. now + Timeout \in Nat BY <1>1, WorkFitsLease
  <2>1. new \in Caller /\ new.pc = "claimed" /\ new.previous = me.previous
    BY <1>1, <2>4 DEF Caller, Working
  <2>2. Moves(new) BY <1>1, <1>5 DEF Claim
  <2>3. cache' \in Row /\ cache'.result = Nothing
    <3>1. me.asked \in Nat BY <1>1 DEF Caller
    <3> QED BY <1>5, <3>1, WorkFitsLease DEF Claim, Row
  <2>5. new.previous # Nothing => Fits(new.previous) BY <1>1, <2>1
  <2> HIDE DEF new
  <2> QED BY <1>1, <1>5, <2>1, <2>2, <2>3, <2>5, SoundMove DEF Claim
<1>6. CASE Retrieve(c)
  <2> DEFINE new == [me EXCEPT !.pc = "retrieved", !.document = served, !.at = now]
  <2>1. new \in Caller /\ new.pc = "retrieved" /\ new.previous = me.previous
        /\ new.document = served
    BY <1>1 DEF Caller, Working
  <2>2. Moves(new) BY <1>1, <1>6 DEF Retrieve
  <2>5. new.previous # Nothing => Fits(new.previous) BY <1>1, <2>1
  <2> HIDE DEF new
  <2> QED BY <1>1, <1>6, <2>1, <2>2, <2>5, SoundMove DEF Retrieve
<1>7. ASSUME NEW s \in Saved, Fits(s), me.document \in Documents, Extracted(c, s)
      PROVE  Sound'
  <2> DEFINE new == [me EXCEPT !.pc = "extracted", !.previous = Nothing, !.answer = s]
  <2>1. new \in Caller /\ new.pc = "extracted" /\ new.previous = Nothing
        /\ new.answer = s /\ new.document = me.document
    BY <1>1 DEF Caller, Working
  <2>2. Moves(new) BY <1>1, <1>7 DEF Extracted
  <2> HIDE DEF new
  <2> QED BY <1>1, <1>7, <2>1, <2>2, SoundMove DEF Extracted
<1>8. CASE Reuse(c) \/ Extract(c)
  <2>1. me.document \in Documents /\ me.at \in 0..Horizon
    BY <1>1, <1>8 DEF Reuse, Extract, CallerOK, Caller
  <2>2. PICK content \in Results(request, me.document) :
          Extracted(c, [content |-> content, sha256 |-> me.document,
                        retrieved_at |-> me.at, read |-> me.document])
    <3>1. CASE Extract(c) BY <3>1 DEF Extract
    <3>2. CASE Reuse(c)
      <4>1. Fits(me.previous) /\ me.previous.sha256 = me.document
        BY <1>1, <3>2 DEF Reuse, SameDocument, CallerOK
      <4>3. [me.previous EXCEPT !.retrieved_at = me.at, !.read = me.document]
              = [content |-> me.previous.content, sha256 |-> me.document,
                 retrieved_at |-> me.at, read |-> me.document]
        BY <4>1, ConfirmedRecord DEF Fits
      <4> QED BY <3>2, <4>1, <4>3 DEF Reuse, Fits
    <3> QED BY <1>8, <3>1, <3>2
  <2> QED BY <1>1, <1>7, <2>1, <2>2, NewResultsFit DEF Fits
<1>9. CASE Save(c)
  <2> DEFINE new == [Idle EXCEPT !.pc = "answered", !.answer = me.answer]
  <2>1. Fits(me.answer) /\ me.answer \in Saved BY <1>1, <1>9 DEF Save, CallerOK, Fits
  <2>2. new \in Caller /\ new.pc = "answered" /\ new.previous = Nothing
        /\ new.answer = me.answer
    BY <1>1, <2>1, IdleIsOK DEF Idle, Caller
  <2>3. Moves(new) BY <1>9 DEF Save
  <2>4. FreshFor(me.answer) \in Nat BY <2>1, SavedFields
  <2>5. cache' \in Row /\ cache'.result = me.answer BY <1>1, <1>9, <2>1, <2>4 DEF Save, Row
  <2> HIDE DEF new
  <2> QED BY <1>1, <1>9, <2>1, <2>2, <2>3, <2>5, SoundMove DEF Save
<1> QED BY <1>2, <1>3, <1>4, <1>5, <1>6, <1>8, <1>9 DEF CallerStep

LEMMA SoundStep == Sound /\ [Next]_vars => Sound'
<1> SUFFICES ASSUME Sound, [Next]_vars PROVE Sound'
  OBVIOUS
<1>1. CASE \E c \in Callers : CallerStep(c) BY <1>1, CallerStepSound
<1>2. CASE Publish \/ Tick \/ UNCHANGED vars
  <2>1. request' = request /\ cache' = cache /\ caller' = caller
        /\ served' \in Documents /\ now' \in 0..Horizon
    BY <1>2, WorkFitsLease DEF Publish, Tick, vars, Sound
  <2>2. \A s : Fits(s)' <=> Fits(s) BY <2>1 DEF Fits
  <2> QED BY <2>1, <2>2 DEF Sound, CallerOK
<1> QED BY <1>1, <1>2 DEF Next

-----------------------------------------------------------------------------
(* Time.                                                                     *)

(* A step of one caller leaves the others in time, if it leaves the row or   *)
(* nobody else works.                                                        *)
LEMMA TimelyKept ==
  ASSUME NEW c \in Callers, caller'[c] = caller[c], now' = now, Timely(c),
         cache'.lease_until = cache.lease_until \/ caller[c].pc \notin Working
  PROVE  Timely(c)'
BY DEF Timely, FreshFor, Working

(* A claim is granted only when no work is under way: the lease of a working *)
(* caller outlives its deadline, and no clock is read after it.              *)
LEMMA ClaimIsAlone ==
  ASSUME IInv, NEW c \in Callers, caller[c].pc = "asking", ~Turned(c), NEW d \in Callers
  PROVE  caller[d].pc \notin Working
<1>1. /\ caller[c] \in Caller /\ caller[d] \in Caller /\ now \in 0..Horizon
      /\ cache.lease_until \in Nat
  BY DEF IInv, Sound, Row
<1>2. /\ caller[c].asked \in Nat /\ caller[d].asked \in Nat /\ caller[d].deadline \in Nat
  BY <1>1 DEF Caller
<1>3. Timely(c) /\ Timely(d) BY DEF IInv, Timing
<1> QED BY <1>1, <1>2, <1>3, WorkFitsLease DEF Timely, Turned

LEMMA CallerStepTiming ==
  ASSUME IInv, NEW c \in Callers, CallerStep(c)
  PROVE  Timing'
<1> DEFINE me == caller[c]
           me1 == caller'[c]
<1>1. /\ Sound /\ Sound' BY CallerStepSound DEF IInv
<1>2. /\ me \in Caller /\ CallerOK(c) /\ caller \in [Callers -> Caller] /\ now \in 0..Horizon
      /\ me.asked \in Nat /\ me.deadline \in Nat /\ me.at \in Nat
      /\ cache \in Row /\ cache.expires \in Nat /\ cache.lease_until \in Nat
      /\ Timely(c) /\ now \in Nat
      /\ Timeout \in Nat \ {0} /\ MaxDelay \in Nat \ {0} /\ Lease \in Nat
  BY <1>1, WorkFitsLease DEF Sound, Caller, Row, IInv, Timing
<1>3. now' = now /\ \A d \in Callers : d # c => caller'[d] = caller[d]
  BY <1>2 DEF CallerStep, Begin, Busy, Hit, Claim, Retrieve, Reuse, Extract, Extracted, Save, Fail,
              Return
(* Only a claim and a save write the row, and then nobody else works. *)
<1>4. ASSUME cache' # cache, NEW d \in Callers, d # c PROVE caller[d].pc \notin Working
  <2>1. CASE Claim(c) BY <2>1, ClaimIsAlone DEF Claim
  <2>2. CASE Save(c) BY <2>2, <1>4 DEF IInv, Timing, Save, Working
  <2> QED BY <1>4, <2>1, <2>2
          DEF CallerStep, Begin, Busy, Hit, Retrieve, Reuse, Extract, Extracted, Fail, Return
<1>5. \A d \in Callers : d # c => Timely(d)'
  BY <1>3, <1>4, TimelyKept DEF IInv, Timing
(* Only a claim begins work. *)
<1>6. me1.pc \in Working => me.pc \in Working \/ Claim(c)
  BY <1>2, IdleIsOK
  DEF CallerStep, Begin, Busy, Hit, Claim, Retrieve, Reuse, Extract, Extracted, Save, Fail,
      Return, Idle, Working
<1>7. \A d, f \in Callers : caller'[d].pc \in Working /\ caller'[f].pc \in Working => d = f
  <2>1. ASSUME NEW d \in Callers, d # c, caller'[d].pc \in Working, me1.pc \in Working
        PROVE  FALSE
    <3>1. caller[d].pc \in Working BY <1>3, <2>1
    <3>2. CASE Claim(c) BY <3>1, <3>2, ClaimIsAlone DEF Claim
    <3>3. CASE me.pc \in Working BY <2>1, <3>1, <3>3 DEF IInv, Timing
    <3> QED BY <1>6, <2>1, <3>2, <3>3
  <2>2. ASSUME NEW d \in Callers, NEW f \in Callers, d # c, f # c,
               caller'[d].pc \in Working, caller'[f].pc \in Working
        PROVE  d = f
    BY <1>3, <2>2 DEF IInv, Timing
  <2> QED BY <2>1, <2>2
<1>8. CASE Begin(c)
  <2>1. me1.pc = "asking" /\ me1.asked = now BY <1>2, <1>8, IdleIsOK DEF Begin, Idle
  <2>2. Timely(c)' BY <1>2, <1>3, <2>1 DEF Timely, Working
  <2> QED BY <1>3, <1>5, <1>7, <1>8, <2>2 DEF Timing, Begin, IInv, FreshFor
<1>9. CASE Busy(c) \/ Fail(c) \/ Return(c)
  <2>1. me1.pc = "idle" BY <1>2, <1>9, IdleIsOK DEF Busy, Fail, Return
  <2>2. Timely(c)' BY <2>1 DEF Timely, Working
  <2> QED BY <1>3, <1>5, <1>7, <1>9, <2>2 DEF Timing, Busy, Fail, Return, IInv, FreshFor
<1>10. CASE Hit(c)
  <2>1. me1.pc = "answered" /\ me1.answer = cache.result BY <1>2, <1>10 DEF Hit, Idle
  <2>2. cache.result \in Saved /\ cache.expires > me.asked /\ me.pc = "asking"
    BY <1>2, <1>10 DEF Hit, IsHit, Row
  <2>3. cache.expires <= cache.result.retrieved_at + Timeout + FreshFor(cache.result)
    BY <2>2, NothingIsNoResult DEF IInv, Timing
  <2>4. now - cache.result.retrieved_at < MaxDelay + Timeout + FreshFor(cache.result)
    BY <1>2, <2>2, <2>3, SavedFields DEF Timely
  <2>5. Timely(c)' BY <1>3, <2>1, <2>4 DEF Timely, Working, FreshFor
  <2> QED BY <1>3, <1>5, <1>7, <1>10, <2>5 DEF Timing, Hit, IInv, FreshFor
<1>11. CASE Claim(c)
  <2>1. /\ me1.pc = "claimed" /\ me1.asked = me.asked /\ me1.deadline = now + Timeout
        /\ cache'.lease_until = me.asked + Lease /\ cache'.result = Nothing
    BY <1>2, <1>11 DEF Claim, Caller
  <2>2. me.asked <= now /\ now <= me.asked + MaxDelay BY <1>2, <1>11 DEF Claim, Timely
  <2>3. Timely(c)' BY <1>2, <1>3, <2>1, <2>2 DEF Timely, Working
  <2> QED BY <1>5, <1>7, <2>1, <2>3 DEF Timing
<1>12. CASE Retrieve(c)
  <2>1. /\ me1.pc = "retrieved" /\ me1.asked = me.asked /\ me1.deadline = me.deadline
        /\ me1.at = now /\ cache' = cache
    BY <1>2, <1>12 DEF Retrieve, Caller
  <2>2. me.pc = "claimed" BY <1>12 DEF Retrieve
  <2>3. Timely(c)' BY <1>2, <1>3, <2>1, <2>2 DEF Timely, Working
  <2> QED BY <1>3, <1>5, <1>7, <2>1, <2>3 DEF Timing, IInv, FreshFor
<1>13. CASE Reuse(c) \/ Extract(c)
  <2>1. /\ me1.pc = "extracted" /\ me1.asked = me.asked /\ me1.deadline = me.deadline
        /\ me1.answer.retrieved_at = me.at /\ cache' = cache
    <3>1. CASE Extract(c) BY <1>2, <3>1 DEF Extract, Extracted, Caller
    <3>2. CASE Reuse(c)
      <4>1. me.previous \in Saved BY <1>2, <3>2 DEF Reuse, SameDocument, CallerOK, Fits
      <4>2. me.previous.sha256 = me.document BY <3>2 DEF Reuse, SameDocument
      <4>3. me1.answer = [me.previous EXCEPT !.retrieved_at = me.at, !.read = me.previous.sha256]
        BY <1>2, <3>2, <4>2 DEF Reuse, Extracted, Caller
      <4>4. me1.answer.retrieved_at = me.at BY <4>1, <4>3, ConfirmedRecord
      <4> QED BY <1>2, <3>2, <4>4 DEF Reuse, Extracted, Caller
    <3> QED BY <1>13, <3>1, <3>2
  <2>2. me.pc = "retrieved" BY <1>13 DEF Reuse, Extract
  <2>3. Timely(c)' BY <1>2, <1>3, <2>1, <2>2 DEF Timely, Working
  <2> QED BY <1>3, <1>5, <1>7, <2>1, <2>3 DEF Timing, IInv, FreshFor
<1>14. CASE Save(c)
  <2>1. /\ me1.pc = "answered" /\ me1.answer = me.answer
        /\ cache'.result = me.answer /\ cache'.expires = now + FreshFor(me.answer)
    BY <1>2, <1>14 DEF Save, Idle
  <2>2. me.pc = "extracted" /\ me.answer \in Saved BY <1>2, <1>14 DEF Save, CallerOK, Fits
  <2>3. now <= me.answer.retrieved_at + Timeout BY <1>2, <2>2, SavedFields DEF Timely, Working
  <2>4. /\ now - me.answer.retrieved_at < MaxDelay + Timeout + FreshFor(me.answer)
        /\ now + FreshFor(me.answer) <= me.answer.retrieved_at + Timeout + FreshFor(me.answer)
    BY <1>2, <2>2, <2>3, SavedFields
  <2>5. Timely(c)' BY <1>3, <2>1, <2>4 DEF Timely, Working, FreshFor
  <2> QED BY <1>5, <1>7, <2>1, <2>4, <2>5 DEF Timing, FreshFor
<1> QED BY <1>8, <1>9, <1>10, <1>11, <1>12, <1>13, <1>14 DEF CallerStep

(* The clock waits for nobody who is late. *)
LEMMA TickTiming ==
  ASSUME IInv, Tick
  PROVE  Timing'
<1>1. /\ now \in Nat /\ now' = now + 1 /\ cache' = cache /\ caller' = caller
      /\ Timeout \in Nat \ {0} /\ MaxDelay \in Nat \ {0} /\ Lease \in Nat
  BY WorkFitsLease DEF Tick, IInv, Sound
<1>2. ASSUME NEW c \in Callers PROVE Timely(c)'
  <2>1. caller[c].asked \in Nat /\ caller[c].deadline \in Nat /\ Timely(c) /\ MayWait(c)
        /\ caller[c].pc \in {"idle", "asking", "answered"} \cup Working
    BY DEF IInv, Sound, Timing, Tick, Caller
  <2> QED BY <1>1, <2>1 DEF Timely, MayWait, Working, FreshFor
<1> QED BY <1>1, <1>2 DEF IInv, Timing, FreshFor

LEMMA InvInit == Init => IInv
<1> SUFFICES ASSUME Init PROVE IInv
  OBVIOUS
<1>1. Sound
  BY IdleIsOK, WorkFitsLease DEF Init, Sound, Row, CallerOK
<1>2. Timing BY IdleIsOK DEF Init, Timing, Timely, Working
<1> QED BY <1>1, <1>2 DEF IInv

LEMMA InvStep == IInv /\ [Next]_vars => IInv'
<1> SUFFICES ASSUME IInv, [Next]_vars PROVE IInv'
  OBVIOUS
<1>1. Sound' BY SoundStep DEF IInv
<1>2. Timing'
  <2>1. CASE \E c \in Callers : CallerStep(c) BY <2>1, CallerStepTiming
  <2>2. CASE Tick BY <2>2, TickTiming
  <2>3. CASE Publish \/ UNCHANGED vars
    <3>1. now' = now /\ cache' = cache /\ caller' = caller BY <2>3 DEF Publish, vars
    <3> QED BY <3>1 DEF IInv, Timing, Timely, Working, FreshFor
  <2> QED BY <2>1, <2>2, <2>3 DEF Next
<1> QED BY <1>1, <1>2 DEF IInv

LEMMA Invariance == Spec => []IInv
BY InvInit, InvStep, PTL DEF Spec

-----------------------------------------------------------------------------
(* Theorems.                                                                 *)

(* Every variable of the shared cache and its callers keeps its type. *)
THEOREM EnrichmentTypes == Spec => []TypeOK
<1>1. IInv => TypeOK BY DEF IInv, Sound, TypeOK
<1> QED BY <1>1, Invariance, PTL

(* Of any number of callers at most one pays for an extraction at a time,    *)
(* and as long as it works the row is its own: no other claim is granted and *)
(* no result is saved over a later claim (acquire and save of cache.py).     *)
THEOREM OneExtractionAtATime == Spec => []ClaimsAreExclusive
<1>1. ASSUME IInv PROVE ClaimsAreExclusive
  <2> SUFFICES ASSUME NEW c \in Callers, caller[c].pc \in Working
               PROVE  /\ cache.lease_until = caller[c].asked + Lease /\ now < cache.lease_until
                      /\ \A d \in Callers : caller[d].pc \in Working => d = c
    BY DEF ClaimsAreExclusive
  <2>1. now \in Nat /\ caller[c].asked \in Nat /\ caller[c].deadline \in Nat /\ Timely(c)
    BY <1>1, WorkFitsLease DEF IInv, Sound, Caller, Timing
  <2>2. cache.lease_until = caller[c].asked + Lease /\ now < cache.lease_until
    BY <2>1, WorkFitsLease DEF Timely
  <2> QED BY <1>1, <2>2 DEF IInv, Timing
<1> QED BY <1>1, Invariance, PTL

(* Whatever the model answers, the maker publishes and other callers do      *)
(* meanwhile, an answer is about the part that was asked for, cites only     *)
(* passages of the document it was read from, and is not older than its kind *)
(* may be (validate_candidate, enrich).                                      *)
THEOREM AnswersAreEvidenced == Spec => []AnswersFitTheDocument
<1>1. ASSUME IInv PROVE AnswersFitTheDocument
  <2> SUFFICES ASSUME NEW c \in Callers, caller[c].pc = "answered"
               PROVE  LET a == caller[c].answer
                          said == a.content
                      IN  /\ now - a.retrieved_at < MaxDelay + Timeout + FreshFor(a)
                          /\ Cited(said.fields) \cup UNION {fact.cites : fact \in said.facts}
                               \subseteq Text[a.read]
                          /\ said.facts # {} => said.outcome = "proposal"
                          /\ said.outcome = "proposal" => AboutThePart(said.fields)
    BY DEF AnswersFitTheDocument
  <2> DEFINE a == caller[c].answer
             said == a.content
  <2>1. Fits(a) /\ Timely(c) /\ request \in Requests
    BY <1>1, AskedForSomething DEF IInv, Sound, CallerOK, Timing
  <2>2. a.sha256 \in Documents /\ a.read = a.sha256 /\ said \in Results(request, a.sha256)
    BY <2>1 DEF Fits
  <2>3. now - a.retrieved_at < MaxDelay + Timeout + FreshFor(a) BY <2>1 DEF Timely
  <2> HIDE DEF a, said
  <2>4. /\ Cited(said.fields) \cup UNION {fact.cites : fact \in said.facts} \subseteq Text[a.read]
        /\ said.facts # {} => said.outcome = "proposal"
        /\ said.outcome = "proposal" => AboutThePart(said.fields)
    BY <2>1, <2>2, ResultsAreEvidenced DEF AboutThePart
  <2> QED BY <2>3, <2>4 DEF a, said
<1> QED BY <1>1, Invariance, PTL
-----------------------------------------------------------------------------
(* The lookup of fetch_specs_detailed.                                       *)

Tiers == {"primary_api", "api_derived_page", "api_derived_pdf", "web_search"}
StatusOf == [answered |-> "ok", refused |-> "auth-failed", timeout |-> "timeout",
             error |-> "failed", several |-> "needs_clarification", absent |-> "no_match"]
SourceAttempt ==
    [tier : Tiers, status : {StatusOf[r] : r \in DOMAIN StatusOf},
     fields : Statements(FieldScope), page : BOOLEAN, pdf : 0..2]

(* One attempt of each source, the most authoritative first; only the        *)
(* supplier is recorded when it fails, and it has said nothing then.         *)
Orderly(ts) ==
    /\ ts \in Seq(SourceAttempt)
    /\ \A i \in DOMAIN ts :
          /\ ts[i].status # "ok" => i = 1 /\ ts[i].tier = "primary_api" /\ ts[i].fields = Nowhere
          /\ \A j \in DOMAIN ts : i < j => Rank(ts[i].tier) < Rank(ts[j].tier)
Silent(ts) == \A i \in DOMAIN ts : DOMAIN ts[i].fields = {}
Within(ts, rank) == \A i \in DOMAIN ts : Rank(ts[i].tier) <= rank

(* What the attempts say of the supplier's last answer r. *)
Records(ts, r) ==
    /\ r = "none" => \A i \in DOMAIN ts : ts[i].tier = "web_search"
    /\ r # "none" => /\ ts # <<>> /\ ts[1].tier = "primary_api" /\ ts[1].status = StatusOf[r]
                     /\ r # "answered" => \A i \in DOMAIN ts : i = 1 \/ ts[i].tier = "web_search"

Asking == {"start", "token", "product", "keyword"}
WebReplies == {"none", "answered", "absent", "refused"}
LookupInv ==
    /\ Orderly(attempts)
    /\ stage \in Asking \cup {"page", "pdf", "search", "web", "done"}
    /\ reply \in {"none"} \cup DOMAIN StatusOf
    /\ stage \in Asking => attempts = <<>> /\ reply \in {"none", "timeout"} /\ ~searched
    /\ stage \in {"start", "token"} => reply = "none"
    /\ stage \notin Asking => Records(attempts, reply)
    /\ stage = "page" => reply = "answered" /\ Within(attempts, 1)
    /\ stage = "pdf" => reply = "answered" /\ Within(attempts, 2)
    /\ stage \in {"page", "pdf"} => ~searched
    /\ stage \in {"search", "web"} => Within(attempts, 3) /\ Silent(attempts)
    /\ FromWeb(attempts) => \A i \in DOMAIN attempts :
          attempts[i].tier # "web_search" => DOMAIN attempts[i].fields = {}
    /\ searched \/ FromWeb(attempts) \/ stage \in {"search", "web"} => reply \in WebReplies

-----------------------------------------------------------------------------
(* What the reconciliation makes of orderly attempts.                        *)

LEMMA AttemptFields ==
  ASSUME NEW ts, Orderly(ts), NEW i \in DOMAIN ts
  PROVE  /\ i \in Nat \ {0} /\ i <= Len(ts) /\ DOMAIN ts = 1..Len(ts) /\ Len(ts) \in Nat
         /\ ts[i] \in SourceAttempt /\ ts[i].tier \in Tiers
         /\ ts[i].status \in {StatusOf[r] : r \in DOMAIN StatusOf}
         /\ Rank(ts[i].tier) \in 1..4
         /\ DOMAIN ts[i].fields \subseteq FieldScope
         /\ \A f \in DOMAIN ts[i].fields : ts[i].fields[f] \in Lengths
<1>1. ts \in Seq(SourceAttempt) BY DEF Orderly
<1>2. /\ i \in Nat \ {0} /\ i <= Len(ts) /\ DOMAIN ts = 1..Len(ts) /\ Len(ts) \in Nat
      /\ ts[i] \in SourceAttempt
  BY <1>1
<1>3. /\ ts[i].tier \in Tiers /\ ts[i].fields \in Statements(FieldScope)
      /\ ts[i].status \in {StatusOf[r] : r \in DOMAIN StatusOf}
  BY <1>2 DEF SourceAttempt
<1>4. PICK S \in SUBSET FieldScope : ts[i].fields \in [S -> Lengths]
  BY <1>3 DEF Statements
<1>5. Rank(ts[i].tier) \in 1..4 BY <1>3 DEF Tiers, Rank
<1> QED BY <1>2, <1>3, <1>4, <1>5

(* Each tier is asked once, so no source of it is contradicted. *)
LEMMA NoConflicts ==
  ASSUME NEW ts, Orderly(ts) PROVE Conflicts(ts) = {}
<1> SUFFICES ASSUME NEW f \in Identifying, NEW i \in Stating(ts, f), NEW j \in Stating(ts, f),
                    ts[i].tier = ts[j].tier
             PROVE  i = j
  BY DEF Conflicts
<1>1. i \in DOMAIN ts /\ j \in DOMAIN ts BY DEF Stating
<1>2. i \in Nat /\ j \in Nat /\ Rank(ts[i].tier) \in 1..4 /\ Rank(ts[j].tier) \in 1..4
  BY <1>1, AttemptFields
<1>3. ~(i < j) /\ ~(j < i) BY <1>1, <1>2 DEF Orderly
<1> QED BY <1>2, <1>3

(* Four tiers make at most four attempts. *)
LEMMA FourAttempts ==
  ASSUME NEW ts, Orderly(ts) PROVE DOMAIN ts \subseteq {1, 2, 3, 4}
<1>1. ts \in Seq(SourceAttempt) BY DEF Orderly
<1>2. DOMAIN ts = 1..Len(ts) /\ Len(ts) \in Nat BY <1>1
<1>3. \A i \in DOMAIN ts : Rank(ts[i].tier) \in 1..4 BY AttemptFields
<1>4. ASSUME Len(ts) > 4 PROVE FALSE
  <2>1. {1, 2, 3, 4, 5} \subseteq DOMAIN ts BY <1>2, <1>4
  <2>2. /\ Rank(ts[1].tier) < Rank(ts[2].tier) /\ Rank(ts[2].tier) < Rank(ts[3].tier)
        /\ Rank(ts[3].tier) < Rank(ts[4].tier) /\ Rank(ts[4].tier) < Rank(ts[5].tier)
    BY <2>1 DEF Orderly
  <2> QED BY <1>3, <2>1, <2>2
<1> QED BY <1>2, <1>4

(* Of at most four attempts one says the longest first, and one is first. *)
LEMMA SomeIsLongest ==
  ASSUME NEW S \in SUBSET {1, 2, 3, 4}, S # {}, NEW said \in [S -> Nat]
  PROVE  \E i \in S : \A j \in S : said[j] < said[i] \/ (said[j] = said[i] /\ i <= j)
<1> DEFINE Better(i, j) == said[j] < said[i] \/ (said[j] = said[i] /\ i <= j)
<1> DEFINE Best(T) == T = {} \/ \E i \in T : \A j \in T : Better(i, j)
<1>1. \A i \in S : i \in Nat /\ said[i] \in Nat OBVIOUS
<1>2. ASSUME NEW T \in SUBSET S, NEW m \in S, Best(T) PROVE Best(T \cup {m})
  <2>1. Better(m, m) BY <1>1
  <2>2. CASE T = {} BY <2>1, <2>2
  <2>3. CASE T # {}
    <3>1. PICK i \in T : \A j \in T : Better(i, j) BY <1>2, <2>3
    <3>2. CASE Better(i, m) BY <3>1, <3>2
    <3>3. CASE Better(m, i)
      <4>1. \A j \in T : Better(m, j) BY <1>1, <3>1, <3>3
      <4> QED BY <2>1, <4>1
    <3> QED BY <1>1, <3>2, <3>3
  <2> QED BY <2>2, <2>3
<1> HIDE DEF Best
<1>3. ASSUME NEW T \in SUBSET S, NEW m, Best(T) PROVE Best(T \cup (S \cap {m}))
  <2>1. CASE m \in S
    <3>1. T \cup (S \cap {m}) = T \cup {m} BY <2>1
    <3> QED BY <1>2, <1>3, <2>1, <3>1
  <2>2. CASE m \notin S
    <3>1. T \cup (S \cap {m}) = T BY <2>2
    <3> QED BY <1>3, <3>1
  <2> QED BY <2>1, <2>2
<1>4. Best({}) BY DEF Best
<1> DEFINE One == {} \cup (S \cap {1})
           Two == One \cup (S \cap {2})
           Three == Two \cup (S \cap {3})
           Four == Three \cup (S \cap {4})
<1>5. One \subseteq S /\ Two \subseteq S /\ Three \subseteq S /\ Four = S OBVIOUS
<1>6. Best(One) BY <1>3, <1>4
<1> HIDE DEF One
<1>7. Best(Two) BY <1>3, <1>5, <1>6
<1> HIDE DEF Two
<1>8. Best(Three) BY <1>3, <1>5, <1>7
<1> HIDE DEF Three
<1>9. Best(Four) BY <1>3, <1>5, <1>8
<1> HIDE DEF Four
<1>10. Best(S) BY <1>5, <1>9
<1> QED BY <1>10 DEF Best

LEMMA SomeIsFirst ==
  ASSUME NEW S \in SUBSET {1, 2, 3, 4}, S # {}
  PROVE  \E i \in S : \A j \in S : i <= j
<1> DEFINE same == [i \in S |-> 0]
<1>1. same \in [S -> Nat] OBVIOUS
<1>2. PICK i \in S : \A j \in S : same[j] < same[i] \/ (same[j] = same[i] /\ i <= j)
  BY <1>1, SomeIsLongest
<1>3. \A j \in S : i <= j BY <1>2
<1> QED BY <1>3

(* What is proposed for a field was said by the attempt that is chosen.      *)
LEMMA ChoiceIsBest ==
  ASSUME NEW ts, Orderly(ts), NEW f, Stating(ts, f) # {}
  PROVE  /\ Choice(ts, f) \in Stating(ts, f)
         /\ \A j \in Stating(ts, f) :
               IF f = "description"
               THEN ts[j].fields[f] <= ts[Choice(ts, f)].fields[f]
               ELSE Choice(ts, f) <= j
<1> DEFINE S == Stating(ts, f)
<1> DEFINE said == [i \in S |-> ts[i].fields[f]]
<1> DEFINE Best(i) == \A j \in S :
              IF f = "description"
              THEN said[j] < said[i] \/ (said[j] = said[i] /\ i <= j) ELSE i <= j
<1>1. S \subseteq {1, 2, 3, 4} BY FourAttempts DEF Stating
<1>2. said \in [S -> Nat]
  <2> SUFFICES ASSUME NEW i \in S PROVE ts[i].fields[f] \in Nat OBVIOUS
  <2>1. i \in DOMAIN ts /\ f \in DOMAIN ts[i].fields BY DEF Stating
  <2> QED BY <2>1, AttemptFields, KnownFields
<1>3. \E i \in S : Best(i)
  <2> HIDE DEF said
  <2>1. CASE f = "description"
    <3>1. \E i \in S : \A j \in S : said[j] < said[i] \/ (said[j] = said[i] /\ i <= j)
      BY <1>1, <1>2, SomeIsLongest
    <3> QED BY <2>1, <3>1
  <2>2. CASE f # "description"
    <3>1. \E i \in S : \A j \in S : i <= j BY <1>1, SomeIsFirst
    <3> QED BY <2>2, <3>1
  <2> QED BY <2>1, <2>2
<1>4. Choice(ts, f) = CHOOSE i \in S : Best(i)
  BY DEF Choice
<1>5. Choice(ts, f) \in S /\ Best(Choice(ts, f)) BY <1>3, <1>4
<1>6. \A i \in S : said[i] \in Nat /\ said[i] = ts[i].fields[f] BY <1>2
<1> QED BY <1>5, <1>6

LEMMA WhatIsChosen ==
  ASSUME NEW ts, Orderly(ts)
  PROVE  /\ DOMAIN Chosen(ts) = {f \in FieldScope : Stating(ts, f) # {}}
         /\ \A f \in DOMAIN Chosen(ts) : Chosen(ts)[f] = ts[Choice(ts, f)].fields[f]
BY NoConflicts DEF Chosen

LEMMA SilenceChoosesNothing ==
  ASSUME NEW ts, Orderly(ts) PROVE Chosen(ts) = Nowhere <=> Silent(ts)
<1> DEFINE S == {f \in FieldScope : Stating(ts, f) # {}}
<1>1. Chosen(ts) = [f \in S |-> ts[Choice(ts, f)].fields[f]] BY NoConflicts DEF Chosen
<1>2. ASSUME Silent(ts) PROVE Chosen(ts) = Nowhere
  <2>1. S = {} BY <1>2 DEF Stating, Silent
  <2> QED BY <1>1, <2>1 DEF Nowhere
<1>3. ASSUME Chosen(ts) = Nowhere PROVE Silent(ts)
  <2>1. S = {} BY <1>1, <1>3 DEF Nowhere
  <2> SUFFICES ASSUME NEW i \in DOMAIN ts, NEW f \in DOMAIN ts[i].fields PROVE FALSE
    BY DEF Silent
  <2>2. f \in FieldScope BY AttemptFields
  <2>3. ts[i].status = "ok"
    <3>1. CASE ts[i].fields = Nowhere BY <3>1 DEF Nowhere
    <3>2. CASE ts[i].fields # Nowhere BY <3>2 DEF Orderly
    <3> QED BY <3>1, <3>2
  <2>4. i \in Stating(ts, f) BY <2>3 DEF Stating
  <2> QED BY <2>1, <2>2, <2>4
<1> QED BY <1>2, <1>3

Refusals == {"needs_clarification", "timeout", "failed"}
(* What is made of the attempts, and what the web adds to it. *)
LEMMA WhatIsReported ==
  ASSUME NEW ts, Orderly(ts)
  PROVE  /\ Reconciled(ts) =
              IF ~Silent(ts) THEN "saved"
              ELSE IF "needs_clarification" \in Statuses(ts) THEN "needs_clarification"
              ELSE IF "timeout" \in Statuses(ts) THEN "timeout"
              ELSE IF "failed" \in Statuses(ts) THEN "failed"
              ELSE IF "ok" \in Statuses(ts) THEN "incomplete" ELSE "no_match"
         /\ Outcome(ts) \in {"no_match", "incomplete"} =>
               Silent(ts) /\ Statuses(ts) \cap Refusals = {}
         /\ FromWeb(ts) /\ Statuses(ts) \cap Refusals = {} =>
               Outcome(ts) = "needs_confirmation"
<1>1. Reconciled(ts) =
        IF ~Silent(ts) THEN "saved"
        ELSE IF "needs_clarification" \in Statuses(ts) THEN "needs_clarification"
        ELSE IF "timeout" \in Statuses(ts) THEN "timeout"
        ELSE IF "failed" \in Statuses(ts) THEN "failed"
        ELSE IF "ok" \in Statuses(ts) THEN "incomplete" ELSE "no_match"
  BY NoConflicts, SilenceChoosesNothing DEF Reconciled
<1>2. ASSUME FromWeb(ts) PROVE "ok" \in Statuses(ts)
  <2>1. PICK i \in DOMAIN ts : ts[i].tier = "web_search" BY <1>2 DEF FromWeb
  <2>2. ts[i].status = "ok" BY <2>1 DEF Orderly
  <2> QED BY <2>1, <2>2 DEF Statuses
<1> QED BY <1>1, <1>2 DEF Outcome, Refusals

(* Without the web the report tells the supplier's last answer. *)
LEMMA WhatTheSupplierSaid ==
  ASSUME NEW ts, Orderly(ts), NEW r \in {"none"} \cup DOMAIN StatusOf, Records(ts, r),
         ~FromWeb(ts)
  PROVE  Outcome(ts) \in CASE r = "answered" -> {"saved", "incomplete"}
                           [] r = "timeout" -> {"timeout"}
                           [] r = "error" -> {"failed"}
                           [] r = "several" -> {"needs_clarification"}
                           [] OTHER -> {"no_match"}
<1>1. Outcome(ts) = Reconciled(ts) BY DEF Outcome
<1>2. CASE r = "none"
  <2>1. DOMAIN ts = {} BY <1>2 DEF Records, FromWeb
  <2>2. Silent(ts) /\ Statuses(ts) = {} BY <2>1 DEF Silent, Statuses
  <2> QED BY <1>1, <1>2, <2>2, WhatIsReported
<1>3. CASE r = "answered"
  <2>1. 1 \in DOMAIN ts /\ ts[1].status = "ok"
    <3>1. ts # <<>> /\ ts[1].status = "ok" BY <1>3 DEF Records, StatusOf
    <3>2. ts \in Seq(SourceAttempt) BY DEF Orderly
    <3> QED BY <3>1, <3>2
  <2>2. \A i \in DOMAIN ts : ts[i].status = "ok" BY <2>1 DEF Orderly
  <2>3. Statuses(ts) = {"ok"} BY <2>1, <2>2 DEF Statuses
  <2> QED BY <1>1, <1>3, <2>3, WhatIsReported
<1>4. CASE r \notin {"none", "answered"}
  <2>1. /\ ts # <<>> /\ ts[1].status = StatusOf[r]
        /\ \A i \in DOMAIN ts : i = 1
    BY <1>4 DEF Records, FromWeb
  <2>2. ts \in Seq(SourceAttempt) BY DEF Orderly
  <2>3. DOMAIN ts = {1}
    <3>1. DOMAIN ts = 1..Len(ts) /\ Len(ts) \in Nat BY <2>2
    <3>2. Len(ts) # 0 BY <2>1, <2>2
    <3>3. 2 \notin DOMAIN ts BY <2>1
    <3>4. Len(ts) = 1 BY <3>1, <3>2, <3>3
    <3> QED BY <3>1, <3>4
  <2>4. Statuses(ts) = {StatusOf[r]} BY <2>1, <2>3 DEF Statuses
  <2>5. StatusOf[r] # "ok" BY <1>4 DEF StatusOf
  <2>6. ts[1].fields = Nowhere BY <2>1, <2>3, <2>5 DEF Orderly
  <2>7. Silent(ts) BY <2>3, <2>6 DEF Silent, Nowhere
  <2>8. Reconciled(ts) = IF "needs_clarification" = StatusOf[r] THEN "needs_clarification"
                         ELSE IF "timeout" = StatusOf[r] THEN "timeout"
                         ELSE IF "failed" = StatusOf[r] THEN "failed" ELSE "no_match"
    BY <2>4, <2>5, <2>7, WhatIsReported
  <2> QED BY <1>1, <1>4, <2>8 DEF StatusOf
<1> QED BY <1>2, <1>3, <1>4

-----------------------------------------------------------------------------
(* One source after the other.                                               *)

LEMMA NobodyAsked ==
  /\ Orderly(<<>>) /\ Silent(<<>>) /\ Statuses(<<>>) = {} /\ ~FromWeb(<<>>)
  /\ \A rank : Within(<<>>, rank)
  /\ Records(<<>>, "none")
BY DEF Orderly, Silent, Statuses, FromWeb, Within, Records

LEMMA SupplierAsked ==
  ASSUME NEW a \in SourceAttempt, NEW r \in DOMAIN StatusOf,
         a.tier = "primary_api", a.status = StatusOf[r],
         a.status # "ok" => a.fields = Nowhere
  PROVE  /\ Orderly(<<a>>) /\ ~FromWeb(<<a>>) /\ Within(<<a>>, 1) /\ Records(<<a>>, r)
         /\ Supplied(<<a>>) => r = "answered"
<1>1. <<a>> \in Seq(SourceAttempt) /\ DOMAIN <<a>> = {1} /\ <<a>>[1] = a /\ <<a>> # <<>>
  OBVIOUS
<1>2. Orderly(<<a>>) BY <1>1 DEF Orderly
<1>3. ~FromWeb(<<a>>) BY <1>1 DEF FromWeb
<1>4. Within(<<a>>, 1) BY <1>1 DEF Within, Rank
<1>5. Records(<<a>>, r) BY <1>1 DEF Records, StatusOf
<1>6. Supplied(<<a>>) => r = "answered" BY <1>1 DEF Supplied, StatusOf
<1> QED BY <1>2, <1>3, <1>4, <1>5, <1>6

LEMMA SourceRead ==
  ASSUME NEW ts, Orderly(ts), NEW a \in SourceAttempt, a.status = "ok", a.tier # "primary_api",
         Within(ts, Rank(a.tier) - 1),
         NEW r, Records(ts, r), r = "answered" \/ a.tier = "web_search"
  PROVE  /\ Orderly(Append(ts, a)) /\ Records(Append(ts, a), r)
         /\ Within(Append(ts, a), Rank(a.tier))
         /\ Statuses(Append(ts, a)) = Statuses(ts) \cup {"ok"}
         /\ FromWeb(Append(ts, a)) <=> FromWeb(ts) \/ a.tier = "web_search"
         /\ \A i \in DOMAIN Append(ts, a) : Append(ts, a)[i] = a \/
               (i \in DOMAIN ts /\ Append(ts, a)[i] = ts[i])
<1> DEFINE us == Append(ts, a)
           n == Len(ts)
<1>1. ts \in Seq(SourceAttempt) /\ n \in Nat /\ DOMAIN ts = 1..n BY DEF Orderly
<1>2. /\ us \in Seq(SourceAttempt) /\ Len(us) = n + 1 /\ DOMAIN us = 1..(n + 1)
      /\ us[n + 1] = a /\ \A i \in 1..n : us[i] = ts[i]
  BY <1>1
<1> HIDE DEF us
<1>3. \A i \in DOMAIN us : (i \in DOMAIN ts /\ us[i] = ts[i]) \/ (i = n + 1 /\ us[i] = a)
  BY <1>1, <1>2
<1>4. Rank(a.tier) \in 1..4 BY DEF SourceAttempt, Tiers, Rank
<1>5. \A i \in DOMAIN ts : Rank(ts[i].tier) \in 1..4 /\ Rank(ts[i].tier) <= Rank(a.tier) - 1
  BY AttemptFields DEF Within
<1>6. Orderly(us)
  <2> SUFFICES ASSUME NEW i \in DOMAIN us
               PROVE  /\ us[i].status # "ok" =>
                            i = 1 /\ us[i].tier = "primary_api" /\ us[i].fields = Nowhere
                      /\ \A j \in DOMAIN us : i < j => Rank(us[i].tier) < Rank(us[j].tier)
    BY <1>2 DEF Orderly
  <2>1. us[i].status # "ok" =>
          i = 1 /\ us[i].tier = "primary_api" /\ us[i].fields = Nowhere
    BY <1>3 DEF Orderly
  <2>2. ASSUME NEW j \in DOMAIN us, i < j PROVE Rank(us[i].tier) < Rank(us[j].tier)
    <3>1. i \in DOMAIN ts /\ us[i] = ts[i] BY <1>1, <1>2, <1>3, <2>2
    <3>2. CASE j \in DOMAIN ts /\ us[j] = ts[j] BY <2>2, <3>1, <3>2 DEF Orderly
    <3>3. CASE us[j] = a BY <1>4, <1>5, <3>1, <3>3
    <3> QED BY <1>3, <3>2, <3>3
  <2> QED BY <2>1, <2>2
<1>7. Within(us, Rank(a.tier))
  <2> SUFFICES ASSUME NEW i \in DOMAIN us PROVE Rank(us[i].tier) <= Rank(a.tier) BY DEF Within
  <2> QED BY <1>3, <1>4, <1>5
<1>8. Statuses(us) = Statuses(ts) \cup {"ok"}
  <2>1. \A i \in DOMAIN ts : i \in DOMAIN us /\ us[i] = ts[i] BY <1>1, <1>2
  <2>2. n + 1 \in DOMAIN us /\ us[n + 1].status = "ok" BY <1>1, <1>2
  <2> QED BY <1>3, <2>1, <2>2 DEF Statuses
<1>9. FromWeb(us) <=> FromWeb(ts) \/ a.tier = "web_search"
  <2>1. \A i \in DOMAIN ts : i \in DOMAIN us /\ us[i] = ts[i] BY <1>1, <1>2
  <2>2. n + 1 \in DOMAIN us /\ us[n + 1] = a BY <1>1, <1>2
  <2> QED BY <1>3, <2>1, <2>2 DEF FromWeb
<1>10. Records(us, r)
  <2>1. CASE r = "none"
    <3>1. a.tier = "web_search" BY <2>1
    <3>2. \A i \in DOMAIN us : us[i].tier = "web_search" BY <1>3, <2>1, <3>1 DEF Records
    <3> QED BY <2>1, <3>2 DEF Records
  <2>2. CASE r # "none"
    <3>1. ts # <<>> BY <2>2 DEF Records
    <3>2. 1 \in 1..n BY <1>1, <3>1
    <3>3. us # <<>> /\ us[1] = ts[1] BY <1>1, <1>2, <3>2
    <3>4. r # "answered" => \A i \in DOMAIN us : i = 1 \/ us[i].tier = "web_search"
      BY <1>3, <2>2 DEF Records
    <3> QED BY <2>2, <3>3, <3>4 DEF Records
  <2> QED BY <2>1, <2>2
<1> QED BY <1>3, <1>6, <1>7, <1>8, <1>9, <1>10 DEF us

(* The web is asked after no failure. *)
LEMMA WebFollowsNoFailure ==
  ASSUME NEW ts, Orderly(ts), NEW r \in WebReplies, Records(ts, r)
  PROVE  Statuses(ts) \cap Refusals = {}
<1> SUFFICES ASSUME NEW i \in DOMAIN ts PROVE ts[i].status \notin Refusals
  BY DEF Statuses
<1>1. CASE ts[i].status = "ok" BY <1>1 DEF Refusals
<1>2. CASE ts[i].status # "ok"
  <2>1. i = 1 /\ ts[i].tier = "primary_api" BY <1>2 DEF Orderly
  <2>2. r # "none" BY <2>1 DEF Records
  <2>3. ts[1].status = StatusOf[r] BY <2>2 DEF Records
  <2> QED BY <2>1, <2>2, <2>3 DEF WebReplies, StatusOf, Refusals
<1> QED BY <1>1, <1>2

AfterSupplier == {"page", "pdf", "search", "done"}
LastTier(s) == CASE s = "supplier" -> 1 [] s = "page" -> 2 [] OTHER -> 3

(* Another source is asked only for what an answering supplier left open, and *)
(* the web only when nothing is known and nothing failed.                     *)
LEMMA NextSource ==
  ASSUME NEW ts, Orderly(ts), ~FromWeb(ts),
         NEW r \in {"none"} \cup DOMAIN StatusOf, Records(ts, r),
         Supplied(ts) => r = "answered",
         NEW s \in {"supplier", "page", "pdf"}
  PROVE  /\ Upcoming(s, ts)[1] \in AfterSupplier
         /\ Upcoming(s, ts)[1] = "page" => s = "supplier" /\ r = "answered"
         /\ Upcoming(s, ts)[1] = "pdf" => s \in {"supplier", "page"} /\ r = "answered"
         /\ Upcoming(s, ts)[1] = "search" => Silent(ts) /\ r \in WebReplies
<1>1. Pages(ts) > 0 => r = "answered" BY DEF Pages
<1>2. Pdfs(ts) > 0 => r = "answered" BY DEF Pdfs
<1>3. WebAllowed(ts) => Silent(ts) /\ r \in WebReplies
  <2>1. SUFFICES ASSUME Outcome(ts) \in {"no_match", "incomplete"}
                 PROVE  Silent(ts) /\ r \in WebReplies
    BY DEF WebAllowed
  <2>2. Silent(ts) BY <2>1, WhatIsReported
  <2>3. r \in WebReplies
    <3>1. r \notin {"timeout", "error", "several"} BY <2>1, WhatTheSupplierSaid
    <3> QED BY <3>1 DEF WebReplies, StatusOf
  <2> QED BY <2>2, <2>3
<1> QED BY <1>1, <1>2, <1>3 DEF Upcoming, AfterSupplier

(* The invariant after a source that left nothing of the web. *)
LEMMA SourceLeaves ==
  ASSUME NEW ts, Orderly(ts), ~FromWeb(ts), NEW s \in {"supplier", "page", "pdf"},
         Within(ts, LastTier(s)), Continue(s, ts),
         reply' \in {"none"} \cup DOMAIN StatusOf, Records(ts, reply'),
         Supplied(ts) => reply' = "answered",
         ~searched'
  PROVE  LookupInv'
<1> PICK r : r = reply' OBVIOUS
<1>1. /\ attempts' = ts /\ stage' = Upcoming(s, ts)[1] BY DEF Continue
<1>2. /\ stage' \in AfterSupplier
      /\ stage' = "page" => s = "supplier" /\ reply' = "answered"
      /\ stage' = "pdf" => s \in {"supplier", "page"} /\ reply' = "answered"
      /\ stage' = "search" => Silent(ts) /\ reply' \in WebReplies
  BY <1>1, NextSource
<1>3. \A i \in DOMAIN ts : Rank(ts[i].tier) \in 1..4 BY AttemptFields
<1>4. /\ stage' = "page" => Within(ts, 1)
      /\ stage' = "pdf" => Within(ts, 2)
      /\ Within(ts, 3)
  BY <1>2, <1>3 DEF Within, LastTier
<1>5. /\ Orderly(attempts)' /\ Records(attempts, reply)' /\ ~FromWeb(attempts)'
  BY <1>1
<1>6. /\ (stage = "page")' => (reply = "answered" /\ Within(attempts, 1))'
      /\ (stage = "pdf")' => (reply = "answered" /\ Within(attempts, 2))'
      /\ (stage \in {"search", "web"})' => (Within(attempts, 3) /\ Silent(attempts) /\ reply \in WebReplies)'
  BY <1>1, <1>2, <1>4 DEF AfterSupplier
<1> QED BY <1>2, <1>5, <1>6 DEF LookupInv, AfterSupplier, Asking

(* The invariant after the web. *)
LEMMA WebLeaves ==
  ASSUME LookupInv, stage \in {"search", "web"}, UNCHANGED reply,
         NEW ts, Continue("web", ts),
         \/ ts = attempts
         \/ \E a \in SourceAttempt : a.status = "ok" /\ a.tier = "web_search"
                                     /\ ts = Append(attempts, a)
  PROVE  LookupInv'
<1>1. attempts' = ts /\ stage' = "done" BY DEF Continue, Upcoming
<1>2. /\ Orderly(attempts) /\ Records(attempts, reply) /\ Within(attempts, 3) /\ Silent(attempts)
      /\ reply \in {"none"} \cup DOMAIN StatusOf /\ reply \in WebReplies
  BY DEF LookupInv, Asking
<1>3. /\ Orderly(ts) /\ Records(ts, reply)
      /\ \A i \in DOMAIN ts : ts[i].tier # "web_search" => DOMAIN ts[i].fields = {}
  <2>1. CASE ts = attempts BY <1>2, <2>1 DEF Silent
  <2>2. CASE ts # attempts
    <3>1. PICK a \in SourceAttempt : /\ a.status = "ok" /\ a.tier = "web_search"
                                     /\ ts = Append(attempts, a)
      BY <2>2
    <3>2. a.tier # "primary_api" /\ Rank(a.tier) - 1 = 3 BY <3>1 DEF Rank
    <3>3. /\ Orderly(ts) /\ Records(ts, reply)
          /\ \A i \in DOMAIN ts : ts[i] = a \/ (i \in DOMAIN attempts /\ ts[i] = attempts[i])
      BY <1>2, <3>1, <3>2, SourceRead
    <3> QED BY <1>2, <3>1, <3>3 DEF Silent
  <2> QED BY <2>1, <2>2
<1>4. (FromWeb(attempts) => \A i \in DOMAIN attempts :
          attempts[i].tier # "web_search" => DOMAIN attempts[i].fields = {})'
  BY <1>1, <1>3
<1>5. Orderly(attempts)' /\ Records(attempts, reply)' BY <1>1, <1>3
<1> QED BY <1>1, <1>2, <1>4, <1>5 DEF LookupInv, Asking

(* What a supplier's answer leaves. *)
LEMMA SupplierLeaves ==
  ASSUME LookupInv, stage \in Asking, NEW a \in SourceAttempt, NEW r \in DOMAIN StatusOf,
         a.tier = "primary_api", a.status = StatusOf[r],
         a.status # "ok" => a.fields = Nowhere,
         Answered(r, a)
  PROVE  LookupInv'
<1>1. reply' = r /\ ~searched' /\ Continue("supplier", <<a>>)
  BY DEF Answered, Replied, LookupInv
<1>2. Within(<<a>>, LastTier("supplier")) BY SupplierAsked DEF LastTier
<1>3. /\ Orderly(<<a>>) /\ ~FromWeb(<<a>>) /\ Records(<<a>>, r)
      /\ Supplied(<<a>>) => r = "answered"
  BY SupplierAsked
<1> QED BY <1>1, <1>2, <1>3, SourceLeaves

LEMMA UnansweredIsAttempt ==
  ASSUME NEW r \in DOMAIN StatusOf, r # "answered"
  PROVE  LET a == Unanswered(StatusOf[r])
         IN  /\ a \in SourceAttempt /\ a.tier = "primary_api" /\ a.status = StatusOf[r]
             /\ a.fields = Nowhere
<1>1. Nowhere \in Statements(FieldScope)
  <2>1. Nowhere \in [{} -> Lengths] BY DEF Nowhere
  <2> QED BY <2>1 DEF Statements
<1> QED BY <1>1 DEF Unanswered, Attempt, SourceAttempt, Tiers

(* Every refusal of the supplier ends its turn. *)
LEMMA SupplierRefuses ==
  ASSUME LookupInv, stage \in Asking, NEW r \in DOMAIN StatusOf, r # "answered",
         Answered(r, Unanswered(StatusOf[r]))
  PROVE  LookupInv'
BY UnansweredIsAttempt, SupplierLeaves

LEMMA SupplierTimesOut ==
  ASSUME LookupInv, stage \in {"product", "keyword"}, TimesOut PROVE LookupInv'
<1>1. stage \in Asking BY DEF Asking
<1>2. CASE left > 1
  <2>1. /\ stage' = "product" /\ reply' = "timeout"
        /\ attempts' = attempts /\ searched' = searched
    BY <1>2 DEF TimesOut, Replied
  <2>2. attempts = <<>> /\ ~searched /\ Orderly(attempts) BY <1>1 DEF LookupInv
  <2>3. ~FromWeb(attempts)' BY <2>1, <2>2, NobodyAsked
  <2>4. Orderly(attempts)' BY <2>1, <2>2
  <2> QED BY <1>1, <2>1, <2>2, <2>3, <2>4 DEF LookupInv, Asking, StatusOf
<1>3. CASE ~(left > 1)
  <2>1. Answered("timeout", Unanswered("timeout")) BY <1>3 DEF TimesOut
  <2> QED BY <1>1, <2>1, SupplierRefuses DEF StatusOf
<1> QED BY <1>2, <1>3

LEMMA TextsAreStatements ==
  ASSUME NEW fields \in Texts, NEW severalCodes \in BOOLEAN, NEW tier \in Tiers
  PROVE  /\ Found(tier, fields) \in SourceAttempt
         /\ Found(tier, Stated(fields, severalCodes)) \in SourceAttempt
<1>1. PICK S \in SUBSET (FieldScope \ {"datasheet_url"}) : fields \in [S -> Lengths]
  BY DEF Texts, Statements
<1>2. S \in SUBSET FieldScope OBVIOUS
<1>3. fields \in Statements(FieldScope) BY <1>1, <1>2 DEF Statements
<1>4. PICK U : U = {f \in DOMAIN fields : severalCodes => f = "manufacturer"} OBVIOUS
<1>5. U \in SUBSET S BY <1>1, <1>4
<1>6. Stated(fields, severalCodes) \in [U -> Lengths] BY <1>1, <1>4, <1>5 DEF Stated
<1>7. Stated(fields, severalCodes) \in Statements(FieldScope)
  BY <1>2, <1>5, <1>6 DEF Statements
<1>8. "ok" \in {StatusOf[r] : r \in DOMAIN StatusOf} BY DEF StatusOf
<1> QED BY <1>3, <1>7, <1>8 DEF Found, Attempt, SourceAttempt

(* A page or a document is read, or its addresses are used up. *)
LEMMA SourceDone ==
  ASSUME LookupInv, NEW s \in {"page", "pdf"}, stage = s,
         NEW ts, Continue(s, ts), UNCHANGED <<reply, searched>>,
         \/ ts = attempts
         \/ \E a \in SourceAttempt : /\ a.status = "ok" /\ Rank(a.tier) = LastTier(s)
                                     /\ ts = Append(attempts, a)
  PROVE  LookupInv'
<1>1. /\ Orderly(attempts) /\ Records(attempts, reply) /\ reply = "answered" /\ ~searched
      /\ Within(attempts, LastTier(s) - 1) /\ LastTier(s) \in {2, 3}
  BY DEF LookupInv, Asking, LastTier
<1>2. Orderly(ts) /\ Records(ts, reply) /\ Within(ts, LastTier(s))
  <2>1. CASE ts = attempts
    <3>1. \A i \in DOMAIN attempts : Rank(attempts[i].tier) \in 1..4 BY <1>1, AttemptFields
    <3>2. Within(attempts, LastTier(s)) BY <1>1, <3>1 DEF Within
    <3> QED BY <1>1, <2>1, <3>2
  <2>2. CASE ts # attempts
    <3>1. PICK a \in SourceAttempt : /\ a.status = "ok" /\ Rank(a.tier) = LastTier(s)
                                     /\ ts = Append(attempts, a)
      BY <2>2
    <3>2. a.tier # "primary_api" BY <1>1, <3>1 DEF Rank
    <3> QED BY <1>1, <3>1, <3>2, SourceRead
  <2> QED BY <2>1, <2>2
<1>3. ~FromWeb(ts)
  <2>1. \A i \in DOMAIN ts : Rank(ts[i].tier) \in 1..4 BY <1>2, AttemptFields
  <2>2. \A i \in DOMAIN ts : Rank(ts[i].tier) <= 3 BY <1>1, <1>2, <2>1 DEF Within
  <2> QED BY <2>2 DEF FromWeb, Rank
<1>4. ~searched' /\ reply' = "answered" BY <1>1
<1>5. reply' \in {"none"} \cup DOMAIN StatusOf /\ Records(ts, reply')
  BY <1>1, <1>2, <1>4 DEF StatusOf
<1> QED BY <1>2, <1>3, <1>4, <1>5, SourceLeaves

LEMMA SkipKeeps ==
  ASSUME LookupInv, NEW s \in {"page", "pdf", "web"}, stage = s, Skip(s)
  PROVE  LookupInv'
<1>1. CASE left > 1
  <2>1. UNCHANGED <<stage, attempts, reply, searched>> BY <1>1 DEF Skip
  <2> QED BY <2>1 DEF LookupInv
<1>2. CASE ~(left > 1)
  <2>1. Continue(s, attempts) /\ UNCHANGED <<reply, searched>> BY <1>2 DEF Skip
  <2> QED BY <2>1, SourceDone, WebLeaves
<1> QED BY <1>1, <1>2

-----------------------------------------------------------------------------
(* The steps.                                                                *)

LEMMA LookupStarts == ASSUME LookupInit PROVE LookupInv
<1>1. /\ stage = "start" /\ attempts = <<>> /\ reply = "none" /\ searched = FALSE
  BY DEF LookupInit
<1> QED BY <1>1, NobodyAsked DEF LookupInv, Asking

LEMMA LookupSteps ==
  ASSUME LookupInv, [LookupNext]_lookupVars PROVE LookupInv'
<1>1. CASE Start
  <2>1. /\ stage \in Asking /\ attempts = <<>> /\ ~searched' /\ reply' = "none"
        /\ UNCHANGED <<reply, searched>>
    BY <1>1 DEF Start, Asking, LookupInv
  <2>2. CASE stage' = "token" /\ UNCHANGED attempts BY <2>1, <2>2 DEF LookupInv, Asking
  <2>3. CASE Continue("supplier", <<>>)
    <3>1. ~Supplied(<<>>) /\ Within(<<>>, LastTier("supplier"))
      BY NobodyAsked DEF Supplied
    <3> QED BY <2>1, <2>3, <3>1, NobodyAsked, SourceLeaves
  <2> QED BY <1>1, <2>2, <2>3 DEF Start
<1>2. CASE Token
  <2>1. stage \in Asking BY <1>2 DEF Token, Asking
  <2>2. CASE Answered("refused", Unanswered("auth-failed"))
    BY <2>1, <2>2, SupplierRefuses DEF StatusOf
  <2>3. CASE stage' = "product" /\ UNCHANGED <<attempts, reply, searched>>
    BY <2>1, <2>3 DEF LookupInv, Asking
  <2> QED BY <1>2, <2>2, <2>3 DEF Token
<1>3. CASE Product
  <2>1. stage \in Asking BY <1>3 DEF Product, Asking
  <2>2. ASSUME NEW fields \in Statements(FieldScope), NEW page \in BOOLEAN, NEW pdf \in 0..2,
               Answered("answered", Attempt("primary_api", "ok", fields, page, pdf))
        PROVE  LookupInv'
    <3>1. /\ Attempt("primary_api", "ok", fields, page, pdf) \in SourceAttempt
          /\ Attempt("primary_api", "ok", fields, page, pdf).tier = "primary_api"
          /\ Attempt("primary_api", "ok", fields, page, pdf).status = StatusOf["answered"]
          /\ "answered" \in DOMAIN StatusOf
      BY DEF Attempt, SourceAttempt, Tiers, StatusOf
    <3> PICK a : a = Attempt("primary_api", "ok", fields, page, pdf) OBVIOUS
    <3>2. a.status = "ok" BY DEF Attempt
    <3> QED BY <2>1, <2>2, <3>1, <3>2, SupplierLeaves
  <2>3. CASE stage' = "keyword" /\ UNCHANGED <<attempts, reply, searched>>
    BY <2>1, <2>3 DEF LookupInv, Asking
  <2>4. CASE TimesOut BY <1>3, <2>4, SupplierTimesOut DEF Product
  <2>5. CASE Answered("error", Unanswered("failed"))
    BY <2>1, <2>5, SupplierRefuses DEF StatusOf
  <2> QED BY <1>3, <2>2, <2>3, <2>4, <2>5 DEF Product
<1>4. CASE Keyword
  <2>1. stage \in Asking BY <1>4 DEF Keyword, Asking
  <2>2. CASE Answered("several", Unanswered("needs_clarification"))
    BY <2>1, <2>2, SupplierRefuses DEF StatusOf
  <2>3. CASE Answered("absent", Unanswered("no_match"))
    BY <2>1, <2>3, SupplierRefuses DEF StatusOf
  <2>4. CASE TimesOut BY <1>4, <2>4, SupplierTimesOut DEF Keyword
  <2>5. CASE Answered("error", Unanswered("failed"))
    BY <2>1, <2>5, SupplierRefuses DEF StatusOf
  <2> QED BY <1>4, <2>2, <2>3, <2>4, <2>5 DEF Keyword
<1>5. CASE Page
  <2>1. CASE Skip("page") BY <1>5, <2>1, SkipKeeps DEF Page
  <2>2. ASSUME NEW fields \in Texts, Read("page", Found("api_derived_page", fields))
        PROVE  LookupInv'
    <3>1. Found("api_derived_page", fields) \in SourceAttempt
      BY TextsAreStatements DEF Tiers
    <3>2. /\ Found("api_derived_page", fields).status = "ok"
          /\ Rank(Found("api_derived_page", fields).tier) = LastTier("page")
      BY DEF Found, Attempt, Rank, LastTier
    <3> QED BY <1>5, <2>2, <3>1, <3>2, SourceDone DEF Page, Read
  <2> QED BY <1>5, <2>1, <2>2 DEF Page
<1>6. CASE Pdf
  <2>1. CASE Skip("pdf") BY <1>6, <2>1, SkipKeeps DEF Pdf
  <2>2. ASSUME NEW fields \in Texts, NEW severalCodes \in BOOLEAN,
               Read("pdf", Found("api_derived_pdf", Stated(fields, severalCodes)))
        PROVE  LookupInv'
    <3> PICK a : a = Found("api_derived_pdf", Stated(fields, severalCodes)) OBVIOUS
    <3>1. a \in SourceAttempt BY TextsAreStatements DEF Tiers
    <3>2. a.status = "ok" /\ Rank(a.tier) = LastTier("pdf")
      BY DEF Found, Attempt, Rank, LastTier
    <3> QED BY <1>6, <2>2, <3>1, <3>2, SourceDone DEF Pdf, Read
  <2> QED BY <1>6, <2>1, <2>2 DEF Pdf
<1>7. CASE Search
  <2>1. PICK found \in 0..MaxResults :
          IF found = 0 THEN Continue("web", attempts)
          ELSE stage' = "web" /\ left' = found /\ UNCHANGED attempts
    BY <1>7 DEF Search
  <2>2. stage = "search" /\ reply' = reply /\ searched' = TRUE BY <1>7 DEF Search
  <2>3. CASE Continue("web", attempts) BY <2>2, <2>3, WebLeaves
  <2>4. CASE stage' = "web" /\ UNCHANGED attempts BY <2>2, <2>4 DEF LookupInv, Asking
  <2> QED BY <2>1, <2>3, <2>4
<1>8. CASE Web
  <2>1. CASE Skip("web") BY <1>8, <2>1, SkipKeeps DEF Web
  <2>2. ASSUME NEW fields \in Texts, NEW severalCodes \in BOOLEAN,
               Read("web", Found("web_search", Stated(fields, severalCodes)))
        PROVE  LookupInv'
    <3> PICK a : a = Found("web_search", Stated(fields, severalCodes)) OBVIOUS
    <3>1. a \in SourceAttempt BY TextsAreStatements DEF Tiers
    <3>2. a.status = "ok" /\ a.tier = "web_search" BY DEF Found, Attempt
    <3> QED BY <1>8, <2>2, <3>1, <3>2, WebLeaves DEF Web, Read
  <2> QED BY <1>8, <2>1, <2>2 DEF Web
<1>9. CASE UNCHANGED lookupVars
  BY <1>9 DEF lookupVars, LookupInv
<1> QED BY <1>1, <1>2, <1>3, <1>4, <1>5, <1>6, <1>7, <1>8, <1>9 DEF LookupNext

-----------------------------------------------------------------------------
(* What the lookup promises.                                                 *)

LEMMA LookupHolds == LookupSpec => []LookupInv
<1>1. LookupInit => LookupInv BY LookupStarts
<1>2. LookupInv /\ [LookupNext]_lookupVars => LookupInv' BY LookupSteps
<1> QED BY <1>1, <1>2, PTL DEF LookupSpec

(* A failure, an absence and an ambiguity of the supplier are told apart in  *)
(* what fetch_specs_detailed returns, and no failure leads to the web: for   *)
(* every set of fields, texts and number of results.                         *)
THEOREM FailuresAreToldApart == LookupSpec => []FailuresStayDistinct
<1>1. ASSUME LookupInv PROVE FailuresStayDistinct
  <2>1. searched => reply \in {"none", "answered", "absent", "refused"}
    BY <1>1 DEF LookupInv, WebReplies
  <2>2. ASSUME stage = "done"
        PROVE  /\ Outcome(attempts) = "timeout" <=> reply = "timeout"
               /\ Outcome(attempts) = "failed" <=> reply = "error"
               /\ Outcome(attempts) = "needs_clarification" <=> reply = "several"
               /\ Outcome(attempts) = "no_match" => reply \in {"none", "absent", "refused"}
    <3>1. Orderly(attempts) /\ Records(attempts, reply) /\ reply \in {"none"} \cup DOMAIN StatusOf
      BY <1>1, <2>2 DEF LookupInv, Asking
    <3>2. CASE ~FromWeb(attempts)
      BY <3>1, <3>2, WhatTheSupplierSaid DEF StatusOf
    <3>3. CASE FromWeb(attempts)
      <4>1. reply \in WebReplies BY <1>1, <3>3 DEF LookupInv
      <4>2. Statuses(attempts) \cap Refusals = {}
        BY <3>1, <4>1, WebFollowsNoFailure
      <4>3. Outcome(attempts) = "needs_confirmation" BY <3>1, <3>3, <4>2, WhatIsReported
      <4> QED BY <4>1, <4>3 DEF WebReplies
    <3> QED BY <3>2, <3>3
  <2> QED BY <2>1, <2>2 DEF FailuresStayDistinct
<1> QED BY <1>1, LookupHolds, PTL

(* Whatever providers reply, each proposed field is the one of the most      *)
(* authoritative source that states it, or the longest description; and what *)
(* a page of the open web says stands alone and has to be confirmed          *)
(* (_choose_field_candidate, _reconcile_candidates).                         *)
THEOREM AnswersHaveTheirSource == LookupSpec => []AnswersAreSourced
<1>1. ASSUME LookupInv, stage = "done" PROVE AnswersAreSourced
  <2>1. Orderly(attempts) /\ Records(attempts, reply)
    BY <1>1 DEF LookupInv, Asking
  <2>2. ASSUME NEW f \in DOMAIN Chosen(attempts)
        PROVE  \E i \in DOMAIN attempts :
                 /\ attempts[i].status = "ok" /\ f \in DOMAIN attempts[i].fields
                 /\ attempts[i].fields[f] = Chosen(attempts)[f]
                 /\ \A j \in DOMAIN attempts :
                       f \in DOMAIN attempts[j].fields =>
                          IF f = "description"
                          THEN attempts[j].fields[f] =< attempts[i].fields[f]
                          ELSE Rank(attempts[i].tier) =< Rank(attempts[j].tier)
    <3>1. /\ Stating(attempts, f) # {}
          /\ Chosen(attempts)[f] = attempts[Choice(attempts, f)].fields[f]
      BY <2>1, WhatIsChosen
    <3>2. PICK i : i = Choice(attempts, f) OBVIOUS
    <3>3. /\ i \in Stating(attempts, f)
          /\ \A j \in Stating(attempts, f) :
                IF f = "description" THEN attempts[j].fields[f] <= attempts[i].fields[f]
                ELSE i <= j
      BY <2>1, <3>1, <3>2, ChoiceIsBest
    <3>4. /\ i \in DOMAIN attempts /\ attempts[i].status = "ok"
          /\ f \in DOMAIN attempts[i].fields
      BY <3>3 DEF Stating
    <3>5. ASSUME NEW j \in DOMAIN attempts, f \in DOMAIN attempts[j].fields
          PROVE  IF f = "description" THEN attempts[j].fields[f] =< attempts[i].fields[f]
                 ELSE Rank(attempts[i].tier) =< Rank(attempts[j].tier)
      <4>1. attempts[j].status = "ok"
        <5>1. attempts[j].fields # Nowhere BY <3>5 DEF Nowhere
        <5> QED BY <2>1, <5>1 DEF Orderly
      <4>2. j \in Stating(attempts, f) BY <3>5, <4>1 DEF Stating
      <4>3. /\ i \in Nat /\ j \in Nat
            /\ Rank(attempts[i].tier) \in 1..4 /\ Rank(attempts[j].tier) \in 1..4
        BY <2>1, <3>4, AttemptFields
      <4>4. i < j => Rank(attempts[i].tier) < Rank(attempts[j].tier)
        BY <2>1, <3>4 DEF Orderly
      <4>5. CASE f = "description" BY <3>3, <4>2, <4>5
      <4>6. CASE f # "description"
        <5>1. i <= j BY <3>3, <4>2, <4>6
        <5> QED BY <4>3, <4>4, <4>6, <5>1
      <4> QED BY <4>5, <4>6
    <3> QED BY <3>1, <3>2, <3>4, <3>5
  <2>3. ASSUME NEW i \in DOMAIN attempts, attempts[i].tier = "web_search"
        PROVE  /\ RequiresConfirmation(attempts)
               /\ \A j \in DOMAIN attempts : j # i => attempts[j].fields = Nowhere
    <3>1. FromWeb(attempts) BY <2>3 DEF FromWeb
    <3>2. reply \in WebReplies BY <1>1, <3>1 DEF LookupInv
    <3>3. Statuses(attempts) \cap Refusals = {} BY <2>1, <3>2, WebFollowsNoFailure
    <3>4. RequiresConfirmation(attempts)
      BY <2>1, <3>1, <3>3, WhatIsReported DEF RequiresConfirmation
    <3>5. ASSUME NEW j \in DOMAIN attempts, j # i PROVE attempts[j].fields = Nowhere
      <4>1. /\ i \in Nat /\ j \in Nat
            /\ attempts[j] \in SourceAttempt
        BY <2>1, AttemptFields
      <4>2. i < j \/ j < i BY <3>5, <4>1
      <4>3. Rank(attempts[i].tier) # Rank(attempts[j].tier)
        <5>1. Rank(attempts[i].tier) \in 1..4 /\ Rank(attempts[j].tier) \in 1..4
          BY <2>1, AttemptFields
        <5> QED BY <2>1, <4>2, <5>1 DEF Orderly
      <4>4. attempts[j].tier # "web_search" BY <2>3, <4>3
      <4>5. DOMAIN attempts[j].fields = {} BY <1>1, <3>1, <4>4 DEF LookupInv
      <4>6. PICK S \in SUBSET FieldScope : attempts[j].fields \in [S -> Lengths]
        BY <4>1 DEF SourceAttempt, Statements
      <4>7. attempts[j].fields = [x \in {} |-> attempts[j].fields[x]] BY <4>5, <4>6
      <4> QED BY <4>7 DEF Nowhere
    <3> QED BY <3>4, <3>5
  <2> QED BY <2>2, <2>3 DEF AnswersAreSourced
<1>2. ASSUME LookupInv PROVE AnswersAreSourced
  <2>1. CASE stage = "done" BY <1>1, <1>2, <2>1
  <2>2. CASE stage # "done" BY <2>2 DEF AnswersAreSourced
  <2> QED BY <2>1, <2>2
<1> QED BY <1>2, LookupHolds, PTL
=============================================================================
