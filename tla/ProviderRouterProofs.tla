-------------------------- MODULE ProviderRouterProofs --------------------------
(***************************************************************************)
(* What holds of the router for every set of requests and providers.       *)
(***************************************************************************)
EXTENDS ProviderRouter, FiniteSetTheorems, TLAPS

(* A request between its choice of an offer and the next is at an offer.   *)
AtOffer == {"claim", "attempt", "calling", "booking", "failed", "record"}
OfferIsChosen == \A r \in Requests : pc[r] \in AtOffer => at[r].offer \in Providers

(* Only an open circuit cools down.                                        *)
CooledIsOpen == \A p \in cooled : health[p].open

(* The row that a request read had a cause to be open, if it was, and was  *)
(* open if the cooldown made it half-open.                                 *)
SeenIsCaused == \A r \in Requests : Caused(at[r].seen) /\ (at[r].half => at[r].seen.open)

(* What holds of the circuits, and of what was read of them.               *)
Circuits == OpenForCause /\ CooledIsOpen /\ SeenIsCaused

(* A failure about to be recorded is the provider's.                       *)
ErrIsBlamed == \A r \in Requests : pc[r] \in {"failed", "record"} => at[r].err \notin Blameless

(* What a request may have spent by now: the keys it left behind, then the *)
(* attempts of its chain, each with its retries, then those of the current *)
(* one.                                                                    *)
Loop       == {"pick", "claim", "failed", "record", "over"}
Each       == Retries + 1
KeysSpent(r) == OwnKeys[r] * Each
Budget(r) ==
    /\ chain[r].keys <= OwnKeys[r]
    /\ pc[r] = "own" => calls[r] + chain[r].keys * Each <= KeysSpent(r)
    /\ pc[r] = "ownCall" => calls[r] + chain[r].keys * Each + (Retries - at[r].tries) <= KeysSpent(r)
    /\ pc[r] \in Loop => calls[r] <= KeysSpent(r) + chain[r].made * Each
    /\ pc[r] = "attempt" => calls[r] + (Each - at[r].tries) <= KeysSpent(r) + chain[r].made * Each
    /\ pc[r] \in {"calling", "booking"} =>
          calls[r] + (Retries - at[r].tries) <= KeysSpent(r) + chain[r].made * Each
    /\ Ended(r) => calls[r] <= KeysSpent(r) + MaxAttempts * Each
Fresh(r)   == pc[r] \in {"own", "pick", "claim"} => at[r].tries = 0
CallBudget == \A r \in Requests : Budget(r) /\ Fresh(r)

(* The inductive invariant of the router.                                  *)
IInv == /\ TypeOK /\ OfferIsChosen /\ ErrIsBlamed
        /\ SlotIsExact
        /\ Circuits
        /\ CallBudget

---------------------------------------------------------------------------------
(* Types.                                                                  *)

(* A closed circuit, no offer and an empty chain are values of their types. *)
LEMMA Constants == Closed \in Row /\ Nowhere \in Place /\ Spent \in Chain
BY RouterAssumption DEF Closed, Row, Nowhere, Place, Spent, Chain, Errors

(* The row that recordFailure() writes is one.                             *)
LEMMA RowKept ==
    ASSUME NEW open \in BOOLEAN, NEW balance \in BOOLEAN, NEW seen \in Row
    PROVE  [open |-> open, failures |-> Count(seen.failures), exhausted |-> balance \/ seen.exhausted] \in Row
BY RouterAssumption DEF Row, Count

(* No step takes a variable out of its domain; recordFailure() needs that  *)
(* the offer whose row it reads was chosen.                                *)
LEMMA TypeStep == TypeOK /\ OfferIsChosen /\ [Next]_vars => TypeOK'
<1> SUFFICES ASSUME TypeOK, OfferIsChosen, [Next]_vars PROVE TypeOK'
    OBVIOUS
<1> USE DEF TypeOK, Steps, Outcomes
<1>1. CASE UNCHANGED vars
      BY <1>1 DEF vars
<1>2. ASSUME NEW r \in Requests, OwnTry(r) PROVE TypeOK'
  <2>1. chain' \in [Requests -> Chain]
        BY SMTT(60), <1>2 DEF OwnTry, Chain
  <2>. QED BY <1>2, <2>1 DEF OwnTry, Go, breaker
<1>3. ASSUME NEW r \in Requests, OwnDelta(r) PROVE TypeOK'
      BY <1>3 DEF OwnDelta, breaker
<1>4. ASSUME NEW r \in Requests, OwnAnswers(r) PROVE TypeOK'
      BY <1>4, Constants DEF OwnAnswers, Go, Leave, End, breaker
<1>5. ASSUME NEW r \in Requests, OwnFails(r) PROVE TypeOK'
  <2>1. CASE Leave(r, "own")
        BY <1>5, <2>1, Constants DEF OwnFails, Go, Leave, breaker
  <2>2. CASE ~Leave(r, "own")
    <3>1. at' \in [Requests -> Place]
          BY <1>5, <2>2, RouterAssumption DEF OwnFails, Place
    <3>. QED BY <1>5, <2>2, <3>1 DEF OwnFails, breaker
  <2>. QED BY <2>1, <2>2
<1>6. ASSUME NEW r \in Requests, OwnOver(r) PROVE TypeOK'
      BY <1>6, Constants DEF OwnOver, Go, Leave, End, breaker
<1>7. ASSUME NEW r \in Requests, Claim(r) PROVE TypeOK'
  <2>1. chain' \in [Requests -> Chain]
    <3>1. CASE UNCHANGED chain
          BY <3>1
    <3>2. CASE chain' = [chain EXCEPT ![r].why = @ \cup {"resting"}]
          BY ZenonT(60), <3>2 DEF Chain
    <3>3. CASE chain[r].made < MaxAttempts /\ chain' = [chain EXCEPT ![r].made = @ + 1]
          BY SMTT(60), <3>3, RouterAssumption DEF Chain
    <3>. QED BY <1>7, <3>1, <3>2, <3>3 DEF Claim
  <2>2. at' \in [Requests -> Place]
        BY <1>7, Constants DEF Claim, Leave, Go
  <2>. QED BY <1>7, <2>1, <2>2 DEF Claim, Go, Leave, breaker
<1>8. ASSUME NEW r \in Requests, Attempt(r) PROVE TypeOK'
      BY <1>8, Constants DEF Attempt, Go, Leave, End, breaker
<1>9. ASSUME NEW r \in Requests, Delta(r) PROVE TypeOK'
      BY <1>9 DEF Delta, breaker
<1>10. ASSUME NEW r \in Requests, Breach(r) PROVE TypeOK'
      BY <1>10, Constants DEF Breach, Go, Leave, End, breaker
<1>11. ASSUME NEW r \in Requests, Answer(r) PROVE TypeOK'
      BY <1>11 DEF Answer, Go, breaker
<1>12. ASSUME NEW r \in Requests, GiveUp(r) PROVE TypeOK'
      BY <1>12, Constants DEF GiveUp, Go, Leave, End, breaker
<1>13. ASSUME NEW r \in Requests, Succeed(r) PROVE TypeOK'
      BY <1>13, Constants DEF Succeed, Go, Leave, End
<1>14. ASSUME NEW r \in Requests, ReadHealth(r) PROVE TypeOK'
  <2>1. health[at[r].offer] \in Row
        BY <1>14 DEF ReadHealth, OfferIsChosen, AtOffer
  <2>2. PICK half \in BOOLEAN : half = (at[r].offer \in cooled)
    <3>1. CASE at[r].offer \in cooled
          BY <3>1, TRUE = (at[r].offer \in cooled), Zenon
    <3>2. CASE at[r].offer \notin cooled
          BY <3>2, FALSE = (at[r].offer \in cooled), Zenon
    <3>. QED BY <3>1, <3>2
  <2>3. [at EXCEPT ![r].seen = health[at[r].offer], ![r].half = half] \in [Requests -> Place]
        BY ZenonT(60), <2>1 DEF Place
  <2>4. at' = [at EXCEPT ![r].seen = health[at[r].offer], ![r].half = half]
        BY <1>14, <2>2, Zenon DEF ReadHealth
  <2>. QED BY <1>14, <2>3, <2>4 DEF ReadHealth, Go, breaker
<1>15. ASSUME NEW r \in Requests, RecordFailure(r) PROVE TypeOK'
  <2>1. at[r].seen \in Row
        BY <1>15 DEF Place
  <2>2. health' \in [Providers -> Row]
        BY <1>15, <2>1, RowKept DEF RecordFailure, Write
  <2>3. at' \in [Requests -> Place]
        BY <1>15, Constants DEF RecordFailure, Write, Leave
  <2>. QED BY <1>15, <2>1, <2>2, <2>3 DEF RecordFailure, Write, Go, Leave
<1>16. ASSUME NEW r \in Requests, RecordThrows(r) PROVE TypeOK'
      BY <1>16, Constants DEF RecordThrows, Go, Leave, End, breaker
<1>17. ASSUME NEW r \in Requests, Abort(r) PROVE TypeOK'
      BY <1>17 DEF Abort, breaker
<1>18. ASSUME NEW r \in Requests, NEW p \in Providers, Skip(r, p) PROVE TypeOK'
  <2>1. chain' \in [Requests -> Chain]
        BY ZenonT(60), <1>18 DEF Skip, Chain
  <2>. QED BY <1>18, <2>1 DEF Skip, breaker
<1>19. ASSUME NEW r \in Requests, NEW p \in Providers, Consider(r, p) PROVE TypeOK'
  <2>1. [chain EXCEPT ![r].left = @ \ {p}] \in [Requests -> Chain]
        BY ZenonT(60) DEF Chain
  <2>2. [chain EXCEPT ![r].left = @ \ {p}, ![r].why = @ \cup {"resting"}] \in [Requests -> Chain]
        BY ZenonT(60) DEF Chain
  <2>3. [at EXCEPT ![r].offer = p] \in [Requests -> Place]
        BY DEF Place
  <2>. QED BY <1>19, <2>1, <2>2, <2>3 DEF Consider, Go, breaker
<1>20. ASSUME NEW r \in Requests, NEW e \in Errors, Fail(r, e) PROVE TypeOK'
  <2>1. \A code \in Outcomes : End(r, code) /\ slot' = slot \ {r} => TypeOK'
        BY <1>20, Constants DEF Fail, End, Leave, Go, breaker
  <2>2. ASSUME Go(r, "attempt"), e \in Retryable, at[r].tries < Retries, UNCHANGED <<slot, chain>>,
               at' = [at EXCEPT ![r].tries = @ + 1]
        PROVE  TypeOK'
    <3>1. Retries \in Nat /\ at[r].tries + 1 \in 0..Retries
          BY <2>2, RouterAssumption DEF Place
    <3>2. [at EXCEPT ![r].tries = @ + 1] \in [Requests -> Place]
          BY <3>1 DEF Place
    <3>. QED BY <1>20, <2>2, <3>2 DEF Fail, Go, breaker
  <2>3. ASSUME MoveOn(r, e) PROVE TypeOK'
    <3>1. chain' \in [Requests -> Chain]
          BY SMTT(60), <2>3 DEF MoveOn, Chain
    <3>2. [at EXCEPT ![r].err = e] \in [Requests -> Place]
          BY DEF Place
    <3>3. at' \in [Requests -> Place]
          BY <2>3, <3>2, Constants DEF MoveOn, Leave
    <3>. QED BY <1>20, <2>3, <3>1, <3>3 DEF Fail, MoveOn, Leave, Go, breaker
  <2>. QED BY <1>20, <2>1, <2>2, <2>3 DEF Fail
<1>21. ASSUME NEW p \in Providers, Cool(p) PROVE TypeOK'
      BY <1>21 DEF Cool
<1>22. ASSUME NEW p \in Providers, Reset(p) PROVE TypeOK'
      BY <1>22, Constants DEF Reset
<1>. QED BY <1>1, <1>2, <1>3, <1>4, <1>5, <1>6, <1>7, <1>8, <1>9, <1>10, <1>11, <1>12, <1>13, <1>14, <1>15,
            <1>16, <1>17, <1>18, <1>19, <1>20, <1>21, <1>22 DEF Next, OwnNext, OfferNext

---------------------------------------------------------------------------------
(* Where a request is.                                                     *)

(* Only Consider moves a request to an offer, and only MoveOn sends it to  *)
(* recordFailure(), with an error that is the provider's.                  *)
LEMMA OfferStep == TypeOK /\ OfferIsChosen /\ ErrIsBlamed /\ [Next]_vars => (OfferIsChosen /\ ErrIsBlamed)'
<1> SUFFICES ASSUME TypeOK, OfferIsChosen, ErrIsBlamed, [Next]_vars PROVE (OfferIsChosen /\ ErrIsBlamed)'
    OBVIOUS
<1> USE DEF TypeOK, OfferIsChosen, ErrIsBlamed, AtOffer, Place, Outcomes
<1>1. CASE UNCHANGED vars
      BY <1>1 DEF vars
<1>2. ASSUME NEW r \in Requests, OwnTry(r) PROVE (OfferIsChosen /\ ErrIsBlamed)'
      BY <1>2 DEF OwnTry, Go, breaker
<1>3. ASSUME NEW r \in Requests, OwnDelta(r) PROVE (OfferIsChosen /\ ErrIsBlamed)'
      BY <1>3 DEF OwnDelta, breaker
<1>4. ASSUME NEW r \in Requests, OwnAnswers(r) PROVE (OfferIsChosen /\ ErrIsBlamed)'
      BY <1>4 DEF OwnAnswers, Go, Leave, End, breaker
<1>5. ASSUME NEW r \in Requests, OwnFails(r) PROVE (OfferIsChosen /\ ErrIsBlamed)'
      BY <1>5 DEF OwnFails, Go, Leave, breaker
<1>6. ASSUME NEW r \in Requests, OwnOver(r) PROVE (OfferIsChosen /\ ErrIsBlamed)'
      BY <1>6 DEF OwnOver, Go, Leave, End, breaker
<1>7. ASSUME NEW r \in Requests, Claim(r) PROVE (OfferIsChosen /\ ErrIsBlamed)'
      BY <1>7 DEF Claim, Go, Leave, breaker
<1>8. ASSUME NEW r \in Requests, Attempt(r) PROVE (OfferIsChosen /\ ErrIsBlamed)'
      BY <1>8 DEF Attempt, Go, Leave, End, breaker
<1>9. ASSUME NEW r \in Requests, Delta(r) PROVE (OfferIsChosen /\ ErrIsBlamed)'
      BY <1>9 DEF Delta, breaker
<1>10. ASSUME NEW r \in Requests, Breach(r) PROVE (OfferIsChosen /\ ErrIsBlamed)'
      BY <1>10 DEF Breach, Go, Leave, End, breaker
<1>11. ASSUME NEW r \in Requests, Answer(r) PROVE (OfferIsChosen /\ ErrIsBlamed)'
      BY <1>11 DEF Answer, Go, breaker
<1>12. ASSUME NEW r \in Requests, GiveUp(r) PROVE (OfferIsChosen /\ ErrIsBlamed)'
      BY <1>12 DEF GiveUp, Go, Leave, End, breaker
<1>13. ASSUME NEW r \in Requests, Succeed(r) PROVE (OfferIsChosen /\ ErrIsBlamed)'
      BY <1>13 DEF Succeed, Go, Leave, End
<1>14. ASSUME NEW r \in Requests, ReadHealth(r) PROVE (OfferIsChosen /\ ErrIsBlamed)'
      BY <1>14 DEF ReadHealth, Go, breaker
<1>15. ASSUME NEW r \in Requests, RecordFailure(r) PROVE (OfferIsChosen /\ ErrIsBlamed)'
      BY <1>15 DEF RecordFailure, Go, Leave, Write
<1>16. ASSUME NEW r \in Requests, RecordThrows(r) PROVE (OfferIsChosen /\ ErrIsBlamed)'
      BY <1>16 DEF RecordThrows, Go, Leave, End, breaker
<1>17. ASSUME NEW r \in Requests, Abort(r) PROVE (OfferIsChosen /\ ErrIsBlamed)'
      BY <1>17 DEF Abort, breaker
<1>18. ASSUME NEW r \in Requests, NEW p \in Providers, Skip(r, p) PROVE (OfferIsChosen /\ ErrIsBlamed)'
      BY <1>18 DEF Skip, breaker
<1>19. ASSUME NEW r \in Requests, NEW p \in Providers, Consider(r, p) PROVE (OfferIsChosen /\ ErrIsBlamed)'
  <2>1. CASE UNCHANGED <<pc, at>>
        BY <2>1
  <2>2. CASE Go(r, "claim") /\ at' = [at EXCEPT ![r].offer = p]
    <3>1. at'[r].offer = p /\ \A s \in Requests \ {r} : at'[s] = at[s]
          BY <2>2
    <3>. QED BY <2>2, <3>1 DEF Go
  <2>. QED BY <1>19, <2>1, <2>2 DEF Consider
<1>20. ASSUME NEW r \in Requests, NEW e \in Errors, Fail(r, e) PROVE (OfferIsChosen /\ ErrIsBlamed)'
  <2>1. ASSUME NEW code \in {"cancelled", "broken"}, End(r, code) PROVE (OfferIsChosen /\ ErrIsBlamed)'
        BY <2>1 DEF End, Leave, Go
  <2>2. CASE Go(r, "attempt") /\ at' = [at EXCEPT ![r].tries = at[r].tries + 1]
    <3>1. at'[r].offer = at[r].offer /\ \A s \in Requests \ {r} : at'[s] = at[s]
          BY <2>2
    <3>. QED BY <1>20, <2>2, <3>1 DEF Fail, Go
  <2>3. CASE MoveOn(r, e)
    <3>1. CASE Leave(r, "pick")
          BY <3>1 DEF Leave, Go
    <3>2. CASE e \notin Blameless /\ Go(r, "failed") /\ at' = [at EXCEPT ![r].err = e]
      <4>1. at'[r].offer = at[r].offer /\ at'[r].err = e /\ \A s \in Requests \ {r} : at'[s] = at[s]
            BY <3>2 DEF Place
      <4>. QED BY <1>20, <3>2, <4>1 DEF Fail, Go
    <3>. QED BY <2>3, <3>1, <3>2 DEF MoveOn
  <2>. QED BY <1>20, <2>1, <2>2, <2>3 DEF Fail
<1>21. ASSUME NEW p \in Providers, Cool(p) PROVE (OfferIsChosen /\ ErrIsBlamed)'
      BY <1>21 DEF Cool
<1>22. ASSUME NEW p \in Providers, Reset(p) PROVE (OfferIsChosen /\ ErrIsBlamed)'
      BY <1>22 DEF Reset
<1>. QED BY <1>1, <1>2, <1>3, <1>4, <1>5, <1>6, <1>7, <1>8, <1>9, <1>10, <1>11, <1>12, <1>13, <1>14, <1>15,
            <1>16, <1>17, <1>18, <1>19, <1>20, <1>21, <1>22 DEF Next, OwnNext, OfferNext

---------------------------------------------------------------------------------
(* The local slot.                                                         *)
Inside == {"attempt", "calling", "booking"}

(* A request that leaves its attempt gives the slot back.                  *)
LEMMA SlotFreed ==
    ASSUME TypeOK, SlotIsExact, NEW r \in Requests, slot' = slot \ {r},
           pc'[r] \notin Inside, \A s \in Requests \ {r} : pc'[s] = pc[s] /\ at'[s] = at[s]
    PROVE  SlotIsExact'
<1>1. slot' = {s \in Requests : pc'[s] \in Inside /\ at'[s].offer \in Local}
      BY DEF TypeOK, SlotIsExact, OnHost, Inside
<1>2. IsFiniteSet(slot) /\ slot' \subseteq slot
      BY RouterAssumption, FS_Subset DEF TypeOK
<1>3. Cardinality(slot') <= Cardinality(slot) /\ Cardinality(slot) \in Nat /\ Cardinality(slot') \in Nat
      BY <1>2, FS_Subset, FS_CardinalityType
<1>. QED BY <1>1, <1>3, RouterAssumption DEF SlotIsExact, OnHost, Inside

(* The slot is claimed with the attempt and freed with it: no await of     *)
(* execute() comes between the check of the limit and the claim.           *)
LEMMA SlotStep == TypeOK /\ SlotIsExact /\ [Next]_vars => SlotIsExact'
<1> SUFFICES ASSUME TypeOK, SlotIsExact, [Next]_vars PROVE SlotIsExact'
    OBVIOUS
<1> USE RouterAssumption DEF TypeOK, SlotIsExact, OnHost, Place, Outcomes
<1>1. CASE UNCHANGED vars
      BY <1>1 DEF vars
<1>2. ASSUME NEW r \in Requests, OwnTry(r) PROVE SlotIsExact'
      BY <1>2 DEF OwnTry, Go, breaker
<1>3. ASSUME NEW r \in Requests, OwnDelta(r) PROVE SlotIsExact'
      BY <1>3 DEF OwnDelta, breaker
<1>4. ASSUME NEW r \in Requests, OwnAnswers(r) PROVE SlotIsExact'
      BY <1>4 DEF OwnAnswers, Go, Leave, End, breaker
<1>5. ASSUME NEW r \in Requests, OwnFails(r) PROVE SlotIsExact'
      BY <1>5 DEF OwnFails, Go, Leave, breaker
<1>6. ASSUME NEW r \in Requests, OwnOver(r) PROVE SlotIsExact'
      BY <1>6 DEF OwnOver, Go, Leave, End, breaker
<1>7. ASSUME NEW r \in Requests, Claim(r) PROVE SlotIsExact'
  <2>1. CASE UNCHANGED slot /\ \E step \in {"pick", "over"} : Leave(r, step)
    <3>1. r \notin slot /\ slot' = slot \ {r}
          BY <1>7, <2>1 DEF Claim
    <3>. QED BY <2>1, <3>1, SlotFreed DEF Leave, Go, Inside
  <2>2. CASE ~Busy(r) /\ Go(r, "attempt") /\ UNCHANGED at /\ slot' = IF OnHost(r) THEN slot \cup {r} ELSE slot
    <3>1. pc[r] \notin Inside
          BY <1>7 DEF Claim, Inside
    <3>2. slot' = {s \in Requests : pc'[s] \in Inside /\ at'[s].offer \in Local}
          BY <2>2, <3>1 DEF Go, Inside
    <3>3. IsFiniteSet(slot) /\ Cardinality(slot) \in Nat
          BY FS_Subset, FS_CardinalityType
    <3>4. r \notin slot
          BY <3>1 DEF Inside
    <3>5. Cardinality(slot') <= LocalLimit
      <4>1. CASE OnHost(r)
        <5>1. Cardinality(slot \cup {r}) = Cardinality(slot) + 1
              BY <3>3, <3>4, FS_AddElement
        <5>2. Cardinality(slot) < LocalLimit
              BY <2>2, <3>3, <4>1 DEF Busy
        <5>3. slot' = slot \cup {r}
              BY <2>2, <4>1
        <5>. QED BY <3>3, <5>1, <5>2, <5>3
      <4>2. CASE ~OnHost(r)
            BY <2>2, <4>2
      <4>. QED BY <4>1, <4>2
    <3>. QED BY <3>2, <3>5 DEF Inside
  <2>. QED BY <1>7, <2>1, <2>2 DEF Claim
<1>8. ASSUME NEW r \in Requests, Attempt(r) PROVE SlotIsExact'
  <2>1. CASE Go(r, "calling") /\ UNCHANGED <<slot, at>>
        BY <1>8, <2>1 DEF Attempt, Go
  <2>2. CASE slot' = slot \ {r} /\ \E code \in {"pick", "cancelled", "refused"} : Leave(r, code)
        BY <2>2, SlotFreed DEF Leave, Go, Inside
  <2>. QED BY <1>8, <2>1, <2>2 DEF Attempt, End
<1>9. ASSUME NEW r \in Requests, Delta(r) PROVE SlotIsExact'
      BY <1>9 DEF Delta, breaker
<1>10. ASSUME NEW r \in Requests, Breach(r) PROVE SlotIsExact'
      BY <1>10, SlotFreed DEF Breach, End, Leave, Go, Outcomes, Inside
<1>11. ASSUME NEW r \in Requests, Answer(r) PROVE SlotIsExact'
      BY <1>11 DEF Answer, Go, breaker
<1>12. ASSUME NEW r \in Requests, GiveUp(r) PROVE SlotIsExact'
      BY <1>12 DEF GiveUp, Go, Leave, End, breaker
<1>13. ASSUME NEW r \in Requests, Succeed(r) PROVE SlotIsExact'
      BY <1>13, SlotFreed DEF Succeed, End, Leave, Go, Inside
<1>14. ASSUME NEW r \in Requests, ReadHealth(r) PROVE SlotIsExact'
      BY <1>14 DEF ReadHealth, Go, breaker
<1>15. ASSUME NEW r \in Requests, RecordFailure(r) PROVE SlotIsExact'
      BY <1>15 DEF RecordFailure, Go, Leave, Write
<1>16. ASSUME NEW r \in Requests, RecordThrows(r) PROVE SlotIsExact'
      BY <1>16 DEF RecordThrows, Go, Leave, End, breaker
<1>17. ASSUME NEW r \in Requests, Abort(r) PROVE SlotIsExact'
      BY <1>17 DEF Abort, breaker
<1>18. ASSUME NEW r \in Requests, NEW p \in Providers, Skip(r, p) PROVE SlotIsExact'
      BY <1>18 DEF Skip, breaker
<1>19. ASSUME NEW r \in Requests, NEW p \in Providers, Consider(r, p) PROVE SlotIsExact'
      BY <1>19 DEF Consider, Go, breaker
<1>20. ASSUME NEW r \in Requests, NEW e \in Errors, Fail(r, e) PROVE SlotIsExact'
  <2>1. CASE slot' = slot \ {r} /\ \E code \in {"cancelled", "broken", "pick"} : Leave(r, code)
        BY <2>1, SlotFreed DEF Leave, Go, Inside
  <2>2. CASE slot' = slot \ {r} /\ Go(r, "failed") /\ at' = [at EXCEPT ![r].err = e]
        BY <2>2, SlotFreed DEF Go, Inside
  <2>3. CASE Go(r, "attempt") /\ at' = [at EXCEPT ![r].tries = @ + 1] /\ UNCHANGED slot
    <3>1. \A s \in Requests : at'[s].offer = at[s].offer
          BY <2>3
    <3>2. pc[r] \in Inside
          BY <1>20 DEF Fail, Inside
    <3>3. slot' = {s \in Requests : pc'[s] \in Inside /\ at'[s].offer \in Local}
          BY <2>3, <3>1, <3>2 DEF Go, Inside
    <3>. QED BY <2>3, <3>3 DEF Inside
  <2>. QED BY <1>20, <2>1, <2>2, <2>3 DEF Fail, MoveOn, End
<1>21. ASSUME NEW p \in Providers, Cool(p) PROVE SlotIsExact'
      BY <1>21 DEF Cool
<1>22. ASSUME NEW p \in Providers, Reset(p) PROVE SlotIsExact'
      BY <1>22 DEF Reset
<1>. QED BY <1>1, <1>2, <1>3, <1>4, <1>5, <1>6, <1>7, <1>8, <1>9, <1>10, <1>11, <1>12, <1>13, <1>14, <1>15,
            <1>16, <1>17, <1>18, <1>19, <1>20, <1>21, <1>22 DEF Next, OwnNext, OfferNext

---------------------------------------------------------------------------------
(* The circuits.                                                           *)

(* A step that leaves the circuits alone keeps them, if it drops the row a *)
(* request read or leaves it alone too.                                    *)
LEMMA CircuitsKept ==
    ASSUME Circuits, UNCHANGED <<health, cooled>>,
           \A r \in Requests :
               at'[r] = Nowhere \/ (at'[r].seen = at[r].seen /\ at'[r].half = at[r].half)
    PROVE  Circuits'
BY DEF Circuits, OpenForCause, CooledIsOpen, SeenIsCaused, Caused, Nowhere, Closed

(* recordFailure() writes from the row it read, which a later write may    *)
(* have made stale: the row it writes still has a cause, because the row   *)
(* it read had one.                                                        *)
LEMMA CauseStep == TypeOK /\ OfferIsChosen /\ Circuits /\ [Next]_vars => Circuits'
<1> SUFFICES ASSUME TypeOK, OfferIsChosen, Circuits, [Next]_vars PROVE Circuits'
    OBVIOUS
<1> USE RouterAssumption DEF TypeOK, Circuits, OpenForCause, CooledIsOpen, SeenIsCaused, Caused, Nowhere, Closed
<1>1. CASE UNCHANGED vars
      BY <1>1 DEF vars
<1>2. ASSUME NEW r \in Requests, OwnTry(r) PROVE Circuits'
      BY <1>2 DEF OwnTry, Go, breaker
<1>3. ASSUME NEW r \in Requests, OwnDelta(r) PROVE Circuits'
      BY <1>3 DEF OwnDelta, breaker
<1>4. ASSUME NEW r \in Requests, OwnAnswers(r) PROVE Circuits'
      BY <1>4 DEF OwnAnswers, Go, Leave, End, breaker
<1>5. ASSUME NEW r \in Requests, OwnFails(r) PROVE Circuits'
  <2>1. \A s \in Requests : at'[s] = Nowhere \/ (at'[s].seen = at[s].seen /\ at'[s].half = at[s].half)
    <3>. HIDE DEF Nowhere
    <3>. QED BY <1>5 DEF OwnFails, Leave, breaker, Place
  <2>. QED BY <1>5, <2>1, CircuitsKept DEF OwnFails, breaker
<1>6. ASSUME NEW r \in Requests, OwnOver(r) PROVE Circuits'
      BY <1>6 DEF OwnOver, Go, Leave, End, breaker
<1>7. ASSUME NEW r \in Requests, Claim(r) PROVE Circuits'
      BY <1>7 DEF Claim, Go, Leave, breaker
<1>8. ASSUME NEW r \in Requests, Attempt(r) PROVE Circuits'
      BY <1>8 DEF Attempt, Go, Leave, End, breaker
<1>9. ASSUME NEW r \in Requests, Delta(r) PROVE Circuits'
      BY <1>9 DEF Delta, breaker
<1>10. ASSUME NEW r \in Requests, Breach(r) PROVE Circuits'
      BY <1>10 DEF Breach, Go, Leave, End, breaker
<1>11. ASSUME NEW r \in Requests, Answer(r) PROVE Circuits'
      BY <1>11 DEF Answer, Go, breaker
<1>12. ASSUME NEW r \in Requests, GiveUp(r) PROVE Circuits'
      BY <1>12 DEF GiveUp, Go, Leave, End, breaker
<1>13. ASSUME NEW r \in Requests, Succeed(r) PROVE Circuits'
      BY <1>13 DEF Succeed, Go, Leave, End
<1>14. ASSUME NEW r \in Requests, ReadHealth(r) PROVE Circuits'
  <2>1. at[r].offer \in Providers
        BY <1>14 DEF ReadHealth, OfferIsChosen, AtOffer
  <2>2. at'[r].seen = health[at[r].offer] /\ (at'[r].half = (at[r].offer \in cooled))
        BY <1>14 DEF ReadHealth
  <2>3. Caused(at'[r].seen) /\ (at'[r].half => at'[r].seen.open)
        BY <2>1, <2>2
  <2>4. \A s \in Requests \ {r} : at'[s] = at[s]
        BY <1>14 DEF ReadHealth
  <2>. QED BY <1>14, <2>3, <2>4 DEF ReadHealth, breaker
<1>15. ASSUME NEW r \in Requests, RecordFailure(r) PROVE Circuits'
  <2>. DEFINE p        == at[r].offer
              balance  == at[r].err = "balance"
              failures == Count(at[r].seen.failures)
              open     == balance \/ at[r].half \/ failures >= Threshold
              row      == [open |-> open, failures |-> failures, exhausted |-> balance \/ at[r].seen.exhausted]
  <2>1. at[r].seen.failures \in 0..Threshold
        BY DEF Place, Row
  <2>2. at[r].half => at[r].seen.failures = Threshold \/ at[r].seen.exhausted
        OBVIOUS
  <2>3. Caused(row)
    <3>1. open => failures = Threshold \/ balance \/ at[r].seen.exhausted
      <4>1. /\ failures \in 0..Threshold
            /\ at[r].seen.failures = Threshold => failures = Threshold
            BY <2>1 DEF Count
      <4>2. at[r].half => failures = Threshold \/ at[r].seen.exhausted
            BY <2>2, <4>1
      <4>. HIDE DEF failures
      <4>. QED BY <4>1, <4>2
    <3>. QED BY <3>1
  <2>4. health' = [health EXCEPT ![p] = row] /\ cooled' = cooled \ {p} /\ at' = [at EXCEPT ![r] = Nowhere]
        BY <1>15 DEF RecordFailure, Write, Leave
  <2>. QED BY <2>3, <2>4
<1>16. ASSUME NEW r \in Requests, RecordThrows(r) PROVE Circuits'
      BY <1>16 DEF RecordThrows, Go, Leave, End, breaker
<1>17. ASSUME NEW r \in Requests, Abort(r) PROVE Circuits'
      BY <1>17 DEF Abort, breaker
<1>18. ASSUME NEW r \in Requests, NEW p \in Providers, Skip(r, p) PROVE Circuits'
      BY <1>18 DEF Skip, breaker
<1>19. ASSUME NEW r \in Requests, NEW p \in Providers, Consider(r, p) PROVE Circuits'
  <2>1. \A s \in Requests : at'[s] = Nowhere \/ (at'[s].seen = at[s].seen /\ at'[s].half = at[s].half)
        BY SMTT(60), <1>19 DEF Consider, breaker, Place
  <2>. QED BY <1>19, <2>1, CircuitsKept DEF Consider, breaker
<1>20. ASSUME NEW r \in Requests, NEW e \in Errors, Fail(r, e) PROVE Circuits'
  <2>1. \A s \in Requests : at'[s] = Nowhere \/ (at'[s].seen = at[s].seen /\ at'[s].half = at[s].half)
    <3>1. \/ at' = [at EXCEPT ![r] = Nowhere]
          \/ at' = [at EXCEPT ![r].tries = @ + 1]
          \/ at' = [at EXCEPT ![r].err = e]
          BY <1>20 DEF Fail, MoveOn, Leave, End
    <3>. HIDE DEF Nowhere
    <3>2. CASE at' = [at EXCEPT ![r] = Nowhere]
          BY <3>2
    <3>3. CASE at' = [at EXCEPT ![r].tries = @ + 1]
          BY <3>3 DEF Place
    <3>4. CASE at' = [at EXCEPT ![r].err = e]
          BY <3>4 DEF Place
    <3>. QED BY <3>1, <3>2, <3>3, <3>4
  <2>. QED BY <1>20, <2>1, CircuitsKept DEF Fail, breaker
<1>21. ASSUME NEW p \in Providers, Cool(p) PROVE Circuits'
      BY <1>21 DEF Cool, Paused
<1>22. ASSUME NEW p \in Providers, Reset(p) PROVE Circuits'
      BY <1>22 DEF Reset
<1>. QED BY <1>1, <1>2, <1>3, <1>4, <1>5, <1>6, <1>7, <1>8, <1>9, <1>10, <1>11, <1>12, <1>13, <1>14, <1>15,
            <1>16, <1>17, <1>18, <1>19, <1>20, <1>21, <1>22 DEF Next, OwnNext, OfferNext

---------------------------------------------------------------------------------
(* The calls.                                                              *)

(* The arithmetic of the budget: n attempts cost n times Each calls.       *)
LEMMA Products ==
    /\ Each \in Nat \ {0} /\ Each = Retries + 1
    /\ \A n \in Nat : n * Each \in Nat /\ (n + 1) * Each = n * Each + Each
    /\ \A n \in 0..MaxAttempts : n * Each <= MaxAttempts * Each
    /\ \A r \in Requests : KeysSpent(r) \in Nat
BY RouterAssumption DEF Each, KeysSpent

(* A step of one request is another one's business only through the shared *)
(* variables.                                                              *)
LEMMA OneAtATime ==
    ASSUME CallBudget, NEW r \in Requests, (Budget(r) /\ Fresh(r))',
           \A s \in Requests \ {r} :
               pc'[s] = pc[s] /\ at'[s] = at[s] /\ chain'[s] = chain[s] /\ calls'[s] = calls[s]
    PROVE  CallBudget'
BY DEF CallBudget, Budget, Fresh, Ended

(* Wherever a request is, it has called no more often than its keys and a  *)
(* full chain of attempts allow.                                           *)
LEMMA InBudget ==
    ASSUME TypeOK, CallBudget, NEW r \in Requests
    PROVE  calls[r] <= KeysSpent(r) + MaxAttempts * Each
<1>1. /\ chain[r].keys * Each \in Nat /\ KeysSpent(r) \in Nat /\ MaxAttempts * Each \in Nat
      /\ chain[r].made * Each \in Nat /\ chain[r].made * Each <= MaxAttempts * Each
  <2>1. chain[r].keys \in Nat /\ chain[r].made \in 0..MaxAttempts
        BY DEF TypeOK, Chain
  <2>2. MaxAttempts \in Nat /\ chain[r].made \in Nat
        BY <2>1, RouterAssumption
  <2>. QED BY <2>1, <2>2, Products
<1>2. /\ at[r].tries \in 0..Retries /\ Retries \in Nat /\ Each = Retries + 1 /\ calls[r] \in Nat
      /\ pc[r] \in Steps \cup Outcomes
      BY Products, RouterAssumption DEF TypeOK, Place
<1>3. Budget(r)
      BY DEF CallBudget
<1>. QED BY <1>1, <1>2, <1>3 DEF Budget, Ended, Loop, Steps

(* ... so that it may end there.                                           *)
LEMMA EndsInBudget ==
    ASSUME TypeOK, CallBudget, NEW r \in Requests, NEW code \in Outcomes, End(r, code), UNCHANGED calls
    PROVE  CallBudget'
<1>1. /\ pc'[r] = code /\ chain'[r] = Spent /\ calls'[r] = calls[r]
      /\ \A s \in Requests \ {r} : pc'[s] = pc[s] /\ at'[s] = at[s] /\ chain'[s] = chain[s] /\ calls'[s] = calls[s]
      BY DEF TypeOK, End, Leave, Go
<1>2. (Budget(r) /\ Fresh(r))'
      BY <1>1, InBudget, RouterAssumption DEF Budget, Fresh, Ended, Outcomes, Loop, Spent
<1>. QED BY <1>1, <1>2, OneAtATime

(* A request with no key left goes on with the offers, its keys all spent. *)
LEMMA KeysAreSpent ==
    ASSUME TypeOK, CallBudget, NEW r \in Requests, pc[r] = "own", chain[r].keys = 0, Go(r, "pick"),
           UNCHANGED <<chain, at, calls>>
    PROVE  CallBudget'
<1>1. /\ pc'[r] = "pick" /\ chain' = chain /\ at' = at /\ calls' = calls
      /\ \A s \in Requests \ {r} : pc'[s] = pc[s]
      BY DEF TypeOK, Go
<1>2. Budget(r) /\ Fresh(r)
      BY DEF CallBudget
<1>3. /\ calls[r] \in Nat /\ KeysSpent(r) \in Nat /\ Each \in Nat /\ OwnKeys[r] \in Nat
      /\ chain[r].made * Each \in Nat
  <2>1. chain[r].made \in Nat
        BY RouterAssumption DEF TypeOK, Chain
  <2>. QED BY <2>1, Products, RouterAssumption DEF TypeOK
<1>4. calls[r] <= KeysSpent(r)
      BY <1>2, <1>3 DEF Budget
<1>5. (Budget(r) /\ Fresh(r))'
      BY <1>1, <1>2, <1>3, <1>4 DEF Budget, Fresh, Loop, Ended, Outcomes, KeysSpent
<1>. QED BY <1>1, <1>5, OneAtATime

(* Every call a request makes takes one from what its keys, its attempts   *)
(* and their retries leave it: the loops of execute() keep the budget.     *)
LEMMA BudgetStep == TypeOK /\ CallBudget /\ [Next]_vars => CallBudget'
<1> SUFFICES ASSUME TypeOK, CallBudget, [Next]_vars PROVE CallBudget'
    OBVIOUS
<1> USE Products, RouterAssumption
    DEF TypeOK, CallBudget, Budget, Fresh, Ended, Loop, Outcomes, Chain, Place, Nowhere, Spent
<1>1. CASE UNCHANGED vars
      BY <1>1 DEF vars
<1>2. ASSUME NEW r \in Requests, OwnTry(r) PROVE CallBudget'
      BY <1>2 DEF OwnTry, Go, breaker
<1>3. ASSUME NEW r \in Requests, OwnDelta(r) PROVE CallBudget'
      BY <1>3 DEF OwnDelta, breaker
<1>4. ASSUME NEW r \in Requests, OwnAnswers(r) PROVE CallBudget'
      BY <1>4, EndsInBudget DEF OwnAnswers, Outcomes
<1>5. ASSUME NEW r \in Requests, OwnFails(r) PROVE CallBudget'
      BY <1>5 DEF OwnFails, Go, Leave, breaker
<1>6. ASSUME NEW r \in Requests, OwnOver(r) PROVE CallBudget'
  <2>1. CASE End(r, "needsKey")
        BY <1>6, <2>1, EndsInBudget DEF OwnOver, Outcomes
  <2>2. CASE Go(r, "pick") /\ UNCHANGED <<chain, at>>
        BY <1>6, <2>2, KeysAreSpent DEF OwnOver
  <2>. QED BY <1>6, <2>1, <2>2 DEF OwnOver
<1>7. ASSUME NEW r \in Requests, Claim(r) PROVE CallBudget'
  <2>1. CASE UNCHANGED <<chain, calls>> /\ Leave(r, "over")
        BY <1>7, <2>1 DEF Claim, Leave, Go
  <2>2. CASE Leave(r, "pick") /\ chain' = [chain EXCEPT ![r].why = @ \cup {"resting"}]
        BY <1>7, <2>2 DEF Claim, Leave, Go
  <2>3. CASE Go(r, "attempt") /\ chain' = [chain EXCEPT ![r].made = @ + 1] /\ UNCHANGED at
        BY <1>7, <2>3 DEF Claim, Go
  <2>. QED BY <1>7, <2>1, <2>2, <2>3 DEF Claim
<1>8. ASSUME NEW r \in Requests, Attempt(r) PROVE CallBudget'
  <2>1. ASSUME NEW code \in {"cancelled", "refused"}, End(r, code), UNCHANGED calls PROVE CallBudget'
    <3>1. code \in Outcomes
          OBVIOUS
    <3>. QED BY ONLY <2>1, <3>1, EndsInBudget, TypeOK, CallBudget, r \in Requests
  <2>2. CASE Leave(r, "pick") /\ UNCHANGED <<chain, calls>>
        BY <1>8, <2>2 DEF Attempt, Leave, Go
  <2>3. CASE Go(r, "calling") /\ calls' = [calls EXCEPT ![r] = @ + 1] /\ UNCHANGED <<chain, at>>
        BY <1>8, <2>3 DEF Attempt, Go
  <2>. QED BY <1>8, <2>1, <2>2, <2>3 DEF Attempt
<1>9. ASSUME NEW r \in Requests, Delta(r) PROVE CallBudget'
      BY <1>9 DEF Delta, breaker
<1>10. ASSUME NEW r \in Requests, Breach(r) PROVE CallBudget'
      BY <1>10, EndsInBudget DEF Breach, Outcomes
<1>11. ASSUME NEW r \in Requests, Answer(r) PROVE CallBudget'
      BY <1>11 DEF Answer, Go, breaker
<1>12. ASSUME NEW r \in Requests, GiveUp(r) PROVE CallBudget'
      BY <1>12, EndsInBudget DEF GiveUp, Outcomes
<1>13. ASSUME NEW r \in Requests, Succeed(r) PROVE CallBudget'
      BY <1>13, EndsInBudget DEF Succeed, Outcomes
<1>14. ASSUME NEW r \in Requests, ReadHealth(r) PROVE CallBudget'
      BY <1>14 DEF ReadHealth, Go, breaker
<1>15. ASSUME NEW r \in Requests, RecordFailure(r) PROVE CallBudget'
      BY <1>15 DEF RecordFailure, Go, Leave, Write
<1>16. ASSUME NEW r \in Requests, RecordThrows(r) PROVE CallBudget'
      BY <1>16, EndsInBudget DEF RecordThrows, Outcomes
<1>17. ASSUME NEW r \in Requests, Abort(r) PROVE CallBudget'
      BY <1>17 DEF Abort, breaker
<1>18. ASSUME NEW r \in Requests, NEW p \in Providers, Skip(r, p) PROVE CallBudget'
      BY <1>18 DEF Skip, breaker
<1>19. ASSUME NEW r \in Requests, NEW p \in Providers, Consider(r, p) PROVE CallBudget'
  <2>1. /\ chain'[r].keys = chain[r].keys /\ chain'[r].made = chain[r].made
        /\ at'[r].tries = at[r].tries /\ calls' = calls
        /\ pc[r] = "pick" /\ pc'[r] \in {"pick", "claim"}
        BY <1>19 DEF Consider, Go
  <2>2. \A s \in Requests \ {r} : pc'[s] = pc[s] /\ at'[s] = at[s] /\ chain'[s] = chain[s] /\ calls'[s] = calls[s]
        BY <1>19 DEF Consider, Go
  <2>. QED BY <2>1, <2>2, OneAtATime
<1>20. ASSUME NEW r \in Requests, NEW e \in Errors, Fail(r, e) PROVE CallBudget'
  <2>1. CASE \E code \in {"cancelled", "broken"} : End(r, code)
        BY <1>20, <2>1, EndsInBudget DEF Fail, Outcomes
  <2>2. CASE Go(r, "attempt") /\ at' = [at EXCEPT ![r].tries = @ + 1] /\ UNCHANGED chain
        BY <1>20, <2>2 DEF Fail, Go
  <2>3. CASE MoveOn(r, e)
        BY <1>20, <2>3 DEF Fail, MoveOn, Leave, Go
  <2>. QED BY <1>20, <2>1, <2>2, <2>3 DEF Fail
<1>21. ASSUME NEW p \in Providers, Cool(p) PROVE CallBudget'
      BY <1>21 DEF Cool
<1>22. ASSUME NEW p \in Providers, Reset(p) PROVE CallBudget'
      BY <1>22 DEF Reset
<1>. QED BY <1>1, <1>2, <1>3, <1>4, <1>5, <1>6, <1>7, <1>8, <1>9, <1>10, <1>11, <1>12, <1>13, <1>14, <1>15,
            <1>16, <1>17, <1>18, <1>19, <1>20, <1>21, <1>22 DEF Next, OwnNext, OfferNext
---------------------------------------------------------------------------------
(* The invariant, and what follows from it.                                *)

(* The process starts with rows that had a cause, nothing claimed and      *)
(* nothing called.                                                         *)
LEMMA Start == Init => IInv
<1> SUFFICES ASSUME Init PROVE IInv
    OBVIOUS
<1>1. TypeOK
  <2>1. health \in [Providers -> Row]
        BY RouterAssumption DEF Init
  <2>2. chain \in [Requests -> Chain]
    <3>1. \A r \in Requests : [keys |-> OwnKeys[r], left |-> Providers, made |-> 0, why |-> {}] \in Chain
          BY RouterAssumption DEF Chain
    <3>. QED BY <3>1 DEF Init
  <2>. QED BY <2>1, <2>2, Constants DEF Init, TypeOK, Steps
<1>2. OfferIsChosen /\ ErrIsBlamed
      BY DEF Init, OfferIsChosen, AtOffer, ErrIsBlamed
<1>3. SlotIsExact
  <2>1. Cardinality(slot) = 0
        BY FS_EmptySet DEF Init
  <2>2. {r \in Requests : pc[r] \in {"attempt", "calling", "booking"} /\ at[r].offer \in Local} = {}
        BY DEF Init
  <2>. QED BY <2>1, <2>2, RouterAssumption DEF Init, SlotIsExact, OnHost
<1>4. Circuits
      BY RouterAssumption DEF Init, Circuits, OpenForCause, CooledIsOpen, SeenIsCaused, Caused, Nowhere, Closed
<1>5. CallBudget
  <2> SUFFICES ASSUME NEW r \in Requests PROVE Budget(r) /\ Fresh(r)
      BY DEF CallBudget
  <2>1. /\ pc[r] = "own" /\ calls[r] = 0 /\ chain[r].keys = OwnKeys[r] /\ at[r].tries = 0
        /\ OwnKeys[r] \in Nat
        BY RouterAssumption DEF Init, Spent, Nowhere
  <2>2. KeysSpent(r) \in Nat
        BY Products
  <2>. QED BY <2>1, <2>2 DEF Budget, Fresh, Ended, Outcomes, Loop, KeysSpent
<1>. QED BY <1>1, <1>2, <1>3, <1>4, <1>5 DEF IInv

(* It holds in every state the router reaches.                             *)
LEMMA Invariance == Spec => []IInv
<1>1. IInv /\ [Next]_vars => IInv'
      BY TypeStep, OfferStep, SlotStep, CauseStep, BudgetStep DEF IInv
<1>. QED BY <1>1, Start, PTL DEF Spec

(* Every variable of the router stays in its domain.                       *)
THEOREM TypeCorrect == Spec => []TypeOK
BY Invariance, PTL DEF IInv

(* localActive counts the requests inside an attempt on the host's model,  *)
(* and execute() never lets in more than LocalLimit: claimed with no await *)
(* after the check, freed on every way out of the attempt.                 *)
THEOREM SlotHolds == Spec => []SlotIsExact
BY Invariance, PTL DEF IInv

(* recordFailure() opens a circuit for a cause only, whichever row it read *)
(* before another request's write.                                         *)
THEOREM CauseHolds == Spec => []OpenForCause
BY Invariance, PTL DEF IInv, Circuits

(* The loops of execute() call no more often than the keys, the chain of   *)
(* attempts and the retries allow.                                         *)
THEOREM CallsHold == Spec => []CallsBounded
<1>1. IInv => CallsBounded
  <2> SUFFICES ASSUME IInv, NEW r \in Requests
               PROVE  calls[r] <= (OwnKeys[r] + MaxAttempts) * (Retries + 1)
      BY DEF CallsBounded
  <2>1. OwnKeys[r] \in Nat /\ MaxAttempts \in Nat /\ Retries \in Nat
        BY RouterAssumption
  <2>2. (OwnKeys[r] + MaxAttempts) * (Retries + 1) = KeysSpent(r) + MaxAttempts * Each
    <3>. DEFINE own == OwnKeys[r]
    <3>1. own \in Nat
          BY <2>1
    <3>. HIDE DEF own
    <3>2. (own + MaxAttempts) * (Retries + 1) = own * (Retries + 1) + MaxAttempts * (Retries + 1)
          BY <2>1, <3>1
    <3>. QED BY <3>2 DEF KeysSpent, Each, own
  <2>. QED BY <2>2, InBudget DEF IInv
<1>. QED BY <1>1, Invariance, PTL

(* execute() counts a failure for the offer it came from, and only when    *)
(* the provider is to blame.                                               *)
THEOREM BlameHolds == Spec => BlameIsEarned
<1>1. ASSUME IInv, [Next]_vars,
             NEW p \in Providers, health'[p] # health[p], health'[p] # Closed
      PROVE  \E r \in Requests : pc[r] = "record" /\ at[r].offer = p /\ at[r].err \notin Blameless
  <2>1. PICK r \in Requests : RecordFailure(r)
    <3>1. CASE UNCHANGED health
          BY <1>1, <3>1
    <3>2. CASE \E q \in Providers : health' = [health EXCEPT ![q] = Closed]
          BY <1>1, <3>2 DEF IInv, TypeOK
    <3>3. CASE \E r \in Requests : Succeed(r)
          BY <1>1, <3>3 DEF Succeed, IInv, TypeOK
    <3>. QED BY ZenonT(60), <1>1, <3>1, <3>2, <3>3
             DEF Next, OwnNext, OfferNext, OwnTry, OwnDelta, OwnAnswers, OwnFails, OwnOver, Skip, Consider,
                 Claim, Attempt, Delta, Breach, Answer, Fail, GiveUp, ReadHealth, RecordThrows, Cool, Reset,
                 Abort, breaker, vars
  <2>2. pc[r] = "record" /\ at[r].offer = p
        BY <1>1, <2>1 DEF RecordFailure, Write, IInv, TypeOK
  <2>. QED BY <1>1, <2>2 DEF IInv, ErrIsBlamed
<1>2. IInv /\ [Next]_vars =>
          [\A p \in Providers :
              health'[p] # health[p] /\ health'[p] # Closed =>
                  \E r \in Requests : pc[r] = "record" /\ at[r].offer = p /\ at[r].err \notin Blameless]_vars
      BY <1>1
<1>. QED BY <1>2, Invariance, PTL DEF Spec, BlameIsEarned

(* Once a delta went out, execute() either finishes this call or ends the  *)
(* request: no fallback ever continues a streamed answer.                  *)
THEOREM StreamHolds == Spec => StreamIsFinal
<1>. DEFINE Here(r) == pc[r] \in {"calling", "booking"}
<1>1. ASSUME IInv, [Next]_vars, NEW r \in Requests, Here(r), Spoke(r)
      PROVE  pc'[r] \in {"calling", "booking"} \cup Outcomes
  <2>. USE DEF IInv, TypeOK, Outcomes
  <2>1. CASE pc'[r] = pc[r]
        BY <1>1, <2>1
  <2>2. CASE Breach(r) \/ Answer(r) \/ Succeed(r)
    <3>1. \E step \in {"booking"} \cup Outcomes : pc' = [pc EXCEPT ![r] = step]
          BY <2>2 DEF Breach, Answer, Succeed, End, Leave, Go
    <3>. QED BY <1>1, <3>1
  <2>3. ASSUME NEW e \in Errors, Fail(r, e)
        PROVE  pc'[r] \in Outcomes
        BY <1>1, <2>3 DEF Fail, End, Leave, Go
  <2>4. ASSUME NEW s \in Requests, s # r, OwnNext(s) \/ OfferNext(s)
        PROVE  pc'[r] = pc[r]
    <3>1. CASE OwnNext(s)
          BY <1>1, <2>4, <3>1 DEF OwnNext, OwnTry, OwnDelta, OwnAnswers, OwnFails, OwnOver, breaker, End, Leave, Go
    <3>2. CASE OfferNext(s)
      <4>1. pc' = pc \/ \E step : pc' = [pc EXCEPT ![s] = step]
            BY <3>2 DEF OfferNext, Skip, Consider, Claim, Attempt, Delta, Breach, Answer, Fail, MoveOn, GiveUp,
                        Succeed, ReadHealth, RecordFailure, RecordThrows, Write, End, Leave, Go
      <4>. QED BY <1>1, <2>4, <4>1
    <3>. QED BY <2>4, <3>1, <3>2
  <2>5. ASSUME OwnNext(r) \/ OfferNext(r)
        PROVE  \/ pc'[r] = pc[r] \/ Breach(r) \/ Answer(r) \/ Succeed(r)
               \/ \E e \in Errors : Fail(r, e)
        BY <1>1, <2>5 DEF OwnNext, OfferNext, OwnTry, OwnDelta, OwnAnswers, OwnFails, OwnOver, Skip, Consider,
                          Claim, Attempt, Delta, GiveUp, ReadHealth, RecordFailure, RecordThrows
  <2>6. CASE \E p \in Providers : Cool(p) \/ Reset(p)
        BY <2>1, <2>6 DEF Cool, Reset
  <2>7. CASE \E s \in Requests : Abort(s)
        BY <2>1, <2>7 DEF Abort
  <2>. QED BY <1>1, <2>1, <2>2, <2>3, <2>4, <2>5, <2>6, <2>7 DEF Next, vars
<1>2. IInv /\ [Next]_vars =>
          [\A r \in Requests :
              pc[r] \in {"calling", "booking"} /\ Spoke(r) => pc'[r] \in {"calling", "booking"} \cup Outcomes]_vars
      BY <1>1
<1>. QED BY <1>2, Invariance, PTL DEF Spec, StreamIsFinal
=================================================================================
