----------------------------- MODULE RunMoneyProofs ------------------------------
(***************************************************************************)
(* Theorems about RunMoney, for every set of offers, prices, caps and      *)
(* bounds, whatever Billing and the database fail.                         *)
(***************************************************************************)
EXTENDS RunMoney, Integers, SequenceTheorems, TLAPS

---------------------------------------------------------------------------------
(* The inductive invariant.                                                *)

(* Steps of execute() before the first settle() or release().              *)
Routing == {"start", "route", "asking", "calling", "answered", "thrown", "commit", "settle"}

(* Until then the session is open, and a hold it knows is one Billing has. *)
MoneyUntouched ==
    pc \in Routing => /\ ended = "open" /\ queue = "none"
                      /\ bill \in {"none", "held"} /\ (hold => bill = "held")

(* No provider is tried after a delta went out, and only deltas extend: an *)
(* extension in flight never meets the extension of a fallback.            *)
StreamIsLast ==
    /\ pc \in {"start", "route", "asking"} => ~streamed
    /\ pending > 0 => streamed

(* An extension in flight is part of what the session believes it holds.   *)
PendingIsHeld == pending <= held

(* A row succeeds on the way to its settle.                                *)
CommitFirst ==
    row = "succeeded" => pc \in {"settle", "account", "publish", "budget", "cache", "catch", "catchMoney",
                                 "catchRecord", "end", "dead"}

(* A session that settled was taken by Billing; after a commit one that    *)
(* could not settle has left its row in the settle queue.                  *)
SettledOrQueued ==
    /\ ended = "settled" => bill = "settled"
    /\ row = "succeeded" /\ hold /\ pc # "settle" /\ ended # "settled" => queue # "none"

MoneyInv == /\ TypeOK /\ MoneyUntouched /\ StreamIsLast /\ PendingIsHeld /\ CommitFirst /\ SettledOrQueued
            /\ CallCovered /\ HeldIsCovered /\ ReleasedUnused

---------------------------------------------------------------------------------
(* What the arithmetic of the session yields.                              *)

(* The worst case of an offer, clamped by the cap, is an amount.           *)
LEMMA PlanIsNat == ASSUME NEW o \in Offers PROVE Plan(o) \in Nat
BY RunMoneyAssumption DEF Plan

(* An extension adds an amount, whatever the cap leaves of it.             *)
LEMMA StepIsNat ==
    ASSUME held \in Nat, Cap = NoCap \/ held < Cap
    PROVE  Step \in Nat
BY RunMoneyAssumption DEF Step

(* A counted delta leaves the hold, gives it up to the cap, or asks for a  *)
(* step more, of which there is one at a time.                             *)
LEMMA ObserveEffect ==
    ASSUME held \in Nat, Observe
    PROVE  /\ \/ held' = held /\ pending' = pending
              \/ Step \in Nat /\ held' = held + Step /\ pending' = Step /\ pending = 0
           /\ refused' = TRUE \/ refused' = refused
<1>1. PICK extends \in BOOLEAN :
          IF extends /\ Near /\ pending = 0
          THEN IF Cap # NoCap /\ held >= Cap
               THEN refused' = TRUE /\ UNCHANGED <<held, pending>>
               ELSE held' = held + Step /\ pending' = Step /\ UNCHANGED refused
          ELSE UNCHANGED <<held, pending, refused>>
  BY Zenon DEF Observe
<1>2. (Cap # NoCap /\ held >= Cap) \/ Step \in Nat
  BY RunMoneyAssumption, StepIsNat
<1> QED
  BY Zenon, <1>1, <1>2

(* settle() leaves the session settled with Billing's settle, or open with *)
(* its row queued, or with the row that was there.                         *)
LEMMA SettleEffect ==
    ASSUME TypeOK, SettleCall
    PROVE  /\ bill' \in {bill, "settled"}
           /\ ended' \in {ended, "settled"}
           /\ queue' \in {"none", "queued", "delivered", "sent", "review", "lost"}
           /\ ended = "open" /\ ended' = "settled" => bill' = "settled"
           /\ queue # "none" => queue' # "none"
           /\ hold /\ ended = "open" /\ ended' # "settled" => queue' # "none"
           /\ ~(hold /\ ended = "open") => bill' = bill /\ ended' = ended /\ queue' = queue
BY DEF SettleCall, Enqueue, TypeOK

(* release() gives back only what is open.                                 *)
LEMMA ReleaseEffect ==
    ASSUME TypeOK, ReleaseCall
    PROVE  /\ bill' \in {bill, "released"}
           /\ ended' \in {ended, "released"}
           /\ queue' = queue
           /\ ended # "open" => bill' = bill /\ ended' = ended
BY DEF ReleaseCall, TypeOK

---------------------------------------------------------------------------------
LEMMA InitMoney == Init => MoneyInv
<1> SUFFICES ASSUME Init PROVE MoneyInv
  OBVIOUS
<1>1. calls \in 1..MaxCalls /\ tries \in 0..MaxTries /\ output \in 0..MaxStream /\ restarts \in 0..MaxRestarts
  BY RunMoneyAssumption DEF Init
<1>2. recorded \in Seq({"succeeded", "failed", "cancelled"})
  BY DEF Init
<1>3. TypeOK
  BY <1>1, <1>2 DEF Init, TypeOK
<1> QED
  BY <1>3 DEF Init, MoneyInv, MoneyUntouched, StreamIsLast, PendingIsHeld, CommitFirst, SettledOrQueued,
     CallCovered, HeldIsCovered, ReleasedUnused, Routing

(* Types.                                                                  *)
LEMMA StepType == TypeOK /\ PendingIsHeld /\ [Next]_vars => TypeOK'
<1> SUFFICES ASSUME TypeOK, PendingIsHeld, [Next]_vars PROVE TypeOK'
  OBVIOUS
<1> USE DEF TypeOK, runVars, session, billing, books, controlVars, Open
<1>1. CASE Start
  BY <1>1 DEF Start
<1>2. ASSUME NEW o \in Offers, TryOffer(o) PROVE TypeOK'
  <2>1. tries' \in 0..MaxTries
    BY <1>2, RunMoneyAssumption DEF TryOffer
  <2> QED
    BY <1>2, <2>1 DEF TryOffer
<1>3. CASE GiveUp \/ RoutePrepaid
  BY <1>3 DEF GiveUp, RoutePrepaid
<1>d. CASE Delta
  BY <1>d DEF Delta
<1>4. CASE RouteHold
  <2>1. Plan(offer) \in Nat
    BY <1>4, PlanIsNat, RunMoneyAssumption DEF RouteHold
  <2>2. held' \in Nat /\ amount' \in Nat /\ hold' \in BOOLEAN
    BY <1>4, <2>1 DEF RouteHold
  <2>3. bill' \in {bill, "held"} /\ pc' \in {"calling", "thrown"}
    BY <1>4 DEF RouteHold
  <2> QED
    BY <1>4, <2>2, <2>3 DEF RouteHold
<1>5. CASE RouteFallback
  <2>1. Plan(offer) \in Nat
    BY <1>5, PlanIsNat, RunMoneyAssumption DEF RouteFallback
  <2>2. Plan(offer) <= held \/ Missing \in Nat
    BY <2>1 DEF Missing
  <2>3. held' \in Nat /\ amount' \in Nat
    BY <1>5, <2>1, <2>2 DEF RouteFallback
  <2> QED
    BY <1>5, <2>3 DEF RouteFallback
<1>6. CASE Observe
  <2>1. held' \in Nat /\ pending' \in Nat
    BY <1>6, ObserveEffect, Step \in Nat => held + Step \in Nat
  <2>2. refused' \in BOOLEAN
    BY Zenon, <1>6, ObserveEffect
  <2>3. output' \in 0..MaxStream
    BY <1>6, RunMoneyAssumption DEF Observe
  <2> QED
    BY <1>6, <2>1, <2>2, <2>3 DEF Observe
<1>7. CASE ProviderAnswers
  BY <1>7 DEF ProviderAnswers
<1>a. CASE ProviderFails
  BY <1>a DEF ProviderFails
<1>b. CASE EngineThrows
  BY <1>b DEF EngineThrows
<1>8. CASE NextCall
  <2>1. calls' \in 1..MaxCalls /\ tries' \in 0..MaxTries
    BY <1>8, RunMoneyAssumption DEF NextCall
  <2> QED
    BY <1>8, <2>1 DEF NextCall
<1>9. CASE CheckAbort \/ Commit
  BY <1>9 DEF CheckAbort, Commit
<1>10. CASE Book \/ Throw
  BY <1>10 DEF Book, Throw, NextStep
<1>11. CASE CatchRow
  BY <1>11 DEF CatchRow, Outcome
<1>12. CASE Settle
  BY <1>12, SettleEffect DEF Settle
<1>13. CASE Publish \/ CatchRecord
  <2>1. Outcome \in {"failed", "cancelled"}
    BY DEF Outcome
  <2>2. \A o \in {"succeeded", "failed", "cancelled"} : Append(recorded, o) \in Seq({"succeeded", "failed", "cancelled"})
    OBVIOUS
  <2>3. recorded' \in Seq({"succeeded", "failed", "cancelled"})
    BY <1>13, <2>1, <2>2 DEF Publish, CatchRecord, Record
  <2> QED
    BY <1>13, <2>3 DEF Publish, CatchRecord
<1>14. CASE CatchMoney
  BY <1>14, SettleEffect, ReleaseEffect DEF CatchMoney
<1>15. CASE ExtendReturn
  <2>1. held' \in {held, held - pending} /\ amount' \in {amount, amount + pending} /\ pending' = 0
    BY <1>15 DEF ExtendReturn
  <2>2. held' \in Nat /\ amount' \in Nat
    BY <2>1 DEF PendingIsHeld
  <2>3. refused' \in BOOLEAN
    BY Zenon, <1>15 DEF ExtendReturn
  <2> QED
    BY <1>15, <2>1, <2>2, <2>3 DEF ExtendReturn
<1>16. CASE Expire \/ CancelRead \/ CancelUpdate
  BY <1>16 DEF Expire, CancelRead, CancelUpdate
<1>17. CASE CancelSignal \/ Drain
  BY <1>17 DEF CancelSignal, Drain
<1>18. CASE Restart
  <2>1. calls' \in 1..MaxCalls /\ tries' \in 0..MaxTries /\ restarts' \in 0..MaxRestarts
    BY <1>18, RunMoneyAssumption DEF Restart
  <2>2. amount' \in Nat
    BY <1>18 DEF Restart
  <2> QED
    BY <1>18, <2>1, <2>2 DEF Restart
<1>19. CASE SettleQueue
  BY <1>19 DEF SettleQueue, QueueSend, QueueReplyLost, QueueSent, QueueSentFails
<1>20. CASE UNCHANGED vars
  BY <1>20 DEF vars
<1> QED
  BY <1>1, <1>2, <1>3, <1>4, <1>5, <1>6, <1>7, <1>a, <1>b, <1>d, <1>8, <1>9, <1>10, <1>11, <1>12, <1>13, <1>14, <1>15, <1>16,
     <1>17, <1>18, <1>19, <1>20 DEF Next, Execute

(* The money: one step per action that touches what the invariant names.   *)
LEMMA StepMoney == MoneyInv /\ [Next]_vars => MoneyInv'
<1> SUFFICES ASSUME MoneyInv, [Next]_vars PROVE MoneyInv'
  OBVIOUS
<1>t. TypeOK /\ TypeOK'
  BY StepType DEF MoneyInv
<1>a. held \in Nat /\ amount \in Nat /\ pending \in Nat /\ output \in Nat
  BY <1>t, RunMoneyAssumption DEF TypeOK
<1> DEFINE Rest == /\ MoneyUntouched /\ StreamIsLast /\ PendingIsHeld /\ CommitFirst /\ SettledOrQueued
                   /\ CallCovered /\ HeldIsCovered /\ ReleasedUnused
<1>m. Rest
  BY DEF MoneyInv
<1> SUFFICES Rest'
  BY <1>t DEF MoneyInv
<1> USE DEF MoneyUntouched, StreamIsLast, PendingIsHeld, CommitFirst, SettledOrQueued, CallCovered,
            HeldIsCovered, ReleasedUnused, Routing, runVars, session, billing, books, controlVars
<1>1. CASE Start
  BY <1>1, <1>a, <1>m DEF Start
<1>2. ASSUME NEW o \in Offers, TryOffer(o) PROVE Rest'
  BY <1>2, <1>a, <1>m DEF TryOffer
<1>3. CASE GiveUp
  BY <1>3, <1>a, <1>m DEF GiveUp
<1>4. CASE RoutePrepaid
  BY <1>4, <1>a, <1>m DEF RoutePrepaid
<1>5. CASE RouteHold
  <2>1. offer \in Paid /\ offer' = offer /\ row' = row /\ streamed' = streamed /\ output' = output
        /\ answered' = answered /\ pending' = pending /\ ended' = ended /\ queue' = queue
    BY <1>5 DEF RouteHold
  <2>2. ~hold /\ ended = "open" /\ queue = "none" /\ bill \in {"none", "held"} /\ pending = 0 /\ ~streamed /\ row # "succeeded"
    BY <1>5, <1>a, <1>m DEF RouteHold
  <2>3. Plan(offer) \in Nat
    BY <2>1, PlanIsNat, RunMoneyAssumption
  <2>4. CASE pc' = "calling" /\ hold' = TRUE /\ held' = Plan(offer) /\ bill' = "held" /\ amount' = Plan(offer)
    BY <2>1, <2>2, <2>3, <2>4, <1>m
  <2>5. CASE pc' = "thrown" /\ hold' = hold /\ held' = held /\ bill' = bill /\ amount' = amount
    BY <2>1, <2>2, <2>5, <1>m
  <2>6. CASE pc' = "thrown" /\ bill' = "held" /\ amount' = Plan(offer) /\ UNCHANGED <<hold, held>>
    BY <2>1, <2>2, <2>3, <2>6, <1>5, <1>m DEF RouteHold
  <2> QED
    BY <1>5, <2>4, <2>5, <2>6 DEF RouteHold
<1>6. CASE RouteFallback
  <2>1. /\ offer \in Paid /\ hold /\ offer' = offer /\ row' = row /\ streamed' = streamed /\ output' = output
        /\ answered' = answered /\ hold' = hold /\ pending' = pending /\ ended' = ended /\ queue' = queue /\ bill' = bill
    BY <1>6 DEF RouteFallback
  <2>2. ended = "open" /\ queue = "none" /\ bill = "held" /\ pending = 0 /\ ~streamed /\ row # "succeeded" /\ held <= amount
    BY <1>6, <1>a, <1>m DEF RouteFallback
  <2>3. Plan(offer) \in Nat
    BY <2>1, PlanIsNat, RunMoneyAssumption
  <2>4. \/ pc' = "route" /\ UNCHANGED <<held, amount>>
        \/ pc' = "calling" /\ Plan(offer) <= held /\ UNCHANGED <<held, amount>>
        \/ pc' = "calling" /\ held' = Plan(offer) /\ amount' = amount + (Plan(offer) - held)
        \/ pc' = "thrown" /\ held' = held /\ Plan(offer) > held /\ amount' \in {amount, amount + (Plan(offer) - held)}
    BY <1>6, <2>3, <1>a DEF RouteFallback, Missing
  <2> QED
    BY <2>1, <2>2, <2>3, <2>4, <1>a, <1>m
<1>7. CASE Delta
  BY <1>7, <1>a, <1>m DEF Delta
<1>8. CASE Observe
  <2>1. /\ row' = row /\ pc' = pc /\ pc = "calling" /\ streamed /\ streamed' = streamed /\ offer' = offer /\ hold' = hold
        /\ ended' = ended /\ bill' = bill /\ amount' = amount /\ queue' = queue
    BY <1>8 DEF Observe
  <2>2. \/ held' = held /\ pending' = pending
        \/ Step \in Nat /\ held' = held + Step /\ pending' = Step /\ pending = 0
    BY <1>8, <1>a, ObserveEffect
  <2>3. PendingIsHeld' /\ HeldIsCovered'
    BY <2>1, <2>2, <1>a, <1>m
  <2> QED
    BY <2>1, <2>3, <1>m
<1>9. CASE ProviderAnswers
  BY <1>9, <1>a, <1>m DEF ProviderAnswers
<1>10. CASE ProviderFails
  BY <1>10, <1>a, <1>m DEF ProviderFails
<1>11. CASE NextCall
  BY <1>11, <1>a, <1>m DEF NextCall
<1>12. CASE EngineThrows
  BY <1>12, <1>a, <1>m DEF EngineThrows
<1>13. CASE CheckAbort
  BY <1>13, <1>a, <1>m DEF CheckAbort
<1>14. CASE Commit
  BY <1>14, <1>a, <1>m DEF Commit
<1>15. CASE Settle
  BY <1>15, <1>a, <1>m, <1>t, SettleEffect DEF Settle
<1>16. CASE Book
  BY <1>16, <1>a, <1>m DEF Book, NextStep
<1>17. CASE Publish
  BY <1>17, <1>a, <1>m DEF Publish
<1>18. CASE Throw
  BY <1>18, <1>a, <1>m DEF Throw, NextStep
<1>19. CASE CatchRow
  BY <1>19, <1>a, <1>m DEF CatchRow, Outcome
<1>20. CASE CatchMoney
  BY <1>20, <1>a, <1>m, <1>t, SettleEffect, ReleaseEffect DEF CatchMoney, Produced
<1>21. CASE CatchRecord
  BY <1>21, <1>a, <1>m DEF CatchRecord
<1>22. CASE ExtendReturn
  <2>1. /\ row' = row /\ pc' = pc /\ streamed' = streamed /\ offer' = offer /\ hold' = hold /\ output' = output
        /\ answered' = answered /\ ended' = ended /\ bill' = bill /\ queue' = queue /\ pending' = 0
    BY <1>22 DEF ExtendReturn
  <2>2. \/ held' = held /\ amount' = amount + pending
        \/ held' = held - pending /\ amount' \in {amount, amount + pending}
    BY <1>22 DEF ExtendReturn
  <2>3. PendingIsHeld' /\ HeldIsCovered' /\ amount' >= amount
    BY <2>1, <2>2, <1>a, <1>m
  <2>4. CallCovered'
    BY <2>1, <2>3, <1>a, <1>m, <1>t, PlanIsNat, RunMoneyAssumption DEF TypeOK
  <2> QED
    BY <2>1, <2>3, <2>4, <1>m
<1>23. CASE Expire
  BY <1>23, <1>a, <1>m DEF Expire
<1>24. CASE CancelRead \/ CancelUpdate \/ CancelSignal \/ Drain
  BY <1>24, <1>a, <1>m DEF CancelRead, CancelUpdate, CancelSignal, Drain
<1>25. CASE Restart
  <2>1. pc' = "dead" /\ streamed' = FALSE /\ hold' = FALSE /\ held' = 0 /\ pending' = 0 /\ ended' = "open"
        /\ output' = output /\ answered' = answered /\ bill' = bill
    BY <1>25 DEF Restart
  <2> QED
    BY <2>1, <1>m
<1>26. CASE SettleQueue
  BY <1>26, <1>a, <1>m DEF SettleQueue, QueueSend, QueueReplyLost, QueueSent, QueueSentFails
<1>27. CASE UNCHANGED vars
  BY <1>27, <1>m DEF vars
<1> QED
  BY <1>1, <1>2, <1>3, <1>4, <1>5, <1>6, <1>7, <1>8, <1>9, <1>10, <1>11, <1>12, <1>13, <1>14, <1>15, <1>16,
     <1>17, <1>18, <1>19, <1>20, <1>21, <1>22, <1>23, <1>24, <1>25, <1>26, <1>27 DEF Next, Execute

---------------------------------------------------------------------------------
LEMMA MoneyHolds == Spec => []MoneyInv
BY InitMoney, StepMoney, PTL DEF Spec

(* Types.                                                                  *)
THEOREM TypeCorrect == Spec => []TypeOK
<1>1. MoneyInv => TypeOK
  BY DEF MoneyInv
<1> QED
  BY <1>1, MoneyHolds, PTL

(* credits.js onRoute(): no managed provider is called before Billing      *)
(* holds the worst case of its offer, over every chain of fallbacks.       *)
THEOREM CallsAreCovered == Spec => []CallCovered
<1>1. MoneyInv => CallCovered
  BY DEF MoneyInv
<1> QED
  BY <1>1, MoneyHolds, PTL

(* credits.js maybeExtend(): the session never believes in more than       *)
(* Billing holds and the extension in flight adds.                         *)
THEOREM HeldHolds == Spec => []HeldIsCovered
<1>1. MoneyInv => HeldIsCovered
  BY DEF MoneyInv
<1> QED
  BY <1>1, MoneyHolds, PTL

(* runs.js, the catch of execute(): no hold is given back for a run that   *)
(* produced anything.                                                      *)
THEOREM ReleasesUnused == Spec => []ReleasedUnused
<1>1. MoneyInv => ReleasedUnused
  BY DEF MoneyInv
<1> QED
  BY <1>1, MoneyHolds, PTL

(* runs.js, the success path of execute(): a committed answer is settled,  *)
(* or its settle has a row or was lost in writing one, unless the process  *)
(* died before it.                                                         *)
THEOREM AnswersArePaid == Spec => []AnswerIsPaid
<1>1. MoneyInv => AnswerIsPaid
  BY DEF MoneyInv, SettledOrQueued, AnswerIsPaid
<1> QED
  BY <1>1, MoneyHolds, PTL

==================================================================================
