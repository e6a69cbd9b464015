------------------------------- MODULE BenchRatings ------------------------------
(***************************************************************************)
(* Bench's ratings as routing evidence (server/bench/): Events delivers    *)
(* bench.rating.changed, again when it saw no answer and in no order; an   *)
(* event that carries no rating is filled from Bench's board, and the      *)
(* model's row is upserted once per event, by the event's time.  One model *)
(* on one board: a rating is known by the time it was measured at, and the *)
(* n-th event announces the n-th rating.                                   *)
(***************************************************************************)
EXTENDS Naturals, FiniteSets

CONSTANTS Ratings,      \* the times Bench measures the model at: 1..n
          Sparse,       \* the events that carry no rating
          Deliveries    \* the deliveries that may be under way together

ASSUME RatingConstants == IsFiniteSet(Ratings) /\ Ratings = 1..Cardinality(Ratings) /\ Sparse \subseteq Ratings

(* The seller the row is of: known while exactly one provider offers the   *)
(* model.                                                                  *)
Sellers == {"the one", "unknown"}
NoRating == [rating |-> 0, cost |-> 0, at |-> 0]

VARIABLES measured,    \* at Bench: the newest rating, on its board and announced
          several,     \* in the registry: whether several providers offer the model
          ratingRows,  \* bench_evidence, of each seller
          inbox,       \* bench_event_inbox: the events applied
          deliveries,  \* of each: its step, its event, what it fetched
          applied      \* history: of each seller, the events whose write reached its row
ratingVars == <<measured, several, ratingRows, inbox, deliveries, applied>>

NoDelivery == [step |-> "idle"]

RatingInit ==
    /\ measured = 0 /\ several = FALSE
    /\ ratingRows = [s \in Sellers |-> NoRating]
    /\ inbox = {}
    /\ deliveries = [d \in Deliveries |-> NoDelivery]
    /\ applied = [s \in Sellers |-> {}]

Measure ==
    /\ measured + 1 \in Ratings /\ measured' = measured + 1
    /\ UNCHANGED <<several, ratingRows, inbox, deliveries, applied>>

ModelIsListed ==
    /\ ~several /\ several' = TRUE
    /\ UNCHANGED <<measured, ratingRows, inbox, deliveries, applied>>

(* Events delivers an event, or delivers it again; one applied already is  *)
(* answered at once.                                                       *)
Deliver(d) ==
    /\ deliveries[d].step = "idle"
    /\ \E event \in 1..measured :
        /\ event \notin inbox
        /\ deliveries' = [deliveries EXCEPT ![d] =
               [step |-> IF event \in Sparse THEN "elo" ELSE "cost", event |-> event,
                rating |-> IF event \in Sparse THEN 0 ELSE event]]
    /\ UNCHANGED <<measured, several, ratingRows, inbox, applied>>

(* hydrate(): the board's newest rating, without which the delivery fails  *)
(* and Events tries again.                                                 *)
FetchRating(d) ==
    /\ deliveries[d].step = "elo"
    /\ \/ deliveries' = [deliveries EXCEPT ![d] = [@ EXCEPT !.step = "cost", !.rating = measured]]
       \/ deliveries' = [deliveries EXCEPT ![d] = NoDelivery]
    /\ UNCHANGED <<measured, several, ratingRows, inbox, applied>>

(* The board's cost, or none when it cannot be read; the sellers are read  *)
(* from the registry after it, and a failing read knows none.              *)
FetchCost(d) ==
    /\ deliveries[d].step = "cost"
    /\ \E cost \in {0, measured}, seller \in IF several THEN {"unknown"} ELSE Sellers :
        deliveries' = [deliveries EXCEPT ![d] =
            [step |-> "apply", event |-> @.event, rating |-> @.rating, cost |-> cost, seller |-> seller]]
    /\ UNCHANGED <<measured, several, ratingRows, inbox, applied>>

(* Mutant: the last delivery wins.                                         *)
Upserted_LastWins(old, new) == [new EXCEPT !.cost = IF @ = 0 THEN old.cost ELSE @]

(* The upsert: an older event changes nothing, and no cost keeps the old.  *)
Upserted(old, new) ==
    IF new.at < old.at THEN old ELSE [new EXCEPT !.cost = IF @ = 0 THEN old.cost ELSE @]

(* once(): the receipt and the row in one transaction, unless the receipt  *)
(* of another delivery is there.                                           *)
ApplyEvent(d) ==
    LET at == deliveries[d] IN
    /\ at.step = "apply"
    /\ deliveries' = [deliveries EXCEPT ![d] = NoDelivery]
    /\ inbox' = inbox \cup {at.event}
    /\ IF at.event \in inbox
       THEN UNCHANGED <<ratingRows, applied>>
       ELSE /\ ratingRows' = [ratingRows EXCEPT ![at.seller] =
                   Upserted(@, [rating |-> at.rating, cost |-> at.cost, at |-> at.event])]
            /\ applied' = [applied EXCEPT ![at.seller] = @ \cup {at.event}]
    /\ UNCHANGED <<measured, several>>

(* The process dies, or a statement fails: Events tries again.             *)
DeliveryFails(d) ==
    /\ deliveries[d].step # "idle"
    /\ deliveries' = [deliveries EXCEPT ![d] = NoDelivery]
    /\ UNCHANGED <<measured, several, ratingRows, inbox, applied>>

RatingNext ==
    \/ Measure \/ ModelIsListed
    \/ \E d \in Deliveries : Deliver(d) \/ FetchRating(d) \/ FetchCost(d) \/ ApplyEvent(d) \/ DeliveryFails(d)
RatingSpec == RatingInit /\ [][RatingNext]_ratingVars

---------------------------------------------------------------------------------
(* Properties.                                                             *)

RatingTypeOK ==
    /\ measured \in {0} \cup Ratings /\ several \in BOOLEAN /\ inbox \subseteq Ratings
    /\ ratingRows \in [Sellers -> [rating : {0} \cup Ratings, cost : {0} \cup Ratings, at : {0} \cup Ratings]]
    /\ \A d \in Deliveries : deliveries[d].step \in {"idle", "elo", "cost", "apply"}

(* A route that learns from Bench reads no rating older than one it was    *)
(* told of: whatever was delivered late, twice, together or in the wrong   *)
(* order, a row's rating is at least as new as every event applied to it.  *)
NewestRating == \A s \in Sellers : \A event \in applied[s] : ratingRows[s].rating >= event
==================================================================================
