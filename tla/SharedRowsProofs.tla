----------------------------- MODULE SharedRowsProofs ----------------------------
(***************************************************************************)
(* Theorems about the small parts of the service in which requests or      *)
(* processes read a row, await and write it over each other: the ratings   *)
(* Events delivers (BenchRatings), the incumbent of a route                *)
(* (RouteIncumbents), a person's key (Credentials), the versions of the    *)
(* registry (RegistryVersions), the memory of a person (MemoryStore), the  *)
(* offers of the community (CommunityOffers) and free use (FreeUse).  Each *)
(* is proved for every number of requests and of processes.                *)
(***************************************************************************)
EXTENDS BenchRatings, RouteIncumbents, Credentials, RegistryVersions, MemoryStore,
        CommunityOffers, FreeUse, Totals

---------------------------------------------------------------------------------
(* The ratings Events delivers.                                            *)

Times      == {0} \cup Ratings
RatingRows == [rating : Times, cost : Times, at : Times]

(* What a delivery fetched is no older than the event it is of.            *)
GoodDelivery(x) ==
    \/ x = NoDelivery
    \/ x \in [step : {"elo"}, event : 1..measured, rating : {0}]
    \/ x \in [step : {"cost"}, event : 1..measured, rating : Ratings] /\ x.rating >= x.event
    \/ x \in [step : {"apply"}, event : 1..measured, rating : Ratings, cost : Times, seller : Sellers] /\ x.rating >= x.event

(* A row is no older than the events applied to it, its rating than it.    *)
GoodRow(row, events) == row.rating >= row.at /\ \A event \in events : row.at >= event

RatingInv == /\ measured \in Times /\ several \in BOOLEAN /\ inbox \subseteq Ratings
             /\ ratingRows \in [Sellers -> RatingRows] /\ applied \in [Sellers -> SUBSET Ratings]
             /\ DOMAIN deliveries = Deliveries
             /\ \A d \in Deliveries : GoodDelivery(deliveries[d])
             /\ \A s \in Sellers : GoodRow(ratingRows[s], applied[s])

LEMMA TimesAre == /\ \A t \in Times : t \in Nat /\ (t > 0 => t \in Ratings)
                  /\ \A t \in Times : 1..t \subseteq Ratings
<1>1. Cardinality(Ratings) \in Nat
  BY RatingConstants, FS_CardinalityType
<1>2. \A t : t \in Ratings <=> t \in Nat /\ 1 <= t /\ t <= Cardinality(Ratings)
  BY <1>1, RatingConstants
<1> QED
  BY <1>1, <1>2 DEF Times

(* One delivery moves; nothing else is touched.                            *)
LEMMA DeliveryMoves ==
    ASSUME RatingInv, NEW d \in Deliveries, NEW x, GoodDelivery(x), deliveries' = [deliveries EXCEPT ![d] = x],
           UNCHANGED <<measured, several, ratingRows, inbox, applied>>
    PROVE  RatingInv'
<1>1. \A c \in Deliveries : GoodDelivery(deliveries'[c])
  BY DEF RatingInv
<1>2. \A c \in Deliveries : GoodDelivery(deliveries[c])'
  BY <1>1 DEF GoodDelivery
<1> QED
  BY <1>2 DEF RatingInv

LEMMA RatingKept == RatingInv /\ [RatingNext]_ratingVars => RatingInv'
<1> SUFFICES ASSUME RatingInv, [RatingNext]_ratingVars PROVE RatingInv'
  OBVIOUS
<1>n. NoDelivery.step = "idle" /\ GoodDelivery(NoDelivery)
  BY DEF NoDelivery, GoodDelivery
<1>1. CASE Measure
  <2>1. measured \in Times /\ measured' \in Times /\ measured' = measured + 1
    BY <1>1 DEF Measure, RatingInv, Times
  <2>2. 1..measured \subseteq 1..measured'
    BY <2>1, TimesAre
  <2>3. \A d \in Deliveries : GoodDelivery(deliveries[d])'
    BY <1>1, <2>2 DEF Measure, RatingInv, GoodDelivery
  <2> QED
    BY <1>1, <2>1, <2>3 DEF Measure, RatingInv
<1>2. CASE ModelIsListed
  BY <1>2 DEF ModelIsListed, RatingInv, GoodDelivery
<1>3. ASSUME NEW d \in Deliveries, Deliver(d) PROVE RatingInv'
  <2>1. PICK event \in 1..measured :
            deliveries' = [deliveries EXCEPT ![d] =
               [step |-> IF event \in Sparse THEN "elo" ELSE "cost", event |-> event,
                rating |-> IF event \in Sparse THEN 0 ELSE event]]
    BY <1>3 DEF Deliver
  <2>2. event \in Ratings /\ event \in Nat
    BY <2>1, TimesAre DEF RatingInv
  <2> DEFINE x == [step |-> IF event \in Sparse THEN "elo" ELSE "cost", event |-> event,
                   rating |-> IF event \in Sparse THEN 0 ELSE event]
  <2>3. GoodDelivery(x)
    BY <2>1, <2>2 DEF GoodDelivery
  <2>4. deliveries' = [deliveries EXCEPT ![d] = x] /\ UNCHANGED <<measured, several, ratingRows, inbox, applied>>
    BY <1>3, <2>1 DEF Deliver
  <2> HIDE DEF x
  <2> QED
    BY <2>3, <2>4, DeliveryMoves
<1>4. ASSUME NEW d \in Deliveries, FetchRating(d) PROVE RatingInv'
  <2> DEFINE y == deliveries[d]
             x == [y EXCEPT !.step = "cost", !.rating = measured]
  <2>1. y \in [step : {"elo"}, event : 1..measured, rating : {0}] /\ measured \in Times
    BY <1>4 DEF FetchRating, RatingInv, GoodDelivery, NoDelivery
  <2>2. measured \in Ratings /\ measured >= y.event
    BY <2>1, TimesAre
  <2>3. GoodDelivery(x)
    BY <2>1, <2>2 DEF GoodDelivery
  <2>4. /\ deliveries' = [deliveries EXCEPT ![d] = x] \/ deliveries' = [deliveries EXCEPT ![d] = NoDelivery]
        /\ UNCHANGED <<measured, several, ratingRows, inbox, applied>>
    BY <1>4 DEF FetchRating
  <2> HIDE DEF x, y
  <2> QED
    BY <1>n, <2>3, <2>4, DeliveryMoves
<1>5. ASSUME NEW d \in Deliveries, FetchCost(d) PROVE RatingInv'
  <2> DEFINE y == deliveries[d]
  <2>1. PICK cost \in {0, measured}, seller \in Sellers :
            deliveries' = [deliveries EXCEPT ![d] =
                [step |-> "apply", event |-> y.event, rating |-> y.rating, cost |-> cost, seller |-> seller]]
    BY <1>5 DEF FetchCost, Sellers
  <2>2. /\ y \in [step : {"cost"}, event : 1..measured, rating : Ratings] /\ y.rating >= y.event
        /\ cost \in Times
    BY <1>5 DEF FetchCost, RatingInv, GoodDelivery, NoDelivery, Times
  <2> DEFINE x == [step |-> "apply", event |-> y.event, rating |-> y.rating, cost |-> cost, seller |-> seller]
  <2>3. GoodDelivery(x)
    BY <2>2 DEF GoodDelivery
  <2>4. deliveries' = [deliveries EXCEPT ![d] = x] /\ UNCHANGED <<measured, several, ratingRows, inbox, applied>>
    BY <1>5, <2>1 DEF FetchCost
  <2> HIDE DEF x
  <2> QED
    BY <2>3, <2>4, DeliveryMoves
<1>6. ASSUME NEW d \in Deliveries, DeliveryFails(d) PROVE RatingInv'
  BY <1>n, <1>6, DeliveryMoves DEF DeliveryFails
<1>7. ASSUME NEW d \in Deliveries, ApplyEvent(d) PROVE RatingInv'
  <2> DEFINE y == deliveries[d]
             s == y.seller
             new == [rating |-> y.rating, cost |-> y.cost, at |-> y.event]
  <2>1. /\ y \in [step : {"apply"}, event : 1..measured, rating : Ratings, cost : Times, seller : Sellers]
        /\ y.rating >= y.event
    BY <1>7 DEF ApplyEvent, RatingInv, GoodDelivery, NoDelivery
  <2>2. s \in Sellers /\ y.event \in Ratings /\ y.event \in Nat /\ y.rating \in Nat /\ new \in RatingRows
    BY <2>1, TimesAre DEF RatingInv, RatingRows, Times
  <2>3. /\ ratingRows[s] \in RatingRows /\ GoodRow(ratingRows[s], applied[s]) /\ applied[s] \subseteq Ratings
    BY <2>2 DEF RatingInv
  <2>4. /\ Upserted(ratingRows[s], new) \in RatingRows
        /\ GoodRow(Upserted(ratingRows[s], new), applied[s] \cup {y.event})
    <3> DEFINE old == ratingRows[s]
    <3>1. /\ old \in RatingRows /\ old.at \in Nat /\ old.rating \in Nat /\ new.at = y.event /\ new.rating = y.rating
          /\ new \in RatingRows /\ \A event \in applied[s] : event \in Nat
      BY <2>2, <2>3, TimesAre DEF RatingRows, Times
    <3> HIDE DEF old, new, y, s
    <3>2. CASE new.at < old.at
      <4>1. Upserted(old, new) = old
        BY <3>2 DEF Upserted
      <4> QED
        BY <2>2, <2>3, <3>1, <3>2, <4>1 DEF GoodRow, old
    <3>3. CASE ~(new.at < old.at)
      <4> DEFINE cost == IF new.cost = 0 THEN old.cost ELSE new.cost
      <4>1. cost \in Times /\ Upserted(old, new) = [new EXCEPT !.cost = cost]
        BY <3>1, <3>3 DEF Upserted, RatingRows
      <4> HIDE DEF cost
      <4>2. /\ Upserted(old, new) \in RatingRows
            /\ Upserted(old, new).at = new.at /\ Upserted(old, new).rating = new.rating
        BY <3>1, <4>1 DEF RatingRows
      <4> QED
        BY <2>1, <2>2, <2>3, <3>1, <3>3, <4>2 DEF GoodRow, old
    <3> QED
      BY <3>2, <3>3 DEF old
  <2>5. /\ deliveries' = [deliveries EXCEPT ![d] = NoDelivery] /\ inbox' = inbox \cup {y.event}
        /\ UNCHANGED <<measured, several>>
        /\ \/ UNCHANGED <<ratingRows, applied>>
           \/ /\ ratingRows' = [ratingRows EXCEPT ![s] = Upserted(@, new)]
              /\ applied' = [applied EXCEPT ![s] = @ \cup {y.event}]
    BY <1>7 DEF ApplyEvent
  <2> HIDE DEF y, s, new
  <2>6. DOMAIN deliveries' = Deliveries /\ \A c \in Deliveries : GoodDelivery(deliveries[c])'
    <3>1. \A c \in Deliveries : GoodDelivery(deliveries'[c])
      BY <1>n, <2>5 DEF RatingInv
    <3> QED
      BY <2>5, <3>1 DEF GoodDelivery, RatingInv
  <2>7. /\ ratingRows' \in [Sellers -> RatingRows] /\ applied' \in [Sellers -> SUBSET Ratings]
        /\ \A t \in Sellers : GoodRow(ratingRows'[t], applied'[t])
    BY <2>2, <2>4, <2>5 DEF RatingInv
  <2> QED
    BY <2>2, <2>5, <2>6, <2>7 DEF RatingInv
<1>8. CASE UNCHANGED ratingVars
  BY <1>8 DEF ratingVars, RatingInv, GoodDelivery
<1> QED
  BY <1>1, <1>2, <1>3, <1>4, <1>5, <1>6, <1>7, <1>8 DEF RatingNext

(* Whatever Events delivers late, twice, together or in the wrong order,   *)
(* and whatever the board says in between, a row never holds a rating      *)
(* older than an event that was applied to it.                             *)
THEOREM RatingsAreNewest == RatingSpec => [](RatingTypeOK /\ NewestRating)
<1>1. RatingInit => RatingInv
  <2>1. 0 \in Times /\ NoRating \in RatingRows /\ GoodRow(NoRating, {})
    BY DEF Times, RatingRows, NoRating, GoodRow
  <2> QED
    BY <2>1 DEF RatingInit, RatingInv, GoodDelivery
<1>2. RatingInv => NewestRating
  <2> SUFFICES ASSUME RatingInv, NEW s \in Sellers, NEW event \in applied[s] PROVE ratingRows[s].rating >= event
    BY DEF NewestRating
  <2>1. /\ ratingRows[s].rating \in Nat /\ ratingRows[s].at \in Nat /\ event \in Nat
        /\ ratingRows[s].rating >= ratingRows[s].at /\ ratingRows[s].at >= event
    BY TimesAre DEF RatingInv, RatingRows, Times, GoodRow
  <2> QED
    BY <2>1
<1>3. RatingInv => RatingTypeOK
  BY DEF RatingInv, RatingTypeOK, RatingRows, Times, GoodDelivery, NoDelivery
<1> QED
  BY <1>1, <1>2, <1>3, RatingKept, PTL DEF RatingSpec

---------------------------------------------------------------------------------
(* The incumbent of a route.                                               *)

Places        == RouteOffers \cup {NoIncumbent}
IncumbentRows == [offer : Places, challenger : Places, streak : 0..(StreakToSwitch - 1)]
GoodDecision(x) ==
    \/ x = [step |-> "idle"]
    \/ x \in [step : {"read"}, pool : SUBSET RouteOffers, choice : RouteOffers]
    \/ x \in [step : {"write"}, pool : SUBSET RouteOffers, choice : RouteOffers, row : IncumbentRows]
    \/ x \in [step : {"done"}, choice : RouteOffers]

(* The streak of a row, however stale, counts requests that were written.  *)
Backed(row) == row.streak <= Cardinality(Backers(row.challenger))

IncumbentInv ==
    /\ incumbent \in IncumbentRows /\ Backed(incumbent)
    /\ DOMAIN decisions = RouteRequests /\ DOMAIN switches = RouteRequests
    /\ \A r \in RouteRequests : /\ GoodDecision(decisions[r])
                                /\ decisions[r].step = "write" => Backed(decisions[r].row)
                                /\ switches[r] = "earned" => decisions[r].step = "done"
    /\ SwitchIsEarned

LEMMA StreaksAre == StreakToSwitch \in Nat \ {0} /\ 0 \in 0..(StreakToSwitch - 1)
BY IncumbentConstants

LEMMA BackersAre == \A offer : /\ IsFiniteSet(Backers(offer)) /\ Cardinality(Backers(offer)) \in Nat
                               /\ IsFiniteSet(Backers(offer))' /\ Cardinality(Backers(offer))' \in Nat
<1> SUFFICES ASSUME NEW offer
             PROVE  /\ IsFiniteSet(Backers(offer)) /\ Cardinality(Backers(offer)) \in Nat
                    /\ IsFiniteSet(Backers(offer))' /\ Cardinality(Backers(offer))' \in Nat
  OBVIOUS
<1>1. Backers(offer) \subseteq RouteRequests /\ Backers(offer)' \subseteq RouteRequests
  BY DEF Backers
<1> QED
  BY <1>1, IncumbentConstants, FS_Subset, FS_CardinalityType

(* Choices that are written stay: no offer ever has fewer.                 *)
LEMMA BackersStay ==
    ASSUME \A r \in RouteRequests : decisions[r].step = "done" => decisions'[r] = decisions[r]
    PROVE  \A offer : Cardinality(Backers(offer)) <= Cardinality(Backers(offer))'
<1> SUFFICES ASSUME NEW offer PROVE Cardinality(Backers(offer)) <= Cardinality(Backers(offer))'
  OBVIOUS
<1>1. Backers(offer) \subseteq Backers(offer)'
  BY DEF Backers
<1> QED
  BY <1>1, BackersAre, FS_Subset

(* The choice that is written now counts as one more.                      *)
LEMMA BackerJoins ==
    ASSUME NEW r \in RouteRequests, decisions[r].step # "done", DOMAIN decisions = RouteRequests,
           NEW choice, decisions' = [decisions EXCEPT ![r] = [step |-> "done", choice |-> choice]]
    PROVE  Cardinality(Backers(choice))' = Cardinality(Backers(choice)) + 1
<1>1. Backers(choice)' = Backers(choice) \cup {r} /\ r \notin Backers(choice)
  BY DEF Backers
<1> QED
  BY <1>1, BackersAre, FS_AddElement

(* A request chooses or reads.                                             *)
LEMMA DecisionMoves ==
    ASSUME IncumbentInv, NEW r \in RouteRequests, NEW x, GoodDecision(x), x.step \in {"read", "write"},
           decisions[r].step \in {"idle", "read"}, x.step = "write" => x.row = incumbent,
           decisions' = [decisions EXCEPT ![r] = x], UNCHANGED <<incumbent, switches>>
    PROVE  IncumbentInv'
<1>1. \A s \in RouteRequests : decisions[s].step = "done" => decisions'[s] = decisions[s]
  BY DEF IncumbentInv
<1>2. \A offer : Backers(offer)' = Backers(offer)
  BY DEF IncumbentInv, Backers
<1>3. \A row : Backed(row)' <=> Backed(row)
  BY <1>2 DEF Backed
<1>4. SwitchIsEarned'
  BY <1>1, <1>2 DEF IncumbentInv, SwitchIsEarned
<1> QED
  BY <1>1, <1>3, <1>4 DEF IncumbentInv

LEMMA WriteKeeps == ASSUME IncumbentInv, NEW r \in RouteRequests, WriteIncumbent(r) PROVE IncumbentInv'
<1>1. /\ decisions[r] \in [step : {"write"}, pool : SUBSET RouteOffers, choice : RouteOffers, row : IncumbentRows]
      /\ Backed(decisions[r].row) /\ switches[r] # "earned"
  BY DEF WriteIncumbent, IncumbentInv, GoodDecision
<1>2. PICK choice \in RouteOffers, row \in IncumbentRows : choice = decisions[r].choice /\ row = decisions[r].row
  BY <1>1
<1> DEFINE streak == StreakOf(row, choice)
           x == [step |-> "done", choice |-> choice]
<1>3. /\ decisions' = [decisions EXCEPT ![r] = x]
      /\ decisions'[r] = x /\ \A s \in RouteRequests : s # r => decisions'[s] = decisions[s]
  BY <1>1, <1>2 DEF WriteIncumbent, IncumbentInv
<1>4. row.offer \in Places /\ row.challenger \in Places /\ row.streak \in Nat /\ streak \in Nat
  <2>1. row.offer \in Places /\ row.challenger \in Places /\ row.streak \in 0..(StreakToSwitch - 1)
    BY DEF IncumbentRows
  <2> QED
    BY <2>1, StreaksAre DEF StreakOf
<1>5. \A offer : /\ Cardinality(Backers(offer)) <= Cardinality(Backers(offer))'
                 /\ Cardinality(Backers(offer)) \in Nat /\ Cardinality(Backers(offer))' \in Nat
  BY <1>1, <1>3, BackersStay, BackersAre
<1>6. Cardinality(Backers(choice))' = Cardinality(Backers(choice)) + 1
  BY <1>1, <1>3, BackerJoins DEF IncumbentInv
(* The streak that is written counts this choice.                          *)
<1>7. streak <= Cardinality(Backers(choice))'
  <2>1. row.streak <= Cardinality(Backers(row.challenger))
    BY <1>1, <1>2 DEF Backed
  <2> QED
    BY <1>4, <1>5, <1>6, <2>1 DEF StreakOf
(* What was backed stays so.                                               *)
<1>8. \A old \in IncumbentRows : Backed(old) => old.streak <= Cardinality(Backers(old.challenger))'
  <2> SUFFICES ASSUME NEW old \in IncumbentRows, Backed(old)
               PROVE  old.streak <= Cardinality(Backers(old.challenger))'
    OBVIOUS
  <2>1. old.streak \in Nat
    <3>1. old.streak \in 0..(StreakToSwitch - 1)
      BY DEF IncumbentRows
    <3> QED
      BY <3>1, StreaksAre
  <2> QED
    BY <1>5, <2>1 DEF Backed
<1>9. PICK new \in IncumbentRows : incumbent' = new /\ new.streak <= Cardinality(Backers(new.challenger))'
  <2>1. CASE incumbent' = Settled(choice) \/ incumbent' = Settled(row.offer)
    <3>1. PICK offer \in Places : incumbent' = Settled(offer)
      BY <1>4, <2>1 DEF Places
    <3>2. Settled(offer) \in IncumbentRows /\ Settled(offer).streak = 0
      BY StreaksAre DEF Settled, Row, IncumbentRows, Places
    <3>3. PICK new \in IncumbentRows : new = Settled(offer)
      BY <3>2
    <3>4. 0 <= Cardinality(Backers(new.challenger))'
      BY <1>5
    <3> QED
      BY <3>1, <3>2, <3>3, <3>4
  <2>2. CASE streak < StreakToSwitch /\ incumbent' = Row(row.offer, choice, streak)
    <3>1. Row(row.offer, choice, streak) \in IncumbentRows
      BY <1>4, <2>2, StreaksAre DEF Row, IncumbentRows, Places
    <3>2. PICK new \in IncumbentRows : new = Row(row.offer, choice, streak)
      BY <3>1
    <3>3. new.challenger = choice /\ new.streak = streak
      BY <3>2 DEF Row
    <3>4. new.streak <= Cardinality(Backers(new.challenger))'
      BY <1>7, <3>3
    <3> QED
      BY <2>2, <3>2, <3>4
  <2> QED
    BY <1>2, <2>1, <2>2 DEF WriteIncumbent
<1>10. Backed(incumbent)'
  BY <1>9 DEF Backed, Backers
<1>11. ASSUME NEW s \in RouteRequests
       PROVE  /\ GoodDecision(decisions'[s])
              /\ decisions'[s].step = "write" => s # r /\ decisions'[s] = decisions[s]
  BY <1>3 DEF IncumbentInv, GoodDecision
<1>12. ASSUME NEW s \in RouteRequests, decisions'[s].step = "write" PROVE Backed(decisions[s].row)'
  <2>1. decisions'[s] = decisions[s] /\ decisions[s].step = "write"
    BY <1>11, <1>12
  <2>2. PICK old \in IncumbentRows : old = decisions[s].row
    BY <2>1 DEF IncumbentInv, GoodDecision
  <2>3. old.streak <= Cardinality(Backers(old.challenger))'
    BY <1>8, <2>1, <2>2 DEF IncumbentInv
  <2> QED
    BY <2>1, <2>2, <2>3 DEF Backed, Backers
(* Who switched still has its backers; r has them when it does.            *)
<1>13. ASSUME NEW s \in RouteRequests, switches'[s] = "earned"
       PROVE  /\ decisions'[s].step = "done"
              /\ Cardinality(Backers(decisions[s].choice))' >= StreakToSwitch
  <2>1. CASE s = r
    <3>1. streak >= StreakToSwitch
      BY <1>1, <1>2, <1>13, <2>1 DEF WriteIncumbent, IncumbentInv
    <3>2. Cardinality(Backers(choice))' >= StreakToSwitch
      BY <1>4, <1>5, <1>7, <3>1, StreaksAre
    <3> QED
      BY <1>3, <2>1, <3>2 DEF Backers
  <2>2. CASE s # r
    <3>1. switches[s] = "earned" /\ decisions'[s] = decisions[s]
      BY <1>3, <1>13, <2>2 DEF WriteIncumbent, IncumbentInv
    <3>2. decisions[s].step = "done" /\ Cardinality(Backers(decisions[s].choice)) >= StreakToSwitch
      BY <3>1 DEF IncumbentInv, SwitchIsEarned
    <3>3. PICK other : other = decisions[s].choice
      OBVIOUS
    <3>4. Cardinality(Backers(other)) >= StreakToSwitch
      BY <3>2, <3>3
    <3>5. Cardinality(Backers(other))' >= StreakToSwitch
      BY <1>5, <3>4, StreaksAre
    <3> QED
      BY <3>1, <3>2, <3>3, <3>5 DEF Backers
  <2> QED
    BY <2>1, <2>2
<1>14. DOMAIN decisions' = RouteRequests /\ DOMAIN switches' = RouteRequests
  BY <1>3 DEF WriteIncumbent, IncumbentInv
<1> QED
  BY <1>9, <1>10, <1>11, <1>12, <1>13, <1>14 DEF IncumbentInv, SwitchIsEarned

LEMMA IncumbentKept == IncumbentInv /\ [IncumbentNext]_incumbentVars => IncumbentInv'
<1> SUFFICES ASSUME IncumbentInv, [IncumbentNext]_incumbentVars PROVE IncumbentInv'
  OBVIOUS
<1>1. ASSUME NEW r \in RouteRequests, Choose(r) PROVE IncumbentInv'
  <2>1. PICK pool \in SUBSET RouteOffers, choice \in RouteOffers :
            decisions' = [decisions EXCEPT ![r] = [step |-> "read", pool |-> pool, choice |-> choice]]
    BY <1>1 DEF Choose
  <2>2. GoodDecision([step |-> "read", pool |-> pool, choice |-> choice])
    BY DEF GoodDecision
  <2> QED
    BY <1>1, <2>1, <2>2, DecisionMoves DEF Choose
<1>2. ASSUME NEW r \in RouteRequests, ReadIncumbent(r) PROVE IncumbentInv'
  <2>1. decisions[r] \in [step : {"read"}, pool : SUBSET RouteOffers, choice : RouteOffers] /\ incumbent \in IncumbentRows
    BY <1>2 DEF ReadIncumbent, IncumbentInv, GoodDecision
  <2> DEFINE x == [step |-> "write", pool |-> decisions[r].pool, choice |-> decisions[r].choice, row |-> incumbent]
  <2>2. GoodDecision(x) /\ x.step = "write" /\ x.row = incumbent
    BY <2>1 DEF GoodDecision
  <2>3. decisions' = [decisions EXCEPT ![r] = x] /\ UNCHANGED <<incumbent, switches>> /\ decisions[r].step = "read"
    BY <1>2 DEF ReadIncumbent
  <2> HIDE DEF x
  <2> QED
    BY <2>2, <2>3, DecisionMoves
<1>3. CASE UNCHANGED incumbentVars
  BY <1>3 DEF incumbentVars, IncumbentInv, SwitchIsEarned, Backed, Backers, GoodDecision
<1> QED
  BY <1>1, <1>2, <1>3, WriteKeeps DEF IncumbentNext

(* Hysteresis holds for every number of concurrent requests and every      *)
(* streak: lost and stale writes of the row never count a choice twice.    *)
THEOREM SwitchesAreEarned == IncumbentSpec => [](IncumbentTypeOK /\ SwitchIsEarned)
<1>1. IncumbentInit => IncumbentInv
  <2> SUFFICES ASSUME IncumbentInit PROVE IncumbentInv
    OBVIOUS
  <2>1. PICK offer \in Places : incumbent = Settled(offer)
    BY DEF IncumbentInit, Places
  <2>2. incumbent \in IncumbentRows /\ incumbent.streak = 0
    BY <2>1, StreaksAre DEF Settled, Row, IncumbentRows, Places
  <2>3. Backed(incumbent)
    BY <2>2, BackersAre DEF Backed
  <2> QED
    BY <2>2, <2>3 DEF IncumbentInit, IncumbentInv, GoodDecision, SwitchIsEarned
<1>2. IncumbentInv => IncumbentTypeOK /\ SwitchIsEarned
  BY DEF IncumbentInv, IncumbentTypeOK, IncumbentRows, Places, GoodDecision
<1> QED
  BY <1>1, <1>2, IncumbentKept, PTL DEF IncumbentSpec

---------------------------------------------------------------------------------
(* A person's key.                                                         *)

KeyRunSteps == {"idle", "queued", "resolve", "ask", "allowed", "self", "open", "call", "ended"}
AnyKey      == Keys \cup {NoKeyValue}
Seals       == {"none", "v1", "v2"}
KeyRunRows  == [step : KeyRunSteps, key : AnyKey, seal : Seals, of : Owners \cup {"none"}]

KeyTypes ==
    /\ credentialRows \in [Owners -> KeyRow] /\ latestKey \in [Owners -> AnyKey]
    /\ keyRuns \in [KeyRuns -> KeyRunRows]
    /\ putting \in [owner : Owners \cup {"none"}, key : AnyKey]
    /\ putting # NotPutting => putting.owner \in Owners
    /\ \A r \in KeyRuns : keyRuns[r].step \in {"open", "call"} => keyRuns[r].of \in Owners

(* Nobody writes the old format: what a run read in it is what is there.   *)
OldIsUnchanged ==
    \A r \in KeyRuns : \A o \in Owners :
        keyRuns[r].step = "open" /\ keyRuns[r].of = o /\ keyRuns[r].seal = "v1" /\ credentialRows[o].seal = "v1"
            => keyRuns[r].key = credentialRows[o].key

(* While it looks for the key a run notices the grant that stands.         *)
NoticesGrant ==
    \A r \in KeyRuns : /\ granted /\ r \in LookingUp => r \in consented \cup raced
                       /\ keyRuns[r].step = "self" => r \in consented \cup raced

KeyInv == KeyTypes /\ KeyIsLatest /\ UsedWithConsent /\ OldIsUnchanged /\ NoticesGrant

(* A run takes a step, and no row changes.                                 *)
LEMMA RunSteps ==
    ASSUME KeyInv, NEW r \in KeyRuns, NEW x \in KeyRunRows, keyRuns' = [keyRuns EXCEPT ![r] = x],
           UNCHANGED <<credentialRows, granted, putting, latestKey>>,
           consented \subseteq consented', raced \subseteq raced',
           x.step \in {"open", "call"} => x.of \in Owners,
           x.step = "open" => x.key = credentialRows[x.of].key,
           x.step \in {"resolve", "ask", "allowed"} /\ granted => r \in consented' \cup raced',
           x.step = "self" \/ (x.step \in {"open", "call"} /\ x.of = "self") => r \in consented' \cup raced'
    PROVE  KeyInv'
<1>1. KeyTypes'
  BY DEF KeyInv, KeyTypes
<1>2. KeyIsLatest'
  BY DEF KeyInv, KeyIsLatest
<1>3. UsedWithConsent'
  BY DEF KeyInv, KeyTypes, UsedWithConsent, OpensSelf
<1>4. OldIsUnchanged'
  BY DEF KeyInv, KeyTypes, OldIsUnchanged
<1>5. NoticesGrant'
  BY DEF KeyInv, KeyTypes, NoticesGrant, LookingUp
<1> QED
  BY <1>1, <1>2, <1>3, <1>4, <1>5 DEF KeyInv

(* A row is written, in the new format, and the runs stay where they are.  *)
LEMMA RowWritten ==
    ASSUME KeyInv, NEW o \in Owners, NEW row \in KeyRow, row.seal # "v1",
           credentialRows' = [credentialRows EXCEPT ![o] = row],
           UNCHANGED <<granted, keyRuns, consented>>,
           latestKey' \in [Owners -> AnyKey], \A q \in Owners : q # o => latestKey'[q] = latestKey[q],
           raced \subseteq raced', row.key = latestKey'[o] \/ o \in raced',
           putting' \in [owner : Owners \cup {"none"}, key : AnyKey], putting' # NotPutting => putting'.owner \in Owners
    PROVE  KeyInv'
<1>1. KeyTypes'
  BY DEF KeyInv, KeyTypes
<1>2. KeyIsLatest'
  BY DEF KeyInv, KeyTypes, KeyIsLatest
<1>3. UsedWithConsent'
  BY DEF KeyInv, UsedWithConsent, OpensSelf
<1>4. OldIsUnchanged'
  BY DEF KeyInv, KeyTypes, OldIsUnchanged
<1>5. NoticesGrant'
  BY DEF KeyInv, NoticesGrant, LookingUp
<1> QED
  BY <1>1, <1>2, <1>3, <1>4, <1>5 DEF KeyInv

LEMMA OwnerActs ==
    ASSUME KeyInv, [\/ \E o \in Owners : (\E k \in Keys : PutKey(o, k)) \/ KeylessPutReads(o) \/ DeleteKey(o)
                    \/ KeylessPutWrites \/ Grant \/ Withdraw]_credentialVars
    PROVE  KeyInv'
<1>t. KeyTypes /\ KeyIsLatest
  BY DEF KeyInv
<1>1. ASSUME NEW o \in Owners, NEW k \in Keys, PutKey(o, k) PROVE KeyInv'
  <2>1. [key |-> k, seal |-> "v2"] \in KeyRow /\ latestKey'[o] = k
    BY <1>t, <1>1 DEF KeyRow, PutKey, KeyTypes
  <2>2. latestKey' \in [Owners -> AnyKey] /\ \A q \in Owners : q # o => latestKey'[q] = latestKey[q]
    BY <1>t, <1>1 DEF PutKey, KeyTypes, AnyKey
  <2> QED
    BY <1>t, <1>1, <2>1, <2>2, RowWritten DEF PutKey, KeyTypes
<1>2. ASSUME NEW o \in Owners, KeylessPutReads(o) PROVE KeyInv'
  <2>1. credentialRows[o].key \in AnyKey
    BY <1>t DEF KeyTypes, KeyRow, AnyKey
  <2> QED
    BY <1>2, <2>1 DEF KeylessPutReads, KeyInv, KeyTypes, KeyIsLatest, UsedWithConsent, OpensSelf,
       OldIsUnchanged, NoticesGrant, LookingUp
<1>3. ASSUME NEW o \in Owners, DeleteKey(o) PROVE KeyInv'
  <2>1. NoRow \in KeyRow /\ NoRow.seal # "v1" /\ NoRow.key = NoKeyValue
    BY DEF KeyRow, NoRow
  <2>2. /\ latestKey' \in [Owners -> AnyKey] /\ latestKey'[o] = NoKeyValue
        /\ \A q \in Owners : q # o => latestKey'[q] = latestKey[q]
    BY <1>t, <1>3 DEF DeleteKey, KeyTypes, AnyKey
  <2> QED
    BY <1>t, <1>3, <2>1, <2>2, RowWritten DEF DeleteKey, KeyTypes
<1>4. CASE KeylessPutWrites
  <2>1. PICK o \in Owners : o = putting.owner
    BY <1>t, <1>4 DEF KeylessPutWrites, KeyTypes
  <2>2. [key |-> putting.key, seal |-> "v2"] \in KeyRow
    BY <1>t DEF KeyTypes, KeyRow, AnyKey
  <2>3. NotPutting \in [owner : Owners \cup {"none"}, key : AnyKey]
    BY DEF NotPutting, AnyKey
  <2>4. raced \subseteq raced' /\ (putting.key = latestKey[o] \/ o \in raced')
    BY <1>4, <2>1 DEF KeylessPutWrites
  <2>5. PICK row \in KeyRow : row = [key |-> putting.key, seal |-> "v2"]
    BY <2>2
  <2> QED
    BY <1>t, <1>4, <2>1, <2>3, <2>4, <2>5, RowWritten DEF KeylessPutWrites, KeyTypes
<1>5. CASE Grant \/ Withdraw
  BY <1>5 DEF Grant, Withdraw, KeyInv, KeyTypes, KeyIsLatest, UsedWithConsent, OpensSelf,
     OldIsUnchanged, NoticesGrant, LookingUp
<1>6. CASE UNCHANGED credentialVars
  BY <1>6 DEF credentialVars, KeyInv, KeyTypes, KeyIsLatest, UsedWithConsent, OpensSelf,
     OldIsUnchanged, NoticesGrant, LookingUp
<1> QED
  BY <1>1, <1>2, <1>3, <1>4, <1>5, <1>6

LEMMA RunActs ==
    ASSUME KeyInv, NEW r \in KeyRuns,
           \/ AdmitKeyRun(r) \/ LookForRow(r) \/ ResolveRow(r) \/ FindSelf(r)
           \/ AskGrant(r) \/ TakeSelf(r) \/ EndKeyRun(r)
    PROVE  KeyInv'
<1> DEFINE y == keyRuns[r]
           over == [NoRun EXCEPT !.step = "ended"]
<1>t. /\ KeyTypes /\ NoticesGrant /\ y \in KeyRunRows
      /\ \A step \in KeyRunSteps : /\ [y EXCEPT !.step = step] \in KeyRunRows
                                   /\ [y EXCEPT !.step = step].step = step
                                   /\ [y EXCEPT !.step = step].key = y.key /\ [y EXCEPT !.step = step].of = y.of
  BY DEF KeyInv, KeyTypes, KeyRunRows
<1>o. over \in KeyRunRows /\ over.step = "ended"
  BY DEF NoRun, KeyRunRows, KeyRunSteps, AnyKey, Seals
<1>k. \A o \in Owners : credentialRows[o].key \in AnyKey /\ credentialRows[o].seal \in Seals
  BY <1>t DEF KeyTypes, KeyRow, AnyKey, Seals
(* Most steps only move on.                                                *)
<1>1. ASSUME NEW step \in KeyRunSteps \ {"open", "call"}, keyRuns' = [keyRuns EXCEPT ![r].step = step],
             UNCHANGED <<credentialRows, granted, putting, latestKey>>,
             consented \subseteq consented', raced \subseteq raced',
             step \in {"resolve", "ask", "allowed"} /\ granted => r \in consented' \cup raced',
             step = "self" => r \in consented' \cup raced'
      PROVE  KeyInv'
  <2> DEFINE x == [y EXCEPT !.step = step]
  <2>1. x \in KeyRunRows /\ x.step = step
    BY <1>t
  <2>2. keyRuns' = [keyRuns EXCEPT ![r] = x]
    BY <1>1, <1>t DEF KeyTypes
  <2> HIDE DEF x, y
  <2> QED
    BY <1>1, <2>1, <2>2, RunSteps
<1>2. CASE AdmitKeyRun(r)
  <2>1. PICK step \in {"queued", "ended"} : keyRuns' = [keyRuns EXCEPT ![r].step = step]
    BY <1>2 DEF AdmitKeyRun, RunTo
  <2> QED
    BY <1>1, <1>2, <2>1 DEF AdmitKeyRun, KeyRunSteps
<1>3. CASE LookForRow(r)
  <2>1. CASE Holds("service")
    <3> DEFINE x == [step |-> "open", key |-> credentialRows["service"].key,
                     seal |-> credentialRows["service"].seal, of |-> "service"]
    <3>1. x \in KeyRunRows
      BY <1>k DEF KeyRunRows, KeyRunSteps, Owners
    <3>2. x.step = "open" /\ x.of = "service" /\ x.key = credentialRows[x.of].key /\ x.of \in Owners
      BY DEF Owners
    <3>3. /\ keyRuns' = [keyRuns EXCEPT ![r] = x]
          /\ UNCHANGED <<credentialRows, granted, putting, latestKey, consented, raced>>
      BY <1>3, <2>1 DEF LookForRow
    <3> HIDE DEF x
    <3> QED
      BY <3>1, <3>2, <3>3, RunSteps
  <2>2. CASE ~Holds("service")
    <3>1. /\ keyRuns' = [keyRuns EXCEPT ![r].step = "resolve"]
          /\ consented' = IF granted THEN consented \cup {r} ELSE consented
          /\ UNCHANGED <<credentialRows, granted, putting, latestKey, raced>>
      BY <1>3, <2>2 DEF LookForRow, RunTo
    <3>2. consented \subseteq consented' /\ (granted => r \in consented')
      BY <3>1
    <3>3. PICK step \in {"resolve"} : keyRuns' = [keyRuns EXCEPT ![r].step = step]
      BY <3>1
    <3> QED
      BY <1>1, <3>1, <3>2, <3>3 DEF KeyRunSteps
  <2> QED
    BY <2>1, <2>2
<1>4. CASE ResolveRow(r)
  <2>0. granted => r \in consented \cup raced
    BY <1>t, <1>4 DEF ResolveRow, RunAt, NoticesGrant, LookingUp
  <2>1. \/ keyRuns' = [keyRuns EXCEPT ![r].step = "self"] /\ raced' = raced \cup {r}
        \/ keyRuns' = [keyRuns EXCEPT ![r].step = "ask"] /\ raced' = raced
    BY <1>4 DEF ResolveRow, RunTo
  <2>2. UNCHANGED <<credentialRows, granted, putting, latestKey, consented>>
    BY <1>4 DEF ResolveRow
  <2> QED
    BY <1>1, <2>0, <2>1, <2>2 DEF KeyRunSteps
<1>5. CASE FindSelf(r)
  <2>0. granted => r \in consented \cup raced
    BY <1>t, <1>5 DEF FindSelf, RunAt, NoticesGrant, LookingUp
  <2>1. PICK step \in {"allowed", "ended"} : keyRuns' = [keyRuns EXCEPT ![r].step = step]
    BY <1>5 DEF FindSelf, RunTo
  <2> QED
    BY <1>1, <1>5, <2>0, <2>1 DEF FindSelf, KeyRunSteps
<1>6. CASE AskGrant(r)
  <2>0. granted => r \in consented \cup raced
    BY <1>t, <1>6 DEF AskGrant, RunAt, NoticesGrant, LookingUp
  <2>1. \/ keyRuns' = [keyRuns EXCEPT ![r].step = "self"] /\ granted
        \/ keyRuns' = [keyRuns EXCEPT ![r].step = "ended"]
    BY <1>6 DEF AskGrant, RunTo
  <2> QED
    BY <1>1, <1>6, <2>0, <2>1 DEF AskGrant, KeyRunSteps
<1>7. CASE TakeSelf(r)
  <2>0. r \in consented \cup raced
    BY <1>t, <1>7 DEF TakeSelf, RunAt, NoticesGrant
  <2>u. UNCHANGED <<credentialRows, granted, putting, latestKey, consented, raced>>
    BY <1>7 DEF TakeSelf
  <2>1. CASE Holds("self")
    <3> DEFINE x == [step |-> "open", key |-> credentialRows["self"].key,
                     seal |-> credentialRows["self"].seal, of |-> "self"]
    <3>1. x \in KeyRunRows
      BY <1>k DEF KeyRunRows, KeyRunSteps, Owners
    <3>2. x.step = "open" /\ x.of = "self" /\ x.key = credentialRows[x.of].key /\ x.of \in Owners
      BY DEF Owners
    <3>3. keyRuns' = [keyRuns EXCEPT ![r] = x]
      BY <1>7, <2>1 DEF TakeSelf
    <3> HIDE DEF x
    <3> QED
      BY <2>0, <2>u, <3>1, <3>2, <3>3, RunSteps
  <2>2. CASE ~Holds("self")
    <3>1. keyRuns' = [keyRuns EXCEPT ![r] = over]
      BY <1>7, <2>2 DEF TakeSelf
    <3> HIDE DEF over
    <3> QED
      BY <1>o, <2>u, <3>1, RunSteps
  <2> QED
    BY <2>1, <2>2
<1>8. CASE EndKeyRun(r)
  <2>1. /\ keyRuns' = [keyRuns EXCEPT ![r] = over]
        /\ UNCHANGED <<credentialRows, granted, putting, latestKey, consented, raced>>
    BY <1>8 DEF EndKeyRun
  <2> HIDE DEF over
  <2> QED
    BY <1>o, <2>1, RunSteps
<1> QED
  BY <1>2, <1>3, <1>4, <1>5, <1>6, <1>7, <1>8

(* A row that is sealed again says what it said, or is another one by now. *)
LEMMA OpenActs == ASSUME KeyInv, NEW r \in KeyRuns, OpenRow(r) PROVE KeyInv'
<1> DEFINE y == keyRuns[r]
           x == [y EXCEPT !.step = "call"]
<1>t. KeyTypes /\ y \in KeyRunRows /\ y.step = "open" /\ y.of \in Owners
  BY DEF KeyInv, KeyTypes, OpenRow, RunAt
<1>1. x \in KeyRunRows /\ x.step = "call" /\ x.of = y.of /\ keyRuns' = [keyRuns EXCEPT ![r] = x]
  BY <1>t DEF KeyRunRows, KeyRunSteps, OpenRow, RunTo, KeyTypes
<1>2. y.of = "self" => r \in consented \cup raced
  BY <1>t DEF KeyInv, UsedWithConsent, OpensSelf
<1>u. UNCHANGED <<granted, putting, latestKey, consented, raced>>
  BY DEF OpenRow
<1>3. CASE UNCHANGED credentialRows
  <2> HIDE DEF x, y
  <2> QED
    BY <1>1, <1>2, <1>3, <1>t, <1>u, RunSteps
<1>4. CASE /\ y.seal = "v1" /\ credentialRows[y.of].seal = "v1"
           /\ credentialRows' = [credentialRows EXCEPT ![y.of] = [key |-> y.key, seal |-> "v2"]]
  <2>1. y.key = credentialRows[y.of].key /\ y.key \in AnyKey
    BY <1>t, <1>4 DEF KeyInv, OldIsUnchanged, KeyRunRows
  <2>2. /\ credentialRows' \in [Owners -> KeyRow]
        /\ \A o \in Owners :
              /\ credentialRows'[o].key = credentialRows[o].key
              /\ credentialRows'[o].seal = "v1" => credentialRows'[o] = credentialRows[o]
    BY <1>t, <1>4, <2>1 DEF KeyTypes, KeyRow, AnyKey
  <2>3. \A q \in KeyRuns : /\ keyRuns'[q] \in KeyRunRows
                           /\ \/ keyRuns'[q] = keyRuns[q]
                              \/ q = r /\ keyRuns'[q].step = "call" /\ keyRuns'[q].of = y.of
    <3>1. keyRuns \in [KeyRuns -> KeyRunRows]
      BY <1>t DEF KeyTypes
    <3> HIDE DEF x
    <3> QED
      BY <1>1, <3>1
  <2> HIDE DEF x, y
  <2>4. KeyTypes'
    BY <1>t, <1>1, <1>u, <2>2, <2>3 DEF KeyTypes
  <2>5. KeyIsLatest'
    <3>1. KeyIsLatest /\ latestKey' = latestKey /\ raced' = raced
      BY <1>u DEF KeyInv
    <3> QED
      BY <2>2, <3>1, Zenon DEF KeyIsLatest
  <2>6. UsedWithConsent'
    BY <1>2, <1>u, <2>3 DEF KeyInv, UsedWithConsent, OpensSelf
  <2>7. OldIsUnchanged'
    BY <2>2, <2>3 DEF KeyInv, OldIsUnchanged
  <2>8. NoticesGrant'
    BY <1>u, <2>3 DEF KeyInv, NoticesGrant, LookingUp
  <2> QED
    BY <2>4, <2>5, <2>6, <2>7, <2>8 DEF KeyInv
<1> QED
  BY <1>3, <1>4 DEF OpenRow

LEMMA KeyAlways == CredentialSpec => []KeyInv
<1>1. CredentialInit => KeyInv
  <2> SUFFICES ASSUME CredentialInit PROVE KeyInv
    OBVIOUS
  <2>1. credentialRows \in [Owners -> KeyRow] /\ \A o \in Owners : credentialRows[o].key \in AnyKey
    BY CredentialConstants DEF CredentialInit, KeyRow, AnyKey
  <2>2. NoRun \in KeyRunRows /\ NoRun.step = "idle"
    BY DEF NoRun, KeyRunRows, KeyRunSteps, AnyKey, Seals
  <2>3. NotPutting \in [owner : Owners \cup {"none"}, key : AnyKey]
    BY DEF NotPutting, AnyKey
  <2>4. KeyTypes
    BY <2>1, <2>2, <2>3 DEF CredentialInit, KeyTypes
  <2> QED
    BY <2>2, <2>4 DEF CredentialInit, KeyInv, KeyIsLatest, UsedWithConsent, OpensSelf, OldIsUnchanged,
       NoticesGrant, LookingUp
<1>2. KeyInv /\ [CredentialNext]_credentialVars => KeyInv'
  BY OwnerActs, RunActs, OpenActs DEF CredentialNext
<1> QED
  BY <1>1, <1>2, PTL DEF CredentialSpec

(* However many runs seal old rows again while keys are replaced, deleted  *)
(* and put, none of them brings back a key that is gone.                   *)
THEOREM KeysAreLatest == CredentialSpec => [](CredentialTypeOK /\ KeyIsLatest)
<1>1. KeyInv => CredentialTypeOK /\ KeyIsLatest
  BY DEF KeyInv, KeyTypes, CredentialTypeOK, KeyRunRows, AnyKey
<1> QED
  BY <1>1, KeyAlways, PTL

(* A run opens a person's own key only if the grant stood while it looked  *)
(* for it, or the service's row came up between its two reads.             *)
THEOREM ConsentHolds == CredentialSpec => []UsedWithConsent
<1>1. KeyInv => UsedWithConsent
  BY DEF KeyInv
<1> QED
  BY <1>1, KeyAlways, PTL

---------------------------------------------------------------------------------
(* The versions of the registry.                                           *)

VersionRows == [text : Definitions, status : {"active", "off"}, by : {"seed", "admin"}]
GoodEdit(x) == \/ x = NoEdit
               \/ x \in [step : {"number", "insert"}, key : RegistryKeys, number : Nat,
                         status : {"active", "off"}, text : Definitions]
AllSeed(list)   == \A n \in DOMAIN list : list[n].by = "seed"
(* The seed adds no version behind an administrator's.                     *)
SeedFirst(list) == list # << >> /\ Last(list).by = "seed" => AllSeed(list)

RegistryInv ==
    /\ versions \in [RegistryKeys -> Seq(VersionRows)]
    /\ \A k \in RegistryKeys : SeedFirst(versions[k])
    /\ code \in [RegistryKeys -> Definitions \cup {Retired}]
    /\ DOMAIN edits = Editors /\ \A e \in Editors : GoodEdit(edits[e])
    /\ process \in {"down", "seeding", "serving"} /\ toSeed \subseteq RegistryKeys /\ deploys \in 0..MaxDeploys

(* What a step may do to the versions of one key.                          *)
Keeps(old, new) ==
    /\ new \in Seq(VersionRows) /\ SeedFirst(new)
    /\ Len(old) <= Len(new)
    /\ \A n \in DOMAIN old : Says(new[n]) = Says(old[n])
    /\ Len(old) < Len(new) /\ Last(new).by = "seed" => AllSeed(old)

LEMMA AppendKeeps ==
    ASSUME NEW old \in Seq(VersionRows), NEW row \in VersionRows, row.by = "seed" => AllSeed(old)
    PROVE  Keeps(old, Append(old, row))
<1> DEFINE new == Append(old, row)
<1>1. /\ new \in Seq(VersionRows) /\ Len(new) = Len(old) + 1 /\ Len(old) \in Nat
      /\ DOMAIN old = 1..Len(old) /\ DOMAIN new = 1..Len(new)
      /\ new[Len(old) + 1] = row /\ \A n \in 1..Len(old) : new[n] = old[n]
  OBVIOUS
<1>2. Last(new) = row
  BY <1>1 DEF Last
<1> HIDE DEF new
<1>3. SeedFirst(new)
  BY <1>1, <1>2 DEF SeedFirst, AllSeed
<1> QED
  BY <1>1, <1>2, <1>3 DEF Keeps, new

LEMMA SameSaysKeeps ==
    ASSUME NEW old \in Seq(VersionRows), NEW new \in Seq(VersionRows), SeedFirst(old), Len(new) = Len(old),
           \A n \in DOMAIN old : Says(new[n]) = Says(old[n])
    PROVE  Keeps(old, new)
<1>1. DOMAIN old = 1..Len(old) /\ DOMAIN new = 1..Len(old) /\ Len(old) \in Nat
  OBVIOUS
<1>2. \A n \in 1..Len(old) : new[n].by = old[n].by
  BY <1>1 DEF Says
<1>3. SeedFirst(new)
  BY <1>1, <1>2 DEF SeedFirst, AllSeed, Last
<1> QED
  BY <1>1, <1>3 DEF Keeps

LEMMA VersionsKeep ==
    ASSUME RegistryInv, [RegistryNext]_registryVars
    PROVE  /\ DOMAIN versions' = RegistryKeys
           /\ \A k \in RegistryKeys : Keeps(versions[k], versions'[k])
<1>t. /\ versions \in [RegistryKeys -> Seq(VersionRows)] /\ DOMAIN versions = RegistryKeys
      /\ \A k \in RegistryKeys : SeedFirst(versions[k]) /\ Keeps(versions[k], versions[k])
  BY SameSaysKeeps DEF RegistryInv
<1>1. ASSUME NEW k \in RegistryKeys, Seed(k)
      PROVE  DOMAIN versions' = RegistryKeys /\ \A j \in RegistryKeys : Keeps(versions[j], versions'[j])
  <2>1. versions[k] \in Seq(VersionRows) /\ SeedFirst(versions[k]) /\ code[k] \in Definitions \cup {Retired}
    BY <1>t DEF RegistryInv
  <2>2. CASE code[k] = Retired
    <3> DEFINE old == versions[k]
    <3>1. Archived(old) \in Seq(VersionRows) /\ Len(Archived(old)) = Len(old)
          /\ \A n \in DOMAIN old : Says(Archived(old)[n]) = Says(old[n])
      <4>1. \A n \in 1..Len(old) : old[n] \in VersionRows /\ DOMAIN old = 1..Len(old) /\ Len(old) \in Nat
        BY <2>1
      <4>2. \A n \in 1..Len(old) : /\ [old[n] EXCEPT !.status = "off"] \in VersionRows
                                   /\ Says([old[n] EXCEPT !.status = "off"]) = Says(old[n])
        BY <4>1 DEF VersionRows, Says
      <4>3. DOMAIN old = 1..Len(old) /\ Len(old) \in Nat
        BY <2>1
      <4> HIDE DEF old
      <4> QED
        BY <4>2, <4>3 DEF Archived
    <3>2. versions' = [versions EXCEPT ![k] = Archived(old)]
      BY <1>1, <2>2 DEF Seed
    <3>3. Keeps(old, Archived(old))
      BY <2>1, <3>1, SameSaysKeeps
    <3> QED
      BY <1>t, <3>2, <3>3
  <2>3. CASE code[k] # Retired /\ SeedAdds(k)
    <3> DEFINE row == Version(code[k], "active", "seed")
    <3>1. row \in VersionRows /\ row.by = "seed"
      BY <2>1, <2>3 DEF Version, VersionRows
    <3>2. AllSeed(versions[k])
      BY <2>1, <2>3 DEF SeedAdds, SeedFirst, AllSeed
    <3>3. versions' = [versions EXCEPT ![k] = Append(versions[k], row)]
      BY <1>1, <2>3 DEF Seed
    <3> HIDE DEF row
    <3>4. Keeps(versions[k], Append(versions[k], row))
      BY <2>1, <3>1, <3>2, AppendKeeps
    <3> QED
      BY <1>t, <3>3, <3>4
  <2>4. CASE code[k] # Retired /\ ~SeedAdds(k)
    <3>1. versions' = versions
      BY <1>t, <1>1, <2>4 DEF Seed
    <3> QED
      BY <1>t, <3>1
  <2> QED
    BY <2>2, <2>3, <2>4
<1>2. ASSUME NEW e \in Editors, EditInserts(e)
      PROVE  DOMAIN versions' = RegistryKeys /\ \A j \in RegistryKeys : Keeps(versions[j], versions'[j])
  <2> DEFINE x == edits[e]
             row == Version(x.text, x.status, "admin")
  <2>1. x \in [step : {"number", "insert"}, key : RegistryKeys, number : Nat, status : {"active", "off"}, text : Definitions]
    BY <1>2 DEF EditInserts, RegistryInv, GoodEdit, NoEdit
  <2>2. x.key \in RegistryKeys /\ row \in VersionRows /\ row.by = "admin"
    BY <2>1 DEF Version, VersionRows
  <2>3. versions' = [versions EXCEPT ![x.key] = Stored(versions[x.key], x.number, row)]
    BY <1>2 DEF EditInserts
  <2> HIDE DEF x, row
  <2>4. Keeps(versions[x.key], Stored(versions[x.key], x.number, row))
    BY <1>t, <2>2, AppendKeeps DEF Stored
  <2> QED
    BY <1>t, <2>2, <2>3, <2>4
<1>3. ASSUME NEW k \in RegistryKeys, NEW n \in 1..MaxVersions, SetStatus(k, n)
      PROVE  DOMAIN versions' = RegistryKeys /\ \A j \in RegistryKeys : Keeps(versions[j], versions'[j])
  <2>1. PICK status \in {"active", "off"} : versions' = [versions EXCEPT ![k][n].status = status]
    BY <1>3 DEF SetStatus
  <2> DEFINE old == versions[k]
             new == [old EXCEPT ![n].status = status]
  <2>2. old \in Seq(VersionRows) /\ SeedFirst(old) /\ n \in DOMAIN old /\ versions' = [versions EXCEPT ![k] = new]
    BY <1>t, <1>3, <2>1 DEF SetStatus
  <2> HIDE DEF old
  <2>3. DOMAIN old = 1..Len(old) /\ Len(old) \in Nat /\ old[n] \in VersionRows /\ \A m \in 1..Len(old) : old[m] \in VersionRows
    BY <2>2
  <2>4. [old[n] EXCEPT !.status = status] \in VersionRows /\ Says([old[n] EXCEPT !.status = status]) = Says(old[n])
    BY <2>3 DEF VersionRows, Says
  <2>5. new \in Seq(VersionRows) /\ Len(new) = Len(old) /\ \A m \in DOMAIN old : Says(new[m]) = Says(old[m])
    <3>1. new = [m \in 1..Len(old) |-> IF m = n THEN [old[n] EXCEPT !.status = status] ELSE old[m]]
      BY <2>3
    <3> HIDE DEF new
    <3> QED
      BY <2>3, <2>4, <3>1
  <2> HIDE DEF new
  <2>6. Keeps(old, new)
    BY <2>2, <2>5, SameSaysKeeps
  <2> QED
    BY <1>t, <2>2, <2>6 DEF old
<1>4. CASE UNCHANGED versions
  BY <1>t, <1>4
<1>5. CASE \/ \E k \in RegistryKeys : Deploy(k)
           \/ Boot \/ ProcessDies \/ Listen \/ UNCHANGED registryVars
           \/ \E e \in Editors : EditReads(e) \/ EditNumbers(e)
  BY <1>4, <1>5 DEF Deploy, Boot, ProcessDies, Listen, EditReads, EditNumbers, registryVars
<1> QED
  BY <1>1, <1>2, <1>3, <1>5 DEF RegistryNext

LEMMA RegistryKept == RegistryInv /\ [RegistryNext]_registryVars => RegistryInv'
<1> SUFFICES ASSUME RegistryInv, [RegistryNext]_registryVars PROVE RegistryInv'
  OBVIOUS
<1>1. versions' \in [RegistryKeys -> Seq(VersionRows)] /\ \A k \in RegistryKeys : SeedFirst(versions'[k])
  <2>1. DOMAIN versions' = RegistryKeys /\ \A k \in RegistryKeys : versions'[k] \in Seq(VersionRows) /\ SeedFirst(versions'[k])
    BY VersionsKeep DEF Keeps
  <2>2. versions' = [k \in RegistryKeys |-> versions'[k]]
    <3>1. CASE UNCHANGED versions
      BY <3>1 DEF RegistryInv
    <3>2. CASE \E k \in RegistryKeys : Seed(k) \/ \E n \in 1..MaxVersions : SetStatus(k, n)
      BY <3>2 DEF Seed, SetStatus, RegistryInv
    <3>3. CASE \E e \in Editors : EditInserts(e)
      BY <3>3 DEF EditInserts, RegistryInv
    <3>4. CASE \/ \E k \in RegistryKeys : Deploy(k)
               \/ Boot \/ ProcessDies \/ Listen \/ UNCHANGED registryVars
               \/ \E e \in Editors : EditReads(e) \/ EditNumbers(e)
      BY <3>1, <3>4 DEF Deploy, Boot, ProcessDies, Listen, EditReads, EditNumbers, registryVars
    <3> QED
      BY <3>2, <3>3, <3>4 DEF RegistryNext
  <2> QED
    BY <2>1, <2>2
<1>2. code' \in [RegistryKeys -> Definitions \cup {Retired}] /\ deploys' \in 0..MaxDeploys
  <2>1. ASSUME NEW k \in RegistryKeys, Deploy(k) PROVE <1>2
    <3>1. PICK new \in Definitions \cup {Retired} : code' = [code EXCEPT ![k] = new]
      BY <2>1 DEF Deploy
    <3>2. deploys' = deploys + 1 /\ deploys < MaxDeploys
      BY <2>1 DEF Deploy
    <3> QED
      BY <3>1, <3>2, RegistryConstants DEF RegistryInv
  <2>2. CASE UNCHANGED <<code, deploys>>
    BY <2>2 DEF RegistryInv
  <2>3. (\E k \in RegistryKeys : Deploy(k)) \/ UNCHANGED <<code, deploys>>
    BY DEF RegistryNext, Boot, ProcessDies, Listen, Seed, SetStatus, EditReads, EditNumbers, EditInserts, registryVars
  <2> QED
    BY <2>1, <2>2, <2>3
<1>3. process' \in {"down", "seeding", "serving"} /\ toSeed' \subseteq RegistryKeys
  BY DEF RegistryInv, RegistryNext, Deploy, Boot, ProcessDies, Listen, Seed, SetStatus, EditReads, EditNumbers, EditInserts, registryVars
<1>4. DOMAIN edits' = Editors /\ \A e \in Editors : GoodEdit(edits'[e])
  <2>t. DOMAIN edits = Editors /\ \A e \in Editors : GoodEdit(edits[e])
    BY DEF RegistryInv
  <2>1. ASSUME NEW e \in Editors, EditReads(e) PROVE <1>4
    <3>1. PICK k \in RegistryKeys, named \in SUBSET Fields, value \in Values, status \in {"active", "off"} :
              /\ versions[k] # << >> /\ named # {} /\ Len(versions[k]) < MaxVersions
              /\ edits' = [edits EXCEPT ![e] = [step |-> "number", key |-> k, number |-> 0, status |-> status,
                               text |-> [f \in Fields |-> IF f \in named THEN value ELSE Last(versions[k]).text[f]]]]
      BY <2>1, Zenon DEF EditReads
    <3> DEFINE text == [f \in Fields |-> IF f \in named THEN value ELSE Last(versions[k]).text[f]]
    <3>2. text \in Definitions
      <4>1. versions[k] \in Seq(VersionRows) /\ versions[k] # << >>
        BY <3>1 DEF RegistryInv
      <4>2. Last(versions[k]) \in VersionRows
        BY <4>1 DEF Last
      <4>3. Last(versions[k]).text \in [Fields -> Values]
        BY <4>2 DEF VersionRows, Definitions
      <4> QED
        BY <4>3 DEF Definitions
    <3> HIDE DEF text
    <3>3. GoodEdit([step |-> "number", key |-> k, number |-> 0, status |-> status, text |-> text])
      BY <3>2 DEF GoodEdit
    <3> QED
      BY <2>t, <3>1, <3>3 DEF text
  <2>2. ASSUME NEW e \in Editors, EditNumbers(e) PROVE <1>4
    <3> DEFINE x == edits[e]
               n == Len(versions[x.key]) + 1
    <3>1. /\ x \in [step : {"number", "insert"}, key : RegistryKeys, number : Nat, status : {"active", "off"}, text : Definitions]
      BY <2>2 DEF EditNumbers, RegistryInv, GoodEdit, NoEdit
    <3>2. n \in Nat
      <4>1. versions[x.key] \in Seq(VersionRows)
        BY <3>1 DEF RegistryInv
      <4> QED
        BY <4>1
    <3>3. edits' = [edits EXCEPT ![e] = [x EXCEPT !.step = "insert", !.number = n]]
      BY <2>2 DEF EditNumbers
    <3> HIDE DEF x, n
    <3>4. GoodEdit([x EXCEPT !.step = "insert", !.number = n])
      BY <3>1, <3>2 DEF GoodEdit
    <3> QED
      BY <2>t, <3>3, <3>4
  <2>3. ASSUME NEW e \in Editors, EditInserts(e) PROVE <1>4
    BY <2>t, <2>3 DEF EditInserts, GoodEdit
  <2>4. CASE ProcessDies
    BY <2>4 DEF ProcessDies, GoodEdit
  <2>5. CASE UNCHANGED edits
    BY <2>t, <2>5
  <2>6. \/ ProcessDies \/ UNCHANGED edits
        \/ \E e \in Editors : EditReads(e) \/ EditNumbers(e) \/ EditInserts(e)
    BY DEF RegistryNext, Deploy, Boot, Listen, Seed, SetStatus, registryVars
  <2> QED
    BY <2>1, <2>2, <2>3, <2>4, <2>5, <2>6
<1> QED
  BY <1>1, <1>2, <1>3, <1>4 DEF RegistryInv

LEMMA RegistryBegins == RegistryInit => RegistryInv
<1> SUFFICES ASSUME RegistryInit PROVE RegistryInv
  OBVIOUS
<1>1. \A k \in RegistryKeys : versions[k] = << >> /\ SeedFirst(versions[k])
  BY DEF RegistryInit, SeedFirst
<1>2. versions \in [RegistryKeys -> Seq(VersionRows)]
  <2>1. << >> \in Seq(VersionRows)
    OBVIOUS
  <2> QED
    BY <2>1 DEF RegistryInit
<1> QED
  BY <1>1, <1>2, RegistryConstants DEF RegistryInit, RegistryInv, GoodEdit

(* The rows are versions, and the deploys counted.                         *)
LEMMA RegistryTyped == RegistrySpec => []RegistryTypeOK
<1>1. RegistryInv => RegistryTypeOK
  <2> SUFFICES ASSUME RegistryInv, NEW k \in RegistryKeys, NEW n \in DOMAIN versions[k] PROVE versions[k][n] \in VersionRows
    BY DEF RegistryInv, RegistryTypeOK, VersionRows
  <2>1. versions[k] \in Seq(VersionRows)
    BY DEF RegistryInv
  <2> QED
    BY <2>1
<1> QED
  BY <1>1, RegistryBegins, RegistryKept, PTL DEF RegistrySpec

(* What a run was traced to stays readable, whoever races: no version      *)
(* changes its text or author or goes, and the seed never adds a version   *)
(* behind an administrator's, whatever the code became between two boots.  *)
THEOREM HistoryAlwaysHolds == RegistrySpec => HistoryHolds
<1> DEFINE Step == \A k \in RegistryKeys :
    /\ Len(versions[k]) <= Len(versions'[k])
    /\ \A n \in DOMAIN versions[k] : Says(versions'[k][n]) = Says(versions[k][n])
    /\ (Len(versions[k]) < Len(versions'[k]) /\ Last(versions'[k]).by = "seed")
         => \A n \in DOMAIN versions[k] : versions[k][n].by = "seed"
<1>2. RegistryInv /\ [RegistryNext]_registryVars => [Step]_registryVars
  BY VersionsKeep DEF Keeps, AllSeed
<1> QED
  BY <1>2, RegistryBegins, RegistryKept, PTL DEF RegistrySpec, HistoryHolds

---------------------------------------------------------------------------------
(* The memory of a person: what was removed is in no profile.              *)

Pairs    == Notes \X Texts
NoteRows == [text : Texts \cup {NoText}, status : {"none", "active", "archived", "conflict"},
             into : Notes \cup {NoNote}, with : Notes \cup {NoNote}, at : 0..(MaxChanges + 1), vec : Texts \cup {NoText}]
SeenRows == [id : Notes, vec : Texts \cup {NoText}, at : 0..(MaxChanges + 1)]
Works(steps, toEmbed) ==
    [step : steps, embed : SUBSET toEmbed, list : Seq(SeenRows), i : Nat, j : Nat, gone : SUBSET Notes]

MemoryShape ==
    /\ notes \in [Notes -> NoteRows]
    /\ \A n \in Notes : notes[n].status # "none" => notes[n].text \in Texts
    /\ profile \in [of : SUBSET Pairs, old : BOOLEAN, built : BOOLEAN]
    /\ request \in Works({"idle", "embed", "read", "pairs"}, Notes)
    /\ job \in Works({"idle", "embed", "read", "pairs", "profile", "summary"}, Pairs)
    /\ memoryNow \in 1..(MaxChanges + 1) /\ removed \subseteq Pairs

(* A text that the person removed does not come back under its id, and one *)
(* that the job summarises goes only where the history sees it.            *)
GoneStaysGone   == \A n \in Notes : notes[n].status # "none" => <<n, notes[n].text>> \notin removed
SummaryForgets == job.step = "summary" => job.embed \cap removed \subseteq slipped

MemoryInv == MemoryShape /\ GoneStaysGone /\ SummaryForgets /\ ProfileForgets

(* What a step makes of the notes when it writes no text.                  *)
KeepsTexts ==
    /\ notes' \in [Notes -> NoteRows]
    /\ \A n \in Notes : notes'[n].status # "none" => notes[n].status # "none" /\ notes'[n].text = notes[n].text

LEMMA TextsKept ==
    ASSUME MemoryInv, KeepsTexts, removed' = removed
    PROVE  GoneStaysGone' /\ \A n \in Notes : notes'[n].status # "none" => notes'[n].text \in Texts
BY DEF MemoryInv, MemoryShape, GoneStaysGone, KeepsTexts

LEMMA ActiveTexts == ASSUME MemoryInv PROVE TextsOf(Active) \in SUBSET Pairs /\ TextsOf(Active) \cap removed = {}
BY DEF MemoryInv, MemoryShape, GoneStaysGone, TextsOf, Active, Pairs

(* What is stamped is a row still.                                         *)
LEMMA StampedIs ==
    ASSUME MemoryShape, NEW r \in NoteRows
    PROVE  /\ Stamped(r) \in NoteRows /\ Stamped(r).text = r.text /\ Stamped(r).status = r.status
BY MemoryConstants DEF Stamped, NoteRows, MemoryShape

LEMMA QuietIs == Quiet \in Works({"idle"}, Notes) /\ Quiet \in Works({"idle"}, Pairs) /\ Quiet.step = "idle"
BY DEF Quiet, Works

(* What a request or the job reads of the scope.                           *)
LEMMA SnapshotIs == ASSUME MemoryShape, NEW list \in Snapshots PROVE list \in Seq(SeenRows)
<1> DEFINE Read == {m \in Active : notes[m].vec # NoText}
           Rows == {Seen(n) : n \in Read}
<1>1. IsFiniteSet(Read)
  BY MemoryConstants, FS_Subset DEF Active
<1>2. IsFiniteSet(Rows)
  <2> DEFINE f == [n \in Read |-> Seen(n)]
  <2>1. f \in Surjection(Read, Rows)
    BY DEF Surjection
  <2> QED
    BY <1>1, <2>1, FS_Surjection
<1>3. Cardinality(Rows) \in Nat
  BY <1>2, FS_CardinalityType
<1>4. Rows \subseteq SeenRows
  BY DEF Seen, SeenRows, Active, MemoryShape, NoteRows
<1>5. list \in SetToSeqs(Rows)
  BY DEF Snapshots
<1>6. list \in [1..Cardinality(Rows) -> Rows]
  <2> HIDE DEF Rows
  <2> QED
    BY <1>5 DEF SetToSeqs
<1> QED
  <2> HIDE DEF Rows
  <2> QED
    BY <1>3, <1>4, <1>6

(* The next pair is one of those that are left.                            *)
LEMMA NextPairIs ==
    ASSUME NEW who, NEW w, w.list \in Seq(SeenRows), PairsLeft(who, w) # {}
    PROVE  NextPair(who, w) \in (DOMAIN w.list) \X (DOMAIN w.list)
<1> DEFINE All  == PairsLeft(who, w)
           Firsts == {p[1] : p \in All}
<1>1. All \subseteq (DOMAIN w.list) \X (DOMAIN w.list) /\ DOMAIN w.list \subseteq Nat
  BY DEF PairsLeft
<1>2. Firsts \subseteq Nat /\ Firsts # {}
  BY <1>1
<1>3. PICK first \in Firsts : \A n \in Firsts : first <= n
  BY <1>2, LeastIn
<1> DEFINE Seconds == {p[2] : p \in {q \in All : q[1] = first}}
<1>4. Seconds \subseteq Nat /\ Seconds # {}
  BY <1>1
<1>5. PICK second \in Seconds : \A n \in Seconds : second <= n
  BY <1>4, LeastIn
<1>6. PICK p \in All : p[1] = first /\ p[2] = second
  OBVIOUS
<1>7. \A o \in All : p[1] < o[1] \/ (p[1] = o[1] /\ p[2] <= o[2])
  <2> TAKE o \in All
  <2>1. first <= o[1] /\ first \in Nat /\ o[1] \in Nat
    BY <1>1, <1>2, <1>3
  <2>2. o[1] = first => second <= o[2]
    BY <1>5
  <2> QED
    BY <1>6, <2>1, <2>2
<1>8. NextPair(who, w) \in All
  <2> HIDE DEF All
  <2> QED
    BY <1>6, <1>7 DEF NextPair, All
<1> QED
  BY <1>1, <1>8

LEMMA MergedKeeps == ASSUME MemoryInv, NEW x \in Notes, NEW y \in Notes, notes' = Merged(x, y) PROVE KeepsTexts
<1>1. notes \in [Notes -> NoteRows]
  BY DEF MemoryInv, MemoryShape
<1> DEFINE lost(n) == [notes[n] EXCEPT !.status = "archived", !.into = x]
<1>2. \A n \in Notes : lost(n) \in NoteRows /\ lost(n).text = notes[n].text
  BY <1>1 DEF NoteRows
<1> HIDE DEF lost
<1>3. \A n \in Notes : /\ Stamped(notes[n]) \in NoteRows /\ Stamped(notes[n]).text = notes[n].text
                       /\ Stamped(notes[n]).status = notes[n].status
                       /\ Stamped(lost(n)) \in NoteRows /\ Stamped(lost(n)).text = notes[n].text
  BY <1>1, <1>2, StampedIs DEF MemoryInv
<1>4. \A n \in Notes : notes'[n] \in {notes[n], Stamped(notes[n])} \/ (notes[n].status # "none" /\ notes'[n] = Stamped(lost(n)))
  BY <1>1 DEF Merged, lost
<1> QED
  BY <1>1, <1>3, <1>4 DEF KeepsTexts, Merged

LEMMA ConflictKeeps == ASSUME MemoryInv, NEW x \in Notes, NEW y \in Notes, notes' = Conflicting(x, y) PROVE KeepsTexts
<1>1. notes \in [Notes -> NoteRows]
  BY DEF MemoryInv, MemoryShape
<1> DEFINE met(n, with) == [notes[n] EXCEPT !.status = "conflict", !.with = with]
<1>2. \A n \in Notes, m \in Notes : met(n, m) \in NoteRows /\ met(n, m).text = notes[n].text
  BY <1>1 DEF NoteRows
<1>3. \A n \in Notes : notes'[n] = notes[n] \/ (notes[n].status # "none" /\ \E m \in Notes : notes'[n] = Stamped(met(n, m)))
  <2> TAKE n \in Notes
  <2>1. CASE n \notin {x, y} \/ notes[n].status = "none"
    BY <2>1 DEF Conflicting
  <2>2. CASE n \in {x, y} /\ notes[n].status # "none"
    <3>1. notes'[n] = Stamped(met(n, IF n = x THEN y ELSE x))
      BY <2>2 DEF Conflicting
    <3> QED
      BY <2>2, <3>1
  <2> QED
    BY <2>1, <2>2
<1> HIDE DEF met
<1>4. \A n, m \in Notes : Stamped(met(n, m)) \in NoteRows /\ Stamped(met(n, m)).text = notes[n].text
  BY <1>1, <1>2, StampedIs DEF MemoryInv
<1>5. \A n \in Notes : notes'[n] \in NoteRows
  BY <1>1, <1>3, <1>4
<1>6. DOMAIN notes' = Notes /\ notes' = [n \in Notes |-> notes'[n]]
  BY DEF Conflicting
<1> QED
  BY <1>1, <1>3, <1>4, <1>5, <1>6 DEF KeepsTexts

(* What comparing a pair does to the notes, and to what the work is at.    *)
Compared(who, w, next) ==
    LET p == NextPair(who, w)
        a == w.list[p[1]]
        b == w.list[p[2]]
        aWins == a.at > b.at \/ (a.at = b.at /\ a.id > b.id) IN
    \/ /\ notes' = Merged(IF aWins THEN a.id ELSE b.id, IF aWins THEN b.id ELSE a.id)
       /\ next = [w EXCEPT !.i = p[1], !.j = p[2], !.gone = @ \cup {IF aWins THEN b.id ELSE a.id}]
    \/ notes' = Conflicting(a.id, b.id) /\ next = [w EXCEPT !.i = p[1], !.j = p[2], !.gone = @ \cup {a.id, b.id}]
    \/ next = [w EXCEPT !.i = p[1], !.j = p[2]] /\ UNCHANGED notes
    \/ next = Quiet /\ UNCHANGED notes

LEMMA PairKeeps ==
    ASSUME MemoryInv, NEW who, NEW steps, NEW toEmbed, NEW w \in Works(steps, toEmbed), "idle" \in steps, PairsLeft(who, w) # {},
           NEW next, Compared(who, w, next)
    PROVE  KeepsTexts /\ next \in Works(steps, toEmbed) /\ next.step \in {w.step, "idle"}
<1> DEFINE p == NextPair(who, w)
           a == w.list[p[1]]
           b == w.list[p[2]]
           aWins == a.at > b.at \/ (a.at = b.at /\ a.id > b.id)
<1>1. w.list \in Seq(SeenRows)
  BY DEF Works
<1>2. p \in (DOMAIN w.list) \X (DOMAIN w.list)
  BY <1>1, NextPairIs
<1>3. a.id \in Notes /\ b.id \in Notes /\ p[1] \in Nat /\ p[2] \in Nat
  <2>1. a \in SeenRows /\ b \in SeenRows /\ p[1] \in Nat /\ p[2] \in Nat
    <3> HIDE DEF p
    <3> QED
      BY <1>1, <1>2
  <2> QED
    BY <2>1 DEF SeenRows
<1>4. \/ /\ notes' = Merged(IF aWins THEN a.id ELSE b.id, IF aWins THEN b.id ELSE a.id)
         /\ next = [w EXCEPT !.i = p[1], !.j = p[2], !.gone = @ \cup {IF aWins THEN b.id ELSE a.id}]
      \/ notes' = Conflicting(a.id, b.id) /\ next = [w EXCEPT !.i = p[1], !.j = p[2], !.gone = @ \cup {a.id, b.id}]
      \/ next = [w EXCEPT !.i = p[1], !.j = p[2]] /\ UNCHANGED notes
      \/ next = Quiet /\ UNCHANGED notes
  BY DEF Compared
<1>5. KeepsTexts
  <2> HIDE DEF p, a, b, aWins
  <2>1. CASE UNCHANGED notes
    BY <2>1 DEF KeepsTexts, MemoryInv, MemoryShape
  <2> QED
    BY <1>3, <1>4, <2>1, MergedKeeps, ConflictKeeps
<1>6. next \in Works(steps, toEmbed) /\ next.step \in {w.step, "idle"}
  <2> HIDE DEF p, a, b, aWins
  <2>1. PICK set \in SUBSET Notes : next = [w EXCEPT !.i = p[1], !.j = p[2], !.gone = set] \/ next = Quiet
    <3>1. w.gone \in SUBSET Notes
      BY DEF Works
    <3> QED
      BY <1>3, <1>4, <3>1
  <2>2. CASE next = Quiet
    BY <2>2 DEF Works, Quiet
  <2>3. CASE next = [w EXCEPT !.i = p[1], !.j = p[2], !.gone = set]
    BY <1>3, <2>3 DEF Works
  <2> QED
    BY <2>1, <2>2, <2>3
<1> QED
  BY <1>5, <1>6

(* What the person removes or edits away enters the history.               *)
LEMMA ForgetIs ==
    ASSUME MemoryInv, NEW n \in Notes, notes[n].status # "none", Forget({n}), UNCHANGED job
    PROVE  removed' = removed \cup {<<n, notes[n].text>>} /\ removed' \subseteq Pairs /\ SummaryForgets'
<1>1. TextsOf({n}) = {<<n, notes[n].text>>}
  BY DEF TextsOf
<1>2. <<n, notes[n].text>> \in Pairs /\ removed \subseteq Pairs
  BY DEF Pairs, MemoryInv, MemoryShape
<1>3. removed' = removed \cup {<<n, notes[n].text>>}
  BY <1>1 DEF Forget
<1> QED
  BY <1>1, <1>2, <1>3 DEF Forget, SummaryForgets, MemoryInv

LEMMA TickIs == ASSUME MemoryInv, MayWrite, Tick PROVE memoryNow' \in 1..(MaxChanges + 1)
BY MemoryConstants DEF MayWrite, Tick, MemoryInv, MemoryShape

LEMMA DropIs == ASSUME DropProfile
                PROVE  profile' \in [of : SUBSET Pairs, old : BOOLEAN, built : BOOLEAN] /\ profile'.of = {}
BY DEF DropProfile, NoProfile

LEMMA EmbedIs ==
    ASSUME NEW n \in Notes
    PROVE  [Quiet EXCEPT !.step = "embed", !.embed = {n}] \in Works({"idle", "embed", "read", "pairs"}, Notes)
BY QuietIs DEF Works

LEMMA ImportKept == ASSUME MemoryInv, NEW n \in Notes, NEW t \in Texts, ImportNote(n, t) PROVE MemoryInv'
<1> DEFINE same == {m \in Notes : notes[m].status # "none" /\ notes[m].text = t}
<1>1. notes \in [Notes -> NoteRows] /\ memoryNow' \in 1..(MaxChanges + 1)
  BY TickIs DEF MemoryInv, MemoryShape, ImportNote
<1>2. UNCHANGED <<profile, job, removed, slipped>>
  BY DEF ImportNote
<1>3. CASE same # {}
  <2>1. PICK m \in same : notes' = [notes EXCEPT ![m] = Stamped(@)] /\ UNCHANGED request
    BY <1>3 DEF ImportNote
  <2>2. Stamped(notes[m]) \in NoteRows /\ Stamped(notes[m]).text = notes[m].text /\ Stamped(notes[m]).status = notes[m].status
    BY <1>1, StampedIs DEF MemoryInv
  <2>3. KeepsTexts
    BY <1>1, <2>1, <2>2 DEF KeepsTexts
  <2> QED
    BY <1>1, <1>2, <2>1, <2>3, TextsKept DEF MemoryInv, MemoryShape, SummaryForgets, ProfileForgets, KeepsTexts
<1>4. CASE same = {}
  <2> DEFINE new == [NoRecord EXCEPT !.text = t, !.status = "active", !.at = memoryNow]
  <2>1. /\ notes[n].status = "none" /\ \A r \in removed : r[1] # n
        /\ notes' = [notes EXCEPT ![n] = new]
        /\ request' = [Quiet EXCEPT !.step = "embed", !.embed = {n}]
    BY <1>4 DEF ImportNote
  <2>2. new \in NoteRows /\ new.text = t /\ new.status = "active"
    <3>1. memoryNow \in 0..(MaxChanges + 1)
      BY MemoryConstants DEF MemoryInv, MemoryShape
    <3>2. NoRecord \in NoteRows
      BY MemoryConstants DEF NoRecord, NoteRows
    <3> QED
      BY <3>1, <3>2 DEF NoteRows
  <2>3. request' \in Works({"idle", "embed", "read", "pairs"}, Notes)
    BY <2>1, EmbedIs
  <2>4. <<n, t>> \notin removed
    BY <2>1
  <2> HIDE DEF new
  <2>5. notes' \in [Notes -> NoteRows] /\ notes'[n] = new /\ \A m \in Notes \ {n} : notes'[m] = notes[m]
    BY <1>1, <2>1, <2>2
  <2>6. \A m \in Notes : notes'[m].status # "none" => notes'[m].text \in Texts /\ <<m, notes'[m].text>> \notin removed
    BY <2>2, <2>4, <2>5 DEF MemoryInv, MemoryShape, GoneStaysGone
  <2> QED
    BY <1>1, <1>2, <2>3, <2>5, <2>6 DEF MemoryInv, MemoryShape, GoneStaysGone, SummaryForgets, ProfileForgets
<1> QED
  BY <1>3, <1>4

LEMMA EditKept == ASSUME MemoryInv, NEW n \in Notes, NEW t \in Texts, EditNote(n, t) PROVE MemoryInv'
<1> DEFINE new == Stamped([notes[n] EXCEPT !.text = t])
<1>1. /\ notes \in [Notes -> NoteRows] /\ memoryNow' \in 1..(MaxChanges + 1)
      /\ notes[n].status # "none" /\ notes[n].text # t /\ <<n, t>> \notin removed
      /\ notes' = [notes EXCEPT ![n] = new] /\ UNCHANGED job
      /\ request' = [Quiet EXCEPT !.step = "embed", !.embed = {n}]
  BY TickIs DEF MemoryInv, MemoryShape, EditNote
<1>2. new \in NoteRows /\ new.text = t
  <2>1. [notes[n] EXCEPT !.text = t] \in NoteRows /\ [notes[n] EXCEPT !.text = t].text = t
    BY <1>1 DEF NoteRows
  <2> QED
    BY <2>1, StampedIs DEF MemoryInv
<1>3. request' \in Works({"idle", "embed", "read", "pairs"}, Notes)
  BY <1>1, EmbedIs
<1>4. removed' = removed \cup {<<n, notes[n].text>>} /\ removed' \subseteq Pairs /\ SummaryForgets'
  BY <1>1, ForgetIs DEF EditNote
<1>5. profile' \in [of : SUBSET Pairs, old : BOOLEAN, built : BOOLEAN] /\ profile'.of = {}
  BY DropIs DEF EditNote
<1> HIDE DEF new
<1>6. notes' \in [Notes -> NoteRows] /\ notes'[n] = new /\ \A m \in Notes \ {n} : notes'[m] = notes[m]
  BY <1>1, <1>2
<1>7. \A m \in Notes : notes'[m].status # "none" => notes'[m].text \in Texts /\ <<m, notes'[m].text>> \notin removed'
  BY <1>1, <1>2, <1>4, <1>6 DEF MemoryInv, MemoryShape, GoneStaysGone
<1> QED
  BY <1>1, <1>3, <1>4, <1>5, <1>6, <1>7 DEF MemoryInv, MemoryShape, GoneStaysGone, ProfileForgets

LEMMA RemoveKept == ASSUME MemoryInv, NEW n \in Notes, RemoveNote(n) PROVE MemoryInv'
<1>1. /\ notes \in [Notes -> NoteRows] /\ memoryNow' \in 1..(MaxChanges + 1)
      /\ notes[n].status # "none" /\ notes' = [notes EXCEPT ![n] = NoRecord] /\ UNCHANGED <<request, job>>
  BY TickIs DEF MemoryInv, MemoryShape, RemoveNote
<1>2. NoRecord \in NoteRows /\ NoRecord.status = "none"
  BY MemoryConstants DEF NoRecord, NoteRows
<1>3. removed' = removed \cup {<<n, notes[n].text>>} /\ removed' \subseteq Pairs /\ SummaryForgets'
  BY <1>1, ForgetIs DEF RemoveNote
<1>4. profile' \in [of : SUBSET Pairs, old : BOOLEAN, built : BOOLEAN] /\ profile'.of = {}
  BY DropIs DEF RemoveNote
<1>5. notes' \in [Notes -> NoteRows] /\ notes'[n] = NoRecord /\ \A m \in Notes \ {n} : notes'[m] = notes[m]
  BY <1>1, <1>2
<1>6. \A m \in Notes : notes'[m].status # "none" => notes'[m].text \in Texts /\ <<m, notes'[m].text>> \notin removed'
  BY <1>1, <1>2, <1>3, <1>5 DEF MemoryInv, MemoryShape, GoneStaysGone
<1> QED
  BY <1>1, <1>3, <1>4, <1>5, <1>6 DEF MemoryInv, MemoryShape, GoneStaysGone, ProfileForgets

(* The person's other writes drop the profile and leave every text.        *)
LEMMA WriteKept ==
    ASSUME MemoryInv, MayWrite, Tick, DropProfile, KeepsTexts, UNCHANGED <<request, job, removed, slipped>>
    PROVE  MemoryInv'
<1>1. profile' \in [of : SUBSET Pairs, old : BOOLEAN, built : BOOLEAN] /\ profile'.of = {}
  BY DropIs
<1> QED
  BY <1>1, TickIs, TextsKept DEF MemoryInv, MemoryShape, KeepsTexts, SummaryForgets, ProfileForgets

LEMMA MarkKept == ASSUME MemoryInv, NEW n \in Notes, NEW status \in {"active", "archived"}, MarkNote(n, status) PROVE MemoryInv'
<1> DEFINE new == [notes[n] EXCEPT !.status = status]
<1>1. notes \in [Notes -> NoteRows] /\ notes[n].status # "none" /\ notes' = [notes EXCEPT ![n] = Stamped(new)]
  BY DEF MemoryInv, MemoryShape, MarkNote
<1>2. new \in NoteRows /\ new.text = notes[n].text
  BY <1>1 DEF NoteRows
<1> HIDE DEF new
<1>3. Stamped(new) \in NoteRows /\ Stamped(new).text = notes[n].text
  BY <1>2, StampedIs DEF MemoryInv
<1>4. KeepsTexts
  BY <1>1, <1>3 DEF KeepsTexts
<1> QED
  BY <1>4, WriteKept DEF MarkNote

LEMMA SplitKept == ASSUME MemoryInv, NEW n \in Notes, SplitNote(n) PROVE MemoryInv'
<1> DEFINE back(m) == [notes[m] EXCEPT !.status = "active", !.into = NoNote]
<1>1. /\ notes \in [Notes -> NoteRows]
      /\ notes' = [m \in Notes |-> IF m \in Swallowed(n) THEN Stamped(back(m))
                                   ELSE IF m = n THEN Stamped(notes[m]) ELSE notes[m]]
  BY DEF MemoryInv, MemoryShape, SplitNote
<1>2. \A m \in Notes : back(m) \in NoteRows /\ back(m).text = notes[m].text
  BY <1>1 DEF NoteRows
<1>3. \A m \in Swallowed(n) : notes[m].status = "archived"
  BY DEF Swallowed
<1> HIDE DEF back
<1>4. \A m \in Notes : /\ Stamped(back(m)) \in NoteRows /\ Stamped(back(m)).text = notes[m].text
                       /\ Stamped(notes[m]) \in NoteRows /\ Stamped(notes[m]).text = notes[m].text
                       /\ Stamped(notes[m]).status = notes[m].status
  BY <1>1, <1>2, StampedIs DEF MemoryInv
<1>5. KeepsTexts
  BY <1>1, <1>3, <1>4 DEF KeepsTexts
<1> QED
  BY <1>5, WriteKept DEF SplitNote

LEMMA SettleKept == ASSUME MemoryInv, NEW n \in Notes, NEW keep \in Notes, SettleNotes(n, keep) PROVE MemoryInv'
<1> DEFINE kept == [notes[keep] EXCEPT !.status = "active", !.with = NoNote]
           lost == [notes[n] EXCEPT !.status = "archived", !.with = keep]
<1>1. /\ notes \in [Notes -> NoteRows] /\ n # keep /\ notes[n].status # "none" /\ notes[keep].status # "none"
      /\ notes' = [notes EXCEPT ![keep] = Stamped(kept), ![n] = Stamped(lost)]
  BY DEF MemoryInv, MemoryShape, SettleNotes
<1>2. kept \in NoteRows /\ kept.text = notes[keep].text /\ lost \in NoteRows /\ lost.text = notes[n].text
  BY <1>1 DEF NoteRows
<1> HIDE DEF kept, lost
<1>3. /\ Stamped(kept) \in NoteRows /\ Stamped(kept).text = notes[keep].text
      /\ Stamped(lost) \in NoteRows /\ Stamped(lost).text = notes[n].text
  BY <1>2, StampedIs DEF MemoryInv
<1>4. KeepsTexts
  BY <1>1, <1>3 DEF KeepsTexts
<1> QED
  BY <1>4, WriteKept DEF SettleNotes

(* What the request and the job do: they write no text, and what they      *)
(* summarise was active when they read it.                                 *)
LEMMA RequestKept ==
    ASSUME MemoryInv, KeepsTexts, request' \in Works({"idle", "embed", "read", "pairs"}, Notes),
           UNCHANGED <<profile, job, memoryNow, removed, slipped>>
    PROVE  MemoryInv'
BY TextsKept DEF MemoryInv, MemoryShape, KeepsTexts, SummaryForgets, ProfileForgets

LEMMA JobKept ==
    ASSUME MemoryInv, KeepsTexts, job' \in Works({"idle", "embed", "read", "pairs", "profile"}, Pairs),
           UNCHANGED <<profile, request, memoryNow, removed, slipped>>
    PROVE  MemoryInv'
<1>1. job' \in Works({"idle", "embed", "read", "pairs", "profile", "summary"}, Pairs) /\ job'.step # "summary"
  BY DEF Works
<1> QED
  BY <1>1, TextsKept DEF MemoryInv, MemoryShape, KeepsTexts, SummaryForgets, ProfileForgets

LEMMA EmbeddedIs ==
    ASSUME NEW r \in NoteRows, NEW v \in Texts \cup {NoText}
    PROVE  [r EXCEPT !.vec = v] \in NoteRows /\ [r EXCEPT !.vec = v].text = r.text /\ [r EXCEPT !.vec = v].status = r.status
BY DEF NoteRows

LEMMA RequestStepKept == ASSUME MemoryInv, RequestEmbeds \/ RequestReads \/ RequestPair PROVE MemoryInv'
<1>0. notes \in [Notes -> NoteRows] /\ request \in Works({"idle", "embed", "read", "pairs"}, Notes)
  BY DEF MemoryInv, MemoryShape
<1>1. UNCHANGED notes => KeepsTexts
  BY <1>0 DEF KeepsTexts
<1>2. CASE RequestEmbeds
  <2>1. CASE request' = Quiet /\ UNCHANGED notes
    <3>1. request' \in Works({"idle", "embed", "read", "pairs"}, Notes)
      BY <2>1 DEF Quiet, Works
    <3> QED
      BY <1>1, <1>2, <2>1, <3>1, RequestKept DEF RequestEmbeds
  <2>2. CASE /\ notes' = [n \in Notes |-> IF n \in request.embed /\ notes[n].status # "none"
                                          THEN [notes[n] EXCEPT !.vec = notes[n].text] ELSE notes[n]]
             /\ request' = [request EXCEPT !.step = "read", !.embed = {}]
    <3>1. \A n \in Notes : notes[n].text \in Texts \cup {NoText}
      BY <1>0 DEF NoteRows
    <3>2. KeepsTexts
      BY <1>0, <2>2, <3>1, EmbeddedIs DEF KeepsTexts
    <3>3. request' \in Works({"idle", "embed", "read", "pairs"}, Notes)
      BY <1>0, <2>2 DEF Works
    <3> QED
      BY <1>2, <3>2, <3>3, RequestKept DEF RequestEmbeds
  <2> QED
    BY <1>2, <2>1, <2>2 DEF RequestEmbeds
<1>3. CASE RequestReads
  <2>1. PICK list \in Snapshots : request' = [request EXCEPT !.step = "pairs", !.list = list]
    BY <1>3 DEF RequestReads
  <2>2. list \in Seq(SeenRows)
    BY SnapshotIs DEF MemoryInv
  <2>3. request' \in Works({"idle", "embed", "read", "pairs"}, Notes)
    BY <1>0, <2>1, <2>2 DEF Works
  <2> QED
    BY <1>1, <1>3, <2>3, RequestKept DEF RequestReads
<1>4. CASE RequestPair
  <2>1. CASE PairsLeft("request", request) = {}
    <3>1. request' = Quiet /\ UNCHANGED notes
      BY <1>4, <2>1 DEF RequestPair
    <3>2. request' \in Works({"idle", "embed", "read", "pairs"}, Notes)
      BY <3>1 DEF Quiet, Works
    <3> QED
      BY <1>1, <1>4, <3>1, <3>2, RequestKept DEF RequestPair
  <2>2. CASE PairsLeft("request", request) # {}
    <3>1. Compared("request", request, request')
      BY <1>4, <2>2 DEF RequestPair, ReconcilePair, Compared
    <3>2. PICK w, next : w = request /\ next = request' /\ Compared("request", w, next)
      BY <3>1
    <3>3. KeepsTexts /\ request' \in Works({"idle", "embed", "read", "pairs"}, Notes)
      BY <1>0, <2>2, <3>2, PairKeeps
    <3> QED
      BY <1>4, <3>3, RequestKept DEF RequestPair
  <2> QED
    BY <2>1, <2>2
<1> QED
  BY <1>2, <1>3, <1>4

LEMMA JobStepKept == ASSUME MemoryInv, JobBegins \/ JobEmbeds \/ JobReads \/ JobPair PROVE MemoryInv'
<1> DEFINE Steps == {"idle", "embed", "read", "pairs", "profile"}
<1>0. /\ notes \in [Notes -> NoteRows]
      /\ job \in Works({"idle", "embed", "read", "pairs", "profile", "summary"}, Pairs)
  BY DEF MemoryInv, MemoryShape
<1>1. UNCHANGED notes => KeepsTexts
  BY <1>0 DEF KeepsTexts
<1>2. Quiet \in Works(Steps, Pairs)
  BY QuietIs DEF Works
<1>3. CASE JobBegins
  <2> DEFINE toEmbed == TextsOf({n \in Active : notes[n].vec = NoText})
  <2>1. toEmbed \in SUBSET Pairs
    BY ActiveTexts DEF TextsOf
  <2>2. job' = [Quiet EXCEPT !.step = "embed", !.embed = toEmbed]
    BY <1>3 DEF JobBegins
  <2> HIDE DEF toEmbed
  <2>3. job' \in Works(Steps, Pairs)
    BY <1>2, <2>1, <2>2 DEF Works
  <2> QED
    BY <1>1, <1>3, <2>3, JobKept DEF JobBegins
<1>4. CASE JobEmbeds
  <2>1. CASE job' = Quiet /\ UNCHANGED notes
    BY <1>1, <1>2, <1>4, <2>1, JobKept DEF JobEmbeds
  <2>2. CASE /\ notes' = [n \in Notes |-> IF \E t \in Texts : <<n, t>> \in job.embed /\ notes[n].status # "none"
                                          THEN [notes[n] EXCEPT !.vec = CHOOSE t \in Texts : <<n, t>> \in job.embed] ELSE notes[n]]
             /\ job' = [job EXCEPT !.step = "read", !.embed = {}]
    <3>1. \A n \in Notes : notes'[n] = notes[n] \/ \E t \in Texts : notes'[n] = [notes[n] EXCEPT !.vec = t]
      <4> TAKE n \in Notes
      <4>1. CASE \E t \in Texts : <<n, t>> \in job.embed /\ notes[n].status # "none"
        <5> DEFINE text == CHOOSE t \in Texts : <<n, t>> \in job.embed
        <5>1. text \in Texts
          BY <4>1
        <5>2. notes'[n] = [notes[n] EXCEPT !.vec = text]
          BY <2>2, <4>1
        <5> QED
          BY <5>1, <5>2
      <4>2. CASE ~\E t \in Texts : <<n, t>> \in job.embed /\ notes[n].status # "none"
        BY <2>2, <4>2
      <4> QED
        BY <4>1, <4>2
    <3>2. \A n \in Notes : /\ notes'[n] \in NoteRows /\ notes'[n].text = notes[n].text
                           /\ notes'[n].status = notes[n].status
      <4> TAKE n \in Notes
      <4>1. notes[n] \in NoteRows
        BY <1>0
      <4>2. CASE \E t \in Texts : notes'[n] = [notes[n] EXCEPT !.vec = t]
        BY <4>1, <4>2, EmbeddedIs
      <4> QED
        BY <3>1, <4>1, <4>2
    <3>3. KeepsTexts
      <4>1. notes' \in [Notes -> NoteRows]
        BY <2>2, <3>2
      <4> QED
        BY <3>2, <4>1 DEF KeepsTexts
    <3>4. job' \in Works(Steps, Pairs)
      BY <1>0, <2>2 DEF Works
    <3> QED
      BY <1>4, <3>3, <3>4, JobKept DEF JobEmbeds
  <2> QED
    BY <1>4, <2>1, <2>2 DEF JobEmbeds
<1>5. CASE JobReads
  <2>1. PICK list \in Snapshots : job' = [job EXCEPT !.step = "pairs", !.list = list]
    BY <1>5 DEF JobReads
  <2>2. list \in Seq(SeenRows)
    BY SnapshotIs DEF MemoryInv
  <2>3. job' \in Works(Steps, Pairs)
    BY <1>0, <2>1, <2>2 DEF Works
  <2> QED
    BY <1>1, <1>5, <2>3, JobKept DEF JobReads
<1>6. CASE JobPair
  <2>1. CASE PairsLeft("job", job) = {}
    <3>1. job' = [Quiet EXCEPT !.step = "profile"] /\ UNCHANGED notes
      BY <1>6, <2>1 DEF JobPair
    <3>2. job' \in Works(Steps, Pairs)
      BY <1>2, <3>1 DEF Works
    <3> QED
      BY <1>1, <1>6, <3>1, <3>2, JobKept DEF JobPair
  <2>2. CASE PairsLeft("job", job) # {}
    <3>1. Compared("job", job, job')
      BY <1>6, <2>2 DEF JobPair, ReconcilePair, Compared
    <3>2. PICK w, next : w = job /\ next = job' /\ Compared("job", w, next)
      BY <3>1
    <3>3. w \in Works(Steps, Pairs)
      <4>1. job.step = "pairs"
        BY <1>6 DEF JobPair
      <4> QED
        BY <1>0, <3>2, <4>1 DEF Works
    <3>4. KeepsTexts /\ job' \in Works(Steps, Pairs)
      BY <2>2, <3>2, <3>3, PairKeeps
    <3> QED
      BY <1>6, <3>4, JobKept DEF JobPair
  <2> QED
    BY <2>1, <2>2
<1> QED
  BY <1>3, <1>4, <1>5, <1>6

LEMMA ProfileKept == ASSUME MemoryInv, ProfileReads \/ ProfileWrites \/ ProfileAges PROVE MemoryInv'
<1>0. /\ job \in Works({"idle", "embed", "read", "pairs", "profile", "summary"}, Pairs)
      /\ profile \in [of : SUBSET Pairs, old : BOOLEAN, built : BOOLEAN]
  BY DEF MemoryInv, MemoryShape
<1>1. UNCHANGED notes /\ UNCHANGED <<request, memoryNow, removed, slipped>>
  BY DEF ProfileReads, ProfileWrites, ProfileAges
<1>2. Quiet \in Works({"idle", "embed", "read", "pairs", "profile", "summary"}, Pairs) /\ Quiet.step = "idle"
  BY QuietIs DEF Works
<1> DEFINE Good == /\ job' \in Works({"idle", "embed", "read", "pairs", "profile", "summary"}, Pairs)
                   /\ job'.step = "summary" => job'.embed \cap removed \subseteq slipped
                   /\ profile' \in [of : SUBSET Pairs, old : BOOLEAN, built : BOOLEAN]
                   /\ profile'.of \cap removed \subseteq slipped
<1> SUFFICES Good
  BY <1>1 DEF MemoryInv, MemoryShape, GoneStaysGone, SummaryForgets, ProfileForgets
<1>3. CASE ProfileReads
  <2>0. UNCHANGED profile
    BY <1>3 DEF ProfileReads
  <2>1. CASE job' = Quiet
    BY <1>0, <1>2, <2>0, <2>1 DEF MemoryInv, ProfileForgets
  <2>2. CASE job' = [Quiet EXCEPT !.step = "summary", !.embed = TextsOf(Active)]
    <3>1. TextsOf(Active) \in SUBSET Pairs /\ TextsOf(Active) \cap removed = {}
      BY ActiveTexts
    <3>2. job' \in Works({"idle", "embed", "read", "pairs", "profile", "summary"}, Pairs) /\ job'.embed = TextsOf(Active)
      BY <1>2, <2>2, <3>1 DEF Works
    <3> QED
      BY <1>0, <2>0, <3>1, <3>2 DEF MemoryInv, ProfileForgets
  <2> QED
    BY <1>3, <2>1, <2>2 DEF ProfileReads
<1>4. CASE ProfileWrites
  <2>1. job' = Quiet /\ job.step = "summary"
    BY <1>4 DEF ProfileWrites
  <2>2. CASE profile' = [of |-> job.embed, old |-> FALSE, built |-> TRUE]
    <3>1. job.embed \in SUBSET Pairs /\ job.embed \cap removed \subseteq slipped
      BY <1>0, <2>1 DEF Works, MemoryInv, SummaryForgets
    <3> QED
      BY <1>2, <2>1, <2>2, <3>1
  <2>3. CASE UNCHANGED profile
    BY <1>0, <1>2, <2>1, <2>3 DEF MemoryInv, ProfileForgets
  <2> QED
    BY <1>4, <2>2, <2>3 DEF ProfileWrites
<1>5. CASE ProfileAges
  BY <1>0, <1>5 DEF ProfileAges, MemoryInv, ProfileForgets, SummaryForgets
<1> QED
  BY <1>3, <1>4, <1>5

LEMMA MemoryKept == MemoryInv /\ [MemoryNext]_memoryVars => MemoryInv'
<1> SUFFICES ASSUME MemoryInv, [MemoryNext]_memoryVars PROVE MemoryInv'
  OBVIOUS
<1>1. CASE UNCHANGED memoryVars
  BY <1>1 DEF memoryVars, MemoryInv, MemoryShape, GoneStaysGone, SummaryForgets, ProfileForgets
<1>2. CASE \E n \in Notes, t \in Texts : ImportNote(n, t) \/ EditNote(n, t)
  BY <1>2, ImportKept, EditKept
<1>3. CASE \E n \in Notes : \/ \E status \in {"active", "archived"} : MarkNote(n, status)
                            \/ RemoveNote(n) \/ SplitNote(n)
                            \/ \E keep \in Notes : SettleNotes(n, keep)
  BY <1>3, MarkKept, RemoveKept, SplitKept, SettleKept
<1> QED
  BY <1>1, <1>2, <1>3, RequestStepKept, JobStepKept, ProfileKept DEF MemoryNext

LEMMA MemoryBegins == MemoryInit => MemoryInv
<1> SUFFICES ASSUME MemoryInit PROVE MemoryInv
  OBVIOUS
<1>1. NoRecord \in NoteRows /\ NoRecord.status = "none"
  BY MemoryConstants DEF NoRecord, NoteRows
<1>2. /\ request \in Works({"idle", "embed", "read", "pairs"}, Notes)
      /\ job \in Works({"idle", "embed", "read", "pairs", "profile", "summary"}, Pairs) /\ job.step = "idle"
  BY QuietIs DEF MemoryInit, Works
<1>3. profile \in [of : SUBSET Pairs, old : BOOLEAN, built : BOOLEAN] /\ profile.of = {}
  BY DEF MemoryInit, NoProfile
<1>4. notes \in [Notes -> NoteRows] /\ \A n \in Notes : notes[n].status = "none"
  BY <1>1 DEF MemoryInit
<1> QED
  BY <1>2, <1>3, <1>4, MemoryConstants DEF MemoryInit, MemoryInv, MemoryShape, GoneStaysGone, SummaryForgets, ProfileForgets

(* index.js, where patch() drops the profile, for any notes and texts,     *)
(* whatever the vectors and the model find alike, and however the person's *)
(* requests and the background job meet.                                   *)
THEOREM ProfilesForget == MemorySpec => [](MemoryTypeOK /\ ProfileForgets)
<1>1. MemoryInv => MemoryTypeOK /\ ProfileForgets
  <2> SUFFICES ASSUME MemoryInv PROVE MemoryTypeOK
    BY DEF MemoryInv
  <2>1. profile.of \in SUBSET Pairs
    BY DEF MemoryInv, MemoryShape
  <2> QED
    BY <2>1 DEF MemoryInv, MemoryShape, MemoryTypeOK, NoteRows, Pairs
<1> QED
  BY <1>1, MemoryBegins, MemoryKept, PTL DEF MemorySpec

---------------------------------------------------------------------------------
(* The machines of the community: what failed stays failed, and credits    *)
(* are earned fairly.                                                      *)

ServingSteps == {"idle", "ensure", "canary", "canary sent", "reread", "route", "sent", "spot", "rerun", "record", "write", "ended"}
OfferRecords == [status : Statuses, recent : BOOLEAN]
ServingRows  == [step : ServingSteps, offer : CommunityOfferSet \cup {NoOffer}, status : Statuses \cup {"none"},
                 peer : CommunityOfferSet \cup {NoOffer}, credits : Nat]
EarningRows  == [request : CommunityRequests, offer : CommunityOfferSet, credits : Nat]
Earners      == {SellerOf[o] : o \in CommunityOfferSet}

(* Who began has chosen an offer, and goes by no status before.            *)
GoodServing(x) == /\ x \in ServingRows
                  /\ IF x.step = "idle" THEN x.status = "none" ELSE x.offer \in CommunityOfferSet

CommunityShape ==
    /\ offerRows \in [CommunityOfferSet -> OfferRecords]
    /\ DOMAIN serving = CommunityRequests /\ \A r \in CommunityRequests : GoodServing(serving[r])
    /\ IsFiniteSet(earnings) /\ earnings \subseteq EarningRows

(* Verified is only what passed a canary round.                            *)
ProvenRows  == /\ \A o \in CommunityOfferSet : offerRows[o].status = "verified" => o \in proven
               /\ \A r \in CommunityRequests : serving[r].status = "verified" => serving[r].offer \in proven
OthersWork(e) == e.credits > 0 => e.offer \in proven /\ SellerOf[e.offer] # PersonOf[e.request]
Record(r)   == [request |-> r, offer |-> serving[r].offer, credits |-> serving[r].credits]
FairRecords == /\ \A e \in earnings : OthersWork(e)
               /\ \A r \in CommunityRequests : StandsAt(r, "write") => OthersWork(Record(r))

(* Who writes alone read everything the seller earned before.              *)
WritesFor(r, seller) == StandsAt(r, "write") /\ SellerOf[serving[r].offer] = seller
CapKept == \A seller \in Earners : seller \notin overlapped =>
    /\ EarnedBy(seller) <= DailyCap
    /\ \A r \in CommunityRequests : WritesFor(r, seller) =>
        /\ EarnedBy(seller) + serving[r].credits <= DailyCap
        /\ \A s \in CommunityRequests : WritesFor(s, seller) => s = r

CommunityInv == CommunityShape /\ ProvenRows /\ FairRecords /\ CapKept

(* The sum of the credits of a set of records.                             *)
CreditsOf(E) == MapThenSumSet(LAMBDA e : e.credits, E)

LEMMA CreditsAdd ==
    ASSUME NEW E, IsFiniteSet(E), NEW g, \A e \in E : g[e] = e.credits
    PROVE  CreditsOf(E) = Total(g, E)
<1> DEFINE step(it) == [s \in SUBSET E |-> IF s = {} THEN 0 ELSE LET x == CHOOSE x \in s : TRUE IN x.credits + it[s \ {x}]]
           iter == CHOOSE it : it = step(it)
<1>1. CreditsOf(E) = iter[E]
  BY DEF CreditsOf, MapThenSumSet, MapThenFoldSet
<1>2. PICK k : Adds(k, g, E)
  BY SomethingAdds
<1> DEFINE h == [s \in SUBSET E |-> k[s]]
<1>3. h = step(h)
  <2>1. \A s \in SUBSET E : h[s] = step(h)[s]
    BY <1>2 DEF Adds, One
  <2> QED
    BY <2>1
<1>4. iter = step(iter)
  <2> HIDE DEF step, h
  <2> QED
    BY <1>3
<1>5. Adds(iter, g, E)
  <2>1. \A s \in SUBSET E : iter[s] = step(iter)[s]
    BY <1>4
  <2> HIDE DEF iter
  <2> QED
    BY <2>1 DEF Adds, One
<1>6. iter[E] = Total(g, E)
  <2> HIDE DEF iter
  <2> QED
    BY <1>5, TotalIs
<1> QED
  BY <1>1, <1>6

LEMMA CreditsGrow ==
    ASSUME NEW E, IsFiniteSet(E), NEW x, \A e \in E \cup {x} : e.credits \in Nat
    PROVE  /\ CreditsOf(E) \in Nat
           /\ CreditsOf(E \cup {x}) = IF x \in E THEN CreditsOf(E) ELSE x.credits + CreditsOf(E)
<1> DEFINE g == [e \in E \cup {x} |-> e.credits]
<1>1. \A e \in E \cup {x} : g[e] = e.credits /\ g[e] \in Nat
  OBVIOUS
<1>2. IsFiniteSet(E \cup {x})
  BY FS_AddElement
<1> HIDE DEF g
<1>3. CreditsOf(E) = Total(g, E) /\ CreditsOf(E \cup {x}) = Total(g, E \cup {x})
  BY <1>1, <1>2, CreditsAdd
<1>4. Total(g, E) \in Nat
  BY <1>1, TotalNat
<1>5. x \notin E => Total(g, E \cup {x}) = g[x] + Total(g, E)
  BY <1>1, TotalAdds
<1>6. x \in E => E \cup {x} = E
  OBVIOUS
<1> QED
  BY <1>1, <1>3, <1>4, <1>5, <1>6

RecordsOf(seller) == {e \in earnings : SellerOf[e.offer] = seller}

LEMMA EarnedIs == \A seller : EarnedBy(seller) = CreditsOf(RecordsOf(seller)) /\ EarnedBy(seller)' = CreditsOf(RecordsOf(seller)')
BY DEF EarnedBy, CreditsOf, RecordsOf, MapThenSumSet, MapThenFoldSet

LEMMA EarnedSame == ASSUME UNCHANGED earnings PROVE \A seller : EarnedBy(seller)' = EarnedBy(seller)
<1> TAKE seller
<1>1. RecordsOf(seller)' = RecordsOf(seller)
  BY DEF RecordsOf
<1> QED
  BY <1>1, EarnedIs

LEMMA EarnedNat == ASSUME CommunityShape PROVE \A seller : EarnedBy(seller) \in Nat
<1> TAKE seller
<1>1. PICK E : E = RecordsOf(seller)
  OBVIOUS
<1>2. IsFiniteSet(E) /\ IsFiniteSet({}) /\ \A e \in E : e.credits \in Nat
  BY <1>1, FS_Subset, FS_EmptySet DEF CommunityShape, EarningRows, RecordsOf
<1>3. CASE E = {}
  <2>1. PICK g : g = [e \in {} |-> 0]
    OBVIOUS
  <2>2. CreditsOf({}) = Total(g, {}) /\ Total(g, {}) = 0
    BY <1>2, CreditsAdd, TotalEmpty
  <2>3. CreditsOf(E) = 0
    BY <1>3, <2>2
  <2> QED
    BY <1>1, <2>3, EarnedIs
<1>4. CASE E # {}
  <2>1. PICK x : x \in E
    BY <1>4
  <2> QED
    BY <1>1, <1>2, <2>1, CreditsGrow, EarnedIs
<1> QED
  BY <1>3, <1>4

(* A step of one request that writes no record, nor is about to.           *)
LEMMA ServingMoves ==
    ASSUME CommunityInv, NEW r \in CommunityRequests, NEW x, GoodServing(x), serving' = [serving EXCEPT ![r] = x],
           x.step # "write", UNCHANGED <<earnings, overlapped>>,
           offerRows' \in [CommunityOfferSet -> OfferRecords], proven \subseteq proven',
           \A o \in CommunityOfferSet : offerRows'[o].status = "verified" => o \in proven',
           x.status = "verified" => x.offer \in proven'
    PROVE  CommunityInv'
<1>1. serving'[r] = x /\ DOMAIN serving' = CommunityRequests /\ \A s \in CommunityRequests \ {r} : serving'[s] = serving[s]
  BY DEF CommunityInv, CommunityShape
<1>2. CommunityShape'
  BY <1>1 DEF CommunityInv, CommunityShape
<1>3. ProvenRows'
  BY <1>1 DEF CommunityInv, ProvenRows
<1>4. FairRecords'
  BY <1>1 DEF CommunityInv, FairRecords, OthersWork, Record, StandsAt
<1>5. \A seller : EarnedBy(seller)' = EarnedBy(seller)
  BY EarnedSame
<1>6. \A seller : \A s \in CommunityRequests : WritesFor(s, seller)' => WritesFor(s, seller) /\ serving'[s] = serving[s]
  BY <1>1 DEF WritesFor, StandsAt
<1>7. CapKept'
  BY <1>5, <1>6 DEF CommunityInv, CapKept
<1> QED
  BY <1>2, <1>3, <1>4, <1>7 DEF CommunityInv

(* A row of an offer becomes another, while nobody moves.                  *)
LEMMA OfferRowMoves ==
    ASSUME CommunityInv, UNCHANGED <<serving, earnings, overlapped, proven>>,
           offerRows' \in [CommunityOfferSet -> OfferRecords],
           \A o \in CommunityOfferSet : offerRows'[o].status = "verified" => offerRows[o].status = "verified"
    PROVE  CommunityInv'
<1>1. CommunityShape' /\ ProvenRows'
  BY DEF CommunityInv, CommunityShape, ProvenRows
<1>2. FairRecords'
  BY DEF CommunityInv, FairRecords, OthersWork, Record, StandsAt
<1>3. CapKept'
  BY EarnedSame DEF CommunityInv, CapKept, WritesFor, StandsAt
<1> QED
  BY <1>1, <1>2, <1>3 DEF CommunityInv

LEMMA ServesIs ==
    ASSUME CommunityInv, NEW r \in CommunityRequests, serving[r].step # "idle",
           NEW step \in ServingSteps \ {"idle"}, Serves(r, step)
    PROVE  /\ serving' = [serving EXCEPT ![r] = [serving[r] EXCEPT !.step = step]]
           /\ GoodServing([serving[r] EXCEPT !.step = step]) /\ [serving[r] EXCEPT !.step = step].step = step
           /\ [serving[r] EXCEPT !.step = step].status = "verified" => [serving[r] EXCEPT !.step = step].offer \in proven
<1>1. GoodServing(serving[r]) /\ (serving[r].status = "verified" => serving[r].offer \in proven)
  BY DEF CommunityInv, CommunityShape, ProvenRows
<1> QED
  BY <1>1 DEF Serves, GoodServing, ServingRows

(* Where only the step of a request, and the row of its offer, change.     *)
LEMMA ServingStepMoves ==
    ASSUME CommunityInv, NEW r \in CommunityRequests, serving[r].step # "idle",
           NEW step \in ServingSteps \ {"idle", "write"}, Serves(r, step), UNCHANGED <<earnings, overlapped>>,
           offerRows' \in [CommunityOfferSet -> OfferRecords], proven \subseteq proven',
           \A o \in CommunityOfferSet : offerRows'[o].status = "verified" => o \in proven'
    PROVE  CommunityInv'
<1> DEFINE x == [serving[r] EXCEPT !.step = step]
<1>1. serving' = [serving EXCEPT ![r] = x] /\ GoodServing(x) /\ x.step = step /\ (x.status = "verified" => x.offer \in proven)
  BY ServesIs
<1> HIDE DEF x
<1> QED
  BY <1>1, ServingMoves

LEMMA ServingKept ==
    ASSUME CommunityInv, NEW r \in CommunityRequests,
           \/ ChooseOffer(r) \/ EnsureOffer(r) \/ CanaryBegins(r) \/ CanaryEnds(r)
           \/ RereadOffer(r) \/ SendToOffer(r) \/ OfferAnswers(r) \/ SpotBegins(r) \/ SpotEnds(r)
    PROVE  CommunityInv'
<1> DEFINE o == serving[r].offer
<1>0. /\ offerRows \in [CommunityOfferSet -> OfferRecords] /\ GoodServing(serving[r])
      /\ serving[r].step # "idle" => o \in CommunityOfferSet
      /\ \A p \in CommunityOfferSet : offerRows[p].status = "verified" => p \in proven
      /\ serving[r].status = "verified" => o \in proven
  BY DEF CommunityInv, CommunityShape, ProvenRows, GoodServing
<1>1. CASE ChooseOffer(r)
  <2>1. PICK p \in CommunityOfferSet : serving' = [serving EXCEPT ![r].step = "ensure", ![r].offer = p]
    BY <1>1 DEF ChooseOffer
  <2> DEFINE x == [serving[r] EXCEPT !.step = "ensure", !.offer = p]
  <2>2. serving' = [serving EXCEPT ![r] = x] /\ UNCHANGED <<offerRows, earnings, proven, overlapped>>
    BY <1>1, <2>1 DEF ChooseOffer
  <2>3. GoodServing(x) /\ x.step = "ensure" /\ x.status = "none"
    BY <1>0, <1>1 DEF ChooseOffer, StandsAt, GoodServing, ServingRows, ServingSteps
  <2> HIDE DEF x
  <2> QED
    BY <1>0, <2>2, <2>3, ServingMoves
<1>2. CASE EnsureOffer(r)
  <2>1. PICK step \in {"reread", "ended", "canary"} : Serves(r, step)
    BY <1>2 DEF EnsureOffer, FailedVerification
  <2>2. /\ serving[r].step # "idle" /\ UNCHANGED <<earnings, overlapped, proven>>
        /\ offerRows' \in {offerRows, [offerRows EXCEPT ![o].status = IF @ = "absent" THEN "new" ELSE @]}
    BY <1>2 DEF EnsureOffer, StandsAt
  <2>3. /\ offerRows' \in [CommunityOfferSet -> OfferRecords]
        /\ \A p \in CommunityOfferSet : offerRows'[p].status = "verified" => p \in proven
    BY <1>0, <2>2 DEF OfferRecords, Statuses
  <2> QED
    BY <2>1, <2>2, <2>3, ServingStepMoves DEF ServingSteps
<1>3. CASE CanaryBegins(r)
  <2>1. PICK step \in {"ended", "canary sent"} : Serves(r, step)
    BY <1>3 DEF CanaryBegins
  <2>2. serving[r].step # "idle" /\ UNCHANGED <<offerRows, earnings, overlapped, proven>>
    BY <1>3 DEF CanaryBegins, StandsAt
  <2> QED
    BY <1>0, <2>1, <2>2, ServingStepMoves DEF ServingSteps
<1>4. CASE CanaryEnds(r)
  <2>1. PICK step \in {"reread", "ended"} : Serves(r, step)
    BY <1>4 DEF CanaryEnds, FailedVerification
  <2>2. serving[r].step # "idle" /\ UNCHANGED <<earnings, overlapped>>
    BY <1>4 DEF CanaryEnds, StandsAt
  <2>3. \/ offerRows' = [offerRows EXCEPT ![o] = PassedRow(offerRows[o])] /\ proven' = proven \cup {o}
        \/ offerRows' = [offerRows EXCEPT ![o] = [status |-> "failed", recent |-> TRUE]] /\ UNCHANGED proven
        \/ UNCHANGED <<offerRows, proven>>
    BY <1>4 DEF CanaryEnds
  <2>4. PassedRow(offerRows[o]) \in OfferRecords /\ [status |-> "failed", recent |-> TRUE] \in OfferRecords
    BY DEF PassedRow, OfferRecords, Statuses
  <2>5. /\ offerRows' \in [CommunityOfferSet -> OfferRecords] /\ proven \subseteq proven'
        /\ \A p \in CommunityOfferSet : offerRows'[p].status = "verified" => p \in proven'
    BY <1>0, <2>3, <2>4
  <2> QED
    BY <2>1, <2>2, <2>5, ServingStepMoves DEF ServingSteps
<1>5. CASE RereadOffer(r)
  <2> DEFINE x == [serving[r] EXCEPT !.step = "route", !.status = offerRows[o].status]
  <2>1. serving' = [serving EXCEPT ![r] = x] /\ UNCHANGED <<offerRows, earnings, proven, overlapped>> /\ serving[r].step = "reread"
    BY <1>5 DEF RereadOffer, StandsAt
  <2>2. GoodServing(x) /\ x.step = "route" /\ x.status = offerRows[o].status /\ x.offer = o
    BY <1>0, <2>1 DEF GoodServing, ServingRows, ServingSteps, OfferRecords
  <2> HIDE DEF x
  <2> QED
    BY <1>0, <2>1, <2>2, ServingMoves
<1>6. CASE SendToOffer(r) \/ OfferAnswers(r)
  <2>1. PICK step \in {"ended", "sent", "spot"} : Serves(r, step)
    BY <1>6 DEF SendToOffer, OfferAnswers
  <2>2. serving[r].step # "idle" /\ UNCHANGED <<offerRows, earnings, overlapped, proven>>
    BY <1>6 DEF SendToOffer, OfferAnswers, StandsAt
  <2> QED
    BY <1>0, <2>1, <2>2, ServingStepMoves DEF ServingSteps
<1>7. CASE SpotBegins(r)
  <2>0. serving[r].step = "spot" /\ UNCHANGED <<offerRows, earnings, overlapped, proven>>
    BY <1>7 DEF SpotBegins, StandsAt
  <2>1. CASE Serves(r, "record")
    BY <1>0, <2>0, <2>1, ServingStepMoves DEF ServingSteps
  <2>2. CASE \E p \in SpotPeers(r) : serving' = [serving EXCEPT ![r].step = "rerun", ![r].peer = p]
    <3>1. PICK p \in CommunityOfferSet : serving' = [serving EXCEPT ![r].step = "rerun", ![r].peer = p]
      BY <2>2 DEF SpotPeers
    <3> DEFINE x == [serving[r] EXCEPT !.step = "rerun", !.peer = p]
    <3>2. serving' = [serving EXCEPT ![r] = x]
      BY <3>1
    <3>3. GoodServing(x) /\ x.step = "rerun" /\ x.status = serving[r].status /\ x.offer = o
      BY <1>0, <2>0 DEF GoodServing, ServingRows, ServingSteps
    <3> HIDE DEF x
    <3> QED
      BY <1>0, <2>0, <3>2, <3>3, ServingMoves
  <2> QED
    BY <1>7, <2>1, <2>2 DEF SpotBegins
<1>8. CASE SpotEnds(r)
  <2>1. PICK step \in {"record", "ended"} : Serves(r, step)
    BY <1>8 DEF SpotEnds
  <2>2. /\ serving[r].step # "idle" /\ UNCHANGED <<earnings, overlapped, proven>>
        /\ offerRows' \in {offerRows, [offerRows EXCEPT ![o].status = "failed"]}
    BY <1>8 DEF SpotEnds, StandsAt
  <2>3. /\ offerRows' \in [CommunityOfferSet -> OfferRecords]
        /\ \A p \in CommunityOfferSet : offerRows'[p].status = "verified" => p \in proven
    BY <1>0, <2>2 DEF OfferRecords, Statuses
  <2> QED
    BY <2>1, <2>2, <2>3, ServingStepMoves DEF ServingSteps
<1> QED
  BY <1>1, <1>2, <1>3, <1>4, <1>5, <1>6, <1>7, <1>8

(* What was read leaves room for the credits, unless another answer of the *)
(* seller is about to be written.                                          *)
LEMMA RoomRead == ASSUME CommunityInv, NEW r \in CommunityRequests, RecordReads(r) PROVE CommunityInv'
<1> DEFINE o == serving[r].offer
           v == SellerOf[o]
           x == [serving[r] EXCEPT !.step = "write", !.credits = CreditsFor(r)]
<1>1. /\ serving' = [serving EXCEPT ![r] = x] /\ serving[r].step = "record" /\ UNCHANGED <<offerRows, earnings, proven>>
      /\ overlapped' = overlapped \cup {SellerOf[serving[s].offer] : s \in {t \in CommunityRequests \ {r} :
                           StandsAt(t, "write") /\ SellerOf[serving[t].offer] = v}}
  BY DEF RecordReads, StandsAt
<1>2. GoodServing(serving[r]) /\ o \in CommunityOfferSet
  BY <1>1 DEF CommunityInv, CommunityShape, GoodServing
<1>3. EarnedBy(v) \in Nat /\ DailyCap \in Nat /\ Earning[o] \in Nat
  BY <1>2, EarnedNat, CommunityConstants DEF CommunityInv
<1>4. /\ CreditsFor(r) \in Nat /\ (EarnedBy(v) <= DailyCap => EarnedBy(v) + CreditsFor(r) <= DailyCap)
      /\ CreditsFor(r) > 0 => serving[r].status = "verified" /\ v # PersonOf[r]
  BY <1>3 DEF CreditsFor, SelfServed, RoomToday, Lesser
<1>5. GoodServing(x) /\ x.step = "write" /\ x.credits = CreditsFor(r) /\ x.offer = o /\ x.status = serving[r].status
  BY <1>1, <1>2, <1>4 DEF GoodServing, ServingRows, ServingSteps
<1> HIDE DEF x
<1>6. serving'[r] = x /\ DOMAIN serving' = CommunityRequests /\ \A s \in CommunityRequests \ {r} : serving'[s] = serving[s]
  BY <1>1 DEF CommunityInv, CommunityShape
<1>7. CommunityShape' /\ ProvenRows'
  BY <1>1, <1>5, <1>6 DEF CommunityInv, CommunityShape, ProvenRows
<1>8. OthersWork([request |-> r, offer |-> o, credits |-> CreditsFor(r)])
  BY <1>4 DEF CommunityInv, ProvenRows, OthersWork
<1>9. FairRecords'
  <2> SUFFICES ASSUME NEW s \in CommunityRequests, StandsAt(s, "write")' PROVE OthersWork(Record(s))'
    BY <1>1 DEF CommunityInv, FairRecords, OthersWork
  <2>1. CASE s = r
    BY <1>1, <1>5, <1>6, <1>8, <2>1 DEF OthersWork, Record
  <2>2. CASE s # r
    BY <1>1, <1>6, <2>2 DEF CommunityInv, FairRecords, OthersWork, Record, StandsAt
  <2> QED
    BY <2>1, <2>2
<1>10. CapKept'
  <2> SUFFICES ASSUME NEW seller \in Earners, seller \notin overlapped'
               PROVE  /\ EarnedBy(seller)' <= DailyCap
                      /\ \A s \in CommunityRequests : WritesFor(s, seller)' =>
                            /\ EarnedBy(seller)' + serving'[s].credits <= DailyCap
                            /\ \A t \in CommunityRequests : WritesFor(t, seller)' => t = s
    BY DEF CapKept
  <2>1. /\ EarnedBy(seller) <= DailyCap
        /\ \A s \in CommunityRequests : WritesFor(s, seller) =>
              /\ EarnedBy(seller) + serving[s].credits <= DailyCap
              /\ \A t \in CommunityRequests : WritesFor(t, seller) => t = s
    BY <1>1 DEF CommunityInv, CapKept
  <2>2. EarnedBy(seller)' = EarnedBy(seller)
    BY <1>1, EarnedSame
  <2>3. \A s \in CommunityRequests \ {r} : WritesFor(s, seller)' <=> WritesFor(s, seller)
    BY <1>6 DEF WritesFor, StandsAt
  <2>4. WritesFor(r, seller)' <=> v = seller
    BY <1>5, <1>6 DEF WritesFor, StandsAt
  <2>5. v = seller => \A s \in CommunityRequests \ {r} : ~WritesFor(s, seller)
    BY <1>1 DEF WritesFor
  <2>6. ASSUME NEW s \in CommunityRequests, WritesFor(s, seller)'
        PROVE  /\ EarnedBy(seller) + serving'[s].credits <= DailyCap
               /\ \A t \in CommunityRequests : WritesFor(t, seller)' => t = s
    <3>1. CASE s = r
      BY <1>4, <1>5, <1>6, <2>1, <2>3, <2>4, <2>5, <2>6, <3>1
    <3>2. CASE s # r
      BY <1>6, <2>1, <2>3, <2>4, <2>5, <2>6, <3>2
    <3> QED
      BY <3>1, <3>2
  <2> QED
    BY <2>1, <2>2, <2>6
<1> QED
  BY <1>7, <1>9, <1>10 DEF CommunityInv

LEMMA CreditsWritten == ASSUME CommunityInv, NEW r \in CommunityRequests, RecordWrites(r) PROVE CommunityInv'
<1> DEFINE x == [serving[r] EXCEPT !.step = "ended"]
           e == Record(r)
           v == SellerOf[serving[r].offer]
<1>1. /\ serving[r].step = "write" /\ UNCHANGED <<offerRows, proven, overlapped>>
      /\ earnings' \in {earnings, earnings \cup {e}}
  BY DEF RecordWrites, StandsAt, Record
<1>2. serving' = [serving EXCEPT ![r] = x] /\ GoodServing(x) /\ x.step = "ended" /\ (x.status = "verified" => x.offer \in proven)
  BY <1>1, ServesIs DEF RecordWrites, ServingSteps
<1> HIDE DEF x
<1>3. serving'[r] = x /\ DOMAIN serving' = CommunityRequests /\ \A s \in CommunityRequests \ {r} : serving'[s] = serving[s]
  BY <1>2 DEF CommunityInv, CommunityShape
<1>4. serving[r].offer \in CommunityOfferSet /\ serving[r].credits \in Nat
  BY <1>1 DEF CommunityInv, CommunityShape, GoodServing, ServingRows
<1>5. e \in EarningRows /\ e.credits = serving[r].credits /\ SellerOf[e.offer] = v /\ OthersWork(e)
  BY <1>1, <1>4 DEF Record, EarningRows, CommunityInv, FairRecords, StandsAt
<1> HIDE DEF e
<1>6. IsFiniteSet(earnings') /\ earnings' \subseteq EarningRows
  BY <1>1, <1>5, FS_AddElement DEF CommunityInv, CommunityShape
<1>7. CommunityShape' /\ ProvenRows'
  BY <1>1, <1>2, <1>3, <1>6 DEF CommunityInv, CommunityShape, ProvenRows
<1>8. FairRecords'
  <2>1. \A s \in CommunityRequests : StandsAt(s, "write")' => StandsAt(s, "write") /\ Record(s)' = Record(s)
    BY <1>2, <1>3 DEF StandsAt, Record
  <2> QED
    BY <1>1, <1>5, <2>1 DEF CommunityInv, FairRecords, OthersWork
<1>9. CapKept'
  <2> SUFFICES ASSUME NEW seller \in Earners, seller \notin overlapped
               PROVE  /\ EarnedBy(seller)' <= DailyCap
                      /\ \A s \in CommunityRequests : WritesFor(s, seller)' =>
                            /\ EarnedBy(seller)' + serving'[s].credits <= DailyCap
                            /\ \A t \in CommunityRequests : WritesFor(t, seller)' => t = s
    BY <1>1 DEF CapKept
  <2>1. /\ EarnedBy(seller) <= DailyCap
        /\ \A s \in CommunityRequests : WritesFor(s, seller) =>
              /\ EarnedBy(seller) + serving[s].credits <= DailyCap
              /\ \A t \in CommunityRequests : WritesFor(t, seller) => t = s
    BY DEF CommunityInv, CapKept
  <2>2. \A s \in CommunityRequests : WritesFor(s, seller)' => s # r /\ WritesFor(s, seller) /\ serving'[s] = serving[s]
    BY <1>2, <1>3 DEF WritesFor, StandsAt
  <2>3. WritesFor(r, seller) <=> v = seller
    BY <1>1 DEF WritesFor, StandsAt
  <2>4. CASE v # seller
    <3>1. RecordsOf(seller)' = RecordsOf(seller)
      BY <1>1, <1>5, <2>4 DEF RecordsOf
    <3>2. EarnedBy(seller)' = EarnedBy(seller)
      BY <3>1, EarnedIs
    <3> QED
      BY <2>1, <2>2, <3>2
  <2>5. CASE v = seller
    <3>1. PICK E : E = RecordsOf(seller)
      OBVIOUS
    <3>2. PICK f : f = e
      OBVIOUS
    <3>3. IsFiniteSet(E) /\ \A d \in E \cup {f} : d.credits \in Nat
      BY <1>4, <1>5, <3>1, <3>2, FS_Subset DEF CommunityInv, CommunityShape, EarningRows, RecordsOf
    <3>4. RecordsOf(seller)' \in {E, E \cup {f}}
      BY <1>1, <1>5, <2>5, <3>1, <3>2 DEF RecordsOf
    <3>5. CreditsOf(E) \in Nat /\ CreditsOf(E \cup {f}) \in {CreditsOf(E), f.credits + CreditsOf(E)} /\ f.credits \in Nat
      BY <3>3, CreditsGrow
    <3>6. EarnedBy(seller) = CreditsOf(E) /\ EarnedBy(seller)' \in {CreditsOf(E), CreditsOf(E \cup {f})}
      BY <3>1, <3>4, EarnedIs
    <3>7. CreditsOf(E) + f.credits <= DailyCap
      BY <1>5, <2>1, <2>3, <2>5, <3>2, <3>6
    <3>8. EarnedBy(seller)' <= DailyCap
      BY <2>1, <3>5, <3>6, <3>7
    <3>9. \A s \in CommunityRequests : ~WritesFor(s, seller)'
      BY <2>1, <2>2, <2>3, <2>5
    <3> QED
      BY <3>8, <3>9
  <2> QED
    BY <2>4, <2>5
<1> QED
  BY <1>7, <1>8, <1>9 DEF CommunityInv

LEMMA CommunityKept == CommunityInv /\ [CommunityNext]_communityVars => CommunityInv'
<1> SUFFICES ASSUME CommunityInv, [CommunityNext]_communityVars PROVE CommunityInv'
  OBVIOUS
<1>0. offerRows \in [CommunityOfferSet -> OfferRecords]
  BY DEF CommunityInv, CommunityShape
<1>1. ASSUME NEW o \in CommunityOfferSet, OfferSeen(o) \/ CanaryAges(o) PROVE CommunityInv'
  <2>1. /\ UNCHANGED <<serving, earnings, overlapped, proven>>
        /\ offerRows' \in {[offerRows EXCEPT ![o].status = "new"], [offerRows EXCEPT ![o].recent = FALSE]}
    BY <1>1 DEF OfferSeen, CanaryAges
  <2>2. /\ offerRows' \in [CommunityOfferSet -> OfferRecords]
        /\ \A p \in CommunityOfferSet : offerRows'[p].status = "verified" => offerRows[p].status = "verified"
    BY <1>0, <2>1 DEF OfferRecords, Statuses
  <2> QED
    BY <2>1, <2>2, OfferRowMoves
<1>2. CASE UNCHANGED communityVars
  BY <1>0, <1>2, OfferRowMoves DEF communityVars
<1> QED
  BY <1>1, <1>2, ServingKept, RoomRead, CreditsWritten DEF CommunityNext

LEMMA CommunityStarts == CommunityInit => CommunityInv
<1> SUFFICES ASSUME CommunityInit PROVE CommunityInv
  OBVIOUS
<1>1. GoodServing(NotServing) /\ NotServing.step = "idle" /\ NotServing.status = "none"
  BY DEF GoodServing, NotServing, ServingRows, ServingSteps
<1>2. CommunityShape
  BY <1>1, CommunityConstants, FS_EmptySet DEF CommunityInit, CommunityShape, OfferRecords
<1>3. ProvenRows /\ FairRecords
  BY <1>1 DEF CommunityInit, ProvenRows, FairRecords, StandsAt
<1>4. ASSUME NEW seller \in Earners PROVE EarnedBy(seller) = 0
  <2>1. PICK E : E = RecordsOf(seller)
    OBVIOUS
  <2>2. E = {}
    BY <2>1 DEF CommunityInit, RecordsOf
  <2>3. PICK g : g = [e \in {} |-> 0]
    OBVIOUS
  <2>4. CreditsOf({}) = Total(g, {}) /\ Total(g, {}) = 0
    BY FS_EmptySet, CreditsAdd, TotalEmpty
  <2> QED
    BY <2>1, <2>2, <2>4, EarnedIs
<1>5. CapKept
  BY <1>1, <1>4, CommunityConstants DEF CommunityInit, CapKept, WritesFor, StandsAt
<1> QED
  BY <1>2, <1>3, <1>5 DEF CommunityInv

(* endpoints.js counts the calls of an endpoint: as many as requests are   *)
(* waiting for it.                                                         *)
Calls(x, o) == \/ x.step \in {"canary sent", "sent"} /\ x.offer = o
               \/ x.step = "rerun" /\ x.peer = o
CallsTo(o)  == {r \in CommunityRequests : Calls(serving[r], o)}
SlotsCount  == /\ inFlight \in [Endpoints -> 0..Concurrency]
               /\ \A o \in Endpoints : IsFiniteSet(CallsTo(o)) /\ inFlight[o] = Cardinality(CallsTo(o))

(* One request moves: nobody else begins a call, or ends one.              *)
LEMMA CallsMove ==
    ASSUME CommunityInv, NEW r \in CommunityRequests, NEW x, serving' = [serving EXCEPT ![r] = x], NEW o
    PROVE  CallsTo(o)' = IF Calls(x, o) THEN CallsTo(o) \cup {r} ELSE CallsTo(o) \ {r}
<1>1. serving'[r] = x /\ \A s \in CommunityRequests \ {r} : serving'[s] = serving[s]
  BY DEF CommunityInv, CommunityShape
<1> QED
  BY <1>1 DEF CallsTo

LEMMA CallStays ==
    ASSUME CommunityInv, SlotsCount, NEW r \in CommunityRequests, NEW x, serving' = [serving EXCEPT ![r] = x],
           \A o \in Endpoints : Calls(x, o) <=> Calls(serving[r], o), UNCHANGED inFlight
    PROVE  SlotsCount'
<1>1. \A o \in Endpoints : r \in CallsTo(o) <=> Calls(serving[r], o)
  BY DEF CallsTo
<1>2. ASSUME NEW o \in Endpoints PROVE CallsTo(o)' = CallsTo(o)
  <2>1. CallsTo(o)' = IF Calls(x, o) THEN CallsTo(o) \cup {r} ELSE CallsTo(o) \ {r}
    BY CallsMove
  <2> QED
    BY <1>1, <2>1
<1> QED
  BY <1>2 DEF SlotsCount

LEMMA CallBegins ==
    ASSUME CommunityInv, SlotsCount, NEW r \in CommunityRequests, NEW x, serving' = [serving EXCEPT ![r] = x],
           NEW p, ~Busy(p), inFlight' = Counted(p),
           \A o \in Endpoints : ~Calls(serving[r], o) /\ (Calls(x, o) <=> o = p)
    PROVE  SlotsCount'
<1>1. \A o \in Endpoints : r \notin CallsTo(o)
  BY DEF CallsTo
<1>2. ASSUME NEW o \in Endpoints PROVE CallsTo(o)' = IF o = p THEN CallsTo(o) \cup {r} ELSE CallsTo(o)
  <2>1. CallsTo(o)' = IF Calls(x, o) THEN CallsTo(o) \cup {r} ELSE CallsTo(o) \ {r}
    BY CallsMove
  <2> QED
    BY <1>1, <2>1
<1>3. ASSUME NEW o \in Endpoints PROVE /\ IsFiniteSet(CallsTo(o)') /\ inFlight'[o] = Cardinality(CallsTo(o)')
                                       /\ inFlight'[o] \in 0..Concurrency
  <2>1. PICK S : S = CallsTo(o) /\ r \notin S /\ CallsTo(o)' = IF o = p THEN S \cup {r} ELSE S
    BY <1>1, <1>2
  <2>2. IsFiniteSet(S) /\ IsFiniteSet(S \cup {r}) /\ Cardinality(S \cup {r}) = Cardinality(S) + 1
    BY <2>1, FS_AddElement DEF SlotsCount
  <2>3. inFlight[o] = Cardinality(S) /\ inFlight[o] \in 0..Concurrency /\ (o = p => inFlight[o] < Concurrency)
    BY <2>1, CommunityConstants DEF SlotsCount, Busy
  <2>4. inFlight'[o] = IF o = p THEN inFlight[o] + 1 ELSE inFlight[o]
    BY DEF Counted, SlotsCount
  <2> QED
    BY <2>1, <2>2, <2>3, <2>4, CommunityConstants
<1>4. DOMAIN inFlight' = Endpoints /\ inFlight' = [o \in Endpoints |-> inFlight'[o]]
  BY DEF Counted, SlotsCount
<1> QED
  BY <1>3, <1>4 DEF SlotsCount

LEMMA CallReturns ==
    ASSUME CommunityInv, SlotsCount, NEW r \in CommunityRequests, NEW x, serving' = [serving EXCEPT ![r] = x],
           NEW p, inFlight' = Returned(p),
           \A o \in Endpoints : ~Calls(x, o) /\ (Calls(serving[r], o) <=> o = p)
    PROVE  SlotsCount'
<1>1. \A o \in Endpoints : r \in CallsTo(o) <=> o = p
  BY DEF CallsTo
<1>2. \A o \in Endpoints : CallsTo(o)' = CallsTo(o) \ {r}
  BY CallsMove
<1>3. ASSUME NEW o \in Endpoints PROVE /\ IsFiniteSet(CallsTo(o)') /\ inFlight'[o] = Cardinality(CallsTo(o)')
                                       /\ inFlight'[o] \in 0..Concurrency
  <2>1. PICK S : S = CallsTo(o) /\ (r \in S <=> o = p) /\ CallsTo(o)' = S \ {r}
    BY <1>1, <1>2
  <2>2. /\ IsFiniteSet(S \ {r}) /\ Cardinality(S \ {r}) \in Nat
        /\ Cardinality(S \ {r}) = IF o = p THEN Cardinality(S) - 1 ELSE Cardinality(S)
    BY <2>1, FS_RemoveElement, FS_CardinalityType DEF SlotsCount
  <2>3. inFlight[o] = Cardinality(S) /\ inFlight[o] \in 0..Concurrency
    BY <2>1 DEF SlotsCount
  <2>4. inFlight'[o] = IF o = p THEN inFlight[o] - 1 ELSE inFlight[o]
    BY DEF Returned, SlotsCount
  <2> QED
    BY <2>1, <2>2, <2>3, <2>4, CommunityConstants
<1>4. DOMAIN inFlight' = Endpoints /\ inFlight' = [o \in Endpoints |-> inFlight'[o]]
  BY DEF Returned, SlotsCount
<1> QED
  BY <1>3, <1>4 DEF SlotsCount

LEMMA SlotsKept == CommunityInv /\ SlotsCount /\ [CommunityNext]_communityVars => SlotsCount'
<1> SUFFICES ASSUME CommunityInv, SlotsCount, [CommunityNext]_communityVars PROVE SlotsCount'
  OBVIOUS
<1> DEFINE To(r, step) == [serving[r] EXCEPT !.step = step]
<1>0. ASSUME NEW r \in CommunityRequests, NEW step
      PROVE  /\ serving[r] \in ServingRows /\ To(r, step).step = step
             /\ To(r, step).offer = serving[r].offer /\ To(r, step).peer = serving[r].peer
             /\ Serves(r, step) => serving' = [serving EXCEPT ![r] = To(r, step)]
  BY DEF CommunityInv, CommunityShape, GoodServing, ServingRows, Serves
<1> HIDE DEF To
<1>1. ASSUME NEW r \in CommunityRequests, ChooseOffer(r) PROVE SlotsCount'
  <2>1. PICK o \in CommunityOfferSet : serving' = [serving EXCEPT ![r].step = "ensure", ![r].offer = o]
    BY <1>1 DEF ChooseOffer
  <2> DEFINE x == [serving[r] EXCEPT !.step = "ensure", !.offer = o]
  <2>2. serving' = [serving EXCEPT ![r] = x] /\ x.step = "ensure"
    BY <1>0, <2>1 DEF ServingRows
  <2> HIDE DEF x
  <2> QED
    BY <1>1, <2>2, CallStays DEF ChooseOffer, StandsAt, Calls
<1>2. ASSUME NEW r \in CommunityRequests, NEW step \in {"reread", "canary", "ended", "record"}, Serves(r, step),
             UNCHANGED inFlight, serving[r].step \in {"ensure", "canary", "route", "spot", "write"}
      PROVE  SlotsCount'
  <2>1. PICK x : x = To(r, step)
    OBVIOUS
  <2>2. serving' = [serving EXCEPT ![r] = x] /\ x.step = step
    BY <1>0, <1>2, <2>1
  <2>3. \A o : ~Calls(x, o) /\ ~Calls(serving[r], o)
    BY <1>2, <2>2 DEF Calls
  <2> QED
    BY <1>2, <2>2, <2>3, CallStays
<1>3. ASSUME NEW r \in CommunityRequests, NEW step \in {"canary sent", "sent"}, Serves(r, step),
             serving[r].step \in {"canary", "route"}, ~Busy(serving[r].offer), inFlight' = Counted(serving[r].offer)
      PROVE  SlotsCount'
  <2>1. PICK x, o : x = To(r, step) /\ o = serving[r].offer
    OBVIOUS
  <2>2. serving' = [serving EXCEPT ![r] = x] /\ x.step = step /\ x.offer = o
    BY <1>0, <1>3, <2>1
  <2>3. \A q : ~Calls(serving[r], q) /\ (Calls(x, q) <=> q = o)
    BY <1>3, <2>1, <2>2 DEF Calls
  <2> QED
    BY <1>3, <2>1, <2>2, <2>3, CallBegins
<1>4. ASSUME NEW r \in CommunityRequests, NEW step \in {"reread", "ended", "spot"}, Serves(r, step),
             serving[r].step \in {"canary sent", "sent"}, inFlight' = Returned(serving[r].offer)
      PROVE  SlotsCount'
  <2>1. PICK x, o : x = To(r, step) /\ o = serving[r].offer
    OBVIOUS
  <2>2. serving' = [serving EXCEPT ![r] = x] /\ x.step = step /\ x.offer = o
    BY <1>0, <1>4, <2>1
  <2>3. \A q : ~Calls(x, q) /\ (Calls(serving[r], q) <=> q = o)
    BY <1>4, <2>1, <2>2 DEF Calls
  <2> QED
    BY <1>4, <2>1, <2>2, <2>3, CallReturns
<1>5. ASSUME NEW r \in CommunityRequests, EnsureOffer(r) PROVE SlotsCount'
  BY <1>2, <1>5 DEF EnsureOffer, FailedVerification, StandsAt
<1>6. ASSUME NEW r \in CommunityRequests, CanaryBegins(r) PROVE SlotsCount'
  BY <1>2, <1>3, <1>6 DEF CanaryBegins, StandsAt
<1>7. ASSUME NEW r \in CommunityRequests, CanaryEnds(r) PROVE SlotsCount'
  BY <1>4, <1>7 DEF CanaryEnds, FailedVerification, StandsAt
<1>8. ASSUME NEW r \in CommunityRequests, RereadOffer(r) PROVE SlotsCount'
  <2> DEFINE x == [serving[r] EXCEPT !.step = "route", !.status = offerRows[serving[r].offer].status]
  <2>2. serving' = [serving EXCEPT ![r] = x] /\ x.step = "route"
    BY <1>0, <1>8 DEF RereadOffer, ServingRows
  <2> HIDE DEF x
  <2> QED
    BY <1>8, <2>2, CallStays DEF RereadOffer, StandsAt, Calls
<1>9. ASSUME NEW r \in CommunityRequests, SendToOffer(r) PROVE SlotsCount'
  BY <1>2, <1>3, <1>9 DEF SendToOffer, StandsAt
<1>10. ASSUME NEW r \in CommunityRequests, OfferAnswers(r) PROVE SlotsCount'
  BY <1>4, <1>10 DEF OfferAnswers, StandsAt
<1>11. ASSUME NEW r \in CommunityRequests, SpotBegins(r) PROVE SlotsCount'
  <2>1. CASE Serves(r, "record") /\ UNCHANGED inFlight
    BY <1>2, <1>11, <2>1 DEF SpotBegins, StandsAt
  <2>2. ASSUME NEW p \in SpotPeers(r), ~Busy(p), inFlight' = Counted(p),
               serving' = [serving EXCEPT ![r].step = "rerun", ![r].peer = p]
        PROVE  SlotsCount'
    <3> DEFINE x == [serving[r] EXCEPT !.step = "rerun", !.peer = p]
    <3>1. serving' = [serving EXCEPT ![r] = x] /\ x.step = "rerun" /\ x.peer = p
      BY <1>0, <2>2 DEF ServingRows
    <3> HIDE DEF x
    <3> QED
      BY <1>11, <2>2, <3>1, CallBegins DEF SpotBegins, StandsAt, Calls
  <2> QED
    BY <1>11, <2>1, <2>2 DEF SpotBegins
<1>12. ASSUME NEW r \in CommunityRequests, SpotEnds(r) PROVE SlotsCount'
  <2>1. PICK step \in {"record", "ended"} : Serves(r, step)
    BY <1>12 DEF SpotEnds
  <2>2. PICK x, p : x = To(r, step) /\ p = serving[r].peer
    OBVIOUS
  <2>3. serving' = [serving EXCEPT ![r] = x] /\ x.step = step
    BY <1>0, <2>1, <2>2
  <2>4. \A q : ~Calls(x, q) /\ (Calls(serving[r], q) <=> q = p)
    BY <1>12, <2>1, <2>2, <2>3 DEF Calls, SpotEnds, StandsAt
  <2>5. inFlight' = Returned(p)
    BY <1>12, <2>2 DEF SpotEnds
  <2> QED
    BY <2>3, <2>4, <2>5, CallReturns
<1>13. ASSUME NEW r \in CommunityRequests, RecordReads(r) PROVE SlotsCount'
  <2> DEFINE x == [serving[r] EXCEPT !.step = "write", !.credits = CreditsFor(r)]
  <2>2. serving' = [serving EXCEPT ![r] = x] /\ x.step = "write"
    BY <1>0, <1>13 DEF RecordReads, ServingRows
  <2> HIDE DEF x
  <2> QED
    BY <1>13, <2>2, CallStays DEF RecordReads, StandsAt, Calls
<1>14. ASSUME NEW r \in CommunityRequests, RecordWrites(r) PROVE SlotsCount'
  BY <1>2, <1>14 DEF RecordWrites, StandsAt
<1>15. CASE UNCHANGED <<inFlight, serving>>
  BY <1>15 DEF SlotsCount, CallsTo
<1>16. \/ UNCHANGED <<inFlight, serving>>
       \/ \E r \in CommunityRequests :
            \/ ChooseOffer(r) \/ EnsureOffer(r) \/ CanaryBegins(r) \/ CanaryEnds(r)
            \/ RereadOffer(r) \/ SendToOffer(r) \/ OfferAnswers(r)
            \/ SpotBegins(r) \/ SpotEnds(r) \/ RecordReads(r) \/ RecordWrites(r)
  BY DEF CommunityNext, communityVars, OfferSeen, CanaryAges
<1> QED
  BY <1>1, <1>5, <1>6, <1>7, <1>8, <1>9, <1>10, <1>11, <1>12, <1>13, <1>14, <1>15, <1>16

LEMMA SlotsStart == CommunityInit => SlotsCount
<1> SUFFICES ASSUME CommunityInit PROVE SlotsCount
  OBVIOUS
<1>1. \A o : CallsTo(o) = {}
  BY DEF CommunityInit, CallsTo, Calls, NotServing
<1> QED
  BY <1>1, FS_EmptySet, CommunityConstants DEF CommunityInit, SlotsCount

(* recordUsage() of community/index.js: credits are earned by a machine    *)
(* that passed a canary round, for another person's request, and no seller *)
(* passes the cap of the day, but by two answers that were recorded over   *)
(* each other.                                                             *)
(* community/endpoints.js: no endpoint ever has more calls in flight than  *)
(* it declared, the count being of the requests that wait for it.          *)
THEOREM CreditsAreFair == CommunitySpec => [](CommunityTypeOK /\ EarnedFairly)
<1>1. CommunityInv => EarnedFairly
  <2> SUFFICES ASSUME CommunityInv PROVE EarnedFairly
    OBVIOUS
  <2>1. \A e \in earnings : e.credits > 0 => e.offer \in proven /\ SellerOf[e.offer] # PersonOf[e.request]
    BY DEF CommunityInv, FairRecords, OthersWork
  <2>2. ASSUME NEW o \in CommunityOfferSet, EarnedBy(SellerOf[o]) > DailyCap PROVE SellerOf[o] \in overlapped
    <3>1. SellerOf[o] \in Earners /\ EarnedBy(SellerOf[o]) \in Nat /\ DailyCap \in Nat
      BY EarnedNat, CommunityConstants DEF Earners, CommunityInv
    <3> QED
      BY <2>2, <3>1 DEF CommunityInv, CapKept
  <2> QED
    BY <2>1, <2>2 DEF EarnedFairly
<1>2. CommunityInv /\ SlotsCount => CommunityTypeOK
  <2> SUFFICES ASSUME CommunityInv, SlotsCount, NEW r \in CommunityRequests PROVE serving[r].offer \in CommunityOfferSet \cup {NoOffer}
    BY DEF CommunityInv, CommunityShape, SlotsCount, OfferRecords, CommunityTypeOK
  <2> QED
    BY DEF CommunityInv, CommunityShape, GoodServing, ServingRows
<1> QED
  BY <1>1, <1>2, CommunityStarts, CommunityKept, SlotsStart, SlotsKept, PTL DEF CommunitySpec

(* markCanary() of community/index.js: an offer that failed a canary round *)
(* or a spot check stays failed, whatever rounds of other requests end     *)
(* after it.                                                               *)
THEOREM FailuresStay == CommunitySpec => FailedStays
<1>1. CommunityInv /\ [CommunityNext]_communityVars =>
        [\A o \in CommunityOfferSet : offerRows[o].status = "failed" => offerRows'[o].status = "failed"]_communityVars
  <2> SUFFICES ASSUME CommunityInv, [CommunityNext]_communityVars, NEW o \in CommunityOfferSet, offerRows[o].status = "failed"
               PROVE  offerRows'[o].status = "failed"
    OBVIOUS
  <2>0. offerRows \in [CommunityOfferSet -> OfferRecords]
    BY DEF CommunityInv, CommunityShape
  <2>1. \/ UNCHANGED offerRows
        \/ \E p : offerRows' = [offerRows EXCEPT ![p].status = IF @ = "absent" THEN "new" ELSE @]
        \/ \E p : offerRows' = [offerRows EXCEPT ![p] = PassedRow(@)]
        \/ \E p : offerRows' = [offerRows EXCEPT ![p] = [status |-> "failed", recent |-> TRUE]]
        \/ \E p : offerRows' = [offerRows EXCEPT ![p].status = "failed"]
        \/ \E p : offerRows[p].status = "absent" /\ offerRows' = [offerRows EXCEPT ![p].status = "new"]
        \/ \E p : offerRows' = [offerRows EXCEPT ![p].recent = FALSE]
    BY DEF CommunityNext, communityVars, ChooseOffer, EnsureOffer, CanaryBegins, CanaryEnds, RereadOffer, SendToOffer,
           OfferAnswers, SpotBegins, SpotEnds, RecordReads, RecordWrites, OfferSeen, CanaryAges
  <2> QED
    BY <2>0, <2>1 DEF OfferRecords, PassedRow
<1> QED
  BY <1>1, CommunityStarts, CommunityKept, PTL DEF CommunitySpec, FailedStays

---------------------------------------------------------------------------------
(* The free use of one device: what a key used today is what the runs      *)
(* counted on it are, and those that read it alone stay within its cap.    *)

UseKeys   == People \cup {ItsDevice}
AdmittedSteps == {"rate", "velocity", "running", "counted"}
GoodUse(x) == \/ x \in [step : {"idle", "tier", "count", "over"}]
              \/ x \in [step : AdmittedSteps, exempt : BOOLEAN, key : UseKeys, cap : 0..MostUnits]

(* The keys of an account, of the runs that were admitted.                 *)
OwnKeys      == {k \in People \ {ItsDevice} : \E r \in UseRuns : useRuns[r].step \in AdmittedSteps /\ useRuns[r].key = k}
CountedOn(k) == {r \in UseRuns : useRuns[r].step = "counted" /\ useRuns[r].key = k}
AloneOn(k)   == {r \in UseRuns \ crossed : /\ useRuns[r].step \in {"velocity", "running", "counted"}
                                           /\ useRuns[r].key = k /\ ~useRuns[r].exempt}

UseShape == /\ onDevice \in [People -> Int] /\ \A p \in People : onDevice[p] \in {NotSeen, SeenOnly, AllowanceOf[p]}
            /\ daily \in [UseKeys -> Nat]
            /\ DOMAIN useRuns = UseRuns /\ \A r \in UseRuns : GoodUse(useRuns[r])
            /\ \A r \in UseRuns : useRuns[r].step # "idle" => PersonOfRun[r] \in Accounts
UseIsCounted == \A k \in UseKeys : daily[k] = Cardinality(CountedOn(k))
KeysAreFew   == OwnKeys \subseteq Accounts /\ Cardinality(OwnKeys) <= AccountsAlone
CapsHold     == \A k \in UseKeys : Cardinality(AloneOn(k)) <= MostUnits
UseInv == UseShape /\ UseIsCounted /\ KeysAreFew /\ CapsHold

(* A finite set of numbers has a greatest one.                             *)
LEMMA GreatestIn ==
    ASSUME NEW S, IsFiniteSet(S), S \subseteq Nat, S # {}
    PROVE  \E m \in S : \A n \in S : n <= m
<1> DEFINE G == {s \in SUBSET S : s # {} => \E m \in s : \A n \in s : n <= m}
<1>1. ASSUME NEW s \in SUBSET S, \A x \in s : s \ {x} \in G PROVE s \in G
  <2> SUFFICES ASSUME s # {} PROVE \E m \in s : \A n \in s : n <= m
    OBVIOUS
  <2>1. PICK x \in s : TRUE
    OBVIOUS
  <2>2. CASE s \ {x} = {}
    BY <2>1, <2>2
  <2>3. CASE s \ {x} # {}
    <3>1. PICK m \in s \ {x} : \A n \in s \ {x} : n <= m
      BY <1>1, <2>1, <2>3
    <3>2. CASE x <= m
      BY <3>1, <3>2
    <3>3. CASE ~(x <= m)
      <4>1. \A n \in s : n <= x
        BY <2>1, <3>1, <3>3
      <4> QED
        BY <2>1, <4>1
    <3> QED
      BY <3>2, <3>3
  <2> QED
    BY <2>2, <2>3
<1>2. S \in G
  <2> HIDE DEF G
  <2> QED
    BY <1>1, OnSubsets
<1> QED
  BY <1>2

(* Where every value is taken at most m times.                             *)
LEMMA FibresBound ==
    ASSUME NEW S, IsFiniteSet(S), NEW K, IsFiniteSet(K), NEW f, \A r \in S : f[r] \in K,
           NEW m \in Nat, \A k \in K : Cardinality({r \in S : f[r] = k}) <= m
    PROVE  Cardinality(S) <= Cardinality(K) * m
<1> DEFINE Over(t) == {r \in S : f[r] \in t}
           G == {t \in SUBSET K : Cardinality(Over(t)) <= Cardinality(t) * m}
<1>1. ASSUME NEW t \in SUBSET K, \A x \in t : t \ {x} \in G PROVE t \in G
  <2>1. CASE t = {}
    <3>1. Over(t) = {}
      BY <2>1
    <3>2. Cardinality(Over(t)) = 0 /\ Cardinality(t) = 0
      BY <2>1, <3>1, FS_EmptySet
    <3> HIDE DEF Over
    <3> QED
      BY <3>2
  <2>2. CASE t # {}
    <3>1. PICK x \in t : TRUE
      BY <2>2
    <3> DEFINE one == {r \in S : f[r] = x}
               rest == Over(t \ {x})
    <3>2. Cardinality(rest) <= Cardinality(t \ {x}) * m
      BY <1>1, <3>1
    <3>3. Over(t) = one \cup rest /\ one \cap rest = {}
      BY <3>1
    <3>4. IsFiniteSet(one) /\ IsFiniteSet(rest) /\ IsFiniteSet(t)
      BY FS_Subset
    <3> HIDE DEF Over, one, rest
    <3>5. Cardinality(one) \in Nat /\ Cardinality(rest) \in Nat /\ Cardinality(t) \in Nat
      BY <3>4, FS_CardinalityType
    <3>6. Cardinality(Over(t)) = Cardinality(one) + Cardinality(rest)
      BY <3>3, <3>4, <3>5, FS_Union, FS_EmptySet
    <3>7. Cardinality(one) <= m
      BY <3>1 DEF one
    <3>8. Cardinality(t \ {x}) = Cardinality(t) - 1
      BY <3>1, <3>4, FS_RemoveElement
    <3>9. Cardinality(t) * m = Cardinality(t \ {x}) * m + m
      BY <3>5, <3>8
    <3>10. Cardinality(t \ {x}) * m \in Int
      BY <3>5, <3>8
    <3> QED
      BY <3>2, <3>5, <3>6, <3>7, <3>9, <3>10
  <2> QED
    BY <2>1, <2>2
<1>2. K \in G
  <2> HIDE DEF G
  <2> QED
    BY <1>1, OnSubsets
<1>3. Over(K) = S
  OBVIOUS
<1> QED
  BY <1>2, <1>3

LEMMA ImageIsFinite == ASSUME NEW S, IsFiniteSet(S), NEW f, NEW T, T = {f[x] : x \in S} PROVE IsFiniteSet(T)
<1> DEFINE g == [x \in S |-> f[x]]
<1>1. g \in Surjection(S, T)
  BY DEF Surjection
<1> QED
  BY <1>1, FS_Surjection

LEMMA PeopleAre == /\ IsFiniteSet(People) /\ MostUnits \in Nat /\ \A p \in People : AllowanceOf[p] \in 0..MostUnits
<1>1. IsFiniteSet(People) /\ People # {}
  BY UseConstants, ImageIsFinite DEF People
<1> DEFINE T == {AllowanceOf[p] : p \in People}
<1>2. IsFiniteSet(T) /\ T # {} /\ T \subseteq Nat
  BY <1>1, UseConstants, ImageIsFinite
<1>3. MostUnits \in T /\ \A n \in T : n <= MostUnits
  <2>1. \E m \in T : \A n \in T : m >= n
    <3> HIDE DEF T
    <3>1. PICK m \in T : \A n \in T : n <= m
      BY <1>2, GreatestIn
    <3> QED
      BY <1>2, <3>1
  <2>2. MostUnits \in T /\ \A n \in T : MostUnits >= n
    BY <2>1 DEF MostUnits, Max
  <2> QED
    BY <1>2, <2>2
<1> QED
  BY <1>1, <1>2, <1>3, UseConstants

(* The cap of the whole device is no more than an account's.               *)
LEMMA CapIs == ASSUME UseShape, NEW p \in People PROVE Min({AllowanceOf[p]} \cup Tiers) \in 0..MostUnits
<1> DEFINE T == {AllowanceOf[p]} \cup Tiers
<1>1. T \subseteq Nat /\ T # {}
  BY UseConstants DEF UseShape, Tiers, SeenOnly
<1>2. \E m \in T : \A n \in T : m <= n
  <2> HIDE DEF T
  <2> QED
    BY <1>1, LeastIn
<1>3. Min(T) \in T /\ \A n \in T : Min(T) <= n
  BY <1>2 DEF Min
<1>4. Min(T) <= AllowanceOf[p]
  BY <1>3
<1> QED
  BY <1>1, <1>3, <1>4, PeopleAre

(* Sets of runs and of people are finite.                                  *)
LEMMA RunsAreFinite == /\ \A k : /\ IsFiniteSet(CountedOn(k)) /\ Cardinality(CountedOn(k)) \in 0..Cardinality(UseRuns)
                                 /\ IsFiniteSet(AloneOn(k)) /\ Cardinality(AloneOn(k)) \in Nat
                       /\ IsFiniteSet(OwnKeys) /\ Cardinality(OwnKeys) \in Nat
<1>1. \A T \in SUBSET UseRuns : IsFiniteSet(T) /\ Cardinality(T) \in Nat /\ Cardinality(T) <= Cardinality(UseRuns)
  BY UseConstants, FS_Subset, FS_CardinalityType
<1>2. \A T \in SUBSET People : IsFiniteSet(T) /\ Cardinality(T) \in Nat
  BY PeopleAre, FS_Subset, FS_CardinalityType
<1>3. Cardinality(UseRuns) \in Nat
  BY UseConstants, FS_CardinalityType
<1>4. \A k : CountedOn(k) \in SUBSET UseRuns /\ AloneOn(k) \in SUBSET UseRuns
  BY DEF CountedOn, AloneOn
<1>5. OwnKeys \in SUBSET People
  BY DEF OwnKeys
<1> QED
  BY <1>1, <1>2, <1>3, <1>4, <1>5

(* A run moves on without a count, and nobody new is admitted.             *)
LEMMA RunMoves ==
    ASSUME UseInv, NEW r \in UseRuns, NEW x, GoodUse(x), useRuns' = [useRuns EXCEPT ![r] = x],
           onDevice' \in [People -> Int], \A p \in People : onDevice'[p] \in {NotSeen, SeenOnly, AllowanceOf[p]},
           \A p \in People : onDevice[p] # NotSeen => onDevice'[p] # NotSeen,
           onDevice'[PersonOfRun[r]] # NotSeen, UNCHANGED <<daily, crossed>>,
           useRuns[r].step # "counted", x.step # "counted",
           x.step \in AdmittedSteps => useRuns[r].step \in AdmittedSteps /\ x.key = useRuns[r].key /\ x.exempt = useRuns[r].exempt,
           x.step \in {"velocity", "running"} => useRuns[r].step \in {"velocity", "running"}
    PROVE  UseInv'
<1>1. useRuns'[r] = x /\ DOMAIN useRuns' = UseRuns /\ \A s \in UseRuns \ {r} : useRuns'[s] = useRuns[s]
  BY DEF UseInv, UseShape
<1>2. UseShape' /\ Accounts \subseteq Accounts'
  BY <1>1 DEF UseInv, UseShape, Accounts, People
<1>3. \A k : CountedOn(k)' = CountedOn(k)
  BY <1>1 DEF CountedOn
<1>4. \A k : AloneOn(k)' \subseteq AloneOn(k)
  BY <1>1 DEF AloneOn, AdmittedSteps
<1>5. OwnKeys' \subseteq OwnKeys
  BY <1>1 DEF OwnKeys, AdmittedSteps
<1>6. UseIsCounted'
  BY <1>3 DEF UseInv, UseIsCounted
<1>7. \A k : Cardinality(AloneOn(k)') \in Nat /\ Cardinality(AloneOn(k)') <= Cardinality(AloneOn(k))
  BY <1>4, RunsAreFinite, FS_Subset, FS_CardinalityType
<1>8. Cardinality(OwnKeys') <= Cardinality(OwnKeys) /\ Cardinality(OwnKeys') \in Nat
  BY <1>5, RunsAreFinite, FS_Subset, FS_CardinalityType
<1>9. KeysAreFew'
  BY <1>2, <1>5, <1>8, RunsAreFinite, UseConstants DEF UseInv, KeysAreFew
<1>10. CapsHold'
  BY <1>7, RunsAreFinite, PeopleAre DEF UseInv, CapsHold
<1> QED
  BY <1>2, <1>6, <1>9, <1>10 DEF UseInv

LEMMA TouchKept == ASSUME UseInv, NEW r \in UseRuns, Touch(r) \/ TouchTier(r) PROVE UseInv'
<1> DEFINE p == PersonOfRun[r]
<1>1. /\ useRuns[r].step \in {"idle", "tier"} /\ UNCHANGED <<daily, crossed>> /\ p \in People
      /\ onDevice' \in {[onDevice EXCEPT ![p] = IF @ = NotSeen THEN SeenOnly ELSE @], [onDevice EXCEPT ![p] = AllowanceOf[p]]}
  BY DEF Touch, TouchTier, UseAt, People
<1>2. /\ onDevice' \in [People -> Int] /\ \A q \in People : onDevice'[q] \in {NotSeen, SeenOnly, AllowanceOf[q]}
      /\ onDevice'[p] # NotSeen /\ \A q \in People : onDevice[q] # NotSeen => onDevice'[q] # NotSeen
  BY <1>1, UseConstants DEF UseInv, UseShape, NotSeen, SeenOnly
<1>3. PICK x : useRuns' = [useRuns EXCEPT ![r] = x] /\ x \in [step : {"tier", "count", "over"}]
  <2>1. CASE \E step \in {"tier", "count"} : UseTo(r, step)
    <3>1. PICK step \in {"tier", "count"} : UseTo(r, step)
      BY <2>1
    <3>2. GoodUse(useRuns[r]) /\ useRuns[r].step \in {"idle", "tier"}
      BY <1>1 DEF UseInv, UseShape
    <3> DEFINE x == [useRuns[r] EXCEPT !.step = step]
    <3>3. useRuns' = [useRuns EXCEPT ![r] = x]
      BY <3>1 DEF UseTo
    <3>4. x \in [step : {"tier", "count", "over"}]
      BY <3>1, <3>2 DEF GoodUse, AdmittedSteps
    <3> QED
      BY <3>3, <3>4
  <2>2. CASE UseOver(r)
    <3>1. useRuns' = [useRuns EXCEPT ![r] = [step |-> "over"]] /\ [step |-> "over"] \in [step : {"tier", "count", "over"}]
      BY <2>2 DEF UseOver
    <3> QED
      BY <3>1
  <2> QED
    BY <2>1, <2>2 DEF Touch, TouchTier
<1>4. GoodUse(x) /\ x.step \notin AdmittedSteps
  BY <1>3 DEF GoodUse, AdmittedSteps
<1> QED
  BY <1>1, <1>2, <1>3, <1>4, RunMoves

(* The run is admitted on the key the device's accounts leave it.          *)
LEMMA AdmitKept == ASSUME UseInv, NEW r \in UseRuns, CountAccounts(r) PROVE UseInv'
<1> DEFINE p == PersonOfRun[r]
<1>0. p \in People /\ useRuns[r].step = "count" /\ UNCHANGED <<onDevice, daily, crossed>>
  BY DEF CountAccounts, UseAt, People
<1>1. PICK x : /\ useRuns' = [useRuns EXCEPT ![r] = x]
               /\ \E step \in {"rate", "running"} : x =
                      [step |-> step, exempt |-> step = "running",
                       key |-> IF Shared THEN ItsDevice ELSE p,
                       cap |-> IF Shared THEN Min({AllowanceOf[p]} \cup Tiers) ELSE AllowanceOf[p]]
  BY DEF CountAccounts
<1>2. Min({AllowanceOf[p]} \cup Tiers) \in 0..MostUnits /\ AllowanceOf[p] \in 0..MostUnits
  BY <1>0, CapIs, PeopleAre DEF UseInv
<1>3. /\ x \in [step : AdmittedSteps, exempt : BOOLEAN, key : UseKeys, cap : 0..MostUnits]
      /\ x.step \in {"rate", "running"} /\ (x.step = "running" => x.exempt) /\ x.key = IF Shared THEN ItsDevice ELSE p
  <2>1. PICK step \in {"rate", "running"} : x =
                      [step |-> step, exempt |-> step = "running",
                       key |-> IF Shared THEN ItsDevice ELSE p,
                       cap |-> IF Shared THEN Min({AllowanceOf[p]} \cup Tiers) ELSE AllowanceOf[p]]
    BY <1>1
  <2>2. (IF Shared THEN ItsDevice ELSE p) \in UseKeys
    BY <1>0 DEF UseKeys
  <2> QED
    BY <1>2, <2>1, <2>2 DEF AdmittedSteps
<1>4. useRuns'[r] = x /\ DOMAIN useRuns' = UseRuns /\ \A s \in UseRuns \ {r} : useRuns'[s] = useRuns[s]
  BY <1>1 DEF UseInv, UseShape
<1>5. UseShape' /\ Accounts' = Accounts /\ p \in Accounts
  BY <1>0, <1>3, <1>4 DEF UseInv, UseShape, Accounts, GoodUse
<1>6. \A k : CountedOn(k)' = CountedOn(k) /\ AloneOn(k)' = AloneOn(k)
  BY <1>0, <1>3, <1>4 DEF CountedOn, AloneOn
<1>7. UseIsCounted' /\ CapsHold'
  BY <1>0, <1>6 DEF UseInv, UseIsCounted, CapsHold
<1>8. KeysAreFew'
  <2>1. CASE Shared
    <3>1. OwnKeys' = OwnKeys
      BY <1>0, <1>3, <1>4, <2>1 DEF OwnKeys, AdmittedSteps
    <3> QED
      BY <1>5, <3>1 DEF UseInv, KeysAreFew
  <2>2. CASE ~Shared
    <3>1. OwnKeys' \subseteq Accounts
      BY <1>0, <1>3, <1>4, <1>5, <2>2 DEF OwnKeys, AdmittedSteps, UseInv, KeysAreFew
    <3>2. IsFiniteSet(Accounts) /\ Cardinality(Accounts) \in Nat
      BY PeopleAre, FS_Subset, FS_CardinalityType DEF Accounts
    <3>3. Cardinality(OwnKeys') <= Cardinality(Accounts) /\ Cardinality(OwnKeys') \in Nat
      BY <3>1, <3>2, FS_Subset, FS_CardinalityType
    <3>4. Cardinality(Accounts) <= AccountsAlone
      BY <2>2, <3>2, UseConstants DEF Shared
    <3> QED
      BY <1>5, <3>1, <3>2, <3>3, <3>4, UseConstants DEF KeysAreFew
  <2> QED
    BY <2>1, <2>2
<1> QED
  BY <1>5, <1>7, <1>8 DEF UseInv

(* What was read leaves room for one, if nobody else is under way.         *)
LEMMA UsedRead == ASSUME UseInv, NEW r \in UseRuns, ReadUsed(r), UseTo(r, "velocity") PROVE UseInv'
<1>k. PICK k : k = useRuns[r].key
  OBVIOUS
<1> DEFINE x == [useRuns[r] EXCEPT !.step = "velocity"]
<1>0. GoodUse(useRuns[r]) /\ useRuns[r].step = "rate" /\ UNCHANGED <<onDevice, daily>> /\ useRuns' = [useRuns EXCEPT ![r] = x]
  BY DEF ReadUsed, UseAt, UseTo, UseInv, UseShape
<1>1. useRuns[r] \in [step : AdmittedSteps, exempt : BOOLEAN, key : UseKeys, cap : 0..MostUnits]
  BY <1>0 DEF GoodUse
<1>2. GoodUse(x) /\ x.step = "velocity" /\ x.key = k /\ x.exempt = useRuns[r].exempt
  BY <1>1, <1>k DEF GoodUse, AdmittedSteps
<1>3. /\ daily[k] < useRuns[r].cap
      /\ crossed' = IF UnderWay(k) # {} THEN crossed \cup {r} ELSE crossed
  <2>1. useRuns'[r] = x
    BY <1>0 DEF UseInv, UseShape
  <2>2. ~UseOver(r)
    BY <1>0, <1>2, <2>1 DEF UseOver, UseInv, UseShape
  <2> QED
    BY <1>k, <2>2 DEF ReadUsed
<1> HIDE DEF x
<1>4. useRuns'[r] = x /\ DOMAIN useRuns' = UseRuns /\ \A s \in UseRuns \ {r} : useRuns'[s] = useRuns[s]
  BY <1>0 DEF UseInv, UseShape
<1>5. UseShape' /\ Accounts' = Accounts
  BY <1>0, <1>2, <1>4 DEF UseInv, UseShape, Accounts
<1>6. \A j : CountedOn(j)' = CountedOn(j)
  BY <1>0, <1>2, <1>4 DEF CountedOn
<1>7. UseIsCounted'
  BY <1>0, <1>6 DEF UseInv, UseIsCounted
<1>8. OwnKeys' = OwnKeys
  BY <1>k, <1>0, <1>2, <1>4 DEF OwnKeys, AdmittedSteps
<1>9. KeysAreFew'
  BY <1>5, <1>8 DEF UseInv, KeysAreFew
<1>10. ASSUME NEW j \in UseKeys PROVE Cardinality(AloneOn(j)') <= MostUnits
  <2>1. CASE AloneOn(j)' \subseteq AloneOn(j)
    <3>1. Cardinality(AloneOn(j)') <= Cardinality(AloneOn(j)) /\ Cardinality(AloneOn(j)') \in Nat
      BY <2>1, RunsAreFinite, FS_Subset, FS_CardinalityType
    <3> QED
      BY <3>1, RunsAreFinite, PeopleAre DEF UseInv, CapsHold
  <2>2. CASE ~(AloneOn(j)' \subseteq AloneOn(j))
    <3>1. PICK s \in UseRuns : s \in AloneOn(j)' /\ s \notin AloneOn(j)
      BY <2>2 DEF AloneOn
    <3>2. s = r /\ j = k /\ r \notin crossed' /\ UnderWay(k) = {}
      BY <1>0, <1>2, <1>3, <1>4, <3>1 DEF AloneOn
    <3>3. AloneOn(k)' \subseteq CountedOn(k) \cup {r}
      BY <1>3, <1>4, <3>2 DEF AloneOn, CountedOn, UnderWay
    <3>4. /\ IsFiniteSet(CountedOn(k) \cup {r}) /\ Cardinality(CountedOn(k) \cup {r}) <= Cardinality(CountedOn(k)) + 1
          /\ Cardinality(CountedOn(k) \cup {r}) \in Nat /\ Cardinality(CountedOn(k)) \in Nat
      <4>1. PICK C : C = CountedOn(k)
        OBVIOUS
      <4>2. IsFiniteSet(C) /\ Cardinality(C) \in Nat
        BY <4>1, RunsAreFinite
      <4>3. IsFiniteSet(C \cup {r}) /\ Cardinality(C \cup {r}) = IF r \in C THEN Cardinality(C) ELSE Cardinality(C) + 1
        BY <4>2, FS_AddElement
      <4> QED
        BY <4>1, <4>2, <4>3
    <3>5. Cardinality(AloneOn(k)') <= Cardinality(CountedOn(k) \cup {r}) /\ Cardinality(AloneOn(k)') \in Nat
      BY <3>3, <3>4, FS_Subset, FS_CardinalityType
    <3>6. k \in UseKeys /\ useRuns[r].cap \in 0..MostUnits
      BY <1>1, <1>k
    <3>7. Cardinality(CountedOn(k)) + 1 <= MostUnits
      BY <1>3, <3>4, <3>6, PeopleAre DEF UseInv, UseIsCounted
    <3> QED
      BY <3>2, <3>4, <3>5, <3>7, PeopleAre
  <2> QED
    BY <2>1, <2>2
<1>11. CapsHold'
  BY <1>10 DEF CapsHold
<1> QED
  BY <1>5, <1>7, <1>9, <1>11 DEF UseInv

LEMMA RefusedKept ==
    ASSUME UseInv, NEW r \in UseRuns, useRuns[r].step \notin {"idle", "counted"}, UseOver(r),
           UNCHANGED <<onDevice, daily, crossed>>
    PROVE  UseInv'
<1>1. PersonOfRun[r] \in People /\ onDevice[PersonOfRun[r]] # NotSeen /\ onDevice \in [People -> Int]
      /\ \A p \in People : onDevice[p] \in {NotSeen, SeenOnly, AllowanceOf[p]}
  BY DEF UseInv, UseShape, Accounts
<1>2. PICK x : x = [step |-> "over"]
  OBVIOUS
<1>3. GoodUse(x) /\ x.step = "over" /\ useRuns' = [useRuns EXCEPT ![r] = x]
  BY <1>2 DEF GoodUse, UseOver
<1> QED
  BY <1>1, <1>3, RunMoves DEF AdmittedSteps

LEMMA VelocityKept == ASSUME UseInv, NEW r \in UseRuns, ReadVelocity(r) PROVE UseInv'
<1>1. useRuns[r].step = "velocity" /\ UNCHANGED <<onDevice, daily, crossed>>
  BY DEF ReadVelocity, UseAt
<1>2. CASE UseOver(r)
  BY <1>1, <1>2, RefusedKept
<1>3. CASE UseTo(r, "running")
  <2> DEFINE x == [useRuns[r] EXCEPT !.step = "running"]
  <2>1. /\ useRuns[r] \in [step : AdmittedSteps, exempt : BOOLEAN, key : UseKeys, cap : 0..MostUnits]
        /\ useRuns' = [useRuns EXCEPT ![r] = x]
    BY <1>1, <1>3 DEF UseTo, UseInv, UseShape, GoodUse
  <2>2. GoodUse(x) /\ x.step = "running" /\ x.key = useRuns[r].key /\ x.exempt = useRuns[r].exempt
    BY <2>1 DEF GoodUse, AdmittedSteps
  <2> HIDE DEF x
  <2>3. PersonOfRun[r] \in People /\ onDevice[PersonOfRun[r]] # NotSeen /\ onDevice \in [People -> Int]
        /\ \A p \in People : onDevice[p] \in {NotSeen, SeenOnly, AllowanceOf[p]}
    BY <1>1 DEF UseInv, UseShape, Accounts
  <2> QED
    BY <1>1, <2>1, <2>2, <2>3, RunMoves DEF AdmittedSteps
<1> QED
  BY <1>2, <1>3 DEF ReadVelocity

(* What ended is counted on the key it was admitted on.                    *)
LEMMA UseRecorded == ASSUME UseInv, NEW r \in UseRuns, RecordUse(r) PROVE UseInv'
<1>0. useRuns[r].step = "running" /\ UNCHANGED <<onDevice, crossed>>
  BY DEF RecordUse, UseAt
<1>1. CASE UseOver(r) /\ UNCHANGED daily
  BY <1>0, <1>1, RefusedKept
<1>2. CASE daily' = [daily EXCEPT ![useRuns[r].key] = @ + 1] /\ UseTo(r, "counted")
  <2> DEFINE x == [useRuns[r] EXCEPT !.step = "counted"]
  <2>1. PICK k : k = useRuns[r].key
    OBVIOUS
  <2>2. /\ useRuns[r] \in [step : AdmittedSteps, exempt : BOOLEAN, key : UseKeys, cap : 0..MostUnits]
        /\ useRuns' = [useRuns EXCEPT ![r] = x]
    BY <1>0, <1>2 DEF UseTo, UseInv, UseShape, GoodUse
  <2>3. GoodUse(x) /\ x.step = "counted" /\ x.key = k /\ x.exempt = useRuns[r].exempt
    BY <2>1, <2>2 DEF GoodUse, AdmittedSteps
  <2> HIDE DEF x
  <2>4. useRuns'[r] = x /\ DOMAIN useRuns' = UseRuns /\ \A s \in UseRuns \ {r} : useRuns'[s] = useRuns[s]
    BY <2>2 DEF UseInv, UseShape
  <2>5. k \in UseKeys /\ daily' = [daily EXCEPT ![k] = daily[k] + 1] /\ daily \in [UseKeys -> Nat]
    BY <1>2, <2>1, <2>2 DEF UseInv, UseShape
  <2>6. UseShape' /\ Accounts' = Accounts
    BY <1>0, <2>3, <2>4, <2>5 DEF UseInv, UseShape, Accounts
  <2>7. \A j : /\ CountedOn(j)' = IF j = k THEN CountedOn(j) \cup {r} ELSE CountedOn(j)
               /\ r \notin CountedOn(j) /\ AloneOn(j)' = AloneOn(j)
    BY <1>0, <2>1, <2>3, <2>4 DEF CountedOn, AloneOn
  <2>8. PICK C : C = CountedOn(k)
    OBVIOUS
  <2>9. Cardinality(C \cup {r}) = Cardinality(C) + 1
    BY <2>7, <2>8, RunsAreFinite, FS_AddElement
  <2>10. UseIsCounted'
    BY <2>5, <2>7, <2>8, <2>9 DEF UseInv, UseIsCounted
  <2>11. OwnKeys' = OwnKeys
    BY <1>0, <2>1, <2>3, <2>4 DEF OwnKeys, AdmittedSteps
  <2>12. KeysAreFew' /\ CapsHold'
    BY <2>6, <2>7, <2>11 DEF UseInv, KeysAreFew, CapsHold
  <2> QED
    BY <2>6, <2>10, <2>12 DEF UseInv
<1> QED
  BY <1>1, <1>2 DEF RecordUse

LEMMA UseStarts == UseInit => UseInv
<1> SUFFICES ASSUME UseInit PROVE UseInv
  OBVIOUS
<1>1. \A r \in UseRuns : useRuns[r] = [step |-> "idle"]
  BY DEF UseInit
<1>2. UseShape
  <2>1. \A r \in UseRuns : useRuns[r] \in [step : {"idle", "tier", "count", "over"}] /\ useRuns[r].step = "idle"
    BY <1>1
  <2>2. onDevice \in [People -> Int] /\ \A p \in People : onDevice[p] = NotSeen
    <3>1. NotSeen \in Int
      BY DEF NotSeen
    <3> QED
      BY <3>1 DEF UseInit
  <2>3. daily \in [UseKeys -> Nat] /\ DOMAIN useRuns = UseRuns
    BY DEF UseInit, UseKeys
  <2> QED
    BY <2>1, <2>2, <2>3 DEF UseShape, GoodUse
<1>3. OwnKeys = {} /\ \A k : CountedOn(k) = {} /\ AloneOn(k) = {}
  BY <1>1 DEF OwnKeys, CountedOn, AloneOn, AdmittedSteps
<1>4. UseIsCounted
  BY <1>3, FS_EmptySet DEF UseInit, UseIsCounted, UseKeys
<1>5. KeysAreFew /\ CapsHold
  BY <1>3, FS_EmptySet, UseConstants, PeopleAre DEF KeysAreFew, CapsHold
<1> QED
  BY <1>2, <1>4, <1>5 DEF UseInv

LEMMA UseKept == UseInv /\ [UseNext]_useVars => UseInv'
<1> SUFFICES ASSUME UseInv, [UseNext]_useVars PROVE UseInv'
  OBVIOUS
<1>1. CASE UNCHANGED <<onDevice, daily, useRuns, crossed>>
  BY <1>1 DEF UseInv, UseShape, UseIsCounted, KeysAreFew, CapsHold, OwnKeys, CountedOn, AloneOn, Accounts
<1>2. ASSUME NEW r \in UseRuns, ReadUsed(r) PROVE UseInv'
  <2>1. CASE UseTo(r, "velocity")
    BY <1>2, <2>1, UsedRead
  <2>2. CASE UseOver(r) /\ UNCHANGED crossed
    BY <1>2, <2>2, RefusedKept DEF ReadUsed, UseAt
  <2> QED
    BY <1>2, <2>1, <2>2 DEF ReadUsed
<1>3. CASE AccountsNext
  BY <1>2, <1>3, TouchKept, AdmitKept, VelocityKept, UseRecorded DEF AccountsNext
<1> QED
  BY <1>1, <1>3 DEF UseNext, SolversNext, useVars, IssueChallenge, ReadChallenge, TakeChallenge

(* A challenge that is used admitted one run.                              *)
SolvesOnce ==
    /\ DOMAIN solvers = Solvers /\ challenges \in [Challenges -> {"not issued", "issued", "used"}]
    /\ \A s \in Solvers : solvers[s] \in [step : {"idle"}] \cup [step : {"take", "refused", "admitted"}, challenge : Challenges]
    /\ \A s \in Solvers : solvers[s].step = "admitted" => challenges[solvers[s].challenge] = "used"
    /\ SolvedOnce

LEMMA SolvesKept == SolvesOnce /\ [UseNext]_useVars => SolvesOnce'
<1> SUFFICES ASSUME SolvesOnce, [UseNext]_useVars PROVE SolvesOnce'
  OBVIOUS
<1>1. CASE UNCHANGED <<challenges, solvers>>
  BY <1>1 DEF SolvesOnce, SolvedOnce
<1>2. ASSUME NEW c \in Challenges, IssueChallenge(c) PROVE SolvesOnce'
  BY <1>2 DEF SolvesOnce, SolvedOnce, IssueChallenge
<1>3. ASSUME NEW s \in Solvers, ReadChallenge(s) PROVE SolvesOnce'
  <2>1. PICK x \in [step : {"take", "refused"}, challenge : Challenges] : solvers' = [solvers EXCEPT ![s] = x] /\ UNCHANGED challenges
    BY <1>3 DEF ReadChallenge
  <2>2. solvers'[s] = x /\ x.step # "admitted" /\ DOMAIN solvers' = Solvers /\ \A t \in Solvers \ {s} : solvers'[t] = solvers[t]
    BY <2>1 DEF SolvesOnce
  <2>3. x \in [step : {"take", "refused", "admitted"}, challenge : Challenges]
    BY <2>1
  <2>4. SolvedOnce'
    BY <2>1, <2>2 DEF SolvesOnce, SolvedOnce
  <2> QED
    BY <2>1, <2>2, <2>3, <2>4 DEF SolvesOnce
<1>4. ASSUME NEW s \in Solvers, TakeChallenge(s) PROVE SolvesOnce'
  <2>1. PICK c \in Challenges : solvers[s] \in [step : {"take"}, challenge : {c}]
    BY <1>4 DEF TakeChallenge, SolvesOnce
  <2>2. PICK step \in {"admitted", "refused"} : solvers' = [solvers EXCEPT ![s].step = step]
    BY <1>4 DEF TakeChallenge
  <2> DEFINE x == [solvers[s] EXCEPT !.step = step]
  <2>3. x \in [step : {step}, challenge : {c}] /\ solvers' = [solvers EXCEPT ![s] = x]
    BY <2>1, <2>2
  <2> HIDE DEF x
  <2>4. \/ UNCHANGED challenges /\ step = "refused"
        \/ challenges[c] = "issued" /\ challenges' = [challenges EXCEPT ![c] = "used"]
    BY <1>4, <2>1, <2>2 DEF TakeChallenge, SolvesOnce
  <2>5. solvers'[s] = x /\ x.step = step /\ x.challenge = c /\ \A t \in Solvers \ {s} : solvers'[t] = solvers[t]
    BY <2>3 DEF SolvesOnce
  <2>6. x \in [step : {"take", "refused", "admitted"}, challenge : Challenges] /\ DOMAIN solvers' = Solvers
    BY <2>3 DEF SolvesOnce
  <2>7. /\ challenges' \in [Challenges -> {"not issued", "issued", "used"}]
        /\ \A d \in Challenges : challenges[d] = "used" => challenges'[d] = "used"
    BY <2>4 DEF SolvesOnce
  <2>8. \A t \in Solvers : solvers[t].step = "admitted" => solvers[t].challenge \in Challenges
    BY DEF SolvesOnce
  <2>9. step = "admitted" => challenges'[c] = "used" /\ \A t \in Solvers : solvers[t].step = "admitted" => solvers[t].challenge # c
    BY <2>4 DEF SolvesOnce
  <2>10. \A t \in Solvers : solvers'[t].step = "admitted" => challenges'[solvers'[t].challenge] = "used"
    BY <2>5, <2>7, <2>8, <2>9 DEF SolvesOnce
  <2>11. SolvedOnce'
    <3> SUFFICES ASSUME NEW t \in Solvers, NEW u \in Solvers, t # u, solvers'[t].step = "admitted", solvers'[u].step = "admitted"
                 PROVE  solvers'[t].challenge # solvers'[u].challenge
      BY DEF SolvedOnce
    <3>1. CASE t # s /\ u # s
      <4>1. solvers[t].step = "admitted" /\ solvers[u].step = "admitted" /\ SolvedOnce
        BY <2>5, <3>1 DEF SolvesOnce
      <4>2. solvers[t].challenge # solvers[u].challenge
        BY <4>1 DEF SolvedOnce
      <4> QED
        BY <2>5, <3>1, <4>2
    <3>2. CASE t = s
      BY <2>5, <2>9, <3>2
    <3>3. CASE u = s
      BY <2>5, <2>9, <3>3
    <3> QED
      BY <3>1, <3>2, <3>3
  <2> QED
    BY <2>5, <2>6, <2>7, <2>10, <2>11 DEF SolvesOnce
<1> QED
  BY <1>1, <1>2, <1>3, <1>4 DEF UseNext, SolversNext, AccountsNext, useVars,
     Touch, TouchTier, CountAccounts, ReadUsed, ReadVelocity, RecordUse

LEMMA SolvesStart == UseInit => SolvesOnce
<1> SUFFICES ASSUME UseInit PROVE SolvesOnce
  OBVIOUS
<1>1. \A s \in Solvers : solvers[s] = [step |-> "idle"] /\ solvers[s].step = "idle" /\ solvers[s] \in [step : {"idle"}]
  BY DEF UseInit
<1>2. DOMAIN solvers = Solvers /\ challenges \in [Challenges -> {"not issued", "issued", "used"}]
  BY DEF UseInit
<1> QED
  BY <1>1, <1>2 DEF SolvesOnce, SolvedOnce

(* admit() and verify() of abuse/: the free runs of a day on one device    *)
(* stay within the allowances of three of its accounts and one that the    *)
(* rest share, but for the runs under way together, and a solved challenge *)
(* admits one run, for any number of accounts, runs and challenges.        *)
THEOREM FreeUseIsMetered == UseSpec => [](UseTypeOK /\ FreeIsMetered)
<1>1. UseInv /\ SolvesOnce => UseTypeOK
  <2> SUFFICES ASSUME UseInv, SolvesOnce PROVE UseTypeOK
    OBVIOUS
  <2>1. DOMAIN daily = UseKeys /\ \A k \in UseKeys : daily[k] \in 0..Cardinality(UseRuns)
    BY RunsAreFinite DEF UseInv, UseShape, UseIsCounted
  <2> QED
    BY <2>1 DEF UseTypeOK, UseInv, UseShape, SolvesOnce
<1>2. UseInv => DeviceIsBounded
  <2> SUFFICES ASSUME UseInv PROVE DeviceIsBounded
    OBVIOUS
  <2>1. PICK S : S = {r \in CountedUse : ~useRuns[r].exempt /\ r \notin crossed}
    OBVIOUS
  <2>2. PICK f : f = [r \in S |-> useRuns[r].key]
    OBVIOUS
  <2>3. PICK K : K = OwnKeys \cup {ItsDevice}
    OBVIOUS
  <2>4. IsFiniteSet(S)
    BY <2>1, UseConstants, FS_Subset DEF CountedUse
  <2>5. IsFiniteSet(K) /\ Cardinality(K) \in Nat /\ Cardinality(K) <= AccountsAlone + 1
    <3>1. PICK O : O = OwnKeys
      OBVIOUS
    <3>2. IsFiniteSet(O) /\ Cardinality(O) \in Nat /\ Cardinality(O) <= AccountsAlone
      BY <3>1, RunsAreFinite DEF UseInv, KeysAreFew
    <3>3. IsFiniteSet(K) /\ Cardinality(K) = IF ItsDevice \in O THEN Cardinality(O) ELSE Cardinality(O) + 1
      BY <2>3, <3>1, <3>2, FS_AddElement
    <3> QED
      BY <3>2, <3>3, UseConstants
  <2>6. \A r \in S : f[r] \in K
    BY <2>1, <2>2, <2>3 DEF CountedUse, OwnKeys, AdmittedSteps, UseInv, UseShape, GoodUse, UseKeys
  <2>7. \A k \in K : Cardinality({r \in S : f[r] = k}) <= MostUnits
    <3> TAKE k \in K
    <3>1. {r \in S : f[r] = k} \subseteq AloneOn(k)
      BY <2>1, <2>2 DEF CountedUse, AloneOn
    <3>2. Cardinality({r \in S : f[r] = k}) <= Cardinality(AloneOn(k)) /\ Cardinality({r \in S : f[r] = k}) \in Nat
      BY <3>1, RunsAreFinite, FS_Subset, FS_CardinalityType
    <3>3. k \in UseKeys
      BY <2>3 DEF OwnKeys, UseKeys
    <3> QED
      BY <3>2, <3>3, RunsAreFinite, PeopleAre DEF UseInv, CapsHold
  <2>8. Cardinality(S) <= Cardinality(K) * MostUnits /\ Cardinality(S) \in Nat
    <3>1. PICK m \in Nat : m = MostUnits
      BY PeopleAre
    <3> QED
      BY <2>4, <2>5, <2>6, <2>7, <3>1, FibresBound, FS_CardinalityType
  <2>9. ASSUME NEW a \in Nat, NEW b \in Nat, NEW m \in Nat, a <= b PROVE a * m <= b * m
    BY <2>9
  <2>10. Cardinality(K) * MostUnits <= (AccountsAlone + 1) * MostUnits
    BY <2>5, <2>9, PeopleAre, UseConstants
  <2>11. Cardinality(K) * MostUnits \in Nat /\ (AccountsAlone + 1) * MostUnits \in Nat
    BY <2>5, PeopleAre, UseConstants
  <2> QED
    BY <2>1, <2>8, <2>10, <2>11 DEF DeviceIsBounded
<1>3. SolvesOnce => SolvedOnce
  BY DEF SolvesOnce
<1> QED
  BY <1>1, <1>2, <1>3, UseStarts, UseKept, SolvesStart, SolvesKept, PTL DEF UseSpec, FreeIsMetered
=================================================================================
