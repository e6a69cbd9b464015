------------------------------ MODULE RouteIncumbents ----------------------------
(***************************************************************************)
(* The incumbent of one route (server/providers/evidence.js): requests     *)
(* choose an offer by measured evidence, and the offer that serves changes *)
(* only when a challenger is chosen often enough.  Each decision reads the *)
(* row, awaits and writes the whole row, over those of other requests.     *)
(* What the evidence says is data: any offer of the pool may be chosen.    *)
(***************************************************************************)
EXTENDS Naturals, FiniteSets

CONSTANTS RouteRequests,   \* the requests for the route
          RouteOffers,     \* the offers of its pool
          StreakToSwitch   \* hysteresisDecisions

ASSUME IncumbentConstants == StreakToSwitch \in Nat \ {0} /\ IsFiniteSet(RouteRequests)

NoIncumbent == "none"

VARIABLES incumbent,  \* routing_incumbents: the offer that serves, the challenger and its streak
          decisions,  \* of each request: its step, its pool, its choice and the row it read
          switches    \* history: of each request, how it replaced the incumbent, if it did
incumbentVars == <<incumbent, decisions, switches>>

Row(offer, challenger, streak) == [offer |-> offer, challenger |-> challenger, streak |-> streak]
Settled(offer) == Row(offer, NoIncumbent, 0)

IncumbentInit ==
    /\ \E offer \in RouteOffers \cup {NoIncumbent} : incumbent = Settled(offer)
    /\ decisions = [r \in RouteRequests |-> [step |-> "idle"]]
    /\ switches = [r \in RouteRequests |-> "not"]

(* The offers that are eligible and priced now, and the planner's choice.  *)
Choose(r) ==
    /\ decisions[r].step = "idle"
    /\ \E pool \in SUBSET RouteOffers : \E choice \in pool :
        decisions' = [decisions EXCEPT ![r] = [step |-> "read", pool |-> pool, choice |-> choice]]
    /\ UNCHANGED <<incumbent, switches>>

ReadIncumbent(r) ==
    /\ decisions[r].step = "read"
    /\ decisions' = [decisions EXCEPT ![r] = [step |-> "write", pool |-> decisions[r].pool,
                                              choice |-> decisions[r].choice, row |-> incumbent]]
    /\ UNCHANGED <<incumbent, switches>>

(* Mutant: the streak counts whoever challenges.                           *)
StreakOf_Anyone(row, choice) == row.streak + 1

(* A streak is of one challenger; another one begins again.                *)
StreakOf(row, choice) == IF row.challenger = choice THEN row.streak + 1 ELSE 1

(* apply(): there was no incumbent, it left the pool, it was chosen, or a  *)
(* challenger was.                                                         *)
WriteIncumbent(r) ==
    LET row == decisions[r].row  choice == decisions[r].choice  streak == StreakOf(row, choice) IN
    /\ decisions[r].step = "write"
    /\ decisions' = [decisions EXCEPT ![r] = [step |-> "done", choice |-> choice]]
    /\ \/ /\ row.offer \notin decisions[r].pool
          /\ incumbent' = Settled(choice)
          /\ switches' = [switches EXCEPT ![r] = IF row.offer = NoIncumbent THEN "first" ELSE "failover"]
       \/ /\ row.offer \in decisions[r].pool /\ choice = row.offer
          /\ incumbent' = Settled(row.offer)
          /\ UNCHANGED switches
       \/ /\ row.offer \in decisions[r].pool /\ choice # row.offer /\ streak >= StreakToSwitch
          /\ incumbent' = Settled(choice)
          /\ switches' = [switches EXCEPT ![r] = "earned"]
       \/ /\ row.offer \in decisions[r].pool /\ choice # row.offer /\ streak < StreakToSwitch
          /\ incumbent' = Row(row.offer, choice, streak)
          /\ UNCHANGED switches

IncumbentNext == \E r \in RouteRequests : Choose(r) \/ ReadIncumbent(r) \/ WriteIncumbent(r)
IncumbentSpec == IncumbentInit /\ [][IncumbentNext]_incumbentVars

---------------------------------------------------------------------------------
(* Properties.                                                             *)

IncumbentTypeOK ==
    /\ incumbent \in [offer : RouteOffers \cup {NoIncumbent}, challenger : RouteOffers \cup {NoIncumbent},
                      streak : 0..(StreakToSwitch - 1)]
    /\ \A r \in RouteRequests : decisions[r].step \in {"idle", "read", "write", "done"}

(* The requests whose choice of an offer is written.                       *)
Backers(offer) == {r \in RouteRequests : decisions[r].step = "done" /\ decisions[r].choice = offer}

(* Hysteresis holds across requests: an incumbent still in the pool is     *)
(* replaced only by a challenger that as many requests chose as the        *)
(* setting says, each of them once, however their reads and writes of the  *)
(* row interleave: an update that is lost may delay a switch, and a stale  *)
(* one brings back no choice that was not made.                            *)
SwitchIsEarned == \A r \in RouteRequests :
    switches[r] = "earned" => Cardinality(Backers(decisions[r].choice)) >= StreakToSwitch
==================================================================================
