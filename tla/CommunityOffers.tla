----------------------------- MODULE CommunityOffers -----------------------------
(***************************************************************************)
(* What people's machines and endpoints serve (server/community/index.js,  *)
(* server/community/endpoints.js): a request that opted in chooses an      *)
(* offer, runs a canary round when the last one is old, reads the verdict  *)
(* again, waits for its hold, sends, sometimes compares the answer with a  *)
(* trusted machine's, and writes the seller's ledger.  Every request does  *)
(* so on its own, over the same rows.  The prompts of one canary round and *)
(* its fingerprint are one call here, and the reputation, which only       *)
(* orders the candidates, is any order.                                    *)
(***************************************************************************)
EXTENDS Naturals, FiniteSets, FiniteSetsExt

CONSTANTS CommunityRequests,
          CommunityOfferSet,
          Endpoints,        \* the offers reached through endpoints.js, which counts their calls
          Pooled,           \* the offers that are a pool of machines
          SellerOf,         \* [offers -> people]
          PersonOf,         \* [requests -> people]
          FreeRequests,     \* the requests nobody pays for
          Concurrency,      \* what a seller declared for an endpoint
          Earning,          \* [offers -> credits of one answer]
          DailyCap,         \* dailyEarningCapMicro
          FirstStatus,      \* [offers -> what the row says at the start]
          MaxAging          \* bound of the model: how often a canary round gets too old

NoOffer == "no offer"
Statuses == {"absent", "new", "verified", "failed"}

ASSUME CommunityConstants ==
    /\ Earning \in [CommunityOfferSet -> Nat] /\ DailyCap \in Nat /\ Concurrency \in Nat
    /\ FirstStatus \in [CommunityOfferSet -> Statuses]

VARIABLES offerRows,   \* community_offers: the status, whether the last canary round is recent
          inFlight,    \* endpoints.js active: the calls counted for each endpoint
          serving,     \* of each request: its step, the offer, the status it goes by, the peer of a spot check, the day's room it read
          earnings,    \* community_usage: [request, offer, credits]
          proven,      \* history: the offers that passed a canary round
          overlapped,  \* history: the sellers two of whose answers were recorded over each other
          aged
communityVars == <<offerRows, inFlight, serving, earnings, proven, overlapped, aged>>

NotServing == [step |-> "idle", offer |-> NoOffer, status |-> "none", peer |-> NoOffer, credits |-> 0]

CommunityInit ==
    /\ offerRows = [o \in CommunityOfferSet |-> [status |-> FirstStatus[o], recent |-> FALSE]]
    /\ inFlight = [o \in Endpoints |-> 0]
    /\ serving = [r \in CommunityRequests |-> NotServing]
    /\ earnings = {} /\ overlapped = {} /\ aged = 0
    /\ proven = {o \in CommunityOfferSet : FirstStatus[o] = "verified"}

Serves(r, step)  == serving' = [serving EXCEPT ![r].step = step]
StandsAt(r, step) == serving[r].step = step

(* Mutant: one call more than was declared.                                *)
Busy_Over(o) == o \in Endpoints /\ inFlight[o] > Concurrency

(* chat(): over the declared concurrency the endpoint is busy.             *)
Busy(o)    == o \in Endpoints /\ inFlight[o] >= Concurrency
Counted(o) == IF o \in Endpoints THEN [inFlight EXCEPT ![o] = @ + 1] ELSE inFlight
Returned(o) == IF o \in Endpoints THEN [inFlight EXCEPT ![o] = @ - 1] ELSE inFlight

---------------------------------------------------------------------------------
(* eligible() and choose(): a machine that failed serves nobody, a pool    *)
(* that failed and a new machine only those nobody pays for.               *)

EligibleFor(r, o) ==
    CASE offerRows[o].status = "failed"            -> o \in Pooled /\ r \in FreeRequests
      [] offerRows[o].status \in {"absent", "new"} -> r \in FreeRequests
      [] OTHER                                     -> TRUE

ChooseOffer(r) ==
    /\ StandsAt(r, "idle")
    /\ \E o \in CommunityOfferSet :
        /\ EligibleFor(r, o)
        /\ serving' = [serving EXCEPT ![r].step = "ensure", ![r].offer = o]
    /\ UNCHANGED <<offerRows, inFlight, earnings, proven, overlapped, aged>>

(* ensure(): a recent round is enough, a failed offer is not tried again.  *)
(* What execute() does with its error: a pool may go on for the free tier. *)
FailedVerification(r) == IF serving[r].offer \in Pooled /\ r \in FreeRequests THEN "reread" ELSE "ended"

EnsureOffer(r) ==
    /\ StandsAt(r, "ensure")
    /\ LET row == offerRows[serving[r].offer] IN
       \/ row.status = "failed" /\ Serves(r, FailedVerification(r)) /\ UNCHANGED offerRows
       \/ row.status = "verified" /\ row.recent /\ Serves(r, "reread") /\ UNCHANGED offerRows
       \/ /\ row.status # "failed" /\ ~(row.status = "verified" /\ row.recent)
          /\ offerRows' = [offerRows EXCEPT ![serving[r].offer].status = IF @ = "absent" THEN "new" ELSE @]
          /\ Serves(r, "canary")
    /\ UNCHANGED <<inFlight, earnings, proven, overlapped, aged>>

(* Mutant: the round that ends last decides.                               *)
PassedRow_Forgives(row) == [status |-> "verified", recent |-> TRUE]

(* verify() and markCanary(): a wrong answer fails the offer for good; a   *)
(* right one does not undo a failure.                                      *)
PassedRow(row) == [status |-> IF row.status = "failed" THEN "failed" ELSE "verified", recent |-> TRUE]

CanaryBegins(r) ==
    /\ StandsAt(r, "canary")
    /\ IF Busy(serving[r].offer) THEN Serves(r, "ended") /\ UNCHANGED inFlight
       ELSE Serves(r, "canary sent") /\ inFlight' = Counted(serving[r].offer)
    /\ UNCHANGED <<offerRows, earnings, proven, overlapped, aged>>

CanaryEnds(r) ==
    /\ StandsAt(r, "canary sent")
    /\ LET o == serving[r].offer IN
       /\ inFlight' = Returned(o)
       /\ \/ /\ offerRows' = [offerRows EXCEPT ![o] = PassedRow(@)]
             /\ proven' = proven \cup {o}
             /\ Serves(r, "reread")
          \/ /\ offerRows' = [offerRows EXCEPT ![o] = [status |-> "failed", recent |-> TRUE]]
             /\ Serves(r, FailedVerification(r)) /\ UNCHANGED proven
          \/ Serves(r, "ended") /\ UNCHANGED <<offerRows, proven>>
    /\ UNCHANGED <<earnings, overlapped, aged>>

(* execute() reads the row again; onRoute() holds, or skips.               *)
RereadOffer(r) ==
    /\ StandsAt(r, "reread")
    /\ serving' = [serving EXCEPT ![r].step = "route", ![r].status = offerRows[serving[r].offer].status]
    /\ UNCHANGED <<offerRows, inFlight, earnings, proven, overlapped, aged>>

SendToOffer(r) ==
    /\ StandsAt(r, "route")
    /\ \/ Serves(r, "ended") /\ UNCHANGED inFlight
       \/ ~Busy(serving[r].offer) /\ Serves(r, "sent") /\ inFlight' = Counted(serving[r].offer)
    /\ UNCHANGED <<offerRows, earnings, proven, overlapped, aged>>

(* The answer, or its failure; noteDispatch() inserts the row of an        *)
(* endpoint that has none, which ensure() has done already.                *)
OfferAnswers(r) ==
    /\ StandsAt(r, "sent")
    /\ inFlight' = Returned(serving[r].offer)
    /\ \E step \in {"spot", "ended"} : Serves(r, step)
    /\ UNCHANGED <<offerRows, earnings, proven, overlapped, aged>>

---------------------------------------------------------------------------------
(* spotCheck(): about one answer in a hundred, where a verified peer       *)
(* serves the model too.  A peer that is busy or fails says nothing.       *)

SpotPeers(r) == {p \in CommunityOfferSet \ {serving[r].offer} : offerRows[p].status = "verified"}

SpotBegins(r) ==
    /\ StandsAt(r, "spot")
    /\ \/ Serves(r, "record") /\ UNCHANGED inFlight
       \/ \E p \in SpotPeers(r) :
            /\ ~Busy(p)
            /\ serving' = [serving EXCEPT ![r].step = "rerun", ![r].peer = p]
            /\ inFlight' = Counted(p)
    /\ UNCHANGED <<offerRows, earnings, proven, overlapped, aged>>

SpotEnds(r) ==
    /\ StandsAt(r, "rerun")
    /\ inFlight' = Returned(serving[r].peer)
    /\ \/ Serves(r, "record") /\ UNCHANGED offerRows
       \/ Serves(r, "ended") /\ offerRows' = [offerRows EXCEPT ![serving[r].offer].status = "failed"]
    /\ UNCHANGED <<earnings, proven, overlapped, aged>>

---------------------------------------------------------------------------------
(* recordUsage(): what the seller earned today is read, then the answer's  *)
(* credits are written with what was left of the cap.                      *)

SelfServed(r)  == PersonOf[r] = SellerOf[serving[r].offer]
EarnedBy(seller) == MapThenSumSet(LAMBDA e : e.credits, {e \in earnings : SellerOf[e.offer] = seller})
RoomToday(seller) == IF EarnedBy(seller) >= DailyCap THEN 0 ELSE DailyCap - EarnedBy(seller)
Lesser(a, b)   == IF a <= b THEN a ELSE b

(* Mutant: the cap is per answer, not per day.                             *)
CreditsFor_PerAnswer(r) ==
    IF serving[r].status # "verified" \/ SelfServed(r) THEN 0
    ELSE Lesser(Earning[serving[r].offer], DailyCap)

CreditsFor(r) ==
    IF serving[r].status # "verified" \/ SelfServed(r) THEN 0
    ELSE Lesser(Earning[serving[r].offer], RoomToday(SellerOf[serving[r].offer]))

RecordReads(r) ==
    /\ StandsAt(r, "record")
    /\ serving' = [serving EXCEPT ![r].step = "write", ![r].credits = CreditsFor(r)]
    /\ overlapped' = overlapped \cup
        {SellerOf[serving[s].offer] : s \in {t \in CommunityRequests \ {r} :
            StandsAt(t, "write") /\ SellerOf[serving[t].offer] = SellerOf[serving[r].offer]}}
    /\ UNCHANGED <<offerRows, inFlight, earnings, proven, aged>>

(* A failed INSERT is only logged: the seller earns nothing for it.        *)
RecordWrites(r) ==
    /\ StandsAt(r, "write")
    /\ Serves(r, "ended")
    /\ \/ earnings' = earnings \cup {[request |-> r, offer |-> serving[r].offer, credits |-> serving[r].credits]}
       \/ UNCHANGED earnings
    /\ UNCHANGED <<offerRows, inFlight, proven, overlapped, aged>>

(* noteHealth(): the first sight of a machine's offer is a new row.        *)
OfferSeen(o) ==
    /\ o \notin Endpoints /\ offerRows[o].status = "absent"
    /\ offerRows' = [offerRows EXCEPT ![o].status = "new"]
    /\ UNCHANGED <<inFlight, serving, earnings, proven, overlapped, aged>>

CanaryAges(o) ==
    /\ offerRows[o].recent /\ aged < MaxAging
    /\ offerRows' = [offerRows EXCEPT ![o].recent = FALSE]
    /\ aged' = aged + 1
    /\ UNCHANGED <<inFlight, serving, earnings, proven, overlapped>>

CommunityNext ==
    \/ \E r \in CommunityRequests :
        \/ ChooseOffer(r) \/ EnsureOffer(r) \/ CanaryBegins(r) \/ CanaryEnds(r)
        \/ RereadOffer(r) \/ SendToOffer(r) \/ OfferAnswers(r)
        \/ SpotBegins(r) \/ SpotEnds(r) \/ RecordReads(r) \/ RecordWrites(r)
    \/ \E o \in CommunityOfferSet : OfferSeen(o) \/ CanaryAges(o)

CommunitySpec == CommunityInit /\ [][CommunityNext]_communityVars

---------------------------------------------------------------------------------
(* Properties.                                                             *)

CommunityTypeOK ==
    /\ offerRows \in [CommunityOfferSet -> [status : Statuses, recent : BOOLEAN]]
    /\ inFlight \in [Endpoints -> 0..Concurrency]
    /\ \A r \in CommunityRequests : serving[r].offer \in CommunityOfferSet \cup {NoOffer}

(* index.js, "any wrong answer marks the offer failed": whatever canary    *)
(* rounds and spot checks of other requests are still under way when an    *)
(* offer fails, none of them makes it verified again.                      *)
FailedStays == [][\A o \in CommunityOfferSet : offerRows[o].status = "failed" => offerRows'[o].status = "failed"]_communityVars

(* index.js, "A self-served run earns 0", a new machine serves the free    *)
(* tier, and a seller is capped daily: credits come from a machine that    *)
(* passed a canary round, for somebody else's request, and pass the cap    *)
(* only where two answers of the seller were recorded over each other.     *)
EarnedFairly ==
    /\ \A e \in earnings : e.credits > 0 => e.offer \in proven /\ SellerOf[e.offer] # PersonOf[e.request]
    /\ \A o \in CommunityOfferSet : EarnedBy(SellerOf[o]) > DailyCap => SellerOf[o] \in overlapped
==================================================================================
