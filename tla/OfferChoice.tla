------------------------------- MODULE OfferChoice -------------------------------
(***************************************************************************)
(* Which offers one request asks, and in which order (candidates() and     *)
(* execute() of server/providers/index.js, with task.js, model-catalog.js  *)
(* and exchange/constraints.js).  The list is collected, ranked, filtered  *)
(* and walked in stages of their own, and each rule about who may serve is *)
(* kept by one of them.  A person's own keys and the machines of members   *)
(* come before (ProviderRouter, CommunityOffers); what the planner of      *)
(* openvibe-sdk finds unfit, and in which order it puts offers, is data.   *)
(***************************************************************************)
EXTENDS Naturals, Sequences, FiniteSets, SequencesExt

CONSTANTS MenuOffers,    \* the offers of the registry, the stub among them
          Facts,         \* of each offer, what its provider and its model's row say
          Asks,          \* the requests, with what their callers, routes and presets say
          Placements,    \* the orders the planner may put the offers in
          MayBeUnfit,    \* the offers the planner may find unfit (health, cost)
          PinnedOrder,   \* the primary and the fallbacks of a pinned route
          Authority,     \* the offer a route's constraints name, or NoOne
          FreeCeiling,   \* config.freeUse.maxOutputPricePerMtok
          StubFallback,  \* config.stubFallback
          WithEvidence,  \* AI_ROUTING_EVIDENCE
          MaxTries       \* config.routing.maxAttempts

NoOne == "no one"
Stub  == "stub"

(* The stub is a registered offer that no planner ranks; an offer that is  *)
(* asked for is one, a price and a latency are not negative, and a tier is *)
(* one of four (TIER_RANK, task.js).                                       *)
ASSUME ChoiceConstants ==
    /\ IsFiniteSet(MenuOffers) /\ Stub \in MenuOffers /\ NoOne \notin MenuOffers
    /\ \A o \in MenuOffers : Facts[o].tier \in 0..3 /\ Facts[o].latency \in Nat /\ Facts[o].in \in Nat
    /\ Facts[Stub].uncensored = FALSE /\ Facts[Stub].profile # "byok"
    /\ \A a \in Asks : a.uncensored \in BOOLEAN
    /\ \A placed \in Placements :
          /\ placed \in Seq(MenuOffers \ {Stub}) /\ \A o \in MenuOffers \ {Stub} : \E i \in DOMAIN placed : placed[i] = o
          /\ \A i, j \in DOMAIN placed : placed[i] = placed[j] => i = j
    /\ PinnedOrder \in Seq(MenuOffers) /\ MaxTries \in Nat

VARIABLES ask,     \* the request
          step,
          menu,    \* the offers still to be asked, in order
          fit,     \* those the planner found eligible
          tries,   \* history: the offers asked, in order
          resting  \* history: the offers skipped because they rest, are off or busy
choiceVars == <<ask, step, menu, fit, tries, resting>>

ChoiceInit ==
    /\ ask \in Asks /\ step = "collect"
    /\ menu = <<>> /\ fit = MenuOffers /\ tries = <<>> /\ resting = {}

---------------------------------------------------------------------------------
(* The members of S, each after those that come before it.                 *)
Arranged(S, comesBefore) ==
    [k \in 1..Cardinality(S) |-> CHOOSE x \in S : Cardinality({y \in S : <<y, x>> \in comesBefore}) = k - 1]

(* What a filter of the list keeps, where it was.                          *)
Kept(list, offers) ==
    LET places == {i \in DOMAIN list : list[i] \in offers}
        order  == Arranged(places, {p \in places \X places : p[1] < p[2]})
    IN  [k \in DOMAIN order |-> list[order[k]]]

(* What the records say of an offer.                                       *)

IsFree(o) == o = Stub \/ Facts[o].local \/ Facts[o].profile # "metered"
OutOf(o)  == IF IsFree(o) THEN 0 ELSE Facts[o].out

(* hardNeeds(): nothing the task needs is known to be missing.             *)
Able(o) == o = Stub \/ ask.needs \cap Facts[o].lacks = {}

AppOffered(o) ==
    /\ ask.payer \in {"app", "sandbox"} => Facts[o].profile # "byok"
    /\ ask.payer = "sandbox" => IsFree(o)

PolicyAllows(o) == Facts[o].uncensored = ask.uncensored

(* An alias turns into the constraints of its policy.                      *)
Scope == IF ask.alias = "private" THEN "local" ELSE ask.scope
InScope(o) == CASE Scope = "local" -> Facts[o].local
                [] Scope = "paid"  -> ~IsFree(o)
                [] OTHER           -> TRUE

IsPinned == ask.pinned /\ ask.exact = NoOne
KeepsOrder == IsPinned \/ ask.exact # NoOne

(* Who pays says which sources, and up to which price of output.           *)
IsSource(o)   == ask.payer = "nobody" => Facts[o].source
Ceiling       == IF ask.payer = "nobody" THEN FreeCeiling ELSE ask.ceiling
UnderCeiling(o) == OutOf(o) <= Ceiling
CanBePaid(o)  == ask.payer = "none" => IsFree(o) \/ ~Facts[o].carded

---------------------------------------------------------------------------------
TurnDown == step' = "refused"
Go(next) == step' = next
(* An uncensored request never ends on a standard offer.                   *)
Collected(list) ==
    /\ menu' = list
    /\ IF list = <<>> /\ ask.uncensored THEN TurnDown ELSE Go("free first")
    /\ UNCHANGED <<ask, tries, resting>>

(* candidates(): synthetic text closes a list, unless a scope or the adult *)
(* tier forbids it.                                                        *)
Closed(list) ==
    IF StubFallback /\ ~ask.uncensored /\ Scope = "all" /\ ~Contains(list, Stub)
    THEN Append(list, Stub) ELSE list

(* poolCandidates(): every offer of the registry that may serve, those the *)
(* planner found fit first.                                                *)
CollectPool ==
    /\ step = "collect" /\ ~KeepsOrder
    /\ \E placed \in Placements, unfit \in SUBSET MayBeUnfit :
         LET offered == {o \in MenuOffers : AppOffered(o) /\ InScope(o) /\ Facts[o].managed /\ PolicyAllows(o)}
         IN  /\ fit' = MenuOffers \ unfit
             /\ Collected(Closed(Kept(placed, offered \ unfit) \o Kept(placed, offered \cap unfit)))

(* pinnedCandidates(): the administrator's order.                          *)
CollectPinned ==
    /\ step = "collect" /\ IsPinned
    /\ Collected(Closed(Kept(PinnedOrder, {o \in MenuOffers : AppOffered(o) /\ Facts[o].managed /\ PolicyAllows(o)})))
    /\ UNCHANGED fit

(* The deployments of the artifact that was named, and nothing else.       *)
CollectExact ==
    /\ step = "collect" /\ ask.exact # NoOne
    /\ \E placed \in Placements, unfit \in SUBSET MayBeUnfit :
         LET usable == Kept(placed, {o \in MenuOffers \ unfit :
                           /\ Facts[o].artifact = ask.exact
                           /\ PolicyAllows(o) /\ CanBePaid(o) /\ IsSource(o)
                           /\ ask.payer = "nobody" => UnderCeiling(o)
                           /\ Facts[o].managed /\ Able(o)})
         IN  /\ fit' = MenuOffers \ unfit
             /\ menu' = usable
             /\ IF usable = <<>> THEN TurnDown ELSE Go("free first")
    /\ UNCHANGED <<ask, tries, resting>>

(* free_first puts the free tiers of the network ahead.                    *)
FreeFirst ==
    /\ step = "free first"
    /\ menu' = IF ask.freeFirst # "on" THEN menu
               ELSE LET free == {o \in MenuOffers : IsFree(o)} IN Kept(menu, free) \o Kept(menu, MenuOffers \ free)
    /\ Go("rank")
    /\ UNCHANGED <<ask, fit, tries, resting>>

---------------------------------------------------------------------------------
(* rank(): a prompt that is cached is worth a tenth of the price.          *)
AtWarm(o) == IF Facts[o].provider = ask.warm THEN 9 ELSE 10
Beyond    == 10000
InPrice(o) == IF IsFree(o) THEN 0 ELSE Facts[o].in
Effective(o) == IF UnderCeiling(o) THEN AtWarm(o) * InPrice(o) ELSE Beyond

Objective == IF ask.preset.objective # "none" THEN ask.preset.objective ELSE ask.alias
(* A list of the offer's marks, of which the first that differs decides.   *)
Zero(yes) == IF yes THEN 0 ELSE 1
Marks(o) ==
    << Zero(o = Authority /\ ask.alias \in {"none", "auto"}),
       Zero(o = ask.usual),
       IF Objective = "cheapest" THEN Effective(o) ELSE 0,
       IF Objective = "fastest" THEN Facts[o].latency ELSE 0,
       IF ask.heavy \/ ask.freeFirst = "off" THEN 3 - Facts[o].tier ELSE 0,
       Effective(o), 3 - Facts[o].tier, Facts[o].latency,
       CHOOSE i \in DOMAIN menu : menu[i] = o >>
Before(a, b) == \E i \in DOMAIN Marks(a) :
    Marks(a)[i] < Marks(b)[i] /\ \A j \in 1..(i - 1) : Marks(a)[j] = Marks(b)[j]

(* rankCandidates(): what cannot do the job leaves, a pinned route keeps   *)
(* its order, what the planner found unfit follows, and synthetic text     *)
(* comes last.  An exact id is not ranked.                                 *)
Rank ==
    /\ step = "rank"
    /\ LET able   == {o \in ToSet(menu) \ {Stub} : Able(o)}
           ranked == IF KeepsOrder THEN Kept(menu, able)
                     ELSE Arranged(able \cap fit, {p \in able \X able : Before(p[1], p[2])}) \o Kept(menu, able \ fit)
       IN menu' = IF ask.exact # NoOne THEN menu ELSE ranked \o (IF Contains(menu, Stub) THEN <<Stub>> ELSE <<>>)
    /\ Go("prefer")
    /\ UNCHANGED <<ask, fit, tries, resting>>

ToFront(list, o) == <<o>> \o Kept(list, MenuOffers \ {o})
(* The first offer of the list that answers to the caller's preference.    *)
NamedIn(list) == Kept(list, ask.prefer)

(* Mutant: the offer that was named leads whether or not it is in the list.*)
Led_Forced(list) ==
    IF ask.prefer = {} \/ KeepsOrder THEN list ELSE ToFront(list, CHOOSE o \in ask.prefer : TRUE)

Led(list) == IF NamedIn(list) = <<>> \/ KeepsOrder THEN list ELSE ToFront(list, NamedIn(list)[1])

Prefer == /\ step = "prefer" /\ menu' = Led(menu) /\ Go("preset")
          /\ UNCHANGED <<ask, fit, tries, resting>>

(* The rules of a routing preset; synthetic text declares no data policy.  *)
FitsPreset(o) ==
    /\ Facts[o].tier >= ask.preset.floor
    /\ OutOf(o) <= ask.preset.ceiling
    /\ OutOf(o) <= ask.preset.maxPrice
    /\ Facts[o].region \in ask.preset.regions
    /\ Facts[o].privacy <= ask.preset.privacy

(* A hard price or a strict privacy that nothing fits refuses the request. *)
ApplyPreset ==
    /\ step = "preset"
    /\ menu' = Kept(menu, {o \in MenuOffers : FitsPreset(o)})
    /\ IF menu' = <<>> /\ (ask.preset.maxPrice < Beyond \/ ask.preset.privacy < 2) THEN TurnDown ELSE Go("evidence")
    /\ UNCHANGED <<ask, fit, tries, resting>>

---------------------------------------------------------------------------------
(* The evidence puts the offers with a retail rate in any order, what the  *)
(* caller named first, before the ones without and the stub.               *)
Measured == ask.alias \notin {"none", "private"} /\ ask.exact = NoOne /\ WithEvidence
OrdersOf(S) == {s \in [1..Cardinality(S) -> S] : \A i, j \in DOMAIN s : s[i] = s[j] => i = j}
Weigh ==
    /\ step = "evidence"
    /\ LET planned == {o \in ToSet(menu) \ {Stub} : Facts[o].carded}
           others == Kept(menu, MenuOffers \ planned)
       IN IF ~Measured THEN UNCHANGED menu
          ELSE \E order \in OrdersOf(planned) :
                 menu' = (IF NamedIn(order) = <<>> THEN order ELSE ToFront(order, NamedIn(order)[1])) \o others
    /\ Go("pin")
    /\ UNCHANGED <<ask, fit, tries, resting>>

(* A pinned run tries the offer it named alone.                            *)
PinRun ==
    /\ step = "pin"
    /\ IF ask.pin = NoOne \/ ask.exact # NoOne THEN Go("ask") /\ UNCHANGED menu
       ELSE IF Contains(menu, ask.pin) THEN menu' = <<ask.pin>> /\ Go("ask")
       ELSE TurnDown /\ UNCHANGED menu
    /\ UNCHANGED <<ask, fit, tries, resting>>

(* The walk.  An offer that may not serve this payer, or this job, is      *)
(* skipped; so is one that rests, is off or busy now.                      *)
ShortEnough(o) == Facts[o].local => ~ask.long
Barred(o) == ~(IsSource(o) /\ UnderCeiling(o) /\ CanBePaid(o) /\ ShortEnough(o))
Skip ==
    /\ step = "ask" /\ menu # <<>>
    /\ \/ Barred(Head(menu)) /\ UNCHANGED resting
       \/ ~Barred(Head(menu)) /\ resting' = resting \cup {Head(menu)}
    /\ menu' = Tail(menu)
    /\ UNCHANGED <<ask, step, fit, tries>>

AskOffer ==
    /\ step = "ask" /\ menu # <<>> /\ ~Barred(Head(menu)) /\ Len(tries) < MaxTries
    /\ tries' = Append(tries, Head(menu))
    /\ menu' = Tail(menu)
    /\ Go("ask") \/ Go("answered") \/ Go("failed")
    /\ UNCHANGED <<ask, fit, resting>>

RunOut ==
    /\ step = "ask" /\ (menu = <<>> \/ Len(tries) = MaxTries)
    /\ Go("failed") /\ UNCHANGED <<ask, menu, fit, tries, resting>>

ChoiceNext ==
    \/ CollectPool \/ CollectPinned \/ CollectExact \/ FreeFirst \/ Rank \/ Prefer
    \/ ApplyPreset \/ Weigh \/ PinRun \/ Skip \/ AskOffer \/ RunOut
ChoiceSpec == ChoiceInit /\ [][ChoiceNext]_choiceVars

---------------------------------------------------------------------------------
(* Properties.                                                             *)

ChoiceTypeOK ==
    /\ step \in {"collect", "free first", "rank", "prefer", "preset", "evidence", "pin", "ask",
                "refused", "answered", "failed"}
    /\ ToSet(menu) \cup ToSet(tries) \cup resting \cup fit \subseteq MenuOffers
    /\ IsPinned \/ Len(tries \o menu) = Cardinality(ToSet(tries \o menu))

(* Who may serve this request, by what its caller, the payer and the       *)
(* administrator said, whichever stage keeps it.  Documented rules are     *)
(* left out where no stage keeps them: an exact id of an app may run on    *)
(* byok capacity and that of a sandbox app on metered capacity, and a      *)
(* pinned route has no scope.                                              *)
MayServe(o) ==
    /\ Able(o) /\ PolicyAllows(o) /\ FitsPreset(o) /\ (Facts[o].local => ~ask.long)
    /\ o = Stub \/ Facts[o].managed
    /\ IsSource(o) /\ UnderCeiling(o) /\ CanBePaid(o)
    /\ ask.payer \in {"app", "sandbox"} /\ ask.exact = NoOne => Facts[o].profile # "byok"
    /\ ask.payer = "sandbox" /\ ask.exact = NoOne => IsFree(o)
    /\ ask.exact # NoOne => Facts[o].artifact = ask.exact
    /\ ~KeepsOrder /\ o # Stub => InScope(o)
    /\ ask.pin # NoOne /\ ask.exact = NoOne => o = ask.pin

Cheaper(a, b) == AtWarm(a) * InPrice(a) < AtWarm(b) * InPrice(b)
(* task.js: the route's authority and the person's own model come first;   *)
(* then a heavy job takes the strength tier, and any other the cheapest    *)
(* offer.                                                                  *)
Leads(a, b) ==
    IF b = Stub \/ b \notin fit THEN TRUE
    ELSE IF Authority \in {a, b} /\ ask.alias \in {"none", "auto"} THEN a = Authority
    ELSE IF ask.usual \in {a, b} THEN a = ask.usual
    ELSE IF Objective = "cheapest" THEN Cheaper(a, b)
    ELSE IF Objective = "fastest" THEN Facts[a].latency < Facts[b].latency
    ELSE IF ask.heavy \/ ask.freeFirst = "off" THEN
         Facts[a].tier > Facts[b].tier \/ (Facts[a].tier = Facts[b].tier /\ Cheaper(a, b))
    ELSE Cheaper(a, b)
(* What the caller wished for comes before all of it.                      *)
Better(a, b) == b \notin ask.prefer /\ (ask.prefer = {a} \/ Leads(a, b))

(* No chain of filters and reorderings asks an offer that may not serve,   *)
(* or loses one that may: whoever is asked, no better offer that was fit   *)
(* and not resting is still waiting for its turn.  A caller's wish, a free *)
(* tier put ahead or a preset never brings back what another rule barred.  *)
AsksTheBest == \A i \in DOMAIN tries :
    /\ MayServe(tries[i])
    /\ KeepsOrder \/ Measured \/ \A o \in (fit \ {Stub}) \ (resting \cup ToSet(SubSeq(tries, 1, i))) :
           MayServe(o) => ~Better(o, tries[i])
==================================================================================
