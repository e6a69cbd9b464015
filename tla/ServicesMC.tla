------------------------------- MODULE ServicesMC --------------------------------
(***************************************************************************)
(* Small instances of the components around the router that share nothing  *)
(* with each other: the batches, the memory of a person, the offers of     *)
(* community members, the credentials, the price book, the registry, what  *)
(* routes learn, free use, and the charges of a Balance session.  One run  *)
(* checks them one after the other: `service` says which, and the others   *)
(* stay as they began.                                                     *)
(***************************************************************************)
EXTENDS Batches, MemoryStore, CommunityOffers, Credentials, PriceBook,
        RegistryVersions, RouteIncumbents, BenchRatings, FreeUse, CreditPrices, OfferChoice

CONSTANTS Services,   \* the services a run checks
          node, pool, ep, k1
VARIABLE service

(* Two items of one batch, answered by an off-peak route or by a member.   *)
MCItemOrder == <<"i1", "i2">>
MCBatchOf   == [i \in {"i1", "i2"} |-> "b1"]
MCOneItem   == <<"i1">>
MCOneOf     == [i \in {"i1"} |-> "b1"]
Price(i, o) == [input |-> i, output |-> o]
MCRetail    == Price(2, 4)
MCOffers    == {[cost |-> Price(1, 2), source |-> "window", hours |-> {"off-peak"}],
                [cost |-> Price(1, 3), source |-> "community", hours |-> {}]}
MCUsage     == {Price(1, 1)}

(* Three texts: one means the same as the second, one contradicts it.      *)
Both(s, t)  == {<<s, t>>, <<t, s>>}
MCSame      == Both("a", "b")
MCDisagree  == Both("a", "c")

(* The third request is made by the person who sells.                      *)
MCSellerOf  == [o \in CommunityOfferSet |-> IF o = ep THEN "sam" ELSE "pat"]
MCPersonOf  == [r \in CommunityRequests |-> IF r = 3 THEN "pat" ELSE "kim"]
MCEarning   == [o \in CommunityOfferSet |-> 2]
MCFirst     == [o \in CommunityOfferSet |-> IF o = pool THEN "absent" ELSE "new"]

(* The person has a key, and the service has one or none.                  *)
SelfHas     == [key |-> 1, seal |-> "v2"]
MCFirstRows == {[service |-> [key |-> 1, seal |-> "v1"], self |-> SelfHas],
                [service |-> [key |-> 0, seal |-> "none"], self |-> SelfHas]}

(* From one listing to the other one field moves little and the other much.*)
Priced(in, out) == [f \in PriceFields |-> IF f = "in" THEN in ELSE out]
MCListings      == {Priced(10, 10), Priced(20, 11)}
MCFirstListing  == Priced(10, 10)

(* The first code says the same in both fields.                            *)
MCFirstCode == [k \in RegistryKeys |-> [f \in Fields |-> CHOOSE v \in Values : TRUE]]

(* Three accounts on one device, one of which comes twice.                 *)
MCPersonOfRun == <<"ann", "bob", "cid", "bob">>
MCAllowanceOf == [p \in People |-> 1]

(* A rate is for four tokens.  The second card asks as much for a cached   *)
(* token as for another one, and something per request.                    *)
CardOf(in, kept, out, flat) ==
    [f \in CardFields |-> CASE f = "input" -> in [] f = "cached" -> kept [] f = "output" -> out [] OTHER -> flat]
MCCards == {CardOf(3, 1, 5, 0), CardOf(2, 2, 9, 1)}

(* What the registry says of an offer is plain, except for what differs.   *)
PlainFacts == [provider |-> "p", local |-> FALSE, profile |-> "metered", source |-> FALSE, managed |-> TRUE,
               uncensored |-> FALSE, lacks |-> {}, in |-> 10, out |-> 10, latency |-> 2, tier |-> 1, carded |-> TRUE,
               artifact |-> "other", region |-> "us", privacy |-> 1]
MCFacts == [o \in MenuOffers |->
    CASE o = "cheap"  -> [PlainFacts EXCEPT !.source = TRUE, !.lacks = {"vision"}, !.artifact = "m1"]
      [] o = "near"   -> [PlainFacts EXCEPT !.provider = "q", !.in = 11, !.out = 12, !.carded = FALSE, !.source = TRUE]
      [] o = "strong" -> [PlainFacts EXCEPT !.provider = "q", !.in = 30, !.out = 40, !.latency = 1, !.tier = 3,
                                            !.artifact = "m1", !.region = "eu", !.privacy = 0]
      [] o = "host"   -> [PlainFacts EXCEPT !.local = TRUE, !.source = TRUE, !.tier = 0, !.lacks = {"vision"}, !.privacy = 0]
      [] o = "byok"   -> [PlainFacts EXCEPT !.profile = "byok", !.tier = 2]
      [] o = "adult"  -> [PlainFacts EXCEPT !.uncensored = TRUE]
      [] OTHER        -> [PlainFacts EXCEPT !.region = "none"]]

(* A plain request of a person, and what one or two callers' wishes,       *)
(* payers or rules make of it.                                             *)
NoRules   == [objective |-> "none", floor |-> 0, ceiling |-> Beyond, maxPrice |-> Beyond, privacy |-> 2,
              regions |-> {"us", "eu", "none"}]
PlainAsk  == [payer |-> "person", uncensored |-> FALSE, needs |-> {}, heavy |-> FALSE, long |-> FALSE,
              prefer |-> {}, usual |-> NoOne, warm |-> NoOne, freeFirst |-> "unset", ceiling |-> Beyond,
              preset |-> NoRules, exact |-> NoOne, alias |-> "none", scope |-> "all", pinned |-> FALSE, pin |-> NoOne]
Wishes    == {[PlainAsk EXCEPT !.payer = p] : p \in {"nobody", "none", "app", "sandbox"}}
             \cup {[PlainAsk EXCEPT !.prefer = p] : p \in {{"strong"}, {"near", "strong"}}}
             \cup {[PlainAsk EXCEPT !.alias = a] : a \in {"auto", "cheapest", "fastest", "private"}}
             \cup {[PlainAsk EXCEPT !.preset = p] : p \in
                     {[NoRules EXCEPT !.floor = 1, !.objective = "fastest"], [NoRules EXCEPT !.privacy = 0],
                      [NoRules EXCEPT !.maxPrice = 11], [NoRules EXCEPT !.regions = {"eu"}]}}
             \cup {[PlainAsk EXCEPT !.freeFirst = f] : f \in {"on", "off"}}
             \cup {[PlainAsk EXCEPT !.scope = s] : s \in {"local", "paid"}}
             \cup {[PlainAsk EXCEPT !.uncensored = TRUE], [PlainAsk EXCEPT !.needs = {"vision"}],
                   [PlainAsk EXCEPT !.heavy = TRUE], [PlainAsk EXCEPT !.long = TRUE], [PlainAsk EXCEPT !.usual = "near"],
                   [PlainAsk EXCEPT !.warm = "q"], [PlainAsk EXCEPT !.ceiling = 11], [PlainAsk EXCEPT !.exact = "m1"],
                   [PlainAsk EXCEPT !.pinned = TRUE], [PlainAsk EXCEPT !.pin = "near"]}
Wished(a, b) == [f \in DOMAIN PlainAsk |-> IF a[f] # PlainAsk[f] THEN a[f] ELSE b[f]]
MCAsks       == {Wished(a, b) : a, b \in Wishes}
MCPlacements == {<<"near", "strong", "cheap", "host", "byok", "adult">>, <<"adult", "byok", "host", "cheap", "strong", "near">>}
MCPinned     == <<"strong", "adult", "near", "cheap">>

sellingVars  == <<batchVars, memoryVars, communityVars, credentialVars, bookVars>>
routingVars  == <<registryVars, incumbentVars, ratingVars, useVars>>
ServicesVars == <<service, sellingVars, routingVars, priceVars, choiceVars>>
ServicesInit ==
    (* One beginning of a service that is not looked at is enough.         *)
    /\ service \in Services
    /\ ChoiceInit
    /\ service = "offers" \/ ask = [PlainAsk EXCEPT !.pinned = TRUE]
    /\ CredentialInit
    /\ service # "credentials" => ~granted /\ credentialRows = CHOOSE first \in FirstRows : TRUE
    /\ PriceInit
    /\ service # "charges" => ~halved /\ maxCost = Unlimited /\ estimate = CHOOSE n \in Tokens : TRUE
    /\ IncumbentInit
    /\ incumbent = Settled(NoIncumbent) \/ (service = "incumbents" /\ incumbent = Settled("x"))
    /\ BatchInit /\ MemoryInit /\ CommunityInit /\ BookInit /\ RegistryInit /\ RatingInit /\ UseInit

OfBatches     == /\ service = "batches" /\ BatchNext
                 /\ UNCHANGED <<service, memoryVars, communityVars, credentialVars, bookVars, routingVars, priceVars, choiceVars>>
OfMemory      == /\ service = "memory" /\ MemoryNext
                 /\ UNCHANGED <<service, batchVars, communityVars, credentialVars, bookVars, routingVars, priceVars, choiceVars>>
OfCommunity   == /\ service = "community" /\ CommunityNext
                 /\ UNCHANGED <<service, batchVars, memoryVars, credentialVars, bookVars, routingVars, priceVars, choiceVars>>
OfCredentials == /\ service = "credentials" /\ CredentialNext
                 /\ UNCHANGED <<service, batchVars, memoryVars, communityVars, bookVars, routingVars, priceVars, choiceVars>>
OfPrices      == /\ service = "prices" /\ BookNext
                 /\ UNCHANGED <<service, batchVars, memoryVars, communityVars, credentialVars, routingVars, priceVars, choiceVars>>
OfRegistry    == /\ service = "registry" /\ RegistryNext
                 /\ UNCHANGED <<service, sellingVars, incumbentVars, ratingVars, useVars, priceVars, choiceVars>>
OfIncumbents  == /\ service = "incumbents" /\ IncumbentNext
                 /\ UNCHANGED <<service, sellingVars, registryVars, ratingVars, useVars, priceVars, choiceVars>>
OfRatings     == /\ service = "ratings" /\ RatingNext
                 /\ UNCHANGED <<service, sellingVars, registryVars, incumbentVars, useVars, priceVars, choiceVars>>
OfAccounts    == /\ service = "accounts" /\ AccountsNext
                 /\ UNCHANGED <<service, sellingVars, registryVars, incumbentVars, ratingVars, priceVars, choiceVars>>
OfSolvers     == /\ service = "solvers" /\ SolversNext
                 /\ UNCHANGED <<service, sellingVars, registryVars, incumbentVars, ratingVars, priceVars, choiceVars>>
OfCharges     == /\ service = "charges" /\ PriceNext
                 /\ UNCHANGED <<service, sellingVars, routingVars, choiceVars>>
OfOffers      == /\ service = "offers" /\ ChoiceNext
                 /\ UNCHANGED <<service, sellingVars, routingVars, priceVars>>
ServicesNext  ==
    \/ OfBatches \/ OfMemory \/ OfCommunity \/ OfCredentials \/ OfPrices
    \/ OfRegistry \/ OfIncumbents \/ OfRatings \/ OfAccounts \/ OfSolvers \/ OfCharges \/ OfOffers
ServicesSpec  == ServicesInit /\ [][ServicesNext]_ServicesVars

ServicesTypeOK ==
    /\ BatchTypeOK /\ MemoryTypeOK /\ CommunityTypeOK /\ CredentialTypeOK /\ BookTypeOK
    /\ RegistryTypeOK /\ IncumbentTypeOK /\ RatingTypeOK /\ UseTypeOK /\ PriceTypeOK /\ ChoiceTypeOK
==================================================================================
