-------------------------------- MODULE ServicesProofs --------------------------------
(***************************************************************************)
(* Theorems about prices and offers: what a card and a cap hold and charge *)
(* (CreditPrices), for every card, cap and count of tokens; that no listed *)
(* price changes silently (PriceBook); that the half-price batches lose    *)
(* nothing that is not written, and no answer (Batches), for every number  *)
(* of workers and runs; and which offers a request asks (OfferChoice), for *)
(* every menu and request.  At the end, the services side by side: what is *)
(* proved of each here and in SharedRowsProofs holds of them together.     *)
(***************************************************************************)
EXTENDS ServicesMC, SharedRowsProofs

---------------------------------------------------------------------------------
(* Division and products, as the steps below use them.                     *)

LEMMA DivBounds ==
    ASSUME NEW n \in Nat, NEW d \in Nat \ {0}
    PROVE  /\ n \div d \in Nat
           /\ (n \div d) * d <= n
           /\ n < (n \div d) * d + d
  OBVIOUS

LEMMA TimesMonotonic ==
    ASSUME NEW a \in Int, NEW b \in Int, NEW d \in Nat, a <= b
    PROVE  a * d <= b * d
  OBVIOUS

LEMMA LessByFactor ==
    ASSUME NEW a \in Int, NEW b \in Int, NEW d \in Nat, a * d < b * d
    PROVE  a < b
<1>1. ~(b <= a)
  BY TimesMonotonic
<1> QED
  BY <1>1

LEMMA TimesSum ==
    ASSUME NEW a \in Int, NEW b \in Int, NEW d \in Int
    PROVE  (a + b) * d = a * d + b * d
  OBVIOUS

LEMMA NatTimes ==
    ASSUME NEW a \in Nat, NEW b \in Nat
    PROVE  a * b \in Nat
  OBVIOUS

---------------------------------------------------------------------------------
(* chargeNano() rounds up: the charge covers the exact price and is less   *)
(* than one nano-USD above it.                                             *)
LEMMA ChargeBounds ==
    ASSUME NEW t \in Nat, NEW r \in Nat
    PROVE  /\ ChargeNano(t, r) \in Nat
           /\ t * r <= ChargeNano(t, r) * PerMillion
           /\ ChargeNano(t, r) * PerMillion < t * r + PerMillion
<1>1. PerMillion \in Nat \ {0}
  BY CreditPricesAssumption
<1>2. t * r \in Nat
  BY NatTimes
<1> DEFINE n == t * r + PerMillion - 1
<1>3. n \in Nat
  BY <1>1, <1>2
<1>4. ChargeNano(t, r) = n \div PerMillion
  BY DEF ChargeNano
<1> HIDE DEF n
<1>5. /\ n \div PerMillion \in Nat
      /\ (n \div PerMillion) * PerMillion <= n
      /\ n < (n \div PerMillion) * PerMillion + PerMillion
  BY <1>1, <1>3, DivBounds
<1>6. (n \div PerMillion) * PerMillion \in Nat
  BY <1>1, <1>5, NatTimes
<1> QED
  BY <1>1, <1>2, <1>4, <1>5, <1>6 DEF n

(* It is the least amount that covers the exact price.                     *)
LEMMA ChargeIsLeast ==
    ASSUME NEW t \in Nat, NEW r \in Nat, NEW k \in Int, t * r <= k * PerMillion
    PROVE  ChargeNano(t, r) <= k
<1> DEFINE c == ChargeNano(t, r)
<1>1. PerMillion \in Nat \ {0}
  BY CreditPricesAssumption
<1>2. c \in Nat /\ c * PerMillion < t * r + PerMillion
  BY ChargeBounds
<1>3. t * r \in Nat /\ c * PerMillion \in Nat
  BY <1>1, <1>2, NatTimes
<1> HIDE DEF c
<1>4. (k + 1) * PerMillion = k * PerMillion + PerMillion
  BY <1>1
<1>5. k * PerMillion \in Int
  BY <1>1
<1>6. c * PerMillion < (k + 1) * PerMillion
  BY <1>1, <1>2, <1>3, <1>4, <1>5
<1>7. c < k + 1
  BY <1>1, <1>2, <1>6, LessByFactor
<1> QED
  BY <1>2, <1>7 DEF c

LEMMA ChargeMonotonic ==
    ASSUME NEW t \in Nat, NEW u \in Nat, NEW r \in Nat, NEW q \in Nat, t <= u, q <= r
    PROVE  ChargeNano(t, q) <= ChargeNano(u, r)
<1>1. t * q <= u * q
  BY TimesMonotonic
<1>2. q * u <= r * u
  BY TimesMonotonic
<1>3. q * u = u * q /\ r * u = u * r
  OBVIOUS
<1>4. u * r <= ChargeNano(u, r) * PerMillion /\ ChargeNano(u, r) \in Nat
  BY ChargeBounds
<1>5. t * q \in Nat /\ u * q \in Nat /\ u * r \in Nat /\ ChargeNano(u, r) * PerMillion \in Nat
  BY <1>4, NatTimes, CreditPricesAssumption
<1>6. t * q <= ChargeNano(u, r) * PerMillion
  BY <1>1, <1>2, <1>3, <1>4, <1>5
<1> QED
  BY <1>4, <1>6, ChargeIsLeast

(* A part of the input at a rate of its own, which is no higher, adds at   *)
(* most the one nano-USD of its own rounding.                              *)
LEMMA ChargeOfParts ==
    ASSUME NEW a \in Nat, NEW b \in Nat, NEW r \in Nat, NEW q \in Nat, q <= r
    PROVE  ChargeNano(a, r) + ChargeNano(b, q) <= ChargeNano(a + b, r) + 1
<1> DEFINE ca == ChargeNano(a, r)
           cb == ChargeNano(b, q)
           cs == ChargeNano(a + b, r)
<1>1. PerMillion \in Nat \ {0}
  BY CreditPricesAssumption
<1>2. /\ ca \in Nat /\ cb \in Nat /\ cs \in Nat
      /\ ca * PerMillion < a * r + PerMillion
      /\ cb * PerMillion < b * q + PerMillion
      /\ (a + b) * r <= cs * PerMillion
  <2>1. a + b \in Nat
    OBVIOUS
  <2>2. cs \in Nat /\ (a + b) * r <= cs * PerMillion
    BY <2>1, ChargeBounds
  <2> QED
    BY <2>2, ChargeBounds
<1> HIDE DEF ca, cb, cs
<1>3. (a + b) * r = a * r + b * r
  BY TimesSum
<1>4. b * q <= b * r
  <2>1. q * b <= r * b
    BY TimesMonotonic
  <2>2. q * b = b * q /\ r * b = b * r
    OBVIOUS
  <2> QED
    BY <2>1, <2>2
<1>5. a * r \in Nat /\ b * r \in Nat /\ b * q \in Nat
  BY NatTimes
<1>6. (ca + cb) * PerMillion = ca * PerMillion + cb * PerMillion
  BY <1>1, <1>2, TimesSum
<1>7. (cs + 2) * PerMillion = cs * PerMillion + 2 * PerMillion
  BY <1>1, <1>2, TimesSum
<1>8. ca * PerMillion \in Nat /\ cb * PerMillion \in Nat /\ cs * PerMillion \in Nat
  BY <1>1, <1>2, NatTimes
<1>9. (ca + cb) * PerMillion < (cs + 2) * PerMillion
  BY <1>1, <1>2, <1>3, <1>4, <1>5, <1>6, <1>7, <1>8
<1>10. ca + cb < cs + 2
  BY <1>1, <1>2, <1>9, LessByFactor
<1> QED
  BY <1>2, <1>10 DEF ca, cb, cs

LEMMA NoTokensNoRate ==
    ASSUME NEW t \in Nat, NEW r \in Nat, t = 0 \/ r = 0
    PROVE  ChargeNano(t, r) = 0
<1>1. t * r = 0 /\ 0 * PerMillion = 0
  BY CreditPricesAssumption
<1>2. ChargeNano(t, r) <= 0
  BY <1>1, ChargeIsLeast
<1> QED
  BY <1>2, ChargeBounds

---------------------------------------------------------------------------------
(* The discount.                                                           *)

LEMMA HalfOfCharge ==
    ASSUME NEW t \in Nat, NEW r \in Nat
    PROVE  2 * ChargeNano(t, r \div 2) <= ChargeNano(t, r) + 1
<1> DEFINE h == r \div 2
           c == ChargeNano(t, h)
           w == ChargeNano(t, r)
<1>1. PerMillion \in Nat \ {0}
  BY CreditPricesAssumption
<1>2. h \in Nat /\ h * 2 <= r
  BY DivBounds
<1>3. /\ c \in Nat /\ w \in Nat
      /\ c * PerMillion < t * h + PerMillion
      /\ t * r <= w * PerMillion
  BY <1>2, ChargeBounds
<1> HIDE DEF h, c, w
<1>4. (h * 2) * t <= r * t
  BY <1>2, TimesMonotonic
<1>5. (h * 2) * t = 2 * (t * h) /\ r * t = t * r
  BY <1>2
<1>6. t * h \in Nat /\ t * r \in Nat /\ c * PerMillion \in Nat /\ w * PerMillion \in Nat
  BY <1>1, <1>2, <1>3, NatTimes
<1>7. (2 * c) * PerMillion = 2 * (c * PerMillion)
  BY <1>1, <1>3
<1>8. (w + 2) * PerMillion = w * PerMillion + 2 * PerMillion
  BY <1>1, <1>3, TimesSum
<1>9. (2 * c) * PerMillion < (w + 2) * PerMillion
  BY <1>1, <1>3, <1>4, <1>5, <1>6, <1>7, <1>8
<1>10. 2 * c < w + 2
  BY <1>1, <1>3, <1>9, LessByFactor
<1> QED
  BY <1>3, <1>10 DEF h, c, w

(* A batch is charged half: the halved card makes of any usage at most     *)
(* half of what the whole card does, but for the rounding up of its three  *)
(* components, half a nano-USD each (applyDiscount(), whose comment says   *)
(* "never charged more than half").                                        *)
THEOREM HalfIsHalf ==
    ASSUME NEW card \in [CardFields -> Nat],
           NEW used \in [input : Nat, cached : Nat, output : Nat],
           halved
    PROVE  2 * RetailCharge(ApplyDiscount(card), used) <= RetailCharge(card, used) + 3
<1> DEFINE half(f) == card[f] \div 2
<1>1. \A f \in CardFields : card[f] \in Nat /\ ApplyDiscount(card)[f] = half(f) /\ half(f) \in Nat
  BY DEF ApplyDiscount
<1>2. used.input \in Nat /\ used.cached \in Nat /\ used.output \in Nat
  OBVIOUS
<1>3. {"input", "cached", "output", "request"} = CardFields
  BY DEF CardFields
<1>4. 2 * half("request") <= card["request"]
  BY <1>1, <1>3
<1>5. /\ 2 * ChargeNano(used.input, half("input")) <= ChargeNano(used.input, card["input"]) + 1
      /\ 2 * ChargeNano(used.cached, half("cached")) <= ChargeNano(used.cached, card["cached"]) + 1
      /\ 2 * ChargeNano(used.output, half("output")) <= ChargeNano(used.output, card["output"]) + 1
  BY <1>1, <1>2, <1>3, HalfOfCharge
<1>6. /\ ChargeNano(used.input, half("input")) \in Nat /\ ChargeNano(used.input, card["input"]) \in Nat
      /\ ChargeNano(used.cached, half("cached")) \in Nat /\ ChargeNano(used.cached, card["cached"]) \in Nat
      /\ ChargeNano(used.output, half("output")) \in Nat /\ ChargeNano(used.output, card["output"]) \in Nat
  BY <1>1, <1>2, <1>3, ChargeBounds
<1>7. half("request") \in Nat /\ card["request"] \in Nat
  BY <1>1, <1>3
<1>8. RetailCharge(ApplyDiscount(card), used)
        = half("request") + ChargeNano(used.input, half("input"))
            + ChargeNano(used.cached, half("cached")) + ChargeNano(used.output, half("output"))
  BY <1>1, <1>3 DEF RetailCharge
<1> HIDE DEF half
<1> QED
  BY <1>4, <1>5, <1>6, <1>7, <1>8 DEF RetailCharge

---------------------------------------------------------------------------------
(* What affordable() plans.                                                *)

Sane == maxCost \in Nat \cup {Unlimited} /\ estimate \in Nat

LEMMA BaseIsNat ==
    ASSUME Sane, NEW card \in [CardFields -> Nat]
    PROVE  BaseOf(card) \in Nat
<1>1. card["request"] \in Nat /\ card["input"] \in Nat
  BY DEF CardFields
<1>2. ChargeNano(estimate, card["input"]) \in Nat
  BY <1>1, ChargeBounds DEF Sane
<1> QED
  BY <1>1, <1>2 DEF BaseOf

(* How many tokens the rest of the cap buys: these, and not one more.      *)
LEMMA CanBounds ==
    ASSUME Sane, NEW card \in [CardFields -> Nat], Affords(card), Binds(card)
    PROVE  /\ maxCost \in Nat /\ maxCost - BaseOf(card) \in Nat
           /\ Can(card) \in Nat /\ Can(card) >= 1
           /\ Can(card) * card["output"] <= (maxCost - BaseOf(card)) * PerMillion
           /\ (maxCost - BaseOf(card)) * PerMillion < (Can(card) + 1) * card["output"]
<1> DEFINE room == maxCost - BaseOf(card)
           rate == card["output"]
<1>1. rate \in Nat \ {0} /\ maxCost \in Nat
  BY DEF Binds, CardFields, Sane, Unlimited
<1>2. room \in Nat
  BY <1>1, BaseIsNat DEF Affords, Binds
<1>3. room * PerMillion \in Nat
  BY <1>2, NatTimes, CreditPricesAssumption
<1>4. Can(card) = (room * PerMillion) \div rate
  BY DEF Can
<1> DEFINE n == room * PerMillion
<1> HIDE DEF n
<1>5. /\ n \div rate \in Nat
      /\ (n \div rate) * rate <= n
      /\ n < (n \div rate) * rate + rate
  BY <1>1, <1>3, DivBounds DEF n
<1>6. (n \div rate + 1) * rate = (n \div rate) * rate + rate
  BY <1>1, <1>5, TimesSum
<1> QED
  BY <1>1, <1>2, <1>4, <1>5, <1>6 DEF n, Affords

(* The plan of an offer the cap can buy: at least one token, no more than  *)
(* was asked for, and an amount within the cap.                            *)
LEMMA PlanFits ==
    ASSUME Sane, NEW card \in [CardFields -> Nat], NEW requested \in Nat, requested >= 1, Affords(card)
    PROVE  /\ PlanTokens(card, requested) \in Nat
           /\ PlanTokens(card, requested) >= 1 /\ PlanTokens(card, requested) <= requested
           /\ PlanAmount(card, requested) \in Nat
           /\ maxCost # Unlimited => PlanAmount(card, requested) <= maxCost
<1> DEFINE tokens == PlanTokens(card, requested)
           rate == card["output"]
<1>1. rate \in Nat /\ BaseOf(card) \in Nat
  BY BaseIsNat DEF CardFields
<1>2. tokens \in Nat /\ tokens >= 1 /\ tokens <= requested
  BY CanBounds DEF PlanTokens
<1> HIDE DEF tokens
<1>3. ChargeNano(tokens, rate) \in Nat
  BY <1>1, <1>2, ChargeBounds
<1>4. PlanAmount(card, requested) = BaseOf(card) + ChargeNano(tokens, rate)
  BY DEF PlanAmount, tokens
<1>5. ASSUME maxCost # Unlimited
      PROVE  PlanAmount(card, requested) <= maxCost
  <2>1. maxCost \in Nat /\ maxCost >= BaseOf(card)
    BY <1>5 DEF Affords, Sane
  <2>2. CASE rate = 0
    BY <2>1, <2>2, <1>1, <1>2, <1>4, NoTokensNoRate
  <2>3. CASE rate > 0
    <3> DEFINE room == maxCost - BaseOf(card)
    <3>1. Binds(card)
      BY <1>5, <2>3 DEF Binds
    <3>2. room \in Nat /\ Can(card) \in Nat /\ Can(card) * rate <= room * PerMillion
      BY <3>1, CanBounds
    <3>3. tokens <= Can(card)
      BY <3>1, <3>2, <1>2 DEF PlanTokens, tokens
    <3>4. tokens * rate <= Can(card) * rate
      BY <3>2, <3>3, <1>1, <1>2, TimesMonotonic
    <3>5. tokens * rate \in Nat /\ Can(card) * rate \in Nat /\ room * PerMillion \in Nat
      BY <1>1, <1>2, <3>2, NatTimes, CreditPricesAssumption
    <3> HIDE DEF room
    <3>6. tokens * rate <= room * PerMillion
      BY <3>2, <3>4, <3>5
    <3>7. ChargeNano(tokens, rate) <= room
      BY <1>1, <1>2, <3>2, <3>6, ChargeIsLeast
    <3> QED
      BY <1>1, <1>3, <1>4, <2>1, <3>7 DEF room
  <2> QED
    BY <1>1, <2>2, <2>3
<1> QED
  BY <1>1, <1>2, <1>3, <1>4, <1>5 DEF tokens

(* A plan that max_cost_usd cut short could not have had one token more:   *)
(* the caller's cap is used up (the test of affordable() tries one card).  *)
THEOREM ClampIsTight ==
    ASSUME Sane, NEW card \in [CardFields -> Nat], NEW requested \in Nat, Affords(card),
           PlanTokens(card, requested) < requested
    PROVE  BaseOf(card) + ChargeNano(PlanTokens(card, requested) + 1, card["output"]) > maxCost
<1> DEFINE rate == card["output"]
           room == maxCost - BaseOf(card)
           next == Can(card) + 1
           c == ChargeNano(next, rate)
<1>1. Binds(card) /\ PlanTokens(card, requested) = Can(card)
  BY DEF PlanTokens
<1>2. /\ maxCost \in Nat /\ room \in Nat /\ Can(card) \in Nat /\ rate \in Nat /\ BaseOf(card) \in Nat
      /\ room * PerMillion < next * rate
  BY <1>1, CanBounds, BaseIsNat DEF CardFields
<1>3. next \in Nat
  BY <1>2
<1> HIDE DEF next, room
<1>4. c \in Nat /\ next * rate <= c * PerMillion
  BY <1>2, <1>3, ChargeBounds
<1>5. room * PerMillion \in Nat /\ next * rate \in Nat /\ c * PerMillion \in Nat
  BY <1>2, <1>3, <1>4, NatTimes, CreditPricesAssumption
<1> HIDE DEF c
<1>6. room < c
  BY <1>2, <1>4, <1>5, LessByFactor, CreditPricesAssumption
<1> QED
  BY <1>1, <1>2, <1>4, <1>6 DEF room, c, next

---------------------------------------------------------------------------------
(* The inductive invariant of the session.                                 *)

(* The hold stays within the cap.                                          *)
HoldInCap == maxCost # Unlimited => heldNano <= maxCost

(* While a managed provider writes, the hold covers the whole estimate and *)
(* all the tokens it may write, on the card it will be charged on.         *)
GrantIsHeld == charging = "managed" => BaseOf(retail) + ChargeNano(maxTokens, retail["output"]) <= heldNano

PriceInv == PriceTypeOK /\ HoldInCap /\ GrantIsHeld /\ ChargeIsHeld

LEMMA Discounted ==
    ASSUME halved \in BOOLEAN, NEW card \in Cards \cup {ZeroRetail}
    PROVE  ApplyDiscount(card) \in [CardFields -> Nat]
<1>1. card \in [CardFields -> Nat]
  BY CreditPricesAssumption DEF ZeroRetail
<1>2. \A f \in CardFields : card[f] \in Nat /\ card[f] \div 2 \in Nat
  BY <1>1
<1> QED
  BY <1>1, <1>2 DEF ApplyDiscount

LEMMA RetailChargeIsNat ==
    ASSUME NEW card \in [CardFields -> Nat], NEW used \in [input : Nat, cached : Nat, output : Nat]
    PROVE  RetailCharge(card, used) \in Nat
<1>1. card["input"] \in Nat /\ card["cached"] \in Nat /\ card["output"] \in Nat /\ card["request"] \in Nat
  BY DEF CardFields
<1>2. used.input \in Nat /\ used.cached \in Nat /\ used.output \in Nat
  OBVIOUS
<1>3. /\ ChargeNano(used.input, card["input"]) \in Nat
      /\ ChargeNano(used.cached, card["cached"]) \in Nat
      /\ ChargeNano(used.output, card["output"]) \in Nat
  BY <1>1, <1>2, ChargeBounds
<1> QED
  BY <1>1, <1>3 DEF RetailCharge

(* An answer within the estimate and the grant costs what they would, but  *)
(* for the rounding of the cached part.                                    *)
LEMMA AnswerFits ==
    ASSUME Sane, NEW card \in [CardFields -> Nat], NEW grant \in Nat,
           NEW used \in [input : Nat, cached : Nat, output : Nat],
           used.output <= grant, used.input + used.cached <= estimate, card["cached"] <= card["input"]
    PROVE  RetailCharge(card, used)
             <= BaseOf(card) + ChargeNano(grant, card["output"]) + (IF used.cached > 0 THEN 1 ELSE 0)
<1> DEFINE ci == ChargeNano(used.input, card["input"])
           cc == ChargeNano(used.cached, card["cached"])
           co == ChargeNano(used.output, card["output"])
           cs == ChargeNano(used.input + used.cached, card["input"])
           ce == ChargeNano(estimate, card["input"])
           cg == ChargeNano(grant, card["output"])
           extra == IF used.cached > 0 THEN 1 ELSE 0
<1>1. card["input"] \in Nat /\ card["cached"] \in Nat /\ card["output"] \in Nat /\ card["request"] \in Nat
  BY DEF CardFields
<1>2. used.input \in Nat /\ used.cached \in Nat /\ used.output \in Nat /\ estimate \in Nat
  BY DEF Sane
<1>3. used.input + used.cached \in Nat
  BY <1>2
<1>4. ci \in Nat /\ cc \in Nat /\ co \in Nat
  BY <1>1, <1>2, ChargeBounds
<1>5. cs \in Nat /\ ce \in Nat /\ cg \in Nat
  BY <1>1, <1>2, <1>3, ChargeBounds
<1>6. co <= cg
  BY <1>1, <1>2, ChargeMonotonic
<1>7. cs <= ce
  BY <1>1, <1>2, <1>3, ChargeMonotonic
<1>8. ci + cc <= cs + extra
  <2>1. CASE used.cached = 0
    <3>1. cc = 0
      BY <1>1, <2>1, NoTokensNoRate
    <3>2. used.input + used.cached = used.input
      BY <1>2, <2>1
    <3> QED
      BY <1>4, <2>1, <3>1, <3>2
  <2>2. CASE used.cached > 0
    BY <1>1, <1>2, <2>2, ChargeOfParts
  <2> QED
    BY <1>2, <2>1, <2>2
<1>9. RetailCharge(card, used) = card["request"] + ci + cc + co
  BY DEF RetailCharge
<1>10. BaseOf(card) = card["request"] + ce
  BY DEF BaseOf
<1>11. extra \in Nat
  OBVIOUS
<1> HIDE DEF ci, cc, co, cs, ce, cg, extra
<1>12. RetailCharge(card, used) <= BaseOf(card) + cg + extra
  BY <1>1, <1>4, <1>5, <1>6, <1>7, <1>8, <1>9, <1>10, <1>11
<1> QED
  BY <1>12 DEF cg, extra

---------------------------------------------------------------------------------
LEMMA InvInit == PriceInit => PriceInv
<1>1. SUFFICES ASSUME PriceInit PROVE PriceInv
  OBVIOUS
<1>2. PriceTypeOK
  BY <1>1, CreditPricesAssumption DEF PriceInit, PriceTypeOK, ZeroRetail, NoUsage
<1>3. HoldInCap /\ GrantIsHeld /\ ChargeIsHeld
  BY <1>1, CreditPricesAssumption DEF PriceInit, HoldInCap, GrantIsHeld, ChargeIsHeld, Unlimited
<1> QED
  BY <1>2, <1>3 DEF PriceInv

LEMMA InvNext == PriceInv /\ [PriceNext]_priceVars => PriceInv'
<1> SUFFICES ASSUME PriceInv, [PriceNext]_priceVars
             PROVE  PriceInv'
  OBVIOUS
<1> USE DEF PriceInv
<1>s. Sane /\ halved \in BOOLEAN
  BY CreditPricesAssumption DEF PriceTypeOK, Sane
<1>1. ASSUME NEW c \in Cards, NEW n \in Tokens, Hold(ApplyDiscount(c), n)
      PROVE  PriceInv'
  <2> DEFINE card == ApplyDiscount(c)
  <2>1. card \in [CardFields -> Nat] /\ n \in Nat
    BY <1>s, Discounted, CreditPricesAssumption
  <2> HIDE DEF card
  <2>2. Hold(card, n)
    BY <1>1 DEF card
  <2>3. /\ PlanTokens(card, n) \in Nat /\ PlanAmount(card, n) \in Nat
        /\ maxCost # Unlimited => PlanAmount(card, n) <= maxCost
    BY <1>s, <2>1, <2>2, PlanFits DEF Hold
  <2>4. PriceTypeOK'
    BY <2>1, <2>2, <2>3 DEF Hold, Sold, PriceTypeOK
  <2>5. HoldInCap'
    BY <2>2, <2>3 DEF Hold, Sold, HoldInCap
  <2>6. GrantIsHeld'
    <3>1. heldNano' >= PlanAmount(card, n)
      BY <2>2, <2>3 DEF Hold, PriceTypeOK
    <3>2. PlanAmount(card, n) = BaseOf(card) + ChargeNano(PlanTokens(card, n), card["output"])
      BY DEF PlanAmount
    <3>3. retail' = card /\ maxTokens' = PlanTokens(card, n) /\ estimate' = estimate
      BY <2>2 DEF Hold, Sold
    <3>4. BaseOf(retail)' = BaseOf(card)
      BY <3>3 DEF BaseOf
    <3>5. ChargeNano(maxTokens, retail["output"])' = ChargeNano(PlanTokens(card, n), card["output"])
      BY <3>3
    <3>6. (BaseOf(retail) + ChargeNano(maxTokens, retail["output"]))' = PlanAmount(card, n)
      BY <3>2, <3>4, <3>5
    <3> QED
      BY <2>3, <2>4, <3>1, <3>6 DEF GrantIsHeld, PriceTypeOK
  <2>7. ChargeIsHeld'
    BY <2>2, <2>5 DEF Hold, ChargeIsHeld, HoldInCap
  <2> QED
    BY <2>4, <2>5, <2>6, <2>7
<1>2. ASSUME NEW c \in Cards, NEW n \in Tokens, NotExtended(ApplyDiscount(c), n)
      PROVE  PriceInv'
  <2>1. ApplyDiscount(c) \in [CardFields -> Nat]
    BY <1>s, Discounted
  <2> QED
    BY <1>2, <2>1 DEF NotExtended, Sold, PriceTypeOK, HoldInCap, GrantIsHeld, ChargeIsHeld
<1>3. ASSUME NEW c \in Cards, Refuse(ApplyDiscount(c))
      PROVE  PriceInv'
  BY <1>3 DEF Refuse, Sold, PriceTypeOK, HoldInCap, GrantIsHeld, ChargeIsHeld
<1>4. ASSUME NEW c \in Cards \cup {ZeroRetail}, Prepaid(ApplyDiscount(c))
      PROVE  PriceInv'
  <2>1. ApplyDiscount(c) \in [CardFields -> Nat]
    BY <1>s, Discounted
  <2> QED
    BY <1>4, <2>1 DEF Prepaid, Sold, PriceTypeOK, HoldInCap, GrantIsHeld, ChargeIsHeld
<1>5. ASSUME NEW n \in Tokens, Grow(n)
      PROVE  PriceInv'
  <2>1. Projected(n) \in Nat
    <3>1. retail["request"] \in Nat /\ retail["output"] \in Nat /\ n \in Nat
      BY CreditPricesAssumption DEF PriceTypeOK, CardFields
    <3>2. ChargeNano(n, retail["output"]) \in Nat
      BY <3>1, ChargeBounds
    <3> QED
      BY <3>1, <3>2 DEF Projected
  <2>2. StepOf(n) \in Nat /\ (maxCost # Unlimited => heldNano + StepOf(n) <= maxCost)
    BY <1>5, <1>s, <2>1 DEF Grow, StepOf, PriceTypeOK, HoldInCap, Sane
  <2>3. heldNano' = heldNano + StepOf(n) /\ charging' = charging /\ retail' = retail /\ maxTokens' = maxTokens
    BY <1>5 DEF Grow
  <2>4. UNCHANGED <<maxCost, halved, estimate, usage, charge, hasHold>>
    BY <1>5 DEF Grow, Sold
  <2>5. PriceTypeOK'
    BY <2>2, <2>3, <2>4 DEF PriceTypeOK
  <2>6. HoldInCap'
    BY <2>2, <2>3, <2>4 DEF HoldInCap
  <2>7. GrantIsHeld'
    <3>1. (BaseOf(retail) + ChargeNano(maxTokens, retail["output"]))'
            = BaseOf(retail) + ChargeNano(maxTokens, retail["output"])
      BY <2>3, <2>4 DEF BaseOf
    <3>2. BaseOf(retail) \in Nat /\ ChargeNano(maxTokens, retail["output"]) \in Nat
      <4>1. retail["output"] \in Nat /\ maxTokens \in Nat
        BY DEF PriceTypeOK, CardFields
      <4> QED
        BY <4>1, <1>s, BaseIsNat, ChargeBounds DEF PriceTypeOK
    <3> QED
      BY <2>2, <2>3, <3>1, <3>2 DEF GrantIsHeld, PriceTypeOK
  <2>8. ChargeIsHeld'
    BY <1>5, <2>3, <2>6 DEF Grow, ChargeIsHeld, HoldInCap
  <2> QED
    BY <2>5, <2>6, <2>7, <2>8
<1>6. ASSUME Fail
      PROVE  PriceInv'
  BY <1>6 DEF Fail, Sold, PriceTypeOK, HoldInCap, GrantIsHeld, ChargeIsHeld
<1>7. ASSUME NEW whole \in Tokens, NEW cached \in Tokens, NEW out \in Tokens, Answer(whole, cached, out)
      PROVE  PriceInv'
  <2>1. whole \in Nat /\ cached \in Nat /\ out \in Nat
    BY CreditPricesAssumption
  <2>2. usage' \in [input : Nat, cached : Nat, output : Nat] /\ usage'.output = out
    BY <1>7, <2>1 DEF Answer
  <2>3. charge' = RetailCharge(retail, usage')
    BY <1>7 DEF Answer
  <2>4. UNCHANGED <<maxCost, halved, estimate, retail, maxTokens, hasHold, heldNano>>
    BY <1>7 DEF Answer
  <2>5. retail \in [CardFields -> Nat] /\ maxTokens \in Nat /\ heldNano \in Nat
    BY DEF PriceTypeOK
  <2>6. charge' \in Nat
    BY <2>2, <2>3, <2>5, RetailChargeIsNat
  <2>7. charging' \in {"charged", "unclamped"}
    BY <1>7 DEF Answer
  <2>8. PriceTypeOK'
    BY <2>2, <2>4, <2>6, <2>7 DEF PriceTypeOK
  <2>9. HoldInCap' /\ GrantIsHeld'
    BY <2>4, <2>7 DEF HoldInCap, GrantIsHeld
  <2>10. ASSUME charging' = "charged", usage'.input + usage'.cached <= estimate,
                retail["cached"] <= retail["input"]
         PROVE  charge' <= heldNano + (IF usage'.cached > 0 THEN 1 ELSE 0)
    <3>1. charging = "managed" /\ out <= maxTokens
      BY <1>7, <2>10 DEF Answer
    <3> DEFINE used == usage'
               cover == BaseOf(retail) + ChargeNano(maxTokens, retail["output"])
               extra == IF used.cached > 0 THEN 1 ELSE 0
    <3>2. RetailCharge(retail, used) <= cover + extra
      BY <1>s, <2>2, <2>5, <2>10, <3>1, AnswerFits
    <3>3. cover <= heldNano
      BY <3>1 DEF GrantIsHeld
    <3>4. cover \in Nat
      <4>1. retail["output"] \in Nat
        BY <2>5 DEF CardFields
      <4>2. BaseOf(retail) \in Nat /\ ChargeNano(maxTokens, retail["output"]) \in Nat
        BY <4>1, <2>5, <1>s, BaseIsNat, ChargeBounds
      <4> QED
        BY <4>2
    <3>5. extra \in Nat /\ charge' = RetailCharge(retail, used)
      BY <2>3
    <3> HIDE DEF cover, extra
    <3>6. charge' <= heldNano + extra
      BY <2>5, <2>6, <3>2, <3>3, <3>4, <3>5
    <3> QED
      BY <3>6 DEF extra
  <2>11. ChargeIsHeld'
    BY <2>4, <2>9, <2>10 DEF ChargeIsHeld, HoldInCap
  <2> QED
    BY <2>8, <2>9, <2>11
<1>8. CASE UNCHANGED priceVars
  BY <1>8 DEF priceVars, PriceTypeOK, HoldInCap, GrantIsHeld, ChargeIsHeld, BaseOf
<1> QED
  BY <1>1, <1>2, <1>3, <1>4, <1>5, <1>6, <1>7, <1>8 DEF PriceNext

(* No offer, extension or refusal holds more than max_cost_usd, and an     *)
(* answer within the estimate is charged what is held, whatever the rates. *)
THEOREM ChargeHolds == PriceSpec => [](PriceTypeOK /\ ChargeIsHeld)
<1>1. PriceInv => PriceTypeOK /\ ChargeIsHeld
  BY DEF PriceInv
<1> QED
  BY InvInit, InvNext, <1>1, PTL DEF PriceSpec

---------------------------------------------------------------------------------
(* The price book: no price changes silently.                              *)

PriceRows == [PriceFields -> Nat]
Moves     == [field : PriceFields, next : Nat]
Changes   == [id : ChangeIds, field : PriceFields, next : Nat]
RunRows   == [step : {"idle", "claim", "read", "write", "log", "pend", "give up", "mark"}, row : PriceRows,
              small : SUBSET Moves, big : SUBSET Moves, at : Moves \cup {NoMove}]
Decisions == [step : {"idle", "row", "write", "get", "update"}, change : Changes \cup {NoChange}, row : PriceRows,
              approve : BOOLEAN]

(* A run has one new price for a field, and starts to log what waits when  *)
(* what was applied is logged.                                             *)
OneEach(moves) == \A m, n \in moves : m.field = n.field => m = n
GoodRun(x)     == x \in RunRows /\ OneEach(x.small) /\ (x.step = "pend" => x.small = {} /\ x.at \in Moves)
FairDecision(x) == /\ x \in Decisions
                   /\ x.step # "idle" => x.change \in Changes
                   /\ x.step \in {"row", "write"} => x.approve

(* What is to be logged is what the row says, or a field somebody wrote    *)
(* over, or whose logging was cut off.                                     *)
IsSaid(f, next)  == live[f] = next \/ f \in stale \cup cut
LogsWhatItSays ==
    /\ \A w \in BookWorkers : BookAt(w, "log") => \A m \in bookRuns[w].small : IsSaid(m.field, m.next)
    /\ deciding.step \in {"get", "update"} /\ deciding.approve => IsSaid(deciding.change.field, deciding.change.next)

BookShape == /\ live \in PriceRows /\ told \in PriceRows /\ waiting \subseteq Changes
             /\ DOMAIN bookRuns = BookWorkers /\ \A w \in BookWorkers : GoodRun(bookRuns[w])
             /\ FairDecision(deciding)

BookInv == BookShape /\ LogsWhatItSays /\ NeverSilent

(* A write of the whole row changes a field it does not move only where    *)
(* the row was stale, and no field whose logging is still to come unseen.  *)
LEMMA WriteIs ==
    ASSUME live \in PriceRows, NEW row \in PriceRows, NEW moves, OneEach(moves),
           \A m \in moves : m.field \in PriceFields /\ m.next \in Nat, WriteRow(row, moves)
    PROVE  /\ live' \in PriceRows /\ stale \subseteq stale'
           /\ \A m \in moves : live'[m.field] = m.next
           /\ FieldsOf(moves) \cap Unlogged \subseteq stale'
           /\ \A f \in PriceFields \ FieldsOf(moves) : live'[f] = live[f] \/ f \in stale'
<1>1. live' = [f \in PriceFields |-> IF f \in FieldsOf(moves) THEN (CHOOSE m \in moves : m.field = f).next ELSE row[f]]
  BY DEF WriteRow
<1>2. \A m \in moves : m.field \in FieldsOf(moves)
  BY DEF FieldsOf
<1>3. \A f \in FieldsOf(moves) : (CHOOSE m \in moves : m.field = f) \in moves /\ (CHOOSE m \in moves : m.field = f).field = f
  BY DEF FieldsOf
<1>4. \A m \in moves : live'[m.field] = m.next
  BY <1>1, <1>2, <1>3 DEF OneEach
<1>5. live' \in PriceRows
  BY <1>1, <1>3 DEF PriceRows
<1>6. stale \subseteq stale' /\ FieldsOf(moves) \cap Unlogged \subseteq stale'
  BY DEF WriteRow
<1>7. \A f \in PriceFields \ FieldsOf(moves) : live'[f] = live[f] \/ f \in stale'
  BY <1>1 DEF WriteRow
<1> QED
  BY <1>4, <1>5, <1>6, <1>7

(* What was to be logged stays so over somebody else's write.              *)
LEMMA StillSays ==
    ASSUME live \in PriceRows, NEW row \in PriceRows, NEW moves, OneEach(moves),
           \A m \in moves : m.field \in PriceFields /\ m.next \in Nat, WriteRow(row, moves), cut \subseteq cut',
           NEW f \in PriceFields, f \in Unlogged, NEW next, IsSaid(f, next)
    PROVE  IsSaid(f, next)'
<1>1. /\ stale \subseteq stale' /\ FieldsOf(moves) \cap Unlogged \subseteq stale'
      /\ \A g \in PriceFields \ FieldsOf(moves) : live'[g] = live[g] \/ g \in stale'
  BY WriteIs
<1> QED
  BY <1>1 DEF IsSaid

LEMMA UnloggedIs ==
    \A f \in PriceFields :
        /\ f \in Unlogged <=>
               \/ \E w \in BookWorkers : BookAt(w, "log") /\ \E m \in bookRuns[w].small : m.field = f
               \/ deciding.step \in {"get", "update"} /\ deciding.approve /\ deciding.change.field = f
        /\ f \in Unlogged' <=>
               \/ \E w \in BookWorkers : BookAt(w, "log")' /\ \E m \in bookRuns'[w].small : m.field = f
               \/ deciding'.step \in {"get", "update"} /\ deciding'.approve /\ deciding'.change.field = f
BY DEF Unlogged

(* A step of a run that writes neither the row nor the log, and loses      *)
(* nothing it had to log but what is known as cut off.                     *)
LEMMA BookRunMoves ==
    ASSUME BookInv, NEW w \in BookWorkers, NEW x, GoodRun(x), bookRuns' = [bookRuns EXCEPT ![w] = x],
           UNCHANGED <<live, told, deciding, stale>>, cut \subseteq cut', waiting' \subseteq Changes,
           x.step = "log" => \A m \in x.small : IsSaid(m.field, m.next),
           BookAt(w, "log") =>
               \A m \in bookRuns[w].small : (m \in x.small /\ x.step = "log") \/ m.field \in cut'
    PROVE  BookInv'
<1>1. BookShape'
  BY DEF BookInv, BookShape
<1>2. bookRuns'[w] = x /\ \A v \in BookWorkers \ {w} : bookRuns'[v] = bookRuns[v]
  BY DEF BookInv, BookShape
<1>3. LogsWhatItSays'
  BY <1>2 DEF BookInv, LogsWhatItSays, IsSaid, BookAt
<1>4. \A f \in PriceFields \cap Unlogged : f \in Unlogged' \/ f \in cut'
  <2> SUFFICES ASSUME NEW f \in PriceFields \cap Unlogged, f \notin cut' PROVE f \in Unlogged'
    OBVIOUS
  <2>1. CASE deciding.step \in {"get", "update"} /\ deciding.approve /\ f = deciding.change.field
    BY <2>1, UnloggedIs
  <2>2. ASSUME NEW v \in BookWorkers, BookAt(v, "log"), NEW m \in bookRuns[v].small, m.field = f PROVE f \in Unlogged'
    <3>1. BookAt(v, "log")' /\ m \in bookRuns'[v].small
      BY <1>2, <2>2 DEF BookAt
    <3> QED
      BY <2>2, <3>1, UnloggedIs
  <2> QED
    BY <2>1, <2>2, UnloggedIs
<1>5. NeverSilent'
  BY <1>4 DEF BookInv, NeverSilent
<1> QED
  BY <1>1, <1>3, <1>5 DEF BookInv

(* A run that writes a row, and logs what it moved, or is cut off there.   *)
LEMMA RunWrites ==
    ASSUME BookInv, NEW w \in BookWorkers, BookAt(w, "write"), WriteRow(bookRuns[w].row, bookRuns[w].small),
           NEW x, GoodRun(x), bookRuns' = [bookRuns EXCEPT ![w] = x],
           UNCHANGED <<told, deciding, waiting>>, cut \subseteq cut',
           IF x.step = "log" THEN x.small = bookRuns[w].small ELSE FieldsOf(bookRuns[w].small) \subseteq cut'
    PROVE  BookInv'
<1> DEFINE row == bookRuns[w].row
           moves == bookRuns[w].small
<1>1. /\ row \in PriceRows /\ OneEach(moves)
      /\ \A m \in moves : m.field \in PriceFields /\ m.next \in Nat
  <2>1. GoodRun(bookRuns[w]) /\ bookRuns[w].small \subseteq Moves
    BY DEF BookInv, BookShape, GoodRun, RunRows
  <2> QED
    BY <2>1 DEF GoodRun, RunRows, Moves
<1>2. /\ live' \in PriceRows /\ stale \subseteq stale'
      /\ \A m \in moves : live'[m.field] = m.next
      /\ \A f \in PriceFields \ FieldsOf(moves) : live'[f] = live[f] \/ f \in stale'
  BY <1>1, WriteIs DEF BookInv, BookShape
<1>3. bookRuns'[w] = x /\ \A v \in BookWorkers \ {w} : bookRuns'[v] = bookRuns[v]
  BY DEF BookInv, BookShape
<1>4. BookShape'
  BY <1>2 DEF BookInv, BookShape
<1>5. ASSUME NEW f \in PriceFields, f \in Unlogged, NEW next, IsSaid(f, next) PROVE IsSaid(f, next)'
  BY <1>1, <1>5, StillSays DEF BookInv, BookShape
<1>6. LogsWhatItSays'
  <2>1. ASSUME NEW v \in BookWorkers, BookAt(v, "log")', NEW m \in bookRuns'[v].small PROVE IsSaid(m.field, m.next)'
    <3>1. CASE v = w
      BY <1>2, <1>3, <2>1, <3>1 DEF IsSaid, BookAt
    <3>2. CASE v # w
      <4>1. BookAt(v, "log") /\ m \in bookRuns[v].small
        BY <1>3, <2>1, <3>2 DEF BookAt
      <4>2. m.field \in PriceFields /\ m.field \in Unlogged
        <5>1. m \in Moves
          BY <4>1 DEF BookInv, BookShape, GoodRun, RunRows
        <5> QED
          BY <4>1, <5>1, UnloggedIs DEF Moves
      <4>3. IsSaid(m.field, m.next)
        BY <4>1 DEF BookInv, LogsWhatItSays
      <4> QED
        BY <1>5, <4>2, <4>3
    <3> QED
      BY <3>1, <3>2
  <2>2. ASSUME deciding.step \in {"get", "update"}, deciding.approve
        PROVE  IsSaid(deciding.change.field, deciding.change.next)'
    <3>1. deciding.change.field \in PriceFields /\ deciding.change.field \in Unlogged
      BY <2>2, UnloggedIs DEF BookInv, BookShape, FairDecision, Changes
    <3>2. IsSaid(deciding.change.field, deciding.change.next)
      BY <2>2 DEF BookInv, LogsWhatItSays
    <3>3. PICK f, next : f = deciding.change.field /\ next = deciding.change.next
      OBVIOUS
    <3>4. IsSaid(f, next)'
      BY <1>5, <3>1, <3>2, <3>3
    <3> QED
      BY <3>3, <3>4 DEF IsSaid
  <2> QED
    BY <2>1, <2>2 DEF LogsWhatItSays, IsSaid
<1>7. \A f \in PriceFields \cap Unlogged : f \in Unlogged'
  <2> SUFFICES ASSUME NEW f \in PriceFields \cap Unlogged PROVE f \in Unlogged'
    OBVIOUS
  <2>1. CASE deciding.step \in {"get", "update"} /\ deciding.approve /\ f = deciding.change.field
    BY <2>1, UnloggedIs
  <2>2. ASSUME NEW v \in BookWorkers, BookAt(v, "log"), NEW m \in bookRuns[v].small, m.field = f PROVE f \in Unlogged'
    <3>1. v # w
      BY <2>2 DEF BookAt
    <3>2. BookAt(v, "log")' /\ m \in bookRuns'[v].small
      BY <1>3, <2>2, <3>1 DEF BookAt
    <3> QED
      BY <2>2, <3>2, UnloggedIs
  <2> QED
    BY <2>1, <2>2, UnloggedIs
<1>8. NeverSilent'
  <2> SUFFICES ASSUME NEW f \in PriceFields, live'[f] # told[f] PROVE f \in Unlogged' \cup stale' \cup cut'
    BY DEF NeverSilent
  <2>1. CASE f \in FieldsOf(moves) /\ x.step = "log"
    <3>1. BookAt(w, "log")' /\ \E m \in bookRuns'[w].small : m.field = f
      BY <1>3, <2>1 DEF BookAt, FieldsOf
    <3> QED
      BY <3>1, UnloggedIs
  <2>2. CASE f \in FieldsOf(moves) /\ x.step # "log"
    BY <2>2
  <2>3. CASE f \notin FieldsOf(moves)
    BY <1>2, <1>7, <2>3 DEF BookInv, NeverSilent
  <2> QED
    BY <2>1, <2>2, <2>3
<1> QED
  BY <1>4, <1>6, <1>8 DEF BookInv

(* The log of one change; the owner's, or a run's.                         *)
LEMMA RunLogs ==
    ASSUME BookInv, NEW w \in BookWorkers, LogSmall(w) PROVE BookInv'
<1>1. PICK m \in bookRuns[w].small :
          /\ told' = [told EXCEPT ![m.field] = m.next]
          /\ bookRuns' = [bookRuns EXCEPT ![w].small = @ \ {m}]
  BY DEF LogSmall
<1>2. BookAt(w, "log") /\ UNCHANGED <<live, waiting, deciding, stale, cut>>
  BY DEF LogSmall
<1>3. m \in Moves /\ m.field \in PriceFields /\ m.next \in Nat
  <2>1. bookRuns[w].small \subseteq Moves
    BY DEF BookInv, BookShape, GoodRun, RunRows
  <2> QED
    BY <2>1 DEF Moves
<1> DEFINE x == [bookRuns[w] EXCEPT !.small = @ \ {m}]
<1>4. bookRuns' = [bookRuns EXCEPT ![w] = x] /\ x.step = "log" /\ x.small = bookRuns[w].small \ {m} /\ GoodRun(x)
  BY <1>1, <1>2 DEF BookInv, BookShape, GoodRun, RunRows, OneEach, BookAt
<1> HIDE DEF x
<1>5. bookRuns'[w] = x /\ \A v \in BookWorkers \ {w} : bookRuns'[v] = bookRuns[v]
  BY <1>4 DEF BookInv, BookShape
<1>6. BookShape'
  BY <1>1, <1>2, <1>3, <1>4 DEF BookInv, BookShape, PriceRows
<1>7. LogsWhatItSays'
  BY <1>2, <1>4, <1>5 DEF BookInv, LogsWhatItSays, IsSaid, BookAt
<1>8. \A f \in PriceFields \cap Unlogged : f \in Unlogged' \/ f = m.field
  <2> SUFFICES ASSUME NEW f \in PriceFields \cap Unlogged, f # m.field PROVE f \in Unlogged'
    OBVIOUS
  <2>1. CASE deciding.step \in {"get", "update"} /\ deciding.approve /\ deciding.change.field = f
    BY <1>2, <2>1, UnloggedIs
  <2>2. ASSUME NEW v \in BookWorkers, BookAt(v, "log"), NEW n \in bookRuns[v].small, n.field = f PROVE f \in Unlogged'
    <3>1. BookAt(v, "log")' /\ n \in bookRuns'[v].small
      BY <1>4, <1>5, <2>2 DEF BookAt
    <3> QED
      BY <2>2, <3>1, UnloggedIs
  <2> QED
    BY <2>1, <2>2, UnloggedIs
<1>9. NeverSilent'
  <2> SUFFICES ASSUME NEW f \in PriceFields, live[f] # told'[f] PROVE f \in Unlogged' \cup stale \cup cut
    BY <1>2 DEF NeverSilent
  <2>1. CASE f = m.field
    <3>1. IsSaid(m.field, m.next)
      BY <1>2 DEF BookInv, LogsWhatItSays
    <3>2. told'[f] = m.next
      BY <1>1, <2>1 DEF BookInv, BookShape, PriceRows
    <3> QED
      BY <2>1, <3>1, <3>2 DEF IsSaid
  <2>2. CASE f # m.field
    <3>1. told'[f] = told[f]
      BY <1>1, <2>2 DEF BookInv, BookShape, PriceRows
    <3> QED
      BY <1>8, <2>2, <3>1 DEF BookInv, NeverSilent
  <2> QED
    BY <2>1, <2>2
<1> QED
  BY <1>6, <1>7, <1>9 DEF BookInv

(* A step of the owner that writes neither the row nor the log.            *)
LEMMA OwnerMoves ==
    ASSUME BookInv, FairDecision(deciding)', UNCHANGED <<live, told, waiting, bookRuns>>,
           stale \subseteq stale', cut \subseteq cut',
           deciding'.step \in {"get", "update"} /\ deciding'.approve =>
               deciding.step \in {"get", "update"} /\ deciding.approve /\ deciding'.change = deciding.change,
           deciding.step \in {"get", "update"} /\ deciding.approve =>
               \/ deciding'.step \in {"get", "update"} /\ deciding'.approve /\ deciding'.change = deciding.change
               \/ deciding.change.field \in stale' \cup cut'
    PROVE  BookInv'
<1>1. BookShape'
  BY DEF BookInv, BookShape
<1>2. LogsWhatItSays'
  BY DEF BookInv, LogsWhatItSays, IsSaid, BookAt
<1>3. \A f \in PriceFields \cap Unlogged : f \in Unlogged' \cup stale' \cup cut'
  BY UnloggedIs DEF BookAt
<1>4. NeverSilent'
  BY <1>3 DEF BookInv, NeverSilent
<1> QED
  BY <1>1, <1>2, <1>4 DEF BookInv

(* decide() writes the row and has the change to log.                      *)
LEMMA OwnerWritesKept == ASSUME BookInv, OwnerWrites PROVE BookInv'
<1> DEFINE moves == {deciding.change}
<1>1. /\ deciding.step = "write" /\ deciding.approve /\ deciding.change \in Changes /\ deciding.row \in PriceRows
      /\ WriteRow(deciding.row, moves)
      /\ deciding' = [deciding EXCEPT !.step = "get", !.row = FirstListing]
      /\ UNCHANGED <<waiting, bookRuns, told, cut>>
  BY DEF OwnerWrites, BookInv, BookShape, FairDecision, Decisions
<1>2. OneEach(moves) /\ \A m \in moves : m.field \in PriceFields /\ m.next \in Nat
  BY <1>1 DEF OneEach, Changes
<1>3. FieldsOf(moves) = {deciding.change.field}
  BY DEF FieldsOf
<1>4. /\ live' \in PriceRows /\ stale \subseteq stale' /\ live'[deciding.change.field] = deciding.change.next
      /\ \A f \in PriceFields \ {deciding.change.field} : live'[f] = live[f] \/ f \in stale'
  BY <1>1, <1>2, <1>3, WriteIs DEF BookInv, BookShape
<1>5. ASSUME NEW f \in PriceFields, f \in Unlogged, NEW next, IsSaid(f, next) PROVE IsSaid(f, next)'
  <2> HIDE DEF moves
  <2> QED
    BY <1>1, <1>2, <1>5, StillSays DEF BookInv, BookShape
<1>6. /\ deciding'.step = "get" /\ deciding'.approve /\ deciding'.change = deciding.change /\ FairDecision(deciding')
  BY <1>1, BookConstants DEF BookInv, BookShape, FairDecision, Decisions, PriceRows
<1>7. BookShape'
  BY <1>1, <1>4, <1>6 DEF BookInv, BookShape
<1>8. LogsWhatItSays'
  <2>1. ASSUME NEW v \in BookWorkers, BookAt(v, "log"), NEW m \in bookRuns[v].small PROVE IsSaid(m.field, m.next)'
    <3>1. m \in Moves
      BY <2>1 DEF BookInv, BookShape, GoodRun, RunRows
    <3>2. m.field \in PriceFields /\ m.field \in Unlogged
      BY <2>1, <3>1, UnloggedIs DEF Moves
    <3>3. IsSaid(m.field, m.next)
      BY <2>1 DEF BookInv, LogsWhatItSays
    <3> QED
      BY <1>5, <3>2, <3>3
  <2>2. live'[deciding'.change.field] = deciding'.change.next
    BY <1>4, <1>6
  <2> QED
    BY <1>1, <2>1, <2>2 DEF LogsWhatItSays, IsSaid, BookAt
<1>9. NeverSilent'
  <2>1. \A f \in PriceFields \cap Unlogged : f \in Unlogged'
    BY <1>1, UnloggedIs DEF BookAt
  <2>2. deciding.change.field \in PriceFields => deciding.change.field \in Unlogged'
    BY <1>6, UnloggedIs
  <2> QED
    BY <1>1, <1>4, <2>1, <2>2 DEF BookInv, NeverSilent
<1> QED
  BY <1>7, <1>8, <1>9 DEF BookInv

(* ... and logs it, by the id.                                             *)
LEMMA OwnerMarksKept == ASSUME BookInv, OwnerMarks PROVE BookInv'
<1>1. /\ deciding.step = "update" /\ deciding.change \in Changes /\ deciding' = Undecided
      /\ told' = IF deciding.approve THEN [told EXCEPT ![deciding.change.field] = deciding.change.next] ELSE told
      /\ waiting' \subseteq Changes /\ UNCHANGED <<live, bookRuns, stale, cut>>
  BY DEF OwnerMarks, BookInv, BookShape, FairDecision
<1>2. deciding.change.field \in PriceFields /\ deciding.change.next \in Nat
  BY <1>1 DEF Changes
<1>3. BookShape'
  BY <1>1, <1>2, BookConstants DEF BookInv, BookShape, FairDecision, Decisions, Undecided, PriceRows
<1>4. LogsWhatItSays'
  BY <1>1 DEF BookInv, LogsWhatItSays, IsSaid, BookAt, Undecided
<1>5. \A f \in PriceFields \cap Unlogged : f \in Unlogged' \/ (deciding.approve /\ f = deciding.change.field)
  BY <1>1, UnloggedIs DEF BookAt
<1>6. deciding.approve => IsSaid(deciding.change.field, deciding.change.next)
  BY <1>1 DEF BookInv, LogsWhatItSays
<1>7. NeverSilent'
  <2> SUFFICES ASSUME NEW f \in PriceFields, live[f] # told'[f] PROVE f \in Unlogged' \cup stale \cup cut
    BY <1>1 DEF NeverSilent
  <2>1. CASE deciding.approve /\ f = deciding.change.field
    <3>1. told'[f] = deciding.change.next
      BY <1>1, <2>1 DEF BookInv, BookShape, PriceRows
    <3> QED
      BY <1>6, <2>1, <3>1 DEF IsSaid
  <2>2. CASE ~(deciding.approve /\ f = deciding.change.field)
    <3>1. told'[f] = told[f]
      BY <1>1, <2>2 DEF BookInv, BookShape, PriceRows
    <3> QED
      BY <1>5, <2>2, <3>1 DEF BookInv, NeverSilent
  <2> QED
    BY <2>1, <2>2
<1> QED
  BY <1>3, <1>4, <1>7 DEF BookInv

(* A run that moves on without writing.                                    *)
LEMMA QuietRuns ==
    ASSUME BookInv, NEW w \in BookWorkers,
           \/ TickDue(w) \/ ForceRun(w) \/ ClaimBook(w) \/ ReadBook(w) \/ Supersede(w) \/ LogBig(w)
           \/ ReleaseBook(w) \/ MarkRun(w) \/ BookDies(w)
           \/ RunFails(w) /\ ~(BookAt(w, "write") /\ WriteRow(bookRuns[w].row, bookRuns[w].small))
    PROVE  BookInv'
<1>t. /\ GoodRun(bookRuns[w]) /\ bookRuns[w] \in RunRows /\ live \in PriceRows /\ waiting \subseteq Changes
      /\ DOMAIN bookRuns = BookWorkers
  BY DEF BookInv, BookShape, GoodRun
<1>1. OffWork \in RunRows /\ OffWork.small = {} /\ FirstListing \in PriceRows
  BY BookConstants DEF OffWork, RunRows, PriceRows
<1>2. ASSUME NEW move \in {"idle", "claim", "read", "give up", "mark"}, bookRuns' = [bookRuns EXCEPT ![w].step = move],
             ~BookAt(w, "log"), UNCHANGED <<live, told, deciding, stale, cut, waiting>>
      PROVE  BookInv'
  <2> DEFINE x == [bookRuns[w] EXCEPT !.step = move]
  <2>1. GoodRun(x) /\ x.step # "log" /\ bookRuns' = [bookRuns EXCEPT ![w] = x]
    BY <1>t, <1>2 DEF GoodRun, RunRows
  <2> HIDE DEF x
  <2> QED
    BY <1>t, <1>2, <2>1, BookRunMoves
<1>3. ASSUME NEW move \in {"idle", "give up", "mark"}, bookRuns' = [bookRuns EXCEPT ![w] = [OffWork EXCEPT !.step = move]],
             BookAt(w, "log") => FieldsOf(bookRuns[w].small) \subseteq cut', cut \subseteq cut',
             UNCHANGED <<live, told, deciding, stale, waiting>>
      PROVE  BookInv'
  <2> DEFINE x == [OffWork EXCEPT !.step = move]
  <2>1. GoodRun(x) /\ x.step # "log"
    BY <1>1 DEF GoodRun, RunRows, OneEach
  <2>2. BookAt(w, "log") => \A m \in bookRuns[w].small : m.field \in cut'
    BY <1>3 DEF FieldsOf
  <2> HIDE DEF x
  <2>3. bookRuns' = [bookRuns EXCEPT ![w] = x]
    BY <1>3 DEF x
  <2> QED
    BY <1>t, <1>3, <2>1, <2>2, <2>3, BookRunMoves
<1>4. CASE TickDue(w) \/ ForceRun(w) \/ ClaimBook(w) \/ MarkRun(w)
  BY <1>2, <1>4 DEF TickDue, ForceRun, ClaimBook, MarkRun, BookTo, BookAt
<1>5. CASE ReadBook(w)
  <2>1. CASE bookRuns' = [bookRuns EXCEPT ![w].step = "give up"]
    BY <1>2, <1>5, <2>1 DEF ReadBook, BookAt, BookTo, BookFault
  <2>2. ASSUME bookRuns' # [bookRuns EXCEPT ![w].step = "give up"] PROVE BookInv'
    <3>1. PICK listing \in Listings :
              LET moved  == {[field |-> f, next |-> listing[f]] : f \in {g \in PriceFields : listing[g] # live[g]}}
                  small  == {m \in moved : Small(live[m.field], m.next)}
                  writes == moved = {} \/ small # {} IN
              bookRuns' = [bookRuns EXCEPT ![w] =
                      [OffWork EXCEPT !.step = IF writes THEN "write" ELSE "log", !.row = IF writes THEN live ELSE @,
                                      !.small = small, !.big = moved \ small]]
      BY <1>5, <2>2 DEF ReadBook, BookTo
    <3> DEFINE moved == {[field |-> f, next |-> listing[f]] : f \in {g \in PriceFields : listing[g] # live[g]}}
               small == {m \in moved : Small(live[m.field], m.next)}
    <3>2. moved \subseteq Moves /\ OneEach(moved)
      BY BookConstants DEF Moves, OneEach
    <3>3. small \subseteq moved
      OBVIOUS
    <3> HIDE DEF moved, small
    <3>4. PICK move \in {"write", "log"}, row \in PriceRows :
              /\ bookRuns' = [bookRuns EXCEPT ![w] = [OffWork EXCEPT !.step = move, !.row = row, !.small = small, !.big = moved \ small]]
              /\ move = "log" => small = {}
      BY <1>t, <1>1, <3>1 DEF moved, small, RunRows, OffWork
    <3> DEFINE x == [OffWork EXCEPT !.step = move, !.row = row, !.small = small, !.big = moved \ small]
    <3>5. GoodRun(x) /\ (x.step = "log" => x.small = {}) /\ bookRuns' = [bookRuns EXCEPT ![w] = x]
      BY <1>1, <3>2, <3>3, <3>4 DEF GoodRun, RunRows, OneEach
    <3>6. ~BookAt(w, "log") /\ UNCHANGED <<live, told, deciding, stale, cut, waiting>>
      BY <1>5 DEF ReadBook, BookAt
    <3> HIDE DEF x
    <3> QED
      BY <1>t, <3>5, <3>6, BookRunMoves
  <2> QED
    BY <2>1, <2>2
<1>6. CASE Supersede(w)
  <2>1. PICK m \in bookRuns[w].big : bookRuns' = [bookRuns EXCEPT ![w].step = "pend", ![w].big = @ \ {m}, ![w].at = m]
    BY <1>6 DEF Supersede
  <2> DEFINE x == [bookRuns[w] EXCEPT !.step = "pend", !.big = @ \ {m}, !.at = m]
  <2>2. GoodRun(x) /\ x.step # "log" /\ bookRuns' = [bookRuns EXCEPT ![w] = x]
    BY <1>t, <1>6, <2>1 DEF Supersede, GoodRun, RunRows
  <2>3. bookRuns[w].small = {} /\ waiting' \subseteq Changes /\ UNCHANGED <<live, told, deciding, stale, cut>>
    BY <1>t, <1>6 DEF Supersede
  <2> HIDE DEF x
  <2> QED
    BY <2>2, <2>3, BookRunMoves
<1>7. CASE LogBig(w)
  <2> DEFINE x == [bookRuns[w] EXCEPT !.step = "log", !.at = NoMove]
  <2>1. GoodRun(x) /\ x.small = {} /\ bookRuns' = [bookRuns EXCEPT ![w] = x]
    BY <1>t, <1>7 DEF LogBig, GoodRun, RunRows, BookAt
  <2>2. waiting' \subseteq Changes
    <3>1. bookRuns[w].at \in Moves
      BY <1>t, <1>7 DEF LogBig, BookAt, GoodRun
    <3>2. PICK id \in ChangeIds : waiting' = waiting \cup {[id |-> id, field |-> bookRuns[w].at.field, next |-> bookRuns[w].at.next]}
      BY <1>7 DEF LogBig
    <3> QED
      BY <1>t, <3>1, <3>2 DEF Moves, Changes
  <2>3. ~BookAt(w, "log") /\ UNCHANGED <<live, told, deciding, stale, cut>>
    BY <1>7 DEF LogBig, BookAt
  <2> HIDE DEF x
  <2> QED
    BY <2>1, <2>2, <2>3, BookRunMoves
<1>8. CASE ReleaseBook(w)
  <2>1. BookAt(w, "log") => FieldsOf(bookRuns[w].small) \subseteq cut'
    BY <1>8 DEF ReleaseBook, BookAt, FieldsOf
  <2> QED
    BY <1>3, <1>8, <2>1 DEF ReleaseBook
<1>9. CASE BookDies(w)
  <2>1. bookRuns' = [bookRuns EXCEPT ![w] = [OffWork EXCEPT !.step = "idle"]]
    BY <1>9 DEF BookDies, OffWork
  <2> QED
    BY <1>3, <1>9, <2>1 DEF BookDies
<1>10. CASE RunFails(w) /\ ~(BookAt(w, "write") /\ WriteRow(bookRuns[w].row, bookRuns[w].small))
  <2>1. /\ BookAt(w, "log") => FieldsOf(bookRuns[w].small) \subseteq cut'
        /\ cut \subseteq cut' /\ UNCHANGED <<live, told, deciding, stale, waiting>>
    BY <1>10 DEF RunFails, BookAt
  <2> QED
    BY <1>3, <1>10, <2>1 DEF RunFails
<1> QED
  BY <1>4, <1>5, <1>6, <1>7, <1>8, <1>9, <1>10

LEMMA BookKept == BookInv /\ [BookNext]_bookVars => BookInv'
<1> SUFFICES ASSUME BookInv, [BookNext]_bookVars PROVE BookInv'
  OBVIOUS
<1>1. ASSUME NEW w \in BookWorkers, BookSteps(w) \/ ForceRun(w) \/ RunFails(w) \/ BookDies(w) PROVE BookInv'
  <2>1. CASE WriteSmall(w)
    <3> DEFINE x == [bookRuns[w] EXCEPT !.step = "log", !.row = FirstListing]
    <3>1. GoodRun(x) /\ x.step = "log" /\ x.small = bookRuns[w].small /\ bookRuns' = [bookRuns EXCEPT ![w] = x]
      BY <2>1, BookConstants DEF WriteSmall, Written, BookInv, BookShape, GoodRun, RunRows, PriceRows
    <3> HIDE DEF x
    <3>2. BookAt(w, "write") /\ WriteRow(bookRuns[w].row, bookRuns[w].small) /\ UNCHANGED <<told, deciding, waiting, cut>>
      BY <2>1 DEF WriteSmall
    <3> QED
      BY <3>1, <3>2, RunWrites
  <2>2. CASE LogSmall(w)
    BY <2>2, RunLogs
  <2>3. CASE RunFails(w) /\ BookAt(w, "write") /\ WriteRow(bookRuns[w].row, bookRuns[w].small)
    <3>1. CASE FieldsOf(bookRuns[w].small) \subseteq cut' /\ cut \subseteq cut'
      <4> DEFINE x == [OffWork EXCEPT !.step = "give up"]
      <4>1. GoodRun(x) /\ x.step # "log" /\ bookRuns' = [bookRuns EXCEPT ![w] = x]
        BY <2>3, BookConstants DEF RunFails, GoodRun, RunRows, OneEach, OffWork, PriceRows
      <4> HIDE DEF x
      <4>2. UNCHANGED <<told, deciding, waiting>>
        BY <2>3 DEF RunFails
      <4> QED
        BY <2>3, <3>1, <4>1, <4>2, RunWrites
    <3>2. CASE UNCHANGED <<live, stale, cut>>
      <4> DEFINE x == [OffWork EXCEPT !.step = "give up"]
      <4>1. GoodRun(x) /\ x.step # "log" /\ bookRuns' = [bookRuns EXCEPT ![w] = x]
        BY <2>3, BookConstants DEF RunFails, GoodRun, RunRows, OneEach, OffWork, PriceRows
      <4> HIDE DEF x
      <4>2. UNCHANGED <<told, deciding, waiting>> /\ ~BookAt(w, "log") /\ waiting \subseteq Changes
        BY <2>3 DEF RunFails, BookAt, BookInv, BookShape
      <4> QED
        BY <3>2, <4>1, <4>2, BookRunMoves
    <3> QED
      BY <2>3, <3>1, <3>2 DEF RunFails, BookAt
  <2> QED
    BY <1>1, <2>1, <2>2, <2>3, QuietRuns DEF BookSteps
<1>2. CASE ClaimRunsOut \/ WeekPasses \/ UNCHANGED bookVars
  <2>1. UNCHANGED <<live, waiting, bookRuns, deciding, told, stale, cut>>
    BY <1>2 DEF ClaimRunsOut, WeekPasses, bookVars
  <2>2. UNCHANGED Unlogged
    BY <2>1 DEF Unlogged, BookAt
  <2> QED
    BY <2>1, <2>2 DEF BookInv, BookShape, LogsWhatItSays, IsSaid, BookAt, NeverSilent
<1>3. CASE \E change \in waiting, approve \in BOOLEAN : OwnerDecides(change, approve)
  <2>1. PICK change \in waiting, approve \in BOOLEAN : OwnerDecides(change, approve)
    BY <1>3
  <2>2. change \in Changes
    BY DEF BookInv, BookShape
  <2>3. FairDecision(deciding)' /\ ~(deciding'.step \in {"get", "update"} /\ deciding'.approve)
    BY <2>1, <2>2, BookConstants DEF OwnerDecides, Undecided, FairDecision, Decisions, PriceRows
  <2> QED
    BY <2>1, <2>3, OwnerMoves DEF OwnerDecides
<1>4. CASE OwnerReadsRow
  <2>1. FairDecision(deciding)' /\ deciding'.step = "write"
    BY <1>4 DEF OwnerReadsRow, BookInv, BookShape, FairDecision, Decisions
  <2> QED
    BY <1>4, <2>1, OwnerMoves DEF OwnerReadsRow
<1>5. CASE OwnerGets
  <2>1. CASE deciding.change \in waiting
    <3>1. /\ FairDecision(deciding)' /\ deciding'.step = "update"
          /\ deciding'.approve = deciding.approve /\ deciding'.change = deciding.change
      BY <1>5, <2>1 DEF OwnerGets, OwnerTo, BookInv, BookShape, FairDecision, Decisions
    <3> QED
      BY <1>5, <2>1, <3>1, OwnerMoves DEF OwnerGets
  <2>2. CASE deciding.change \notin waiting
    <3>1. FairDecision(deciding)' /\ deciding'.step = "idle"
      <4>1. deciding' = Undecided
        BY <1>5, <2>2 DEF OwnerGets
      <4> QED
        BY <4>1, BookConstants DEF Undecided, FairDecision, Decisions, PriceRows
    <3> QED
      BY <1>5, <2>2, <3>1, OwnerMoves DEF OwnerGets
  <2> QED
    BY <2>1, <2>2
<1>6. CASE OwnerFails
  <2>1. FairDecision(deciding)' /\ deciding'.step = "idle"
    BY <1>6, BookConstants DEF OwnerFails, Undecided, FairDecision, Decisions, PriceRows
  <2> QED
    BY <1>6, <2>1, OwnerMoves DEF OwnerFails
<1> QED
  BY <1>1, <1>2, <1>3, <1>4, <1>5, <1>6, OwnerWritesKept, OwnerMarksKept DEF BookNext

(* What the type says beyond the shape: no change is applied and left to   *)
(* the owner at once.                                                      *)
BookRest == /\ book.holder \in BookWorkers \cup {NoWorker} /\ DOMAIN book = {"due", "holder", "lapsed"}
            /\ \A w \in BookWorkers : bookRuns[w].small \cap bookRuns[w].big = {}
            /\ stale \cup cut \subseteq PriceFields

LEMMA RestKept == BookInv /\ BookRest /\ [BookNext]_bookVars => BookRest'
<1> SUFFICES ASSUME BookInv, BookRest, [BookNext]_bookVars PROVE BookRest'
  OBVIOUS
<1>0. /\ DOMAIN bookRuns = BookWorkers
      /\ \A w \in BookWorkers : bookRuns[w] \in RunRows /\ FieldsOf(bookRuns[w].small) \subseteq PriceFields
      /\ deciding \in Decisions /\ (deciding.step # "idle" => deciding.change \in Changes)
      /\ Unlogged \subseteq PriceFields
  <2>1. DOMAIN bookRuns = BookWorkers /\ \A w \in BookWorkers : bookRuns[w] \in RunRows
    BY DEF BookInv, BookShape, GoodRun
  <2>2. ASSUME NEW w \in BookWorkers PROVE FieldsOf(bookRuns[w].small) \subseteq PriceFields
    <3>1. bookRuns[w].small \subseteq Moves
      BY <2>1 DEF RunRows
    <3> QED
      BY <3>1 DEF Moves, FieldsOf
  <2>3. deciding \in Decisions /\ (deciding.step # "idle" => deciding.change \in Changes)
    BY DEF BookInv, BookShape, FairDecision
  <2> QED
    BY <2>1, <2>2, <2>3 DEF Unlogged
<1>1. book'.holder \in BookWorkers \cup {NoWorker} /\ DOMAIN book' = {"due", "holder", "lapsed"}
  <2>1. \/ UNCHANGED book
        \/ \E w \in BookWorkers : book' = [book EXCEPT !.holder = w, !.lapsed = FALSE]
        \/ book' = [book EXCEPT !.holder = NoWorker, !.lapsed = FALSE]
        \/ \E b \in BOOLEAN : book' = [book EXCEPT !.due = b]
        \/ book' = [book EXCEPT !.lapsed = TRUE]
    <3>1. ASSUME NEW w \in BookWorkers, BookSteps(w) PROVE <2>1
      BY <3>1 DEF BookSteps, TickDue, ClaimBook, ReadBook, WriteSmall, LogSmall, Supersede, LogBig, ReleaseBook, MarkRun
    <3>2. ASSUME NEW w \in BookWorkers, ForceRun(w) \/ RunFails(w) \/ BookDies(w) PROVE UNCHANGED book
      BY <3>2 DEF ForceRun, RunFails, BookDies
    <3>3. CASE ClaimRunsOut \/ WeekPasses
      BY <3>3 DEF ClaimRunsOut, WeekPasses
    <3>4. CASE \/ \E change \in waiting, approve \in BOOLEAN : OwnerDecides(change, approve)
               \/ OwnerReadsRow \/ OwnerWrites \/ OwnerGets \/ OwnerMarks \/ OwnerFails
      BY <3>4 DEF OwnerDecides, OwnerReadsRow, OwnerWrites, OwnerGets, OwnerMarks, OwnerFails
    <3> QED
      BY <3>1, <3>2, <3>3, <3>4 DEF BookNext, bookVars
  <2> QED
    BY <2>1 DEF BookRest
<1>2. ASSUME NEW v \in BookWorkers PROVE bookRuns'[v].small \cap bookRuns'[v].big = {}
  <2> DEFINE Apart(x) == x.small \cap x.big = {}
  <2>0. ASSUME NEW w \in BookWorkers, NEW x, bookRuns' = [bookRuns EXCEPT ![w] = x], Apart(x) PROVE Apart(bookRuns'[v])
    BY <1>0, <2>0 DEF BookRest
  <2>1. CASE UNCHANGED bookRuns
    BY <2>1 DEF BookRest
  <2>2. ASSUME NEW w \in BookWorkers, NEW move, BookTo(w, move) \/ Written(w, move) PROVE Apart(bookRuns'[v])
    <3>1. \/ bookRuns' = [bookRuns EXCEPT ![w] = [bookRuns[w] EXCEPT !.step = move]]
          \/ bookRuns' = [bookRuns EXCEPT ![w] = [bookRuns[w] EXCEPT !.step = move, !.row = FirstListing]]
      BY <1>0, <2>2 DEF BookTo, Written
    <3>2. bookRuns[w] \in RunRows /\ Apart(bookRuns[w])
      BY <1>0 DEF BookRest
    <3>3. /\ Apart([bookRuns[w] EXCEPT !.step = move])
          /\ Apart([bookRuns[w] EXCEPT !.step = move, !.row = FirstListing])
      BY <3>2 DEF RunRows
    <3> QED
      BY <2>0, <3>1, <3>3
  <2>3. ASSUME NEW w \in BookWorkers, NEW move, bookRuns' = [bookRuns EXCEPT ![w] = [OffWork EXCEPT !.step = move]]
        PROVE  Apart(bookRuns'[v])
    BY <2>0, <2>3 DEF OffWork
  <2>4. ASSUME NEW w \in BookWorkers, ReadBook(w) PROVE Apart(bookRuns'[v])
    <3>1. CASE BookTo(w, "give up")
      BY <2>2, <3>1
    <3>2. ASSUME NEW move, NEW row, NEW small, NEW moved,
                 bookRuns' = [bookRuns EXCEPT ![w] = [OffWork EXCEPT !.step = move, !.row = row, !.small = small, !.big = moved \ small]]
          PROVE  Apart(bookRuns'[v])
      <4> DEFINE x == [OffWork EXCEPT !.step = move, !.row = row, !.small = small, !.big = moved \ small]
      <4>1. Apart(x)
        BY DEF OffWork
      <4> QED
        BY <2>0, <3>2, <4>1
    <3> QED
      BY <2>4, <3>1, <3>2 DEF ReadBook
  <2>5. ASSUME NEW w \in BookWorkers, LogSmall(w) \/ Supersede(w) PROVE Apart(bookRuns'[v])
    <3>1. PICK m :
             \/ bookRuns' = [bookRuns EXCEPT ![w] = [bookRuns[w] EXCEPT !.small = @ \ {m}]]
             \/ bookRuns' = [bookRuns EXCEPT ![w] = [bookRuns[w] EXCEPT !.step = "pend", !.big = @ \ {m}, !.at = m]]
      BY <1>0, <2>5 DEF LogSmall, Supersede
    <3>2. bookRuns[w] \in RunRows /\ Apart(bookRuns[w])
      BY <1>0 DEF BookRest
    <3>3. /\ Apart([bookRuns[w] EXCEPT !.small = @ \ {m}])
          /\ Apart([bookRuns[w] EXCEPT !.step = "pend", !.big = @ \ {m}, !.at = m])
      BY <3>2 DEF RunRows
    <3> QED
      BY <2>0, <3>1, <3>3
  <2>6. ASSUME NEW w \in BookWorkers, LogBig(w) PROVE Apart(bookRuns'[v])
    <3>1. bookRuns' = [bookRuns EXCEPT ![w] = [bookRuns[w] EXCEPT !.step = "log", !.at = NoMove]]
      BY <1>0, <2>6 DEF LogBig
    <3>2. bookRuns[w] \in RunRows /\ Apart(bookRuns[w])
      BY <1>0 DEF BookRest
    <3>3. Apart([bookRuns[w] EXCEPT !.step = "log", !.at = NoMove])
      BY <3>2 DEF RunRows
    <3> QED
      BY <2>0, <3>1, <3>3
  <2>7. ASSUME NEW w \in BookWorkers, RunFails(w) \/ BookDies(w) \/ ReleaseBook(w)
        PROVE \E move : bookRuns' = [bookRuns EXCEPT ![w] = [OffWork EXCEPT !.step = move]]
    <3>1. OffWork = [OffWork EXCEPT !.step = "idle"]
      BY DEF OffWork
    <3> QED
      BY <2>7, <3>1 DEF RunFails, BookDies, ReleaseBook
  <2>8. \/ UNCHANGED bookRuns
        \/ \E w \in BookWorkers :
             \/ (\E move : BookTo(w, move) \/ Written(w, move))
             \/ ReadBook(w) \/ LogSmall(w) \/ Supersede(w) \/ LogBig(w) \/ RunFails(w) \/ BookDies(w) \/ ReleaseBook(w)
    BY DEF BookNext, BookSteps, TickDue, ForceRun, ClaimBook, WriteSmall, MarkRun, ClaimRunsOut, WeekPasses,
           OwnerDecides, OwnerReadsRow, OwnerWrites, OwnerGets, OwnerMarks, OwnerFails, bookVars
  <2> QED
    BY <2>1, <2>2, <2>3, <2>4, <2>5, <2>6, <2>7, <2>8
<1>3. stale' \cup cut' \subseteq PriceFields
  <2>1. CASE UNCHANGED <<stale, cut>>
    BY <2>1 DEF BookRest
  <2>2. ASSUME NEW row, NEW moves, FieldsOf(moves) \subseteq PriceFields, WriteRow(row, moves) PROVE stale' \subseteq PriceFields
    BY <1>0, <2>2 DEF WriteRow, BookRest
  <2>3. ASSUME NEW w \in BookWorkers, WriteSmall(w) PROVE stale' \subseteq PriceFields /\ UNCHANGED cut
    BY <1>0, <2>2, <2>3 DEF WriteSmall
  <2>4. ASSUME NEW w \in BookWorkers, RunFails(w) \/ BookDies(w) PROVE stale' \cup cut' \subseteq PriceFields
    BY <1>0, <2>2, <2>4 DEF RunFails, BookDies, BookRest
  <2>5. CASE OwnerWrites
    <3>1. FieldsOf({deciding.change}) \subseteq PriceFields
      BY <1>0, <2>5 DEF OwnerWrites, Changes, FieldsOf
    <3> QED
      BY <2>2, <2>5, <3>1 DEF OwnerWrites, BookRest
  <2>6. CASE OwnerGets \/ OwnerFails
    BY <1>0, <2>6 DEF OwnerGets, OwnerFails, Changes, BookRest
  <2>7. \/ UNCHANGED <<stale, cut>> \/ OwnerWrites \/ OwnerGets \/ OwnerFails
        \/ \E w \in BookWorkers : WriteSmall(w) \/ RunFails(w) \/ BookDies(w)
    BY DEF BookNext, BookSteps, TickDue, ForceRun, ClaimBook, ReadBook, LogSmall, Supersede, LogBig, ReleaseBook, MarkRun,
           ClaimRunsOut, WeekPasses, OwnerDecides, OwnerReadsRow, OwnerMarks, bookVars
  <2> QED
    BY <2>1, <2>3, <2>4, <2>5, <2>6, <2>7 DEF BookRest
<1> QED
  BY <1>1, <1>2, <1>3 DEF BookRest

(* job.js, a live price never changes silently, for any fields, listings   *)
(* and number of workers that tick together, whatever fails.               *)
THEOREM PricesAreLogged == BookSpec => [](BookTypeOK /\ NeverSilent)
<1>1. BookInit => BookInv
  <2> SUFFICES ASSUME BookInit PROVE BookInv
    OBVIOUS
  <2>1. FirstListing \in PriceRows
    BY BookConstants DEF PriceRows
  <2>2. BookShape
    BY <2>1 DEF BookInit, BookShape, GoodRun, RunRows, OneEach, OffWork, FairDecision, Decisions, Undecided
  <2> QED
    BY <2>2 DEF BookInit, BookInv, LogsWhatItSays, NeverSilent, OffWork, BookAt, Undecided
<1>2. BookInit => BookRest
  BY DEF BookInit, BookRest, OffWork
<1>3. BookInv /\ BookRest => BookTypeOK /\ NeverSilent
  BY DEF BookInv, BookShape, BookRest, BookTypeOK, PriceRows, Changes
<1> QED
  BY <1>1, <1>2, <1>3, BookKept, RestKept, PTL DEF BookSpec

---------------------------------------------------------------------------------
(* The half-price batches: every loss is written, and with one worker an   *)
(* answer stays.                                                           *)

(* The routes a run may have been given.                                   *)
AllRoutes == {NoRoute} \cup {RouteOf(o) : o \in Offers}

ItemRows  == [status : Open \cup {"succeeded", "failed", "expired"}, by : BatchWorkers \cup {NoItem}, marked : BOOLEAN, absorbed : Nat]
BatchRows == [status : {"queued", "succeeded", "failed", "expired"}, absorbed : Nat]
TickRows  == [step : {"idle", "decide", "wait", "release", "expire", "expireBatch", "finish"},
              item : BatchItems \cup {NoItem}, job : 0..MaxBatchRuns, regular : BOOLEAN]
JobRows   == [item : BatchItems \cup {NoItem}, route : AllRoutes,
              step : {"none", "going", "check", "absorb", "settle", "charged", "refused", "failed"},
              named : BOOLEAN, tokens : Prices, left : Nat]

(* Who works on an item knows it, and who waits knows its run.             *)
GoodTick(t) == /\ t \in TickRows
               /\ t.step # "idle" => t.item \in BatchItems
               /\ t.step = "wait" => t.job \in BatchRuns
GoodJob(j)  == j \in JobRows /\ (j.step \notin {"none", "failed"} => j.item \in BatchItems)

BatchShape ==
    /\ items \in [BatchItems -> ItemRows]
    /\ batches \in [Batches -> BatchRows]
    /\ DOMAIN ticks = BatchWorkers /\ \A w \in BatchWorkers : GoodTick(ticks[w])
    /\ DOMAIN jobs = BatchRuns /\ \A r \in BatchRuns : GoodJob(jobs[r])
    /\ late \subseteq Batches /\ hour \in {"peak", "off-peak"} /\ stops \in 0..MaxStops

LEMMA RouteCosts == \A route \in AllRoutes : route.cost \in Prices
<1>1. NoRoute.cost \in Prices
  BY DEF NoRoute, Prices
<1>2. \A o \in Offers : RouteOf(o).cost \in Prices
  <2> TAKE o \in Offers
  <2>1. o \in [cost : Prices, source : STRING, hours : SUBSET {"peak", "off-peak"}]
    BY BatchConstants
  <2> QED
    BY <1>1, <2>1 DEF RouteOf
<1> QED
  BY <1>1, <1>2 DEF AllRoutes

LEMMA CostIs == ASSUME NEW card \in Prices, NEW tokens \in Prices PROVE Cost(card, tokens) \in Nat
<1>1. \A a, b \in Nat : a * b \in Nat
  OBVIOUS
<1> QED
  BY <1>1 DEF Cost, Prices

LEMMA ChargeIs == Charge \in Prices
<1>1. Retail.input \in Nat /\ Retail.output \in Nat
  BY BatchConstants DEF Prices
<1>2. \A n \in Nat : n \div 2 \in Nat
  OBVIOUS
<1>3. Charge = [input |-> Retail.input \div 2, output |-> Retail.output \div 2]
  BY DEF Charge
<1> QED
  BY <1>1, <1>2, <1>3 DEF Prices

LossOf(j) ==
    LET real    == Cost(IF j.named THEN j.route.cost ELSE Retail, j.tokens)
        charged == Cost(Charge, j.tokens)
    IN  IF real > charged THEN real - charged ELSE 0

LEMMA LossIs == \A r \in BatchRuns : Loss(r) = LossOf(jobs[r]) /\ Loss(r)' = LossOf(jobs'[r])
BY DEF Loss, LossOf, RealCost, Charged

LEMMA LossNat == ASSUME NEW j, GoodJob(j) PROVE LossOf(j) \in Nat
<1>1. j.route \in AllRoutes /\ j.tokens \in Prices
  BY DEF GoodJob, JobRows
<1>2. (IF j.named THEN j.route.cost ELSE Retail) \in Prices
  BY <1>1, RouteCosts, BatchConstants
<1>3. Cost(IF j.named THEN j.route.cost ELSE Retail, j.tokens) \in Nat /\ Cost(Charge, j.tokens) \in Nat
  BY <1>1, <1>2, CostIs, ChargeIs
<1> QED
  BY <1>3 DEF LossOf

(* The runs whose customers are charged, or will be.                       *)
Paying(b) == {r \in BatchRuns : jobs[r].step \in {"settle", "charged"} /\ jobs[r].item \in InBatch(b)}
Losses    == [r \in BatchRuns |-> Loss(r)]
LossTaken == \A b \in Batches : Total(Losses, Paying(b)) <= batches[b].absorbed

BatchInv == BatchShape /\ LossTaken

LEMMA BatchRunsAreFinite == IsFiniteSet(BatchRuns)
BY BatchConstants, FS_Interval DEF BatchRuns

(* How the sum of the losses of a batch changes with one run: it leaves,   *)
(* its loss is what it was, or the loss is written with it.                *)
LEMMA LossKept ==
    ASSUME BatchInv, BatchShape', NEW r \in BatchRuns, \A s \in BatchRuns \ {r} : jobs'[s] = jobs[s],
           \A b \in Batches : batches'[b].absorbed >= batches[b].absorbed,
           jobs'[r].step \in {"settle", "charged"} =>
               \/ /\ jobs[r].step \in {"settle", "charged"} /\ jobs'[r].item = jobs[r].item
                  /\ LossOf(jobs'[r]) = LossOf(jobs[r])
               \/ /\ jobs[r].step \notin {"settle", "charged"}
                  /\ batches'[BatchOf[jobs'[r].item]].absorbed
                       >= batches[BatchOf[jobs'[r].item]].absorbed + LossOf(jobs'[r])
    PROVE  LossTaken'
<1> SUFFICES ASSUME NEW b \in Batches PROVE Total(Losses', Paying(b)') <= batches'[b].absorbed
  BY DEF LossTaken
<1>1. \A s \in BatchRuns : Losses[s] = LossOf(jobs[s]) /\ Losses'[s] = LossOf(jobs'[s])
  BY LossIs DEF Losses
<1>2. \A s \in BatchRuns : Losses[s] \in Nat /\ Losses'[s] \in Nat
  BY <1>1, LossNat DEF BatchInv, BatchShape
<1>3. /\ Paying(b) \in SUBSET BatchRuns /\ Paying(b)' \in SUBSET BatchRuns
      /\ Paying(b) \ {r} = Paying(b)' \ {r}
      /\ r \in Paying(b)  <=> jobs[r].step \in {"settle", "charged"} /\ jobs[r].item \in InBatch(b)
      /\ r \in Paying(b)' <=> jobs'[r].step \in {"settle", "charged"} /\ jobs'[r].item \in InBatch(b)
  BY DEF Paying, InBatch
<1>4. IsFiniteSet(Paying(b)) /\ IsFiniteSet(Paying(b)') /\ IsFiniteSet(Paying(b) \ {r})
  BY <1>3, BatchRunsAreFinite, FS_Subset
<1> DEFINE rest == Paying(b) \ {r}
<1>5. /\ batches[b].absorbed \in Nat /\ batches'[b].absorbed \in Nat /\ batches'[b].absorbed >= batches[b].absorbed
      /\ Total(Losses, Paying(b)) <= batches[b].absorbed
  BY DEF BatchInv, BatchShape, BatchRows, LossTaken
<1>6. PICK old, new : old = Losses /\ new = Losses'
  OBVIOUS
<1>7. Total(new, rest) = Total(old, rest) /\ Total(old, rest) \in Nat /\ Total(old, Paying(b)) \in Nat
  <2>1. \A s \in rest : new[s] = old[s]
    BY <1>1, <1>3, <1>6
  <2>2. \A s \in Paying(b) : old[s] \in Nat
    BY <1>2, <1>3, <1>6
  <2> QED
    BY <1>4, <2>1, <2>2, TotalSame, TotalNat
<1>8. Total(old, rest) <= Total(old, Paying(b))
  BY <1>2, <1>3, <1>4, <1>6, TotalOfSome
<1>9. r \in Paying(b)' => Total(new, Paying(b)') = new[r] + Total(new, rest)
  <2> SUFFICES ASSUME r \in Paying(b)' PROVE Total(new, Paying(b)') = new[r] + Total(new, rest)
    OBVIOUS
  <2>1. \A s \in Paying(b)' : new[s] \in Nat
    BY <1>2, <1>3, <1>6
  <2>2. rest = Paying(b)' \ {r}
    BY <1>3
  <2> QED
    BY <1>4, <2>1, <2>2, TotalTakes
<1>10. r \in Paying(b) => Total(old, Paying(b)) = old[r] + Total(old, rest)
  <2>1. \A s \in Paying(b) : old[s] \in Nat
    BY <1>2, <1>3, <1>6
  <2> QED
    BY <1>4, <2>1, TotalTakes
<1>11. CASE r \notin Paying(b)'
  <2>1. Paying(b)' = rest
    BY <1>3, <1>11
  <2> QED
    BY <1>5, <1>6, <1>7, <1>8, <2>1
<1>12. CASE r \in Paying(b)'
  <2>1. new[r] = LossOf(jobs'[r]) /\ old[r] = LossOf(jobs[r]) /\ new[r] \in Nat /\ old[r] \in Nat
    BY <1>1, <1>2, <1>6
  <2>2. CASE r \in Paying(b)
    <3>1. new[r] = old[r]
      BY <1>3, <1>12, <2>1, <2>2
    <3> QED
      BY <1>5, <1>6, <1>7, <1>9, <1>10, <1>12, <2>1, <2>2, <3>1
  <2>3. CASE r \notin Paying(b)
    <3>1. jobs'[r].item \in InBatch(b) /\ jobs[r].step \notin {"settle", "charged"}
      BY <1>3, <1>12, <2>3
    <3>2. batches'[b].absorbed >= batches[b].absorbed + new[r]
      BY <1>3, <1>12, <2>1, <3>1 DEF InBatch
    <3>3. Paying(b) = rest
      BY <2>3
    <3> HIDE DEF rest
    <3>4. Total(old, rest) <= batches[b].absorbed
      BY <1>5, <1>6, <3>3
    <3>5. Total(new, Paying(b)') = new[r] + Total(old, rest)
      BY <1>7, <1>9, <1>12
    <3> QED
      BY <1>5, <1>6, <1>7, <2>1, <3>2, <3>4, <3>5
  <2> QED
    BY <2>2, <2>3
<1> QED
  BY <1>11, <1>12

LEMMA LossSame ==
    ASSUME BatchInv, UNCHANGED jobs, \A b \in Batches : batches'[b].absorbed = batches[b].absorbed
    PROVE  LossTaken'
<1>1. \A b \in Batches : Paying(b)' = Paying(b)
  BY DEF Paying, InBatch
<1>2. Losses' = Losses
  BY DEF Losses, Loss, RealCost, Charged
<1> QED
  BY <1>1, <1>2 DEF BatchInv, LossTaken

---------------------------------------------------------------------------------
(* Each step leaves the shape as it is.                                    *)

LEMMA TickMoves ==
    ASSUME BatchShape, NEW w \in BatchWorkers, NEW move \in {"idle", "decide", "release", "expire", "expireBatch", "finish"},
           ticks[w].step # "idle", At(w, move)
    PROVE  /\ DOMAIN ticks' = BatchWorkers /\ (\A v \in BatchWorkers : GoodTick(ticks'[v]))
           /\ \A v \in BatchWorkers : ticks'[v].item = ticks[v].item /\ (v # w => ticks'[v] = ticks[v])
           /\ ticks'[w].step = move
<1>1. GoodTick(ticks[w])
  BY DEF BatchShape
<1>2. ticks' = [ticks EXCEPT ![w].step = move]
  BY DEF At
<1>3. GoodTick([ticks[w] EXCEPT !.step = move])
  BY <1>1 DEF GoodTick, TickRows
<1> QED
  BY <1>1, <1>2, <1>3 DEF BatchShape, GoodTick, TickRows

LEMMA TickEnds ==
    ASSUME BatchShape, NEW w \in BatchWorkers, Idle(w)
    PROVE  /\ DOMAIN ticks' = BatchWorkers /\ (\A v \in BatchWorkers : GoodTick(ticks'[v]))
           /\ (\A v \in BatchWorkers \ {w} : ticks'[v] = ticks[v]) /\ ticks'[w] = NoTick
<1>1. GoodTick(NoTick)
  BY BatchConstants DEF GoodTick, TickRows, NoTick
<1> QED
  BY <1>1 DEF Idle, BatchShape

LEMMA ItemMoves ==
    ASSUME BatchShape, NEW i \in BatchItems, NEW status \in Open \cup {"succeeded", "failed", "expired"}
    PROVE  /\ Set(i, status) \in [BatchItems -> ItemRows] /\ Set(i, status)[i].status = status
           /\ \A j \in BatchItems \ {i} : Set(i, status)[j] = items[j]
BY DEF Set, BatchShape, ItemRows

LEMMA JobMoves ==
    ASSUME BatchShape, NEW r \in BatchRuns, NEW j, GoodJob(j), jobs' = [jobs EXCEPT ![r] = j]
    PROVE  /\ DOMAIN jobs' = BatchRuns /\ (\A s \in BatchRuns : GoodJob(jobs'[s]))
           /\ (\A s \in BatchRuns \ {r} : jobs'[s] = jobs[s]) /\ jobs'[r] = j
BY DEF BatchShape

(* The passes of the worker, but for what begins a run.                    *)
LEMMA PassKept ==
    ASSUME BatchInv, NEW w \in BatchWorkers,
           \/ ClaimItem(w) \/ DecideWait(w) \/ DecideExpire(w) \/ WaitFails(w) \/ WaitRefused(w) \/ WaitAnswered(w)
           \/ ReleaseItem(w) \/ ExpireItem(w) \/ ExpireBatch(w) \/ FinishBatch(w) \/ StopEarly(w)
    PROVE  BatchInv'
<1> DEFINE i == ticks[w].item
<1>0. /\ BatchShape /\ UNCHANGED <<jobs, hour, late>>
      /\ ticks[w].step # "idle" => i \in BatchItems
  BY DEF BatchInv, BatchShape, GoodTick, ClaimItem, DecideWait, DecideExpire, WaitFails, WaitRefused, WaitAnswered,
         ReleaseItem, ExpireItem, ExpireBatch, FinishBatch, StopEarly
<1> SUFFICES /\ items' \in [BatchItems -> ItemRows]
             /\ batches' \in [Batches -> BatchRows] /\ \A b \in Batches : batches'[b].absorbed = batches[b].absorbed
             /\ DOMAIN ticks' = BatchWorkers /\ \A v \in BatchWorkers : GoodTick(ticks'[v])
             /\ stops' \in 0..MaxStops
  BY <1>0, LossSame DEF BatchInv, BatchShape
<1>1. CASE ClaimItem(w)
  <2>1. PICK n \in DOMAIN ItemOrder : /\ items' = [items EXCEPT ![ItemOrder[n]].by = w]
                                      /\ ticks' = [ticks EXCEPT ![w].step = "decide", ![w].item = ItemOrder[n]]
    BY <1>1 DEF ClaimItem
  <2>2. ItemOrder[n] \in BatchItems
    BY DEF BatchItems, ToSet
  <2>3. items' \in [BatchItems -> ItemRows]
    BY <1>0, <2>1, <2>2 DEF BatchShape, ItemRows
  <2>4. GoodTick([ticks[w] EXCEPT !.step = "decide", !.item = ItemOrder[n]])
    BY <1>0, <2>2 DEF BatchShape, GoodTick, TickRows
  <2>5. ticks' = [ticks EXCEPT ![w] = [ticks[w] EXCEPT !.step = "decide", !.item = ItemOrder[n]]]
    BY <2>1
  <2> QED
    BY <1>0, <1>1, <2>3, <2>4, <2>5 DEF ClaimItem, BatchShape
<1>2. CASE DecideWait(w)
  BY <1>0, <1>2, ItemMoves, TickEnds DEF DecideWait, BatchShape, Open
<1>3. CASE DecideExpire(w)
  BY <1>0, <1>3, TickMoves DEF DecideExpire, BatchShape
<1>4. CASE WaitFails(w)
  <2>1. Set(i, "failed") \in [BatchItems -> ItemRows]
    BY <1>0, <1>4, ItemMoves DEF WaitFails
  <2>2. items' \in [BatchItems -> ItemRows]
    <3> DEFINE set == Set(i, "failed")
    <3>1. items' = [set EXCEPT ![i].marked = FALSE]
      BY <1>4 DEF WaitFails
    <3> HIDE DEF set
    <3> QED
      BY <2>1, <3>1 DEF ItemRows, set
  <2> QED
    BY <1>0, <1>4, <2>2, TickMoves DEF WaitFails, BatchShape
<1>5. CASE WaitRefused(w)
  BY <1>0, <1>5, ItemMoves, TickMoves DEF WaitRefused, BatchShape, Open
<1>6. CASE WaitAnswered(w)
  BY <1>0, <1>6, ItemMoves, TickMoves DEF WaitAnswered, BatchShape
<1>7. CASE ReleaseItem(w)
  BY <1>0, <1>7, ItemMoves, TickEnds DEF ReleaseItem, BatchShape, Open
<1>8. CASE ExpireItem(w)
  BY <1>0, <1>8, ItemMoves, TickMoves DEF ExpireItem, BatchShape
<1>9. CASE ExpireBatch(w)
  <2>1. batches' \in [Batches -> BatchRows] /\ \A b \in Batches : batches'[b].absorbed = batches[b].absorbed
    BY <1>0, <1>9 DEF ExpireBatch, BatchShape, BatchRows
  <2> QED
    BY <1>0, <1>9, <2>1, TickEnds DEF ExpireBatch, BatchShape
<1>10. CASE FinishBatch(w)
  <2> DEFINE b    == BatchOf[i]
             ends == {items[j].status : j \in InBatch(b)}
             to   == IF "failed" \in ends THEN "failed" ELSE IF "expired" \in ends THEN "expired" ELSE "succeeded"
  <2>1. batches' \in {batches, [batches EXCEPT ![b].status = to]} /\ to \in {"failed", "expired", "succeeded"}
    BY <1>10 DEF FinishBatch
  <2> HIDE DEF b, ends, to
  <2>2. batches' \in [Batches -> BatchRows] /\ \A c \in Batches : batches'[c].absorbed = batches[c].absorbed
    BY <1>0, <2>1 DEF BatchShape, BatchRows
  <2> QED
    BY <1>0, <1>10, <2>2, TickEnds DEF FinishBatch, BatchShape
<1>11. CASE StopEarly(w)
  BY <1>0, <1>11, TickEnds, BatchConstants DEF StopEarly, BatchShape
<1> QED
  BY <1>1, <1>2, <1>3, <1>4, <1>5, <1>6, <1>7, <1>8, <1>9, <1>10, <1>11

(* A sum over the items or the runs is a total.                            *)
LEMMA BudgetNat == ASSUME BatchShape PROVE BudgetLeft \in Nat
<1> DEFINE S == BatchItems
           unfold(it) == [s \in SUBSET S |-> IF s = {} THEN 0 ELSE LET x == CHOOSE x \in s : TRUE IN items[x].absorbed + it[s \ {x}]]
           iter == CHOOSE it : it = unfold(it)
           g == [i \in S |-> items[i].absorbed]
<1>1. IsFiniteSet(S) /\ \A i \in S : g[i] \in Nat
  BY BatchConstants DEF BatchShape, ItemRows, BatchItems
<1>2. Absorbed = iter[S]
  BY DEF Absorbed, MapThenSumSet, MapThenFoldSet
<1>3. PICK k : Adds(k, g, S)
  <2> HIDE DEF S, g
  <2> QED
    BY <1>1, SomethingAdds
<1> DEFINE h == [s \in SUBSET S |-> k[s]]
<1>4. h = unfold(h)
  <2>1. \A s \in SUBSET S : h[s] = unfold(h)[s]
    BY <1>3 DEF Adds, One
  <2> QED
    BY <2>1
<1>5. iter = unfold(iter)
  <2> HIDE DEF unfold, h
  <2> QED
    BY <1>4
<1>6. Adds(iter, g, S)
  <2>1. \A s \in SUBSET S : iter[s] = unfold(iter)[s]
    BY <1>5
  <2> HIDE DEF iter
  <2> QED
    BY <2>1 DEF Adds, One
<1>7. Absorbed \in Nat
  <2> HIDE DEF S, g, iter
  <2> QED
    BY <1>1, <1>2, <1>6, TotalIs, TotalNat
<1> QED
  BY <1>7, BatchConstants DEF BudgetLeft

LEMMA LossesAdd ==
    ASSUME BatchShape, NEW S \in SUBSET BatchRuns
    PROVE  MapThenSumSet(Loss, S) = Total(Losses, S)
<1> DEFINE unfold(it) == [s \in SUBSET S |-> IF s = {} THEN 0 ELSE LET x == CHOOSE x \in s : TRUE IN Loss(x) + it[s \ {x}]]
           iter == CHOOSE it : it = unfold(it)
<1>1. IsFiniteSet(S) /\ \A r \in S : Losses[r] = Loss(r)
  BY BatchRunsAreFinite, FS_Subset DEF Losses
<1>2. MapThenSumSet(Loss, S) = iter[S]
  BY DEF MapThenSumSet, MapThenFoldSet
<1>3. PICK g : g = Losses
  OBVIOUS
<1>4. PICK k : Adds(k, g, S)
  BY <1>1, SomethingAdds
<1> DEFINE h == [s \in SUBSET S |-> k[s]]
<1>5. h = unfold(h)
  <2>1. \A s \in SUBSET S : h[s] = unfold(h)[s]
    BY <1>1, <1>3, <1>4 DEF Adds, One
  <2> QED
    BY <2>1
<1>6. iter = unfold(iter)
  <2> HIDE DEF unfold, h
  <2> QED
    BY <1>5
<1>7. Adds(iter, g, S)
  <2>1. \A s \in SUBSET S : iter[s] = unfold(iter)[s]
    BY <1>6
  <2> HIDE DEF iter
  <2> QED
    BY <1>1, <1>3, <2>1 DEF Adds, One
<1>8. iter[S] = Total(g, S)
  <2> HIDE DEF iter
  <2> QED
    BY <1>1, <1>7, TotalIs
<1> QED
  BY <1>2, <1>3, <1>8

LEMMA BatchJobKept ==
    ASSUME BatchInv, NEW r \in BatchRuns,
           JobAnswers(r) \/ JobFails(r) \/ JobSettles(r) \/ CheckFits(r) \/ CheckBudget(r) \/ CheckAbsorbs(r) \/ CheckRefuses(r)
    PROVE  BatchInv'
<1> DEFINE i == jobs[r].item
<1>0. /\ BatchShape /\ UNCHANGED <<ticks, hour, late, stops>> /\ GoodJob(jobs[r])
      /\ jobs[r].step # "none" /\ i \in BatchItems
  BY DEF BatchInv, BatchShape, GoodJob, JobAnswers, JobFails, JobSettles, JobAt, CheckFits, CheckBudget, CheckAbsorbs, CheckRefuses
<1>1. LossOf(jobs[r]) \in Nat /\ Loss(r) = LossOf(jobs[r])
  BY <1>0, LossNat, LossIs
(* The step of a run, what was left, and the losses, are data to the sums. *)
<1>2. ASSUME NEW j, GoodJob(j), jobs' = [jobs EXCEPT ![r] = j],
             items' \in [BatchItems -> ItemRows],
             batches' \in [Batches -> BatchRows], \A b \in Batches : batches'[b].absorbed >= batches[b].absorbed,
             j.step \in {"settle", "charged"} =>
                 \/ jobs[r].step \in {"settle", "charged"} /\ j.item = i /\ LossOf(j) = LossOf(jobs[r])
                 \/ /\ jobs[r].step \notin {"settle", "charged"}
                    /\ batches'[BatchOf[j.item]].absorbed >= batches[BatchOf[j.item]].absorbed + LossOf(j)
      PROVE  BatchInv'
  <2>1. /\ DOMAIN jobs' = BatchRuns /\ (\A s \in BatchRuns : GoodJob(jobs'[s]))
        /\ (\A s \in BatchRuns \ {r} : jobs'[s] = jobs[s]) /\ jobs'[r] = j
    BY <1>0, <1>2, JobMoves
  <2>2. BatchShape'
    BY <1>0, <1>2, <2>1 DEF BatchShape
  <2> QED
    BY <1>2, <2>1, <2>2, LossKept DEF BatchInv
<1>3. \A b \in Batches : batches[b].absorbed \in Nat
  BY <1>0 DEF BatchShape, BatchRows
<1>4. items \in [BatchItems -> ItemRows] /\ batches \in [Batches -> BatchRows] /\ BatchOf[i] \in Batches
  BY <1>0 DEF BatchShape, Batches
<1>a. UNCHANGED items => items' \in [BatchItems -> ItemRows]
  BY <1>4
<1>b. UNCHANGED batches => batches' \in [Batches -> BatchRows] /\ \A b \in Batches : batches'[b].absorbed >= batches[b].absorbed
  BY <1>3, <1>4
<1> DEFINE to(move) == [jobs[r] EXCEPT !.step = move]
<1>5. ASSUME NEW move \in {"failed", "settle", "charged"}
      PROVE  GoodJob(to(move)) /\ to(move).step = move /\ to(move).item = i /\ LossOf(to(move)) = LossOf(jobs[r])
  BY <1>0 DEF GoodJob, JobRows, LossOf
<1> DEFINE left(move, n) == [jobs[r] EXCEPT !.step = move, !.left = n]
<1>6. ASSUME NEW move \in {"absorb", "settle", "refused"}, NEW n \in Nat
      PROVE  GoodJob(left(move, n)) /\ left(move, n).step = move /\ left(move, n).item = i /\ LossOf(left(move, n)) = LossOf(jobs[r])
  BY <1>0 DEF GoodJob, JobRows, LossOf
<1>7. CASE JobAnswers(r)
  <2>1. PICK tokens \in Usage, named \in BOOLEAN : jobs' = [jobs EXCEPT ![r].step = "check", ![r].tokens = tokens, ![r].named = named]
    BY <1>7 DEF JobAnswers
  <2> DEFINE j == [jobs[r] EXCEPT !.step = "check", !.tokens = tokens, !.named = named]
  <2>2. jobs' = [jobs EXCEPT ![r] = j]
    BY <2>1
  <2>3. GoodJob(j) /\ j.step = "check"
    BY <1>0, BatchConstants DEF GoodJob, JobRows
  <2> HIDE DEF j
  <2> QED
    BY <1>2, <1>a, <1>b, <1>7, <2>2, <2>3 DEF JobAnswers
<1>8. CASE JobFails(r)
  <2>1. jobs' = [jobs EXCEPT ![r] = to("failed")] /\ UNCHANGED <<items, batches>>
    BY <1>8 DEF JobFails, JobAt
  <2> HIDE DEF to
  <2> QED
    BY <1>2, <1>a, <1>b, <1>5, <2>1
<1>9. CASE JobSettles(r)
  <2>1. jobs' = [jobs EXCEPT ![r] = to("charged")] /\ UNCHANGED <<items, batches>> /\ jobs[r].step = "settle"
    BY <1>9 DEF JobSettles, JobAt
  <2> HIDE DEF to
  <2> QED
    BY <1>2, <1>a, <1>b, <1>5, <2>1
<1>10. CASE CheckFits(r)
  <2>1. jobs' = [jobs EXCEPT ![r] = to("settle")] /\ UNCHANGED <<items, batches>> /\ jobs[r].step = "check" /\ Loss(r) = 0
    BY <1>10 DEF CheckFits, JobAt
  <2> HIDE DEF to
  <2>2. batches'[BatchOf[i]].absorbed >= batches[BatchOf[i]].absorbed + LossOf(jobs[r])
    BY <1>1, <1>3, <1>4, <2>1
  <2> QED
    BY <1>2, <1>a, <1>b, <1>5, <2>1, <2>2
<1>11. CASE CheckBudget(r)
  <2>1. jobs' = [jobs EXCEPT ![r] = left("absorb", BudgetLeft)] /\ UNCHANGED <<items, batches>>
    BY <1>11 DEF CheckBudget
  <2>2. BudgetLeft \in Nat
    BY <1>0, BudgetNat
  <2> HIDE DEF left
  <2> QED
    BY <1>2, <1>a, <1>b, <1>6, <2>1, <2>2
<1>12. CASE CheckAbsorbs(r)
  <2>1. /\ jobs' = [jobs EXCEPT ![r] = left("settle", 0)]
        /\ items' = [items EXCEPT ![i].absorbed = Loss(r)]
        /\ batches' = [batches EXCEPT ![BatchOf[i]].absorbed = @ + Loss(r)]
        /\ jobs[r].step = "absorb"
    BY <1>12 DEF CheckAbsorbs
  <2>2. items' \in [BatchItems -> ItemRows]
    BY <1>1, <1>4, <2>1 DEF ItemRows
  <2>3. /\ batches' \in [Batches -> BatchRows] /\ \A b \in Batches : batches'[b].absorbed >= batches[b].absorbed
        /\ batches'[BatchOf[i]].absorbed >= batches[BatchOf[i]].absorbed + LossOf(jobs[r])
    BY <1>1, <1>3, <1>4, <2>1 DEF BatchRows
  <2> HIDE DEF left
  <2> QED
    BY <1>2, <1>6, <2>1, <2>2, <2>3
<1>13. CASE CheckRefuses(r)
  <2>1. /\ jobs' = [jobs EXCEPT ![r] = left("refused", 0)]
        /\ items' = [items EXCEPT ![i].marked = TRUE, ![i].absorbed = 0]
        /\ UNCHANGED batches
    BY <1>13 DEF CheckRefuses
  <2>2. items' \in [BatchItems -> ItemRows]
    BY <1>4, <2>1 DEF ItemRows
  <2> HIDE DEF left
  <2> QED
    BY <1>2, <1>b, <1>6, <2>1, <2>2
<1> QED
  BY <1>7, <1>8, <1>9, <1>10, <1>11, <1>12, <1>13

(* A run begins with the route that was decided on, and ends with its      *)
(* worker if that dies.                                                    *)
LEMMA GiveKept ==
    ASSUME BatchInv, NEW w \in BatchWorkers, ticks[w].step = "decide", NEW route \in AllRoutes, NEW regular \in BOOLEAN,
           GiveToRun(w, route, regular), UNCHANGED <<items, batches, hour, late, stops>>
    PROVE  BatchInv'
<1>1. PICK r \in BatchRuns :
        /\ jobs[r] = NoJob
        /\ jobs' = [jobs EXCEPT ![r].item = ticks[w].item, ![r].route = route, ![r].step = "going"]
        /\ ticks' = [ticks EXCEPT ![w].step = "wait", ![w].job = r, ![w].regular = regular]
  BY DEF GiveToRun
<1>2. BatchShape /\ GoodTick(ticks[w]) /\ ticks[w].item \in BatchItems /\ GoodJob(jobs[r])
  BY DEF BatchInv, BatchShape, GoodTick
<1> DEFINE j == [jobs[r] EXCEPT !.item = ticks[w].item, !.route = route, !.step = "going"]
           t == [ticks[w] EXCEPT !.step = "wait", !.job = r, !.regular = regular]
<1>3. GoodJob(j) /\ j.step = "going"
  BY <1>2 DEF GoodJob, JobRows
<1>4. GoodTick(t)
  <2>1. r \in 0..MaxBatchRuns
    BY BatchConstants DEF BatchRuns
  <2> QED
    BY <1>2, <2>1 DEF GoodTick, TickRows
<1>5. jobs' = [jobs EXCEPT ![r] = j] /\ ticks' = [ticks EXCEPT ![w] = t]
  BY <1>1
<1> HIDE DEF j, t
<1>6. /\ DOMAIN jobs' = BatchRuns /\ (\A s \in BatchRuns : GoodJob(jobs'[s]))
      /\ (\A s \in BatchRuns \ {r} : jobs'[s] = jobs[s]) /\ jobs'[r] = j
  BY <1>2, <1>3, <1>5, JobMoves
<1>7. BatchShape'
  BY <1>2, <1>4, <1>5, <1>6 DEF BatchShape
<1>8. \A b \in Batches : batches'[b].absorbed >= batches[b].absorbed
  BY <1>2 DEF BatchShape, BatchRows
<1> QED
  BY <1>3, <1>6, <1>7, <1>8, LossKept DEF BatchInv

LEMMA DecideKept == ASSUME BatchInv, NEW w \in BatchWorkers, DecideRun(w) PROVE BatchInv'
<1> DEFINE b == BatchOf[ticks[w].item]
<1>1. CASE Routes(b) # {}
  <2>1. PICK route \in Cheapest(Routes(b)) : GiveToRun(w, route, FALSE)
    BY <1>1 DEF DecideRun
  <2>2. route \in AllRoutes
    BY DEF Cheapest, Routes, AllRoutes
  <2> QED
    BY <2>1, <2>2, GiveKept DEF DecideRun
<1>2. CASE Routes(b) = {}
  <2>1. GiveToRun(w, NoRoute, TRUE) /\ NoRoute \in AllRoutes
    BY <1>2 DEF DecideRun, AllRoutes
  <2> QED
    BY <2>1, GiveKept DEF DecideRun
<1> QED
  BY <1>1, <1>2

LEMMA DeathKept == ASSUME BatchInv, NEW w \in BatchWorkers, WorkerDies(w) PROVE BatchInv'
<1> DEFINE r == ticks[w].job
           j == [jobs[r] EXCEPT !.step = "failed"]
<1>1. BatchShape /\ GoodTick(ticks[w]) /\ r \in BatchRuns /\ GoodJob(jobs[r])
  BY DEF BatchInv, BatchShape, GoodTick, WorkerDies
<1>2. jobs' = [jobs EXCEPT ![r] = j] /\ Idle(w) /\ UNCHANGED <<items, batches, hour, late>>
  BY DEF WorkerDies
<1>3. j.step = "failed"
  BY <1>1 DEF GoodJob, JobRows
<1>4. GoodJob(j)
  BY <1>1 DEF GoodJob, JobRows
<1> HIDE DEF j
<1>5. /\ DOMAIN jobs' = BatchRuns /\ (\A s \in BatchRuns : GoodJob(jobs'[s]))
      /\ (\A s \in BatchRuns \ {r} : jobs'[s] = jobs[s]) /\ jobs'[r] = j
  BY <1>1, <1>2, <1>4, JobMoves
<1>6. DOMAIN ticks' = BatchWorkers /\ \A v \in BatchWorkers : GoodTick(ticks'[v])
  BY <1>1, <1>2, TickEnds
<1>7. stops' \in 0..MaxStops
  BY <1>1, BatchConstants DEF WorkerDies, BatchShape
<1>8. BatchShape'
  BY <1>1, <1>2, <1>5, <1>6, <1>7 DEF BatchShape
<1>9. \A b \in Batches : batches'[b].absorbed >= batches[b].absorbed
  BY <1>1, <1>2 DEF BatchShape, BatchRows
<1> HIDE DEF r
<1> QED
  BY <1>1, <1>3, <1>5, <1>8, <1>9, LossKept DEF BatchInv

LEMMA TimeKept ==
    ASSUME BatchInv, HourPasses \/ (\E b \in Batches : DeadlinePasses(b)) \/ (\E i \in BatchItems : ClaimLapses(i))
    PROVE  BatchInv'
<1>1. UNCHANGED <<batches, ticks, jobs, stops>>
  BY DEF HourPasses, DeadlinePasses, ClaimLapses
<1>2. items' \in [BatchItems -> ItemRows]
  BY DEF BatchInv, BatchShape, ItemRows, HourPasses, DeadlinePasses, ClaimLapses
<1>3. late' \subseteq Batches /\ hour' \in {"peak", "off-peak"}
  BY DEF BatchInv, BatchShape, HourPasses, DeadlinePasses, ClaimLapses
<1> QED
  BY <1>1, <1>2, <1>3, LossSame DEF BatchInv, BatchShape

LEMMA BatchStarts == BatchInit => BatchInv
<1> SUFFICES ASSUME BatchInit PROVE BatchInv
  OBVIOUS
<1>1. GoodTick(NoTick)
  BY BatchConstants DEF GoodTick, TickRows, NoTick
<1>2. GoodJob(NoJob)
  BY DEF GoodJob, JobRows, NoJob, AllRoutes, Prices
<1>3. BatchShape
  BY <1>1, <1>2, BatchConstants DEF BatchInit, BatchShape, ItemRows, BatchRows, Open
<1>4. \A b \in Batches : Paying(b) = {} /\ batches[b].absorbed = 0
  BY DEF BatchInit, Paying, NoJob
<1>5. PICK g : g = Losses
  OBVIOUS
<1>6. Total(g, {}) = 0
  BY TotalEmpty
<1> QED
  BY <1>3, <1>4, <1>5, <1>6 DEF BatchInv, LossTaken

LEMMA BatchKept == BatchInv /\ [BatchNext]_batchVars => BatchInv'
<1> SUFFICES ASSUME BatchInv, [BatchNext]_batchVars PROVE BatchInv'
  OBVIOUS
<1>1. ASSUME NEW w \in BatchWorkers,
             \/ ClaimItem(w) \/ DecideRun(w) \/ DecideWait(w) \/ DecideExpire(w)
             \/ WaitFails(w) \/ WaitRefused(w) \/ WaitAnswered(w)
             \/ ReleaseItem(w) \/ ExpireItem(w) \/ ExpireBatch(w) \/ FinishBatch(w)
             \/ StopEarly(w) \/ WorkerDies(w)
      PROVE  BatchInv'
  BY <1>1, PassKept, DecideKept, DeathKept
<1>2. CASE UNCHANGED batchVars
  BY <1>2, LossSame DEF batchVars, BatchInv, BatchShape
<1> QED
  BY <1>1, <1>2, BatchJobKept, TimeKept DEF BatchNext

(* What capacity.js and the settle check promise together, for any number  *)
(* of workers and of runs.                                                 *)
LEMMA LossFollows == BatchInv => LossIsWritten
<1> SUFFICES ASSUME BatchInv, NEW b \in Batches
             PROVE  MapThenSumSet(Loss, {r \in BatchRuns : jobs[r].step = "charged" /\ jobs[r].item \in InBatch(b)})
                      <= batches[b].absorbed
  BY DEF LossIsWritten
<1> DEFINE paid == {r \in BatchRuns : jobs[r].step = "charged" /\ jobs[r].item \in InBatch(b)}
<1>1. paid \in SUBSET Paying(b) /\ Paying(b) \in SUBSET BatchRuns /\ paid \in SUBSET BatchRuns
  BY DEF Paying
<1> HIDE DEF paid
<1>2. MapThenSumSet(Loss, paid) = Total(Losses, paid)
  BY <1>1, LossesAdd DEF BatchInv
<1>3. PICK g : g = Losses
  OBVIOUS
<1>4. \A r \in Paying(b) : g[r] \in Nat
  BY <1>1, <1>3, LossIs, LossNat DEF Losses, BatchInv, BatchShape
<1>5. IsFiniteSet(Paying(b))
  BY <1>1, BatchRunsAreFinite, FS_Subset
<1>6. Total(g, paid) <= Total(g, Paying(b)) /\ Total(g, paid) \in Nat /\ Total(g, Paying(b)) \in Nat
  BY <1>1, <1>4, <1>5, TotalOfSome, TotalNat
<1>7. Total(g, Paying(b)) <= batches[b].absorbed /\ batches[b].absorbed \in Nat
  BY <1>3 DEF BatchInv, LossTaken, BatchShape, BatchRows
<1> QED
  BY <1>2, <1>3, <1>6, <1>7 DEF paid

(* settleCheck() of batch/service.js: what the charged runs of a batch's   *)
(* items cost beyond their charge is within what the batch says it         *)
(* absorbed, because the loss is written before the settle is asked for,   *)
(* whoever answers late.                                                   *)
THEOREM LossesAreWritten == BatchSpec => [](BatchTypeOK /\ LossIsWritten)
<1>1. BatchInv => BatchTypeOK
  BY DEF BatchInv, BatchShape, BatchTypeOK, GoodTick, ItemRows, BatchRows, TickRows
<1> QED
  BY <1>1, BatchStarts, BatchKept, LossFollows, PTL DEF BatchSpec

---------------------------------------------------------------------------------
(* With one worker an answer stays: whoever is about to write another end  *)
(* on an item works on it since it was open.                               *)
OneWorker == \A v, w \in BatchWorkers : v = w

Undone      == \A w \in BatchWorkers :
    ticks[w].step \in {"decide", "wait", "release", "expire"} => items[ticks[w].item].status # "succeeded"
DoneBatches == \A b \in Batches : batches[b].status = "succeeded" => \A i \in InBatch(b) : items[i].status = "succeeded"

AnswersInv == BatchInv /\ Undone /\ DoneBatches
Answered   == \A i \in BatchItems : items[i].status = "succeeded" => items'[i].status = "succeeded"

(* Steps that leave every status as it is.                                 *)
LEMMA AnswersSame ==
    ASSUME AnswersInv, \A i \in BatchItems : items'[i].status = items[i].status,
           \A b \in Batches : batches'[b].status = "succeeded" => batches[b].status = "succeeded",
           \A w \in BatchWorkers : ticks'[w].step \in {"decide", "wait", "release", "expire"} =>
               \/ ticks[w].step \in {"decide", "wait", "release", "expire"} /\ ticks'[w].item = ticks[w].item
               \/ items[ticks'[w].item].status # "succeeded",
           BatchShape'
    PROVE  Undone' /\ DoneBatches' /\ Answered
<1>1. Answered
  BY DEF Answered
<1>2. Undone'
  BY DEF AnswersInv, Undone, BatchShape, GoodTick
<1>3. DoneBatches'
  BY DEF AnswersInv, DoneBatches, InBatch
<1> QED
  BY <1>1, <1>2, <1>3

(* The worker writes another end on the item it works on.                  *)
LEMMA AnswersMove ==
    ASSUME OneWorker, AnswersInv, BatchShape', NEW w \in BatchWorkers, NEW i \in BatchItems, i = ticks[w].item,
           ticks[w].step \in {"decide", "wait", "release", "expire"},
           \A j \in BatchItems \ {i} : items'[j] = items[j], UNCHANGED batches,
           ticks'[w].step \in {"decide", "wait", "release", "expire"} =>
               ticks'[w].item = i /\ items'[i].status # "succeeded"
    PROVE  Undone' /\ DoneBatches' /\ Answered
<1>1. items[i].status # "succeeded"
  BY DEF AnswersInv, Undone
<1>2. Answered
  BY <1>1 DEF Answered
<1>3. Undone'
  BY DEF Undone, OneWorker
<1>4. DoneBatches'
  BY <1>2 DEF AnswersInv, DoneBatches, Answered, InBatch
<1> QED
  BY <1>2, <1>3, <1>4

LEMMA PassAnswers ==
    ASSUME OneWorker, AnswersInv, BatchInv', NEW w \in BatchWorkers,
           \/ ClaimItem(w) \/ DecideRun(w) \/ DecideWait(w) \/ DecideExpire(w)
           \/ WaitFails(w) \/ WaitRefused(w) \/ WaitAnswered(w)
           \/ ReleaseItem(w) \/ ExpireItem(w) \/ ExpireBatch(w) \/ FinishBatch(w)
           \/ StopEarly(w) \/ WorkerDies(w)
    PROVE  Undone' /\ DoneBatches' /\ Answered
<1> DEFINE i == ticks[w].item
<1>0. /\ BatchInv /\ BatchShape /\ BatchShape' /\ GoodTick(ticks[w])
      /\ ticks[w].step # "idle" => i \in BatchItems
  BY DEF AnswersInv, BatchInv, BatchShape, GoodTick
<1>1. CASE ClaimItem(w)
  <2>1. PICK n \in DOMAIN ItemOrder : /\ Claimable(ItemOrder[n]) /\ UNCHANGED batches
                                      /\ items' = [items EXCEPT ![ItemOrder[n]].by = w]
                                      /\ ticks' = [ticks EXCEPT ![w].step = "decide", ![w].item = ItemOrder[n]]
    BY <1>1 DEF ClaimItem
  <2>2. ItemOrder[n] \in BatchItems
    BY DEF BatchItems, ToSet
  <2>3. \A j \in BatchItems : items'[j].status = items[j].status
    BY <1>0, <2>1 DEF BatchShape, ItemRows
  <2>4. /\ \A v \in BatchWorkers \ {w} : ticks'[v] = ticks[v]
        /\ ticks'[w].item = ItemOrder[n] /\ items[ItemOrder[n]].status # "succeeded"
    BY <1>0, <2>1 DEF BatchShape, GoodTick, TickRows, Claimable, Open
  <2> QED
    BY <1>0, <2>1, <2>3, <2>4, AnswersSame
<1>2. CASE DecideRun(w)
  <2>1. UNCHANGED <<items, batches>> /\ ticks[w].step = "decide"
    BY <1>2 DEF DecideRun
  <2>2. (\A v \in BatchWorkers \ {w} : ticks'[v] = ticks[v]) /\ ticks'[w].item = i
    <3>1. \E route, regular : GiveToRun(w, route, regular)
      BY <1>2 DEF DecideRun
    <3>2. PICK r, regular : ticks' = [ticks EXCEPT ![w].step = "wait", ![w].job = r, ![w].regular = regular]
      BY <3>1 DEF GiveToRun
    <3> QED
      BY <1>0, <3>2 DEF BatchShape, GoodTick, TickRows
  <2> QED
    BY <1>0, <2>1, <2>2, AnswersSame
<1>3. CASE DecideExpire(w)
  <2>1. UNCHANGED <<items, batches>> /\ ticks[w].step = "decide" /\ At(w, "expire")
    BY <1>3 DEF DecideExpire
  <2>2. \A v \in BatchWorkers : ticks'[v].item = ticks[v].item /\ (v # w => ticks'[v] = ticks[v])
    BY <1>0, <2>1, TickMoves
  <2> QED
    BY <1>0, <2>1, <2>2, AnswersSame
<1>4. CASE DecideWait(w) \/ ReleaseItem(w)
  <2>1. /\ ticks[w].step \in {"decide", "release"} /\ items' = Set(i, "waiting") /\ Idle(w) /\ UNCHANGED batches
    BY <1>4 DEF DecideWait, ReleaseItem
  <2>2. \A j \in BatchItems \ {i} : items'[j] = items[j]
    BY <1>0, <2>1, ItemMoves DEF Open
  <2>3. ticks'[w] = NoTick
    BY <1>0, <2>1, TickEnds
  <2> QED
    BY <1>0, <2>1, <2>2, <2>3, AnswersMove DEF NoTick
<1>5. CASE WaitFails(w)
  <2> DEFINE set == Set(i, "failed")
  <2>1. ticks[w].step = "wait" /\ items' = [set EXCEPT ![i].marked = FALSE] /\ At(w, "release") /\ UNCHANGED batches
    BY <1>5 DEF WaitFails
  <2>2. set \in [BatchItems -> ItemRows] /\ set[i].status = "failed" /\ \A j \in BatchItems \ {i} : set[j] = items[j]
    BY <1>0, <2>1, ItemMoves
  <2> HIDE DEF set
  <2>3. items'[i].status = "failed" /\ \A j \in BatchItems \ {i} : items'[j] = items[j]
    BY <1>0, <2>1, <2>2 DEF ItemRows
  <2>4. ticks'[w].item = i
    BY <1>0, <2>1, TickMoves
  <2> QED
    BY <1>0, <2>1, <2>3, <2>4, AnswersMove
<1>6. CASE WaitRefused(w)
  <2>1. PICK move \in {"expire", "release"} :
            ticks[w].step = "wait" /\ items' = Set(i, "waiting") /\ At(w, move) /\ UNCHANGED batches
    BY <1>6 DEF WaitRefused
  <2>2. items'[i].status = "waiting" /\ \A j \in BatchItems \ {i} : items'[j] = items[j]
    BY <1>0, <2>1, ItemMoves DEF Open
  <2>3. ticks'[w].item = i
    BY <1>0, <2>1, TickMoves
  <2> QED
    BY <1>0, <2>1, <2>2, <2>3, AnswersMove
<1>7. CASE WaitAnswered(w)
  <2>1. ticks[w].step = "wait" /\ items' = Set(i, "succeeded") /\ At(w, "finish") /\ UNCHANGED batches
    BY <1>7 DEF WaitAnswered
  <2>2. \A j \in BatchItems \ {i} : items'[j] = items[j]
    BY <1>0, <2>1, ItemMoves
  <2>3. ticks'[w].step = "finish"
    BY <1>0, <2>1, TickMoves
  <2> QED
    BY <1>0, <2>1, <2>2, <2>3, AnswersMove
<1>8. CASE ExpireItem(w)
  <2>1. ticks[w].step = "expire" /\ items' = Set(i, "expired") /\ At(w, "expireBatch") /\ UNCHANGED batches
    BY <1>8 DEF ExpireItem
  <2>2. \A j \in BatchItems \ {i} : items'[j] = items[j]
    BY <1>0, <2>1, ItemMoves
  <2>3. ticks'[w].step = "expireBatch"
    BY <1>0, <2>1, TickMoves
  <2> QED
    BY <1>0, <2>1, <2>2, <2>3, AnswersMove
<1>9. CASE ExpireBatch(w)
  <2>1. /\ UNCHANGED items /\ Idle(w)
        /\ batches' = [batches EXCEPT ![BatchOf[i]].status = IF @ = "queued" THEN "expired" ELSE @]
    BY <1>9 DEF ExpireBatch
  <2>2. \A b \in Batches : batches'[b].status = "succeeded" => batches[b].status = "succeeded"
    BY <1>0, <2>1 DEF BatchShape, BatchRows
  <2>3. (\A v \in BatchWorkers \ {w} : ticks'[v] = ticks[v]) /\ ticks'[w].step = "idle"
    BY <1>0, <2>1, TickEnds DEF NoTick
  <2> QED
    BY <1>0, <2>1, <2>2, <2>3, AnswersSame
<1>10. CASE FinishBatch(w)
  <2> DEFINE b    == BatchOf[i]
             ends == {items[j].status : j \in InBatch(b)}
  <2>1. /\ UNCHANGED items /\ Idle(w)
        /\ \/ UNCHANGED batches
           \/ \E to : batches' = [batches EXCEPT ![b].status = to] /\ to # "succeeded"
           \/ /\ batches' = [batches EXCEPT ![b].status = "succeeded"]
              /\ ends \cap Open = {} /\ "failed" \notin ends /\ "expired" \notin ends
    BY <1>10 DEF FinishBatch
  <2>2. ticks'[w] = NoTick /\ \A v \in BatchWorkers \ {w} : ticks'[v] = ticks[v]
    BY <1>0, <2>1, TickEnds
  <2>3. Undone' /\ Answered
    BY <2>1, <2>2 DEF AnswersInv, Undone, Answered, NoTick
  <2>4. ASSUME ends \cap Open = {}, "failed" \notin ends, "expired" \notin ends
        PROVE  \A j \in InBatch(b) : items[j].status = "succeeded"
    <3> TAKE j \in InBatch(b)
    <3>1. items[j].status \in ends /\ items[j].status \in Open \cup {"succeeded", "failed", "expired"}
      BY <1>0 DEF BatchShape, ItemRows, InBatch
    <3> QED
      BY <2>4, <3>1
  <2> HIDE DEF b, ends
  <2>5. ASSUME NEW c \in Batches, batches'[c].status = "succeeded"
        PROVE  \A j \in InBatch(c) : items[j].status = "succeeded"
    <3>1. CASE batches[c].status = "succeeded"
      BY <3>1 DEF AnswersInv, DoneBatches
    <3>2. CASE batches[c].status # "succeeded"
      BY <1>0, <2>1, <2>4, <2>5, <3>2 DEF BatchShape, BatchRows
    <3> QED
      BY <3>1, <3>2
  <2>6. DoneBatches'
    BY <2>1, <2>5 DEF DoneBatches, InBatch
  <2> QED
    BY <2>3, <2>6
<1>11. CASE StopEarly(w) \/ WorkerDies(w)
  <2>1. UNCHANGED <<items, batches>> /\ Idle(w)
    BY <1>11 DEF StopEarly, WorkerDies
  <2>2. ticks'[w] = NoTick /\ \A v \in BatchWorkers \ {w} : ticks'[v] = ticks[v]
    BY <1>0, <2>1, TickEnds
  <2> QED
    BY <1>0, <2>1, <2>2, AnswersSame DEF NoTick
<1> QED
  BY <1>1, <1>2, <1>3, <1>4, <1>5, <1>6, <1>7, <1>8, <1>9, <1>10, <1>11

(* The runs and the clock write no status.                                 *)
LEMMA OthersAnswer ==
    ASSUME AnswersInv, BatchInv',
           \/ \E r \in BatchRuns :
                \/ JobAnswers(r) \/ JobFails(r) \/ JobSettles(r)
                \/ CheckFits(r) \/ CheckBudget(r) \/ CheckAbsorbs(r) \/ CheckRefuses(r)
           \/ \E b \in Batches : DeadlinePasses(b)
           \/ \E i \in BatchItems : ClaimLapses(i)
           \/ HourPasses
           \/ UNCHANGED batchVars
    PROVE  Undone' /\ DoneBatches' /\ Answered
<1>1. UNCHANGED ticks
  BY DEF JobAnswers, JobFails, JobSettles, CheckFits, CheckBudget, CheckAbsorbs, CheckRefuses, DeadlinePasses, ClaimLapses,
         HourPasses, batchVars
<1>2. items \in [BatchItems -> ItemRows] /\ batches \in [Batches -> BatchRows]
  BY DEF AnswersInv, BatchInv, BatchShape
<1>3. \/ UNCHANGED items
      \/ \E i, n : items' = [items EXCEPT ![i].absorbed = n]
      \/ \E i : items' = [items EXCEPT ![i].marked = TRUE, ![i].absorbed = 0]
      \/ \E i : items' = [items EXCEPT ![i].by = NoItem]
  BY DEF JobAnswers, JobFails, JobSettles, CheckFits, CheckBudget, CheckAbsorbs, CheckRefuses, DeadlinePasses, ClaimLapses,
         HourPasses, batchVars
<1>4. \/ UNCHANGED batches
      \/ \E b, n : batches' = [batches EXCEPT ![b].absorbed = @ + n]
  BY DEF JobAnswers, JobFails, JobSettles, CheckFits, CheckBudget, CheckAbsorbs, CheckRefuses, DeadlinePasses, ClaimLapses,
         HourPasses, batchVars
<1>5. \A i \in BatchItems : items'[i].status = items[i].status
  <2>1. ASSUME NEW i, NEW n, items' = [items EXCEPT ![i].absorbed = n] PROVE \A j \in BatchItems : items'[j].status = items[j].status
    BY <1>2, <2>1 DEF ItemRows
  <2>2. ASSUME NEW i, items' = [items EXCEPT ![i].marked = TRUE, ![i].absorbed = 0]
        PROVE  \A j \in BatchItems : items'[j].status = items[j].status
    <3> SUFFICES ASSUME NEW j \in BatchItems PROVE items'[j].status = items[j].status
      OBVIOUS
    <3> DEFINE new == [items[i] EXCEPT !.marked = TRUE, !.absorbed = 0]
    <3>1. items' = [items EXCEPT ![i] = new]
      BY <2>2
    <3>2. i = j => new.status = items[j].status
      BY <1>2 DEF ItemRows
    <3> HIDE DEF new
    <3> QED
      BY <1>2, <3>1, <3>2
  <2>3. ASSUME NEW i, items' = [items EXCEPT ![i].by = NoItem] PROVE \A j \in BatchItems : items'[j].status = items[j].status
    BY <1>2, <2>3 DEF ItemRows
  <2> QED
    BY <1>3, <2>1, <2>2, <2>3
<1>6. \A b \in Batches : batches'[b].status = batches[b].status
  BY <1>2, <1>4 DEF BatchRows
<1> QED
  BY <1>1, <1>5, <1>6, AnswersSame DEF BatchInv

(* batch/service.js with the one worker it runs with: nothing takes back   *)
(* what was answered, and a batch that says it succeeded has every answer. *)
THEOREM AnswersStay ==
    ASSUME OneWorker
    PROVE  BatchSpec => AnswerStays
<1>1. BatchInit => AnswersInv
  BY BatchStarts DEF BatchInit, AnswersInv, Undone, DoneBatches, NoTick
<1>2. AnswersInv /\ [BatchNext]_batchVars => BatchInv' /\ Undone' /\ DoneBatches' /\ Answered
  <2> SUFFICES ASSUME AnswersInv, [BatchNext]_batchVars PROVE BatchInv' /\ Undone' /\ DoneBatches' /\ Answered
    OBVIOUS
  <2>1. BatchInv'
    BY BatchKept DEF AnswersInv
  <2>2. Undone' /\ DoneBatches' /\ Answered
    BY <2>1, PassAnswers, OthersAnswer DEF BatchNext
  <2> QED
    BY <2>1, <2>2
<1>3. AnswersInv /\ [BatchNext]_batchVars => AnswersInv'
  BY <1>2 DEF AnswersInv
<1>4. AnswersInv /\ [BatchNext]_batchVars =>
        [/\ \A i \in BatchItems : items[i].status = "succeeded" => items'[i].status = "succeeded"
         /\ \A b \in Batches : batches'[b].status = "succeeded" => \A i \in InBatch(b) : items'[i].status = "succeeded"
        ]_batchVars
  BY <1>2 DEF Answered, DoneBatches, InBatch
<1> QED
  BY <1>1, <1>3, <1>4, PTL DEF BatchSpec, AnswerStays

---------------------------------------------------------------------------------
(* The choice of offers.  First what the stages make their lists with:     *)
(* arrangements of a set, filters of a list, and two lists joined.         *)

(* R is a strict order of the members of S, and a total one.               *)
Orders(R, S) ==
    /\ \A x \in S : <<x, x>> \notin R
    /\ \A x, y, z \in S : <<x, y>> \in R /\ <<y, z>> \in R => <<x, z>> \in R
    /\ \A x, y \in S : x # y => <<x, y>> \in R \/ <<y, x>> \in R

(* How many members of S come before x.                                    *)
PlaceOf(x, S, R) == Cardinality({y \in S : <<y, x>> \in R})

LEMMA PlacesGrow ==
    ASSUME NEW S, IsFiniteSet(S), NEW R, Orders(R, S)
    PROVE  /\ \A x \in S : PlaceOf(x, S, R) \in 0..(Cardinality(S) - 1)
           /\ \A x, y \in S : <<x, y>> \in R => PlaceOf(x, S, R) < PlaceOf(y, S, R)
<1> DEFINE Ahead(x) == {y \in S : <<y, x>> \in R}
<1>1. ASSUME NEW x \in S PROVE IsFiniteSet(Ahead(x)) /\ Cardinality(Ahead(x)) \in Nat
  <2>1. Ahead(x) \in SUBSET S
    OBVIOUS
  <2> QED
    BY <2>1, FS_Subset, FS_CardinalityType
<1>2. Cardinality(S) \in Nat
  BY FS_CardinalityType
<1>3. ASSUME NEW x \in S PROVE Cardinality(Ahead(x)) <= Cardinality(S) - 1
  <2>1. Ahead(x) \in SUBSET (S \ {x})
    BY DEF Orders
  <2>2. IsFiniteSet(S \ {x}) /\ Cardinality(S \ {x}) = Cardinality(S) - 1
    BY FS_RemoveElement
  <2> HIDE DEF Ahead
  <2>3. Cardinality(Ahead(x)) <= Cardinality(S \ {x})
    BY <2>1, <2>2, FS_Subset
  <2> QED
    BY <2>2, <2>3
<1>4. ASSUME NEW x \in S, NEW y \in S, <<x, y>> \in R PROVE Cardinality(Ahead(x)) < Cardinality(Ahead(y))
  <2>1. Ahead(x) \in SUBSET (Ahead(y) \ {x})
    BY <1>4 DEF Orders
  <2>2. x \in Ahead(y)
    BY <1>4
  <2> HIDE DEF Ahead
  <2>3. IsFiniteSet(Ahead(y) \ {x}) /\ Cardinality(Ahead(y) \ {x}) = Cardinality(Ahead(y)) - 1
    BY <1>1, <2>2, FS_RemoveElement
  <2>4. Cardinality(Ahead(x)) <= Cardinality(Ahead(y) \ {x})
    BY <2>1, <2>3, FS_Subset
  <2> QED
    BY <1>1, <2>3, <2>4
<1> HIDE DEF Ahead
<1>5. \A x \in S : PlaceOf(x, S, R) = Cardinality(Ahead(x))
  BY DEF PlaceOf, Ahead
<1> QED
  BY <1>1, <1>2, <1>3, <1>4, <1>5

(* Every place is taken, by one member.                                    *)
LEMMA PlacesAreTaken ==
    ASSUME NEW S, IsFiniteSet(S), NEW R, Orders(R, S)
    PROVE  \A k \in 0..(Cardinality(S) - 1) : \E x \in S : PlaceOf(x, S, R) = k
<1> DEFINE n == Cardinality(S)
           f == [x \in S |-> PlaceOf(x, S, R)]
<1>1. n \in Nat
  BY FS_CardinalityType
<1>2. IsFiniteSet(0..(n - 1)) /\ Cardinality(0..(n - 1)) = n
  BY <1>1, FS_Interval
<1>3. f \in [S -> 0..(n - 1)]
  BY PlacesGrow
<1>4. ASSUME NEW x \in S, NEW y \in S, x # y PROVE f[x] # f[y]
  <2>1. f[x] \in 0..(n - 1) /\ f[y] \in 0..(n - 1)
    BY <1>3
  <2>2. f[x] < f[y] \/ f[y] < f[x]
    BY <1>4, PlacesGrow DEF Orders
  <2> QED
    BY <1>1, <2>1, <2>2
<1>5. f \in Injection(S, 0..(n - 1))
  BY <1>3, <1>4 DEF Injection, IsInjective
<1> HIDE DEF f
<1>6. f \in Surjection(S, 0..(n - 1))
  BY <1>2, <1>5, FS_Injection
<1> QED
  BY <1>6 DEF Surjection, f

(* An arrangement has every member at one place, and in order.             *)
LEMMA ArrangedIs ==
    ASSUME NEW S, IsFiniteSet(S), NEW R, Orders(R, S)
    PROVE  /\ Cardinality(S) \in Nat
           /\ Arranged(S, R) \in [1..Cardinality(S) -> S]
           /\ \A x \in S : \E k \in 1..Cardinality(S) : Arranged(S, R)[k] = x
           /\ \A i, j \in 1..Cardinality(S) : i < j => <<Arranged(S, R)[i], Arranged(S, R)[j]>> \in R
<1> DEFINE n == Cardinality(S)
           s == Arranged(S, R)
           at(k) == CHOOSE x \in S : PlaceOf(x, S, R) = k - 1
<1>1. n \in Nat
  BY FS_CardinalityType
<1>2. ASSUME NEW k \in 1..n PROVE at(k) \in S /\ PlaceOf(at(k), S, R) = k - 1
  <2>1. k - 1 \in 0..(n - 1)
    BY <1>1
  <2>2. PICK x \in S : PlaceOf(x, S, R) = k - 1
    BY <2>1, PlacesAreTaken
  <2> QED
    BY <2>2
<1>3. s = [k \in 1..n |-> at(k)]
  BY DEF Arranged, PlaceOf
<1> HIDE DEF s, at
<1>4. \A k \in 1..n : s[k] \in S /\ PlaceOf(s[k], S, R) = k - 1
  BY <1>2, <1>3
<1>5. ASSUME NEW i \in 1..n, NEW j \in 1..n, i < j PROVE <<s[i], s[j]>> \in R
  <2>1. s[i] # s[j] /\ s[i] \in S /\ s[j] \in S
    BY <1>1, <1>4, <1>5
  <2>2. ~(PlaceOf(s[j], S, R) < PlaceOf(s[i], S, R))
    BY <1>1, <1>4, <1>5
  <2> QED
    BY <2>1, <2>2, PlacesGrow DEF Orders
<1>6. ASSUME NEW x \in S PROVE \E k \in 1..n : s[k] = x
  <2>1. PlaceOf(x, S, R) \in 0..(n - 1)
    BY PlacesGrow
  <2>2. PICK k \in 1..n : k - 1 = PlaceOf(x, S, R)
    <3> DEFINE k == PlaceOf(x, S, R) + 1
    <3>1. k \in 1..n /\ k - 1 = PlaceOf(x, S, R)
      BY <1>1, <2>1
    <3> QED
      BY <3>1
  <2>3. s[k] \in S /\ PlaceOf(s[k], S, R) = PlaceOf(x, S, R)
    BY <1>4, <2>2
  <2>4. s[k] # x => <<s[k], x>> \in R \/ <<x, s[k]>> \in R
    BY <2>3 DEF Orders
  <2>5. s[k] = x
    BY <1>1, <2>1, <2>3, <2>4, PlacesGrow
  <2> QED
    BY <2>5
<1>7. s \in [1..n -> S]
  BY <1>2, <1>3
<1> QED
  BY <1>1, <1>5, <1>6, <1>7 DEF s

---------------------------------------------------------------------------------
(* Lists.                                                                  *)

Distinct(list) == \A i, j \in DOMAIN list : list[i] = list[j] => i = j

(* No pair of ahead stands the other way round in the list.                *)
InOrder(list, ahead) == \A i, j \in DOMAIN list : i < j => <<list[j], list[i]>> \notin ahead

(* The order of the positions of a list is one.                            *)
LEMMA PositionsAreOrdered ==
    ASSUME NEW M, NEW list \in Seq(M), NEW places \in SUBSET DOMAIN list
    PROVE  IsFiniteSet(places) /\ Orders({p \in places \X places : p[1] < p[2]}, places)
<1>1. DOMAIN list = 1..Len(list) /\ Len(list) \in Nat
  OBVIOUS
<1>2. IsFiniteSet(1..Len(list))
  BY <1>1, FS_Interval
<1>3. IsFiniteSet(places)
  BY <1>1, <1>2, FS_Subset
<1>4. \A x, y \in places : <<x, y>> \in {p \in places \X places : p[1] < p[2]} <=> x < y
  OBVIOUS
<1>5. places \subseteq Int
  BY <1>1
<1> QED
  BY <1>3, <1>4, <1>5 DEF Orders

(* What a filter keeps: the members it is for, each where it was.          *)
LEMMA KeptIs ==
    ASSUME NEW M, NEW list \in Seq(M), NEW keep
    PROVE  /\ Kept(list, keep) \in Seq(M)
           /\ ToSet(Kept(list, keep)) = ToSet(list) \cap keep
           /\ \A i, j \in DOMAIN Kept(list, keep) : i < j =>
                 \E k, l \in DOMAIN list : k < l /\ list[k] = Kept(list, keep)[i] /\ list[l] = Kept(list, keep)[j]
<1> DEFINE places == {i \in DOMAIN list : list[i] \in keep}
           R      == {p \in places \X places : p[1] < p[2]}
           order  == Arranged(places, R)
           n      == Cardinality(places)
           kept   == Kept(list, keep)
<1>1. places \in SUBSET DOMAIN list
  OBVIOUS
<1>2. IsFiniteSet(places) /\ Orders(R, places)
  BY <1>1, PositionsAreOrdered
<1>3. kept = [k \in DOMAIN order |-> list[order[k]]]
  BY DEF Kept
<1>4. \A x, y \in places : <<x, y>> \in R => x < y
  OBVIOUS
<1>5. \A x \in places : x \in DOMAIN list /\ list[x] \in M /\ list[x] \in keep
  OBVIOUS
<1>6. \A x \in DOMAIN list : list[x] \in keep => x \in places
  OBVIOUS
<1> HIDE DEF places, R, order, n, kept
<1>7. /\ n \in Nat /\ order \in [1..n -> places]
      /\ \A x \in places : \E k \in 1..n : order[k] = x
      /\ \A i, j \in 1..n : i < j => <<order[i], order[j]>> \in R
  BY <1>2, ArrangedIs DEF order, n
<1>8. DOMAIN kept = 1..n /\ \A k \in 1..n : kept[k] = list[order[k]] /\ order[k] \in places
  BY <1>3, <1>7
<1>9. kept \in [1..n -> M]
  BY <1>3, <1>5, <1>7
<1>10. kept \in Seq(M)
  BY <1>7, <1>9
<1>11. ToSet(kept) = ToSet(list) \cap keep
  <2>1. ASSUME NEW x \in ToSet(kept) PROVE x \in ToSet(list) /\ x \in keep
    BY <1>5, <1>8 DEF ToSet
  <2>2. ASSUME NEW x \in ToSet(list), x \in keep PROVE x \in ToSet(kept)
    <3>1. PICK i \in DOMAIN list : list[i] = x
      BY DEF ToSet
    <3>2. PICK k \in 1..n : order[k] = i
      BY <1>6, <1>7, <2>2, <3>1
    <3> QED
      BY <1>8, <3>1, <3>2 DEF ToSet
  <2> QED
    BY <2>1, <2>2
<1>12. ASSUME NEW i \in DOMAIN kept, NEW j \in DOMAIN kept, i < j
       PROVE  \E k, l \in DOMAIN list : k < l /\ list[k] = kept[i] /\ list[l] = kept[j]
  <2>1. order[i] < order[j] /\ order[i] \in DOMAIN list /\ order[j] \in DOMAIN list
    BY <1>4, <1>5, <1>7, <1>8, <1>12
  <2> QED
    BY <1>8, <2>1
<1> QED
  BY <1>10, <1>11, <1>12 DEF kept

(* A filter keeps every order, and repeats nothing.                        *)
LEMMA KeptKeeps ==
    ASSUME NEW M, NEW list \in Seq(M), NEW keep
    PROVE  /\ Distinct(list) => Distinct(Kept(list, keep))
           /\ \A ahead : InOrder(list, ahead) => InOrder(Kept(list, keep), ahead)
<1> DEFINE kept == Kept(list, keep)
<1>1. /\ kept \in Seq(M)
      /\ \A i, j \in DOMAIN kept : i < j =>
            \E k, l \in DOMAIN list : k < l /\ list[k] = kept[i] /\ list[l] = kept[j]
  BY KeptIs
<1> HIDE DEF kept
<1>2. DOMAIN kept \subseteq Nat /\ DOMAIN list \subseteq Nat
  BY <1>1
<1>3. ASSUME Distinct(list), NEW i \in DOMAIN kept, NEW j \in DOMAIN kept, kept[i] = kept[j], i < j PROVE FALSE
  <2>1. PICK k \in DOMAIN list, l \in DOMAIN list : k < l /\ list[k] = kept[i] /\ list[l] = kept[j]
    BY <1>1, <1>3
  <2> QED
    BY <1>2, <1>3, <2>1 DEF Distinct
<1>4. Distinct(list) => Distinct(kept)
  <2>1. ASSUME Distinct(list), NEW i \in DOMAIN kept, NEW j \in DOMAIN kept, kept[i] = kept[j] PROVE i = j
    <3>1. i < j \/ j < i \/ i = j
      BY <1>2
    <3> QED
      BY <1>3, <2>1, <3>1
  <2> QED
    BY <2>1 DEF Distinct
<1>5. ASSUME NEW ahead, InOrder(list, ahead) PROVE InOrder(kept, ahead)
  <2>1. ASSUME NEW i \in DOMAIN kept, NEW j \in DOMAIN kept, i < j PROVE <<kept[j], kept[i]>> \notin ahead
    <3>1. PICK k \in DOMAIN list, l \in DOMAIN list : k < l /\ list[k] = kept[i] /\ list[l] = kept[j]
      BY <1>1, <2>1
    <3> QED
      BY <1>5, <3>1 DEF InOrder
  <2> QED
    BY <2>1 DEF InOrder
<1> QED
  BY <1>4, <1>5 DEF kept

LEMMA JoinedIs ==
    ASSUME NEW M, NEW s \in Seq(M), NEW t \in Seq(M)
    PROVE  /\ s \o t \in Seq(M) /\ ToSet(s \o t) = ToSet(s) \cup ToSet(t)
           /\ (\A x \in ToSet(s) : x \notin ToSet(t)) /\ Distinct(s) /\ Distinct(t) => Distinct(s \o t)
           /\ \A ahead : /\ InOrder(s, ahead) /\ InOrder(t, ahead)
                         /\ \A x \in ToSet(s), y \in ToSet(t) : <<y, x>> \notin ahead
                         => InOrder(s \o t, ahead)
<1> DEFINE u == s \o t
           m == Len(s)
           n == Len(t)
<1>1. /\ u \in Seq(M) /\ DOMAIN u = 1..(m + n) /\ DOMAIN s = 1..m /\ DOMAIN t = 1..n /\ m \in Nat /\ n \in Nat
      /\ \A i \in 1..(m + n) : u[i] = IF i <= m THEN s[i] ELSE t[i - m]
  OBVIOUS
<1> HIDE DEF u, m, n
<1>2. \A i \in DOMAIN u : IF i <= m THEN i \in DOMAIN s /\ u[i] = s[i] /\ s[i] \in ToSet(s)
                          ELSE i - m \in DOMAIN t /\ u[i] = t[i - m] /\ t[i - m] \in ToSet(t)
  BY <1>1 DEF ToSet
<1>3. ToSet(u) = ToSet(s) \cup ToSet(t)
  <2>1. \A x \in ToSet(u) : x \in ToSet(s) \/ x \in ToSet(t)
    BY <1>2 DEF ToSet
  <2>2. \A x \in ToSet(s) : x \in ToSet(u)
    BY <1>1 DEF ToSet
  <2>3. ASSUME NEW x \in ToSet(t) PROVE x \in ToSet(u)
    <3>1. PICK i \in DOMAIN t : t[i] = x
      BY DEF ToSet
    <3>2. i + m \in DOMAIN u /\ u[i + m] = x
      BY <1>1, <3>1
    <3> QED
      BY <3>2 DEF ToSet
  <2> QED
    BY <2>1, <2>2, <2>3
<1>4. ASSUME \A x \in ToSet(s) : x \notin ToSet(t), Distinct(s), Distinct(t) PROVE Distinct(u)
  <2>1. ASSUME NEW i \in DOMAIN u, NEW j \in DOMAIN u, u[i] = u[j] PROVE i = j
    <3>1. i \in Int /\ j \in Int /\ (i <= m <=> j <= m)
      BY <1>1, <1>2, <1>4, <2>1
    <3>2. CASE i <= m
      BY <1>2, <1>4, <2>1, <3>1, <3>2 DEF Distinct
    <3>3. CASE ~(i <= m)
      <4>1. i - m = j - m
        BY <1>2, <1>4, <2>1, <3>1, <3>3 DEF Distinct
      <4> QED
        BY <1>1, <3>1, <4>1
    <3> QED
      BY <3>2, <3>3
  <2> QED
    BY <2>1 DEF Distinct
<1>5. ASSUME NEW ahead, InOrder(s, ahead), InOrder(t, ahead), \A x \in ToSet(s), y \in ToSet(t) : <<y, x>> \notin ahead
      PROVE  InOrder(u, ahead)
  <2>1. ASSUME NEW i \in DOMAIN u, NEW j \in DOMAIN u, i < j PROVE <<u[j], u[i]>> \notin ahead
    <3>1. i \in Int /\ j \in Int
      BY <1>1
    <3>2. CASE j <= m
      <4>1. i <= m
        BY <1>1, <2>1, <3>1, <3>2
      <4> QED
        BY <1>2, <1>5, <2>1, <3>2, <4>1 DEF InOrder
    <3>3. CASE ~(i <= m)
      <4>1. ~(j <= m) /\ i - m < j - m
        BY <1>1, <2>1, <3>1, <3>3
      <4> QED
        BY <1>2, <1>5, <3>3, <4>1 DEF InOrder
    <3>4. CASE i <= m /\ ~(j <= m)
      BY <1>2, <1>5, <3>4
    <3> QED
      BY <3>2, <3>3, <3>4
  <2> QED
    BY <2>1 DEF InOrder
<1> QED
  BY <1>1, <1>3, <1>4, <1>5 DEF u

LEMMA OneIsInOrder ==
    ASSUME NEW M, NEW x \in M
    PROVE  /\ <<x>> \in Seq(M) /\ ToSet(<<x>>) = {x} /\ Distinct(<<x>>) /\ \A ahead : InOrder(<<x>>, ahead)
           /\ <<>> \in Seq(M) /\ ToSet(<<>>) = {} /\ Distinct(<<>>) /\ \A ahead : InOrder(<<>>, ahead)
BY DEF ToSet, Distinct, InOrder

LEMMA JoinedToNone ==
    ASSUME NEW M, NEW list \in Seq(M)
    PROVE  /\ <<>> \o list = list /\ list \o <<>> = list /\ <<>> \in Seq(M) /\ ToSet(<<>>) = {}
           /\ \A ahead : InOrder(<<>>, ahead)
<1>1. /\ list \in [1..Len(list) -> M] /\ <<>> \o list \in [1..Len(list) -> M] /\ list \o <<>> \in [1..Len(list) -> M]
      /\ \A i \in 1..Len(list) : (<<>> \o list)[i] = list[i] /\ (list \o <<>>)[i] = list[i]
  OBVIOUS
<1> QED
  BY <1>1 DEF ToSet, InOrder

(* A list without repetition is as long as the set of its members.         *)
LEMMA DistinctCounts ==
    ASSUME NEW M, NEW list \in Seq(M), Distinct(list)
    PROVE  Len(list) = Cardinality(ToSet(list)) /\ IsFiniteSet(ToSet(list))
<1>0. DOMAIN list = 1..Len(list) /\ Len(list) \in Nat
  OBVIOUS
<1>1. IsFiniteSet(1..Len(list)) /\ Cardinality(1..Len(list)) = Len(list)
  BY <1>0, FS_Interval
<1>2. list \in Bijection(1..Len(list), ToSet(list))
  BY <1>0 DEF Bijection, Injection, Surjection, IsInjective, ToSet, Distinct
<1>3. ExistsBijection(1..Len(list), ToSet(list))
  BY <1>2 DEF ExistsBijection
<1> QED
  BY <1>0, <1>1, <1>3, FS_Bijection

(* To take the first of the rest away keeps every order, and so does to    *)
(* move it over to the first part.                                         *)
LEMMA DroppedIs ==
    ASSUME NEW M, NEW s \in Seq(M), NEW t \in Seq(M), t # <<>>
    PROVE  /\ Head(t) \in ToSet(t) /\ Tail(t) \in Seq(M) /\ ToSet(t) = {Head(t)} \cup ToSet(Tail(t))
           /\ Append(s, Head(t)) \in Seq(M) /\ ToSet(Append(s, Head(t))) = ToSet(s) \cup {Head(t)}
           /\ Append(s, Head(t)) \o Tail(t) = s \o t
           /\ Distinct(s \o t) => Distinct(s \o Tail(t))
           /\ \A ahead : InOrder(s \o t, ahead) => InOrder(s \o Tail(t), ahead)
<1> DEFINE u == s \o t
           v == s \o Tail(t)
           m == Len(s)
           n == Len(t)
           from(i) == IF i <= m THEN i ELSE i + 1
<1>1. /\ m \in Nat /\ n \in Nat \ {0} /\ u \in Seq(M) /\ DOMAIN u = 1..(m + n)
      /\ \A i \in 1..(m + n) : u[i] = IF i <= m THEN s[i] ELSE t[i - m]
  OBVIOUS
<1>2. /\ v \in Seq(M) /\ DOMAIN v = 1..(m + n - 1) /\ Tail(t) \in Seq(M)
      /\ \A i \in 1..(m + n - 1) : v[i] = IF i <= m THEN s[i] ELSE t[i - m + 1]
  OBVIOUS
<1>3. Head(t) = t[1] /\ DOMAIN t = 1..n /\ DOMAIN Tail(t) = 1..(n - 1) /\ \A i \in 1..(n - 1) : Tail(t)[i] = t[i + 1]
  OBVIOUS
<1>4. Append(s, Head(t)) \o Tail(t) = s \o t
  OBVIOUS
<1>5. Append(s, Head(t)) \in Seq(M) /\ ToSet(Append(s, Head(t))) = ToSet(s) \cup {Head(t)}
  <2>1. /\ Append(s, Head(t)) \in Seq(M) /\ DOMAIN Append(s, Head(t)) = 1..(m + 1) /\ DOMAIN s = 1..m
        /\ \A i \in 1..(m + 1) : Append(s, Head(t))[i] = IF i <= m THEN s[i] ELSE Head(t)
    OBVIOUS
  <2> HIDE DEF m, n
  <2>2. ASSUME NEW x \in ToSet(Append(s, Head(t))) PROVE x \in ToSet(s) \/ x = Head(t)
    <3>1. PICK i \in 1..(m + 1) : Append(s, Head(t))[i] = x
      BY <2>1 DEF ToSet
    <3>2. i <= m => i \in DOMAIN s
      BY <1>1, <2>1
    <3> QED
      BY <2>1, <3>1, <3>2 DEF ToSet
  <2>3. \A x \in ToSet(s) : x \in ToSet(Append(s, Head(t)))
    BY <1>1, <2>1 DEF ToSet
  <2>4. m + 1 \in 1..(m + 1) /\ ~(m + 1 <= m)
    BY <1>1
  <2>5. Head(t) \in ToSet(Append(s, Head(t)))
    BY <2>1, <2>4 DEF ToSet
  <2> QED
    BY <2>1, <2>2, <2>3, <2>5
<1> HIDE DEF u, v, m, n
<1>6. Head(t) \in ToSet(t) /\ ToSet(t) = {Head(t)} \cup ToSet(Tail(t))
  <2>1. Head(t) \in ToSet(t)
    BY <1>1, <1>3 DEF ToSet
  <2>2. ASSUME NEW x \in ToSet(t), x # Head(t) PROVE x \in ToSet(Tail(t))
    <3>1. PICK i \in 1..n : t[i] = x
      BY <1>3 DEF ToSet
    <3>2. i - 1 \in 1..(n - 1) /\ (i - 1) + 1 = i
      BY <1>1, <1>3, <2>2, <3>1
    <3> QED
      BY <1>3, <3>1, <3>2 DEF ToSet
  <2>3. ASSUME NEW x \in ToSet(Tail(t)) PROVE x \in ToSet(t)
    <3>1. PICK i \in 1..(n - 1) : t[i + 1] = x
      BY <1>3 DEF ToSet
    <3>2. i + 1 \in 1..n
      BY <1>1, <3>1
    <3> QED
      BY <1>3, <3>1, <3>2 DEF ToSet
  <2> QED
    BY <2>1, <2>2, <2>3
<1>7. \A i \in DOMAIN v : from(i) \in DOMAIN u /\ u[from(i)] = v[i]
  <2> SUFFICES ASSUME NEW i \in DOMAIN v PROVE from(i) \in DOMAIN u /\ u[from(i)] = v[i]
    OBVIOUS
  <2>1. i \in 1..(m + n - 1) /\ from(i) \in 1..(m + n) /\ (from(i) <= m <=> i <= m)
    BY <1>1, <1>2
  <2>2. ~(i <= m) => from(i) - m = i - m + 1
    BY <1>1, <2>1
  <2> QED
    BY <1>1, <1>2, <2>1, <2>2
<1>8. \A i, j \in DOMAIN v : (i < j => from(i) < from(j)) /\ (from(i) = from(j) => i = j)
  BY <1>1, <1>2
<1> HIDE DEF from
<1>9. Distinct(u) => Distinct(v)
  BY <1>7, <1>8 DEF Distinct
<1>10. \A ahead : InOrder(u, ahead) => InOrder(v, ahead)
  BY <1>7, <1>8 DEF InOrder
<1> QED
  BY <1>2, <1>4, <1>5, <1>6, <1>9, <1>10 DEF u, v

---------------------------------------------------------------------------------
(* The first mark that differs decides.                                    *)

Lower(a, b) == \E i \in DOMAIN a : a[i] < b[i] /\ \A j \in 1..(i - 1) : a[j] = b[j]

LEMMA LowerOrders ==
    ASSUME NEW n \in Nat, NEW S, NEW f, \A x \in S : f[x] \in [1..n -> Nat],
           \A x, y \in S : x # y => f[x] # f[y]
    PROVE  /\ \A x \in S : ~Lower(f[x], f[x])
           /\ \A x, y, z \in S : Lower(f[x], f[y]) /\ Lower(f[y], f[z]) => Lower(f[x], f[z])
           /\ \A x, y \in S : x # y => Lower(f[x], f[y]) \/ Lower(f[y], f[x])
<1>1. \A x \in S : ~Lower(f[x], f[x])
  BY DEF Lower
<1>2. ASSUME NEW x \in S, NEW y \in S, NEW z \in S, Lower(f[x], f[y]), Lower(f[y], f[z]) PROVE Lower(f[x], f[z])
  <2>1. PICK i \in 1..n : f[x][i] < f[y][i] /\ \A k \in 1..(i - 1) : f[x][k] = f[y][k]
    BY <1>2 DEF Lower
  <2>2. PICK j \in 1..n : f[y][j] < f[z][j] /\ \A k \in 1..(j - 1) : f[y][k] = f[z][k]
    BY <1>2 DEF Lower
  <2>3. PICK k \in 1..n : k <= i /\ k <= j /\ (k = i \/ k = j)
    <3>1. i <= j \/ j <= i
      BY <2>1, <2>2
    <3>2. CASE i <= j
      <4>1. i \in 1..n /\ i <= i
        BY <2>1
      <4> QED
        BY <3>2, <4>1, Zenon
    <3>3. CASE j <= i
      <4>1. j \in 1..n /\ j <= j
        BY <2>2
      <4> QED
        BY <3>3, <4>1, Zenon
    <3> QED
      BY <3>1, <3>2, <3>3
  <2>4. f[x][k] \in Nat /\ f[y][k] \in Nat /\ f[z][k] \in Nat
    BY <2>3
  <2>5. f[x][k] <= f[y][k] /\ f[y][k] <= f[z][k] /\ (f[x][k] < f[y][k] \/ f[y][k] < f[z][k])
    <3>1. k < i => k \in 1..(i - 1)
      BY <2>1, <2>3
    <3>2. k < j => k \in 1..(j - 1)
      BY <2>2, <2>3
    <3>3. k = i \/ k < i
      BY <2>1, <2>3
    <3>4. k = j \/ k < j
      BY <2>2, <2>3
    <3>5. f[x][k] <= f[y][k] /\ (k = i => f[x][k] < f[y][k])
      BY <2>1, <2>4, <3>1, <3>3
    <3>6. f[y][k] <= f[z][k] /\ (k = j => f[y][k] < f[z][k])
      BY <2>2, <2>4, <3>2, <3>4
    <3> QED
      BY <2>3, <3>5, <3>6
  <2>6. f[x][k] < f[z][k]
    BY <2>4, <2>5
  <2>7. \A l \in 1..(k - 1) : l \in 1..(i - 1) /\ l \in 1..(j - 1)
    BY <2>1, <2>2, <2>3
  <2>8. \A l \in 1..(k - 1) : f[x][l] = f[z][l]
    BY <2>1, <2>2, <2>7
  <2> QED
    BY <2>3, <2>6, <2>8 DEF Lower
<1>3. ASSUME NEW x \in S, NEW y \in S, x # y PROVE Lower(f[x], f[y]) \/ Lower(f[y], f[x])
  <2> DEFINE D == {i \in 1..n : f[x][i] # f[y][i]}
  <2>1. f[x] \in [1..n -> Nat] /\ f[y] \in [1..n -> Nat] /\ f[x] # f[y]
    BY <1>3
  <2>2. D \subseteq Nat /\ D # {}
    <3>1. ASSUME D = {} PROVE f[x] = f[y]
      <4>1. \A i \in 1..n : f[x][i] = f[y][i]
        BY <3>1
      <4> QED
        BY <2>1, <4>1
    <3> QED
      BY <2>1, <3>1
  <2>3. PICK i \in D : \A k \in D : i <= k
    BY <2>2, LeastIn
  <2>4. i \in 1..n /\ f[x][i] \in Nat /\ f[y][i] \in Nat /\ f[x][i] # f[y][i]
    BY <2>1, <2>3
  <2>5. ASSUME NEW k \in 1..(i - 1) PROVE f[x][k] = f[y][k]
    <3>1. k \in 1..n /\ ~(i <= k)
      BY <2>4
    <3> QED
      BY <2>3, <3>1
  <2>6. f[x][i] < f[y][i] \/ f[y][i] < f[x][i]
    BY <2>4
  <2> QED
    BY <2>1, <2>4, <2>5, <2>6 DEF Lower
<1> QED
  BY <1>1, <1>2, <1>3

(* The marks put the offers of a menu in one order.                        *)
MenuIsList == ask \in Asks /\ menu \in Seq(MenuOffers) /\ Distinct(menu)

LEMMA MarksAreNumbers ==
    ASSUME ChoiceConstants, MenuIsList, NEW o \in ToSet(menu)
    PROVE  /\ Marks(o) \in [1..9 -> Nat]
           /\ Marks(o)[9] \in DOMAIN menu /\ menu[Marks(o)[9]] = o
<1>1. PICK p \in DOMAIN menu : menu[p] = o
  BY DEF ToSet
<1> DEFINE at == CHOOSE i \in DOMAIN menu : menu[i] = o
<1>2. at \in DOMAIN menu /\ menu[at] = o /\ at \in Nat
  <2>1. DOMAIN menu \subseteq Nat
    BY DEF MenuIsList
  <2> QED
    BY <1>1, <2>1
<1>3. o \in MenuOffers
  BY <1>1 DEF MenuIsList
<1>4. Facts[o].tier \in 0..3 /\ Facts[o].latency \in Nat /\ Facts[o].in \in Nat
  BY <1>3 DEF ChoiceConstants
<1>5. 3 - Facts[o].tier \in Nat
  BY <1>4
<1>6. Effective(o) \in Nat
  <2>1. AtWarm(o) \in Nat /\ InPrice(o) \in Nat
    BY <1>4 DEF AtWarm, InPrice
  <2> QED
    BY <2>1 DEF Effective, Beyond
<1>7. \A yes : Zero(yes) \in Nat
  BY DEF Zero
<1> HIDE DEF at
<1> DEFINE m1 == Zero(o = Authority /\ ask.alias \in {"none", "auto"})
           m2 == Zero(o = ask.usual)
           m3 == IF Objective = "cheapest" THEN Effective(o) ELSE 0
           m4 == IF Objective = "fastest" THEN Facts[o].latency ELSE 0
           m5 == IF ask.heavy \/ ask.freeFirst = "off" THEN 3 - Facts[o].tier ELSE 0
           m6 == Effective(o)
           m7 == 3 - Facts[o].tier
           m8 == Facts[o].latency
<1>8. Marks(o) = <<m1, m2, m3, m4, m5, m6, m7, m8, at>>
  BY DEF Marks, at
<1>9. m1 \in Nat /\ m2 \in Nat /\ m3 \in Nat /\ m4 \in Nat /\ m5 \in Nat /\ m6 \in Nat /\ m7 \in Nat /\ m8 \in Nat
  BY <1>4, <1>5, <1>6, <1>7
<1> HIDE DEF m1, m2, m3, m4, m5, m6, m7, m8
<1> QED
  BY <1>2, <1>8, <1>9

LEMMA BeforeOrders ==
    ASSUME ChoiceConstants, MenuIsList, NEW S \in SUBSET ToSet(menu), NEW R,
           \A x, y \in S : <<x, y>> \in R <=> Before(x, y)
    PROVE  Orders(R, S)
<1> DEFINE f == [o \in S |-> Marks(o)]
<1>1. \A x \in S : f[x] \in [1..9 -> Nat] /\ f[x] = Marks(x) /\ f[x][9] \in DOMAIN menu /\ menu[f[x][9]] = x
  BY MarksAreNumbers
<1> HIDE DEF f
<1>2. \A x, y \in S : x # y => f[x] # f[y]
  BY <1>1
<1>3. \A x, y \in S : <<x, y>> \in R <=> Lower(f[x], f[y])
  <2> SUFFICES ASSUME NEW x \in S, NEW y \in S PROVE Before(x, y) <=> Lower(f[x], f[y])
    OBVIOUS
  <2>1. f[x] = Marks(x) /\ f[y] = Marks(y)
    BY <1>1
  <2> QED
    BY <2>1 DEF Before, Lower
<1>4. /\ \A x \in S : ~Lower(f[x], f[x])
      /\ \A x, y, z \in S : Lower(f[x], f[y]) /\ Lower(f[y], f[z]) => Lower(f[x], f[z])
      /\ \A x, y \in S : x # y => Lower(f[x], f[y]) \/ Lower(f[y], f[x])
  <2>1. 9 \in Nat /\ \A x \in S : f[x] \in [1..9 -> Nat]
    BY <1>1
  <2> QED
    BY <1>2, <2>1, LowerOrders
<1> QED
  BY <1>3, <1>4 DEF Orders

LEMMA LowerStarts ==
    ASSUME NEW a, NEW b, a \in [1..9 -> Nat], b \in [1..9 -> Nat], Lower(a, b)
    PROVE  /\ a[1] <= b[1]
           /\ a[1] = b[1] => a[2] <= b[2]
           /\ a[1] = b[1] /\ a[2] = b[2] => a[3] <= b[3]
           /\ a[1] = b[1] /\ a[2] = b[2] /\ a[3] = b[3] => a[4] <= b[4]
           /\ a[1] = b[1] /\ a[2] = b[2] /\ a[3] = b[3] /\ a[4] = b[4] => a[5] <= b[5]
           /\ a[1] = b[1] /\ a[2] = b[2] /\ a[3] = b[3] /\ a[4] = b[4] /\ a[5] = b[5] => a[6] <= b[6]
<1>1. PICK i \in 1..9 : a[i] < b[i] /\ \A j \in 1..(i - 1) : a[j] = b[j]
  BY DEF Lower
<1>2. \A k \in 1..9 : a[k] \in Nat /\ b[k] \in Nat /\ (k < i => a[k] = b[k])
  BY <1>1
<1>3. \A k \in 1..9 : (k <= i => a[k] <= b[k]) /\ (a[k] # b[k] => i <= k)
  BY <1>1, <1>2
<1>4. \A k \in 1..9 : i < k => \E j \in 1..(k - 1) : a[j] # b[j]
  BY <1>1, <1>2
<1>5. /\ 1 \in 1..9 /\ 2 \in 1..9 /\ 3 \in 1..9 /\ 4 \in 1..9 /\ 5 \in 1..9 /\ 6 \in 1..9
  OBVIOUS
<1>6. ASSUME NEW k \in 1..9, \A j \in 1..(k - 1) : a[j] = b[j] PROVE a[k] <= b[k]
  BY <1>1, <1>3, <1>4, <1>6
<1>7. a[1] <= b[1]
  BY <1>5, <1>6
<1>8. ASSUME a[1] = b[1] PROVE a[2] <= b[2]
  BY <1>5, <1>6, <1>8
<1>9. ASSUME a[1] = b[1], a[2] = b[2] PROVE a[3] <= b[3]
  BY <1>5, <1>6, <1>9
<1>10. ASSUME a[1] = b[1], a[2] = b[2], a[3] = b[3] PROVE a[4] <= b[4]
  BY <1>5, <1>6, <1>10
<1>11. ASSUME a[1] = b[1], a[2] = b[2], a[3] = b[3], a[4] = b[4] PROVE a[5] <= b[5]
  BY <1>5, <1>6, <1>11
<1>12. ASSUME a[1] = b[1], a[2] = b[2], a[3] = b[3], a[4] = b[4], a[5] = b[5] PROVE a[6] <= b[6]
  BY <1>5, <1>6, <1>12
<1> QED
  BY <1>7, <1>8, <1>9, <1>10, <1>11, <1>12

(* What comes first by the marks is not the worse one of two that may      *)
(* serve.                                                                  *)
LEMMA FirstIsNotLed ==
    ASSUME ChoiceConstants, MenuIsList, NEW a \in ToSet(menu), NEW b \in ToSet(menu), a # b,
           a # Stub, a \in fit, b # Stub, b \in fit, MayServe(a), MayServe(b), Before(b, a)
    PROVE  ~Leads(a, b)
<1> DEFINE cost(o) == AtWarm(o) * InPrice(o)
<1>1. \A o \in {a, b} : /\ Facts[o].tier \in 0..3 /\ Facts[o].latency \in Nat /\ Facts[o].in \in Nat
  BY DEF ToSet, MenuIsList, ChoiceConstants
<1>2. \A o \in {a, b} : cost(o) \in Nat
  <2> SUFFICES ASSUME NEW o \in {a, b} PROVE cost(o) \in Nat
    OBVIOUS
  <2>1. AtWarm(o) \in Nat /\ InPrice(o) \in Nat
    BY <1>1 DEF AtWarm, InPrice
  <2> QED
    BY <2>1
<1>3. \A o \in {a, b} : Effective(o) = cost(o)
  BY DEF Effective, MayServe
<1>4. \A o \in {a, b} :
        /\ Marks(o)[1] = Zero(o = Authority /\ ask.alias \in {"none", "auto"})
        /\ Marks(o)[2] = Zero(o = ask.usual)
        /\ Marks(o)[3] = IF Objective = "cheapest" THEN Effective(o) ELSE 0
        /\ Marks(o)[4] = IF Objective = "fastest" THEN Facts[o].latency ELSE 0
        /\ Marks(o)[5] = IF ask.heavy \/ ask.freeFirst = "off" THEN 3 - Facts[o].tier ELSE 0
        /\ Marks(o)[6] = Effective(o)
  BY DEF Marks
<1> DEFINE x == Marks(b)
           y == Marks(a)
<1>5. x \in [1..9 -> Nat] /\ y \in [1..9 -> Nat]
  BY MarksAreNumbers
<1>6. Lower(x, y)
  BY DEF Before, Lower
<1> HIDE DEF x, y, cost
<1>7. /\ x[1] <= y[1]
      /\ x[1] = y[1] => x[2] <= y[2]
      /\ x[1] = y[1] /\ x[2] = y[2] => x[3] <= y[3]
      /\ x[1] = y[1] /\ x[2] = y[2] /\ x[3] = y[3] => x[4] <= y[4]
      /\ x[1] = y[1] /\ x[2] = y[2] /\ x[3] = y[3] /\ x[4] = y[4] => x[5] <= y[5]
      /\ x[1] = y[1] /\ x[2] = y[2] /\ x[3] = y[3] /\ x[4] = y[4] /\ x[5] = y[5] => x[6] <= y[6]
  BY <1>5, <1>6, LowerStarts
<1>8. /\ x[1] = Zero(b = Authority /\ ask.alias \in {"none", "auto"})
      /\ x[2] = Zero(b = ask.usual)
      /\ x[3] = IF Objective = "cheapest" THEN cost(b) ELSE 0
      /\ x[4] = IF Objective = "fastest" THEN Facts[b].latency ELSE 0
      /\ x[5] = IF ask.heavy \/ ask.freeFirst = "off" THEN 3 - Facts[b].tier ELSE 0
      /\ x[6] = cost(b)
  BY <1>3, <1>4 DEF x
<1>9. /\ y[1] = Zero(a = Authority /\ ask.alias \in {"none", "auto"})
      /\ y[2] = Zero(a = ask.usual)
      /\ y[3] = IF Objective = "cheapest" THEN cost(a) ELSE 0
      /\ y[4] = IF Objective = "fastest" THEN Facts[a].latency ELSE 0
      /\ y[5] = IF ask.heavy \/ ask.freeFirst = "off" THEN 3 - Facts[a].tier ELSE 0
      /\ y[6] = cost(a)
  BY <1>3, <1>4 DEF y
<1>10. Cheaper(a, b) <=> cost(a) < cost(b)
  BY DEF Cheaper, cost
<1>11. CASE Authority \in {a, b} /\ ask.alias \in {"none", "auto"}
  <2>1. x[1] = Zero(b = Authority) /\ y[1] = Zero(a = Authority)
    BY <1>8, <1>9, <1>11 DEF Zero
  <2>2. a # Authority
    BY <1>7, <2>1 DEF Zero
  <2> QED
    BY <1>11, <2>2 DEF Leads
<1>12. CASE ~(Authority \in {a, b} /\ ask.alias \in {"none", "auto"})
  <2>1. x[1] = y[1]
    BY <1>8, <1>9, <1>12 DEF Zero
  <2>2. CASE ask.usual \in {a, b}
    <3>1. a # ask.usual
      BY <1>7, <1>8, <1>9, <2>1, <2>2 DEF Zero
    <3> QED
      BY <1>12, <2>2, <3>1 DEF Leads
  <2>3. CASE ask.usual \notin {a, b}
    <3>1. x[2] = y[2]
      BY <1>8, <1>9, <2>3 DEF Zero
    <3>2. CASE Objective = "cheapest"
      <4>1. ~Cheaper(a, b)
        BY <1>2, <1>7, <1>8, <1>9, <1>10, <2>1, <3>1, <3>2
      <4> QED
        BY <1>12, <2>3, <3>2, <4>1 DEF Leads
    <3>3. CASE Objective = "fastest"
      <4>1. x[3] = y[3]
        BY <1>8, <1>9, <3>3
      <4>2. ~(Facts[a].latency < Facts[b].latency)
        BY <1>1, <1>7, <1>8, <1>9, <2>1, <3>1, <3>3, <4>1
      <4> QED
        BY <1>12, <2>3, <3>3, <4>2 DEF Leads
    <3>4. CASE Objective \notin {"cheapest", "fastest"}
      <4>1. x[3] = y[3] /\ x[4] = y[4]
        BY <1>8, <1>9, <3>4
      <4>2. CASE ask.heavy \/ ask.freeFirst = "off"
        <5>1. ~(Facts[a].tier > Facts[b].tier)
          BY <1>1, <1>7, <1>8, <1>9, <2>1, <3>1, <4>1, <4>2
        <5>2. ~(Facts[a].tier = Facts[b].tier /\ Cheaper(a, b))
          BY <1>2, <1>7, <1>8, <1>9, <1>10, <2>1, <3>1, <4>1, <4>2
        <5> QED
          BY <1>12, <2>3, <3>4, <4>2, <5>1, <5>2 DEF Leads
      <4>3. CASE ~(ask.heavy \/ ask.freeFirst = "off")
        <5>1. x[5] = y[5]
          BY <1>8, <1>9, <4>3
        <5>2. ~Cheaper(a, b)
          BY <1>2, <1>7, <1>8, <1>9, <1>10, <2>1, <3>1, <4>1, <5>1
        <5> QED
          BY <1>12, <2>3, <3>4, <4>3, <5>2 DEF Leads
      <4> QED
        BY <4>2, <4>3
    <3> QED
      BY <3>2, <3>3, <3>4
  <2> QED
    BY <2>2, <2>3
<1> QED
  BY <1>11, <1>12

---------------------------------------------------------------------------------
(* The rules, by the stage that keeps them.                                *)

Unranked   == {"collect", "free first", "rank"}
Unfiltered == Unranked \cup {"prefer", "preset"}
Unpinned   == Unfiltered \cup {"evidence", "pin", "refused"}
Walking    == {"ask", "answered", "failed"}
Ordinary   == ~KeepsOrder /\ ~Measured

Lists ==
    /\ ask \in Asks /\ step \in Unpinned \cup Walking
    /\ menu \in Seq(MenuOffers) /\ tries \in Seq(MenuOffers) /\ fit \subseteq MenuOffers /\ resting \subseteq MenuOffers
    /\ step \in Unpinned => tries = <<>>
    /\ step = "collect" => menu = <<>> /\ resting = {}

AskedOnce == IsPinned \/ Distinct(tries \o menu)

(* What the collection looks at.                                           *)
Collectable(o) ==
    /\ PolicyAllows(o) /\ (o = Stub \/ Facts[o].managed)
    /\ ask.exact = NoOne => AppOffered(o)
    /\ ask.exact # NoOne => Facts[o].artifact = ask.exact /\ Able(o)
    /\ ~KeepsOrder /\ o # Stub => InScope(o)
PinAllows(o) == ask.pin # NoOne /\ ask.exact = NoOne => o = ask.pin

(* Each stage keeps its rule, and those of the stages before it.           *)
MenuIsAllowed == \A o \in ToSet(menu) :
    /\ Collectable(o)
    /\ step \notin Unranked => Able(o)
    /\ step \notin Unfiltered => FitsPreset(o)
    /\ step \notin Unpinned => PinAllows(o)
TriedMayServe == \A o \in ToSet(tries) : MayServe(o)

(* No stage loses an offer that may serve.                                 *)
Fitting(o) == o \in fit \ {Stub} /\ MayServe(o)
NoneLost == Ordinary /\ step \notin {"collect", "refused"} =>
    \A o \in MenuOffers : Fitting(o) => o \in ToSet(menu) \cup ToSet(tries) \cup resting

(* What is better comes first, once the menu is ranked; what the caller    *)
(* wished for, from the next stage on.                                     *)
LedPairs  == {p \in MenuOffers \X MenuOffers : Fitting(p[1]) /\ MayServe(p[2]) /\ p[1] # p[2] /\ Leads(p[1], p[2])}
BestPairs == {p \in MenuOffers \X MenuOffers : Fitting(p[1]) /\ MayServe(p[2]) /\ p[1] # p[2] /\ Better(p[1], p[2])}
RankedByMarks == Ordinary /\ step = "prefer" => InOrder(tries \o menu, LedPairs)
BestFirst     == Ordinary /\ step \notin Unranked \cup {"prefer"} => InOrder(tries \o menu, BestPairs)

ChoiceInv ==
    /\ Lists /\ AskedOnce /\ MenuIsAllowed /\ TriedMayServe /\ NoneLost /\ RankedByMarks /\ BestFirst

(* What a request asks for never changes, and its rules with it.           *)
LEMMA SameRequest ==
    ASSUME ask' = ask
    PROVE  /\ IsPinned' <=> IsPinned
           /\ KeepsOrder' <=> KeepsOrder
           /\ Ordinary' <=> Ordinary
           /\ \A o : Collectable(o)' <=> Collectable(o)
           /\ \A o : Able(o)' <=> Able(o)
           /\ \A o : FitsPreset(o)' <=> FitsPreset(o)
           /\ \A o : PinAllows(o)' <=> PinAllows(o)
           /\ \A o : MayServe(o)' <=> MayServe(o)
<1>1. (IsPinned' <=> IsPinned) /\ (KeepsOrder' <=> KeepsOrder)
  BY DEF IsPinned, KeepsOrder
<1>2. Ordinary' <=> Ordinary
  BY DEF Ordinary, IsPinned, KeepsOrder, Measured
<1>3. ASSUME NEW o PROVE Able(o)' <=> Able(o)
  BY DEF Able
<1>4. ASSUME NEW o PROVE FitsPreset(o)' <=> FitsPreset(o)
  BY DEF FitsPreset, OutOf, IsFree
<1>5. ASSUME NEW o PROVE PinAllows(o)' <=> PinAllows(o)
  BY DEF PinAllows
<1>6. ASSUME NEW o PROVE (AppOffered(o)' <=> AppOffered(o)) /\ (PolicyAllows(o)' <=> PolicyAllows(o)) /\ (InScope(o)' <=> InScope(o))
  BY DEF AppOffered, PolicyAllows, InScope, Scope, IsFree
<1>7. ASSUME NEW o PROVE (IsSource(o)' <=> IsSource(o)) /\ (UnderCeiling(o)' <=> UnderCeiling(o)) /\ (CanBePaid(o)' <=> CanBePaid(o))
  BY DEF IsSource, UnderCeiling, Ceiling, CanBePaid, OutOf, IsFree
<1>8. ASSUME NEW o PROVE Collectable(o)' <=> Collectable(o)
  BY <1>1, <1>3, <1>6 DEF Collectable
<1>9. ASSUME NEW o PROVE IsFree(o)' <=> IsFree(o)
  BY DEF IsFree
<1>10. ASSUME NEW o PROVE MayServe(o)' <=> MayServe(o)
  BY <1>1, <1>3, <1>4, <1>6, <1>7, <1>9 DEF MayServe
<1> QED
  BY <1>1, <1>2, <1>3, <1>4, <1>5, <1>8, <1>10

LEMMA SameChoice ==
    ASSUME ask' = ask, fit' = fit
    PROVE  /\ \A o : Fitting(o)' <=> Fitting(o)
           /\ LedPairs' = LedPairs /\ BestPairs' = BestPairs
<1>1. \A o : Fitting(o)' <=> Fitting(o)
  BY SameRequest DEF Fitting
<1>2. ASSUME NEW a, NEW b PROVE Leads(a, b)' <=> Leads(a, b)
  BY DEF Leads, Cheaper, Objective, AtWarm, InPrice, IsFree
<1>3. ASSUME NEW a, NEW b PROVE Better(a, b)' <=> Better(a, b)
  BY <1>2 DEF Better
<1>4. \A o : MayServe(o)' <=> MayServe(o)
  BY SameRequest
<1>5. LedPairs' = LedPairs
  BY <1>1, <1>2, <1>4 DEF LedPairs
<1>6. BestPairs' = BestPairs
  BY <1>1, <1>3, <1>4 DEF BestPairs
<1> QED
  BY <1>1, <1>5, <1>6

LEMMA ChoiceInvInit ==
    ASSUME ChoiceConstants, ChoiceInit PROVE ChoiceInv
<1>1. <<>> \o <<>> = <<>> /\ <<>> \in Seq(MenuOffers)
  OBVIOUS
<1>2. Distinct(<<>>) /\ ToSet(<<>>) = {}
  BY DEF Distinct, ToSet
<1> QED
  BY <1>1, <1>2 DEF ChoiceInit, ChoiceInv, Lists, AskedOnce, MenuIsAllowed, TriedMayServe, NoneLost, RankedByMarks, BestFirst,
     Unranked, Unfiltered, Unpinned

(* What a collection has to do.                                            *)
LEMMA CollectionDoes ==
    ASSUME ChoiceInv, step = "collect", ask' = ask, tries' = tries, resting' = resting, fit' \subseteq MenuOffers,
           menu' \in Seq(MenuOffers), step' = "free first" \/ (step' = "refused" /\ menu' = <<>>),
           IsPinned \/ Distinct(menu'), \A o \in ToSet(menu') : Collectable(o),
           Ordinary => \A o \in MenuOffers : o \in fit' \ {Stub} /\ MayServe(o) => o \in ToSet(menu')
    PROVE  ChoiceInv'
<1>1. tries = <<>> /\ resting = {} /\ ask \in Asks
  BY DEF ChoiceInv, Lists, Unpinned, Unfiltered, Unranked
<1>2. tries' \o menu' = menu' /\ tries' = <<>> /\ tries' \in Seq(MenuOffers) /\ ToSet(tries') = {}
  BY <1>1, JoinedToNone
<1>3. step' \in Unpinned /\ step' # "collect" /\ step' # "prefer"
  BY DEF Unpinned, Unfiltered, Unranked
<1>4. Lists'
  BY <1>1, <1>2, <1>3 DEF Lists
<1>5. AskedOnce'
  BY <1>2, SameRequest DEF AskedOnce
<1>6. MenuIsAllowed'
  <2>1. CASE step' = "free first"
    BY <2>1, SameRequest DEF MenuIsAllowed, Unpinned, Unfiltered, Unranked
  <2>2. CASE menu' = <<>>
    <3>1. ToSet(menu') = {}
      BY <2>2, JoinedToNone
    <3> QED
      BY <3>1 DEF MenuIsAllowed
  <2> QED
    BY <2>1, <2>2
<1>7. TriedMayServe'
  BY <1>2 DEF TriedMayServe
<1>8. NoneLost'
  <2>1. \A o : Fitting(o)' <=> o \in fit' \ {Stub} /\ MayServe(o)
    BY SameRequest DEF Fitting
  <2> QED
    BY <2>1, SameRequest DEF NoneLost
<1>9. RankedByMarks'
  BY <1>3 DEF RankedByMarks
<1>10. BestFirst'
  <2>1. CASE step' = "free first"
    BY <2>1 DEF BestFirst, Unranked
  <2>2. CASE menu' = <<>>
    <3>1. InOrder(<<>>, BestPairs')
      BY JoinedToNone
    <3> QED
      BY <1>2, <2>2, <3>1 DEF BestFirst
  <2> QED
    BY <2>1, <2>2
<1> QED
  BY <1>4, <1>5, <1>6, <1>7, <1>8, <1>9, <1>10 DEF ChoiceInv

LEMMA ClosedIs ==
    ASSUME ChoiceConstants, ask \in Asks, ask.exact = NoOne, NEW list \in Seq(MenuOffers)
    PROVE  /\ Closed(list) \in Seq(MenuOffers) /\ ToSet(list) \subseteq ToSet(Closed(list))
           /\ Distinct(list) => Distinct(Closed(list))
           /\ (\A o \in ToSet(list) : Collectable(o)) => \A o \in ToSet(Closed(list)) : Collectable(o)
<1>1. CASE Closed(list) = list
  BY <1>1
<1>2. CASE Closed(list) # list
  <2>1. Closed(list) = Append(list, Stub) /\ ~ask.uncensored /\ ~Contains(list, Stub)
    BY <1>2 DEF Closed
  <2>2. Append(list, Stub) = list \o <<Stub>> /\ Stub \in MenuOffers
    BY DEF ChoiceConstants
  <2>3. Stub \notin ToSet(list)
    BY <2>1 DEF Contains, ToSet
  <2> DEFINE last == <<Stub>>
  <2>4. last \in Seq(MenuOffers) /\ ToSet(last) = {Stub} /\ Distinct(last)
    BY <2>2, OneIsInOrder
  <2>5. Collectable(Stub)
    BY <2>1 DEF Collectable, PolicyAllows, AppOffered, IsFree, ChoiceConstants
  <2>6. Closed(list) = list \o last
    BY <2>1, <2>2
  <2> HIDE DEF last
  <2>7. \A o \in ToSet(list) : o \notin ToSet(last)
    BY <2>3, <2>4
  <2>8. /\ list \o last \in Seq(MenuOffers) /\ ToSet(list \o last) = ToSet(list) \cup {Stub}
        /\ Distinct(list) => Distinct(list \o last)
    BY <2>4, <2>7, JoinedIs
  <2> QED
    BY <2>5, <2>6, <2>8
<1> QED
  BY <1>1, <1>2

LEMMA PoolInv ==
    ASSUME ChoiceConstants, ChoiceInv, CollectPool PROVE ChoiceInv'
<1>1. PICK placed \in Placements, unfit \in SUBSET MayBeUnfit :
         LET offered == {o \in MenuOffers : AppOffered(o) /\ InScope(o) /\ Facts[o].managed /\ PolicyAllows(o)}
         IN  /\ fit' = MenuOffers \ unfit
             /\ Collected(Closed(Kept(placed, offered \ unfit) \o Kept(placed, offered \cap unfit)))
  BY DEF CollectPool
<1>2. step = "collect" /\ ~KeepsOrder /\ ask.exact = NoOne /\ ~IsPinned /\ ask \in Asks
  BY DEF CollectPool, KeepsOrder, ChoiceInv, Lists
<1> DEFINE offered == {o \in MenuOffers : AppOffered(o) /\ InScope(o) /\ Facts[o].managed /\ PolicyAllows(o)}
           able    == Kept(placed, offered \ unfit)
           others  == Kept(placed, offered \cap unfit)
<1>3. fit' = MenuOffers \ unfit /\ Collected(Closed(able \o others))
  BY <1>1
<1>4. \A o : o \in offered <=> o \in MenuOffers /\ AppOffered(o) /\ InScope(o) /\ Facts[o].managed /\ PolicyAllows(o)
  OBVIOUS
<1> HIDE DEF offered
<1>5. placed \in Seq(MenuOffers) /\ Distinct(placed) /\ \A o \in MenuOffers \ {Stub} : o \in ToSet(placed)
  <2>1. /\ placed \in Seq(MenuOffers \ {Stub}) /\ \A i, j \in DOMAIN placed : placed[i] = placed[j] => i = j
        /\ \A o \in MenuOffers \ {Stub} : \E i \in DOMAIN placed : placed[i] = o
    BY DEF ChoiceConstants
  <2> QED
    BY <2>1 DEF Distinct, ToSet
<1>6. /\ able \in Seq(MenuOffers) /\ Distinct(able) /\ ToSet(able) = ToSet(placed) \cap (offered \ unfit)
      /\ others \in Seq(MenuOffers) /\ Distinct(others) /\ ToSet(others) = ToSet(placed) \cap (offered \cap unfit)
  BY <1>5, KeptIs, KeptKeeps
<1> HIDE DEF able, others
<1>7. /\ able \o others \in Seq(MenuOffers) /\ Distinct(able \o others)
      /\ ToSet(able \o others) = ToSet(placed) \cap offered
  <2>1. \A o \in ToSet(able) : o \notin ToSet(others)
    BY <1>6
  <2> QED
    BY <1>6, <2>1, JoinedIs
<1>8. \A o \in ToSet(able \o others) : Collectable(o)
  BY <1>2, <1>4, <1>7 DEF Collectable
<1> DEFINE list == Closed(able \o others)
<1>9. /\ list \in Seq(MenuOffers) /\ Distinct(list) /\ ToSet(placed) \cap offered \subseteq ToSet(list)
      /\ \A o \in ToSet(list) : Collectable(o)
  BY <1>2, <1>7, <1>8, ClosedIs
<1> HIDE DEF list
<1>10. /\ menu' = list /\ ask' = ask /\ tries' = tries /\ resting' = resting
       /\ step' = "free first" \/ (step' = "refused" /\ menu' = <<>>)
  BY <1>3 DEF Collected, TurnDown, Go, list
<1>11. ASSUME NEW o \in MenuOffers, o \in fit' \ {Stub}, MayServe(o) PROVE o \in ToSet(menu')
  <2>1. o \in offered
    BY <1>2, <1>4, <1>11 DEF MayServe, AppOffered
  <2> QED
    BY <1>5, <1>9, <1>10, <1>11, <2>1
<1>12. fit' \subseteq MenuOffers
  BY <1>3
<1> QED
  BY <1>2, <1>9, <1>10, <1>11, <1>12, CollectionDoes

LEMMA PinnedInv ==
    ASSUME ChoiceConstants, ChoiceInv, CollectPinned PROVE ChoiceInv'
<1> DEFINE offered == {o \in MenuOffers : AppOffered(o) /\ Facts[o].managed /\ PolicyAllows(o)}
           kept    == Kept(PinnedOrder, offered)
           list    == Closed(kept)
<1>1. /\ step = "collect" /\ IsPinned /\ KeepsOrder /\ ask.exact = NoOne /\ ask \in Asks
      /\ fit' = fit /\ fit \subseteq MenuOffers /\ Collected(list)
  BY DEF CollectPinned, IsPinned, KeepsOrder, ChoiceInv, Lists
<1>2. kept \in Seq(MenuOffers) /\ ToSet(kept) = ToSet(PinnedOrder) \cap offered
  <2>1. PinnedOrder \in Seq(MenuOffers)
    BY DEF ChoiceConstants
  <2> QED
    BY <2>1, KeptIs
<1>3. \A o \in ToSet(kept) : Collectable(o)
  BY <1>1, <1>2 DEF Collectable
<1> HIDE DEF kept
<1>4. list \in Seq(MenuOffers) /\ \A o \in ToSet(list) : Collectable(o)
  BY <1>1, <1>2, <1>3, ClosedIs
<1> HIDE DEF list
<1>5. /\ menu' = list /\ ask' = ask /\ tries' = tries /\ resting' = resting
      /\ step' = "free first" \/ (step' = "refused" /\ menu' = <<>>)
  BY <1>1 DEF Collected, TurnDown, Go
<1>6. ~Ordinary
  BY <1>1 DEF Ordinary
<1> QED
  BY <1>1, <1>4, <1>5, <1>6, CollectionDoes

LEMMA ExactInv ==
    ASSUME ChoiceConstants, ChoiceInv, CollectExact PROVE ChoiceInv'
<1>1. PICK placed \in Placements, unfit \in SUBSET MayBeUnfit :
         LET usable == Kept(placed, {o \in MenuOffers \ unfit :
                           /\ Facts[o].artifact = ask.exact
                           /\ PolicyAllows(o) /\ CanBePaid(o) /\ IsSource(o)
                           /\ ask.payer = "nobody" => UnderCeiling(o)
                           /\ Facts[o].managed /\ Able(o)})
         IN  /\ fit' = MenuOffers \ unfit
             /\ menu' = usable
             /\ IF usable = <<>> THEN TurnDown ELSE Go("free first")
  BY DEF CollectExact
<1> DEFINE of == {o \in MenuOffers \ unfit :
                           /\ Facts[o].artifact = ask.exact
                           /\ PolicyAllows(o) /\ CanBePaid(o) /\ IsSource(o)
                           /\ ask.payer = "nobody" => UnderCeiling(o)
                           /\ Facts[o].managed /\ Able(o)}
           usable == Kept(placed, of)
<1>2. fit' = MenuOffers \ unfit /\ menu' = usable /\ IF usable = <<>> THEN TurnDown ELSE Go("free first")
  BY <1>1
<1>3. \A o \in of : Facts[o].artifact = ask.exact /\ PolicyAllows(o) /\ Facts[o].managed /\ Able(o)
  OBVIOUS
<1> HIDE DEF of
<1>4. /\ step = "collect" /\ ask.exact # NoOne /\ KeepsOrder /\ ~Ordinary
      /\ ask' = ask /\ tries' = tries /\ resting' = resting
  BY DEF CollectExact, KeepsOrder, Ordinary
<1>5. placed \in Seq(MenuOffers) /\ Distinct(placed)
  <2>1. placed \in Seq(MenuOffers \ {Stub}) /\ \A i, j \in DOMAIN placed : placed[i] = placed[j] => i = j
    BY DEF ChoiceConstants
  <2> QED
    BY <2>1 DEF Distinct
<1>6. usable \in Seq(MenuOffers) /\ Distinct(usable) /\ ToSet(usable) = ToSet(placed) \cap of
  BY <1>5, KeptIs, KeptKeeps
<1>7. \A o \in ToSet(usable) : Collectable(o)
  BY <1>3, <1>4, <1>6 DEF Collectable
<1> HIDE DEF usable
<1>8. step' = "free first" \/ (step' = "refused" /\ menu' = <<>>)
  BY <1>2 DEF TurnDown, Go
<1>9. fit' \subseteq MenuOffers
  BY <1>2
<1> QED
  BY <1>2, <1>4, <1>6, <1>7, <1>8, <1>9, CollectionDoes

(* What a stage between the collection and the walk has to do.             *)
Between == {"free first", "rank", "prefer", "preset", "evidence", "pin"}

LEMMA StageDoes ==
    ASSUME ChoiceInv, step \in Between, ask' = ask, fit' = fit, tries' = tries, resting' = resting,
           menu' \in Seq(MenuOffers), step' \in Between \cup {"refused", "ask"},
           ToSet(menu') \subseteq ToSet(menu), IsPinned \/ Distinct(menu'),
           step' \notin Unranked => \A o \in ToSet(menu') : Able(o),
           step' \notin Unfiltered => \A o \in ToSet(menu') : FitsPreset(o),
           step' \notin Unpinned => \A o \in ToSet(menu') : PinAllows(o),
           Ordinary /\ step' # "refused" => \A o \in ToSet(menu) : Fitting(o) => o \in ToSet(menu'),
           Ordinary /\ step' = "prefer" => InOrder(menu', LedPairs),
           Ordinary /\ step' \notin Unranked \cup {"prefer"} => InOrder(menu', BestPairs)
    PROVE  ChoiceInv'
<1>1. /\ tries = <<>> /\ ask \in Asks /\ fit \subseteq MenuOffers /\ resting \subseteq MenuOffers
      /\ step # "collect" /\ step # "refused"
  BY DEF ChoiceInv, Lists, Unpinned, Unfiltered, Unranked, Between
<1>2. tries' \o menu' = menu' /\ tries' = <<>> /\ tries' \in Seq(MenuOffers) /\ ToSet(tries') = {}
  BY <1>1, JoinedToNone
<1>3. step' # "collect" /\ step' \in Unpinned \cup Walking
  BY DEF Between, Unpinned, Unfiltered, Unranked, Walking
<1>4. Lists'
  BY <1>1, <1>2, <1>3 DEF Lists
<1>5. AskedOnce'
  BY <1>2, SameRequest DEF AskedOnce
<1>6. MenuIsAllowed'
  <2>1. \A o \in ToSet(menu') : Collectable(o)
    BY DEF ChoiceInv, MenuIsAllowed
  <2>2. SUFFICES ASSUME NEW o \in ToSet(menu')
                 PROVE  /\ Collectable(o)'
                        /\ step' \notin Unranked => Able(o)'
                        /\ step' \notin Unfiltered => FitsPreset(o)'
                        /\ step' \notin Unpinned => PinAllows(o)'
    BY DEF MenuIsAllowed, Unranked, Unfiltered, Unpinned
  <2> QED
    BY <2>1, SameRequest
<1>7. TriedMayServe'
  BY <1>2 DEF TriedMayServe
<1>8. NoneLost'
  <2>1. Ordinary' <=> Ordinary
    BY SameRequest
  <2>2. \A o : Fitting(o)' <=> Fitting(o)
    BY SameChoice
  <2>3. ASSUME Ordinary, step' # "refused", NEW o \in MenuOffers, Fitting(o)
        PROVE  o \in ToSet(menu') \cup ToSet(tries') \cup resting'
    <3>1. o \in ToSet(menu) \cup ToSet(tries) \cup resting
      BY <1>1, <2>3 DEF ChoiceInv, NoneLost
    <3> QED
      BY <2>3, <3>1
  <2> QED
    BY <2>1, <2>2, <2>3 DEF NoneLost
<1>9. RankedByMarks' /\ BestFirst'
  <2>1. LedPairs' = LedPairs /\ BestPairs' = BestPairs /\ (Ordinary' <=> Ordinary)
    BY SameRequest, SameChoice
  <2> QED
    BY <1>2, <2>1 DEF RankedByMarks, BestFirst, Unranked
<1> QED
  BY <1>4, <1>5, <1>6, <1>7, <1>8, <1>9 DEF ChoiceInv

(* What the stages before the walk may take of the menu.                   *)
LEMMA MenuIs ==
    ASSUME ChoiceInv, step \in Between
    PROVE  /\ menu \in Seq(MenuOffers) /\ ToSet(menu) \subseteq MenuOffers /\ (IsPinned \/ Distinct(menu))
           /\ ask \in Asks
           /\ step = "prefer" => /\ \A o \in ToSet(menu) : Able(o)
                                 /\ Ordinary => InOrder(menu, LedPairs)
           /\ step = "preset" => /\ \A o \in ToSet(menu) : Able(o)
                                 /\ Ordinary => InOrder(menu, BestPairs)
           /\ step \in {"evidence", "pin"} => /\ \A o \in ToSet(menu) : Able(o) /\ FitsPreset(o)
                                              /\ Ordinary => InOrder(menu, BestPairs)
<1>1. menu \in Seq(MenuOffers) /\ tries = <<>> /\ ask \in Asks
  BY DEF ChoiceInv, Lists, Unpinned, Unfiltered, Unranked, Between
<1>2. tries \o menu = menu
  BY <1>1, JoinedToNone
<1>3. ToSet(menu) \subseteq MenuOffers
  BY <1>1 DEF ToSet
<1> QED
  BY <1>1, <1>2, <1>3 DEF ChoiceInv, AskedOnce, MenuIsAllowed, RankedByMarks, BestFirst, Unranked, Unfiltered

LEMMA FreeFirstInv ==
    ASSUME ChoiceInv, FreeFirst PROVE ChoiceInv'
<1> DEFINE free == {o \in MenuOffers : IsFree(o)}
           first == Kept(menu, free)
           last  == Kept(menu, MenuOffers \ free)
<1>1. /\ step = "free first" /\ step' = "rank" /\ ask' = ask /\ fit' = fit /\ tries' = tries /\ resting' = resting
      /\ menu' = IF ask.freeFirst # "on" THEN menu ELSE first \o last
  BY DEF FreeFirst, Go
<1>2. step \in Between /\ step' \in Between /\ step' \in Unranked /\ step' \in Unfiltered /\ step' \in Unpinned
  BY <1>1 DEF Between, Unranked, Unfiltered, Unpinned
<1>3. menu \in Seq(MenuOffers) /\ ToSet(menu) \subseteq MenuOffers /\ (IsPinned \/ Distinct(menu))
  BY <1>2, MenuIs
<1>4. /\ first \in Seq(MenuOffers) /\ ToSet(first) = ToSet(menu) \cap free /\ (Distinct(menu) => Distinct(first))
      /\ last \in Seq(MenuOffers) /\ ToSet(last) = ToSet(menu) \cap (MenuOffers \ free) /\ (Distinct(menu) => Distinct(last))
  BY <1>3, KeptIs, KeptKeeps
<1> HIDE DEF free, first, last
<1>5. /\ first \o last \in Seq(MenuOffers) /\ ToSet(first \o last) = ToSet(menu)
      /\ Distinct(menu) => Distinct(first \o last)
  <2>1. \A o \in ToSet(first) : o \notin ToSet(last)
    BY <1>4
  <2> QED
    BY <1>3, <1>4, <2>1, JoinedIs
<1>6. menu' \in Seq(MenuOffers) /\ ToSet(menu') = ToSet(menu) /\ (IsPinned \/ Distinct(menu'))
  BY <1>1, <1>3, <1>5
<1>7. step' # "prefer"
  BY <1>1
<1> QED
  BY <1>1, <1>2, <1>6, <1>7, StageDoes

(* Among offers that do not fit, none leads.                               *)
LEMMA UnfitInOrder ==
    ASSUME NEW list \in Seq(MenuOffers), \A o \in ToSet(list) : ~Fitting(o)
    PROVE  InOrder(list, LedPairs)
BY DEF InOrder, LedPairs, ToSet

(* The list that the marks put in order, then what is unfit, then the stub.*)
LEMMA RankedIs ==
    ASSUME ChoiceConstants, MenuIsList, NEW able, able = {o \in ToSet(menu) \ {Stub} : Able(o)},
           NEW ranked, ranked = Arranged(able \cap fit, {p \in able \X able : Before(p[1], p[2])}) \o Kept(menu, able \ fit)
    PROVE  /\ ranked \in Seq(MenuOffers) /\ Distinct(ranked) /\ ToSet(ranked) = able /\ InOrder(ranked, LedPairs)
<1> DEFINE R     == {p \in able \X able : Before(p[1], p[2])}
           S     == able \cap fit
           first == Arranged(S, R)
           unfit == Kept(menu, able \ fit)
           n     == Cardinality(S)
<1>1. menu \in Seq(MenuOffers) /\ Distinct(menu) /\ ToSet(menu) \subseteq MenuOffers
  BY DEF MenuIsList, ToSet
<1>2. able \subseteq ToSet(menu) /\ Stub \notin able /\ IsFiniteSet(S)
  <2>1. IsFiniteSet(ToSet(menu))
    BY <1>1, DistinctCounts
  <2>2. S \in SUBSET ToSet(menu)
    OBVIOUS
  <2> QED
    BY <2>1, <2>2, FS_Subset
<1>3. \A x, y \in S : <<x, y>> \in R <=> Before(x, y)
  OBVIOUS
<1>4. S \in SUBSET ToSet(menu)
  BY <1>2
<1> HIDE DEF R, S
<1>5. Orders(R, S)
  BY <1>3, <1>4, BeforeOrders
<1> HIDE DEF first, n
<1>6. /\ n \in Nat /\ first \in [1..n -> S]
      /\ \A x \in S : \E k \in 1..n : first[k] = x
      /\ \A i, j \in 1..n : i < j => <<first[i], first[j]>> \in R
  BY <1>2, <1>5, ArrangedIs DEF first, n
<1>7. first \in Seq(MenuOffers) /\ DOMAIN first = 1..n
  <2>1. first \in [1..n -> MenuOffers]
    BY <1>1, <1>4, <1>6
  <2> QED
    BY <1>6, <2>1
<1>8. ToSet(first) = S
  BY <1>6, <1>7 DEF ToSet
<1>9. Distinct(first)
  <2>1. ASSUME NEW i \in 1..n, NEW j \in 1..n, i < j PROVE first[i] # first[j]
    <3>1. <<first[i], first[j]>> \in R /\ first[i] \in S /\ first[j] \in S
      BY <1>6, <2>1
    <3> QED
      BY <1>5, <3>1 DEF Orders
  <2>2. \A i, j \in 1..n : i < j \/ j < i \/ i = j
    BY <1>6
  <2> QED
    BY <1>7, <2>1, <2>2 DEF Distinct
<1>10. InOrder(first, LedPairs)
  <2> SUFFICES ASSUME NEW i \in 1..n, NEW j \in 1..n, i < j, <<first[j], first[i]>> \in LedPairs PROVE FALSE
    BY <1>7 DEF InOrder
  <2>1. PICK a, b : a = first[j] /\ b = first[i]
    OBVIOUS
  <2>2. a \in S /\ b \in S /\ Before(b, a)
    BY <1>3, <1>6, <2>1
  <2>3. a \in ToSet(menu) /\ b \in ToSet(menu) /\ b \in fit /\ b # Stub
    BY <1>2, <1>4, <2>2 DEF S
  <2>4. a # b /\ a \in fit /\ a # Stub /\ MayServe(a) /\ MayServe(b) /\ Leads(a, b)
    <3>1. <<a, b>> \in LedPairs
      BY <2>1
    <3> QED
      BY <3>1 DEF LedPairs, Fitting
  <2> QED
    BY <2>2, <2>3, <2>4, FirstIsNotLed
<1> HIDE DEF unfit
<1>11. unfit \in Seq(MenuOffers) /\ Distinct(unfit) /\ ToSet(unfit) = able \ fit
  BY <1>1, <1>2, KeptIs, KeptKeeps DEF unfit
<1>12. InOrder(unfit, LedPairs)
  BY <1>11, UnfitInOrder DEF Fitting
<1>13. \A x \in ToSet(first), y \in ToSet(unfit) : <<y, x>> \notin LedPairs /\ x # y
  BY <1>8, <1>11 DEF S, LedPairs, Fitting
<1>14. ranked = first \o unfit
  BY DEF first, unfit, S, R
<1>15. \A x \in ToSet(first) : x \notin ToSet(unfit)
  BY <1>13
<1>16. /\ first \o unfit \in Seq(MenuOffers) /\ Distinct(first \o unfit) /\ ToSet(first \o unfit) = S \cup (able \ fit)
       /\ InOrder(first \o unfit, LedPairs)
  BY <1>7, <1>8, <1>9, <1>10, <1>11, <1>12, <1>13, <1>15, JoinedIs
<1> QED
  BY <1>14, <1>16 DEF S

LEMMA RankInv ==
    ASSUME ChoiceConstants, ChoiceInv, Rank PROVE ChoiceInv'
<1> DEFINE able   == {o \in ToSet(menu) \ {Stub} : Able(o)}
           ranked == IF KeepsOrder THEN Kept(menu, able)
                     ELSE Arranged(able \cap fit, {p \in able \X able : Before(p[1], p[2])}) \o Kept(menu, able \ fit)
           last   == IF Contains(menu, Stub) THEN <<Stub>> ELSE <<>>
<1>1. /\ step = "rank" /\ step' = "prefer" /\ ask' = ask /\ fit' = fit /\ tries' = tries /\ resting' = resting
      /\ menu' = IF ask.exact # NoOne THEN menu ELSE ranked \o last
  BY DEF Rank, Go
<1>2. step \in Between /\ step' \in Between /\ step' \notin Unranked /\ step' \in Unfiltered /\ step' \in Unpinned
  BY <1>1 DEF Between, Unranked, Unfiltered, Unpinned
<1>3. menu \in Seq(MenuOffers) /\ ToSet(menu) \subseteq MenuOffers /\ (IsPinned \/ Distinct(menu)) /\ ask \in Asks
  BY <1>2, MenuIs
<1>4. \A o \in able : o \in ToSet(menu) /\ Able(o) /\ o # Stub
  OBVIOUS
<1>5. \A o \in ToSet(menu) : Able(o) => o \in able \/ o = Stub
  OBVIOUS
<1>6. /\ ~IsPinned => Distinct(ranked)
      /\ ranked \in Seq(MenuOffers) /\ ToSet(ranked) = able
      /\ Ordinary => InOrder(ranked, LedPairs)
  <2>1. CASE KeepsOrder
    <3> HIDE DEF able
    <3>1. ranked = Kept(menu, able)
      BY <2>1
    <3>2. Kept(menu, able) \in Seq(MenuOffers) /\ ToSet(Kept(menu, able)) = ToSet(menu) \cap able
          /\ (Distinct(menu) => Distinct(Kept(menu, able)))
      BY <1>3, KeptIs, KeptKeeps
    <3>3. ToSet(menu) \cap able = able
      BY <1>4
    <3> HIDE DEF ranked
    <3> QED
      BY <1>3, <2>1, <3>1, <3>2, <3>3 DEF Ordinary
  <2>2. CASE ~KeepsOrder
    <3>1. MenuIsList
      BY <1>3, <2>2 DEF MenuIsList, KeepsOrder
    <3>2. ranked = Arranged(able \cap fit, {p \in able \X able : Before(p[1], p[2])}) \o Kept(menu, able \ fit)
      BY <2>2
    <3>3. able = {o \in ToSet(menu) \ {Stub} : Able(o)}
      OBVIOUS
    <3> HIDE DEF able, ranked
    <3> QED
      BY <3>1, <3>2, <3>3, RankedIs
  <2> QED
    BY <2>1, <2>2
<1> HIDE DEF able, ranked
<1>7. /\ last \in Seq(MenuOffers) /\ Distinct(last) /\ InOrder(last, LedPairs)
      /\ ToSet(last) = {o \in ToSet(menu) : o = Stub}
  <2>1. Stub \in MenuOffers
    BY DEF ChoiceConstants
  <2>2. Contains(menu, Stub) <=> Stub \in ToSet(menu)
    <3>1. DOMAIN menu = 1..Len(menu)
      BY <1>3
    <3> QED
      BY <3>1 DEF Contains, ToSet
  <2> QED
    BY <2>1, <2>2, OneIsInOrder
<1> HIDE DEF last
<1>8. \A x \in ToSet(ranked), y \in ToSet(last) : x # y /\ <<y, x>> \notin LedPairs
  BY <1>4, <1>6, <1>7 DEF LedPairs, Fitting
<1>9. \A x \in ToSet(ranked) : x \notin ToSet(last)
  BY <1>8
<1>10. /\ ranked \o last \in Seq(MenuOffers) /\ ToSet(ranked \o last) = ToSet(ranked) \cup ToSet(last)
       /\ ~IsPinned => Distinct(ranked \o last)
       /\ Ordinary => InOrder(ranked \o last, LedPairs)
  BY <1>6, <1>7, <1>8, <1>9, JoinedIs
<1>11. Able(Stub)
  BY DEF Able
<1>12. /\ menu' \in Seq(MenuOffers) /\ ToSet(menu') \subseteq ToSet(menu) /\ (IsPinned \/ Distinct(menu'))
       /\ \A o \in ToSet(menu') : Able(o)
       /\ \A o \in ToSet(menu) : Able(o) => o \in ToSet(menu')
       /\ Ordinary => InOrder(menu', LedPairs)
  <2>1. CASE ask.exact # NoOne
    <3>1. \A o \in ToSet(menu) : Able(o)
      BY <2>1 DEF ChoiceInv, MenuIsAllowed, Collectable
    <3> QED
      BY <1>1, <1>3, <2>1, <3>1 DEF Ordinary, KeepsOrder
  <2>2. CASE ask.exact = NoOne
    <3>1. menu' = ranked \o last
      BY <1>1, <2>2
    <3> QED
      BY <1>4, <1>5, <1>6, <1>7, <1>10, <1>11, <3>1
  <2> QED
    BY <2>1, <2>2
<1>13. \A o : Fitting(o) => Able(o)
  BY DEF Fitting, MayServe
<1> QED
  BY <1>1, <1>2, <1>12, <1>13, StageDoes

(* One member of a list goes before the others.                            *)
LEMMA ToFrontIs ==
    ASSUME NEW list \in Seq(MenuOffers), NEW o \in ToSet(list)
    PROVE  /\ ToFront(list, o) \in Seq(MenuOffers) /\ ToSet(ToFront(list, o)) = ToSet(list)
           /\ 1 \in DOMAIN ToFront(list, o) /\ ToFront(list, o)[1] = o
           /\ Distinct(list) => Distinct(ToFront(list, o))
           /\ \A ahead : /\ InOrder(list, ahead)
                         /\ \A x \in ToSet(list) : <<x, o>> \notin ahead
                         => InOrder(ToFront(list, o), ahead)
<1> DEFINE rest  == Kept(list, MenuOffers \ {o})
           first == <<o>>
<1>1. ToSet(list) \subseteq MenuOffers
  BY DEF ToSet
<1>2. /\ rest \in Seq(MenuOffers) /\ ToSet(rest) = ToSet(list) \cap (MenuOffers \ {o})
      /\ Distinct(list) => Distinct(rest)
      /\ \A ahead : InOrder(list, ahead) => InOrder(rest, ahead)
  BY KeptIs, KeptKeeps
<1>3. first \in Seq(MenuOffers) /\ ToSet(first) = {o} /\ Distinct(first) /\ \A ahead : InOrder(first, ahead)
  BY <1>1, OneIsInOrder
<1>4. ToFront(list, o) = first \o rest
  BY DEF ToFront
<1>9. 1 \in DOMAIN (first \o rest) /\ (first \o rest)[1] = o
  <2> HIDE DEF rest
  <2> QED
    BY <1>1, <1>2
<1> HIDE DEF rest, first
<1>5. ToSet(list) = {o} \cup ToSet(rest) /\ o \notin ToSet(rest)
  BY <1>1, <1>2
<1>6. \A x \in ToSet(first) : x \notin ToSet(rest)
  BY <1>3, <1>5
<1>7. /\ first \o rest \in Seq(MenuOffers) /\ ToSet(first \o rest) = ToSet(first) \cup ToSet(rest)
      /\ Distinct(rest) => Distinct(first \o rest)
  BY <1>2, <1>3, <1>6, JoinedIs
<1>8. ASSUME NEW ahead, InOrder(list, ahead), \A x \in ToSet(list) : <<x, o>> \notin ahead
      PROVE  InOrder(first \o rest, ahead)
  <2>1. InOrder(first, ahead) /\ InOrder(rest, ahead)
    BY <1>2, <1>3, <1>8
  <2>2. \A x \in ToSet(first), y \in ToSet(rest) : <<y, x>> \notin ahead
    BY <1>3, <1>5, <1>8
  <2> QED
    BY <1>2, <1>3, <2>1, <2>2, JoinedIs
<1> QED
  BY <1>2, <1>3, <1>4, <1>5, <1>7, <1>8, <1>9

(* The one named, if any.                                                  *)
LEMMA NamedIs ==
    ASSUME NEW M, NEW list \in Seq(M)
    PROVE  IF NamedIn(list) = <<>> THEN \A o \in ToSet(list) : o \notin ask.prefer
           ELSE NamedIn(list)[1] \in ToSet(list) \cap ask.prefer
<1> DEFINE named == Kept(list, ask.prefer)
<1>1. named \in Seq(M) /\ ToSet(named) = ToSet(list) \cap ask.prefer
  BY KeptIs
<1>2. NamedIn(list) = named
  BY DEF NamedIn
<1> HIDE DEF named
<1>3. named # <<>> => 1 \in DOMAIN named
  BY <1>1
<1>4. named # <<>> => named[1] \in ToSet(named)
  BY <1>3 DEF ToSet
<1>5. named = <<>> => ToSet(named) = {}
  BY <1>1, JoinedToNone
<1> QED
  BY <1>1, <1>2, <1>4, <1>5

LEMMA PreferInv ==
    ASSUME ChoiceInv, Prefer PROVE ChoiceInv'
<1>1. /\ step = "prefer" /\ step' = "preset" /\ ask' = ask /\ fit' = fit /\ tries' = tries /\ resting' = resting
      /\ menu' = Led(menu)
  BY DEF Prefer, Go
<1>2. step \in Between /\ step' \in Between /\ step' \in Unfiltered /\ step' \in Unpinned /\ step' # "prefer"
  BY <1>1 DEF Between, Unranked, Unfiltered, Unpinned
<1>3. /\ menu \in Seq(MenuOffers) /\ ToSet(menu) \subseteq MenuOffers /\ (IsPinned \/ Distinct(menu))
      /\ \A o \in ToSet(menu) : Able(o)
      /\ Ordinary => InOrder(menu, LedPairs)
  BY <1>1, <1>2, MenuIs
<1> DEFINE chosen == NamedIn(menu)[1]
<1>4. IF NamedIn(menu) = <<>> THEN \A o \in ToSet(menu) : o \notin ask.prefer ELSE chosen \in ToSet(menu) \cap ask.prefer
  BY <1>3, NamedIs
<1>5. menu' = IF NamedIn(menu) = <<>> \/ KeepsOrder THEN menu ELSE ToFront(menu, chosen)
  BY <1>1 DEF Led
<1> HIDE DEF chosen
<1>6. CASE NamedIn(menu) = <<>> \/ KeepsOrder
  <2>1. menu' = menu
    BY <1>5, <1>6
  <2>2. ASSUME Ordinary, NEW i \in DOMAIN menu, NEW j \in DOMAIN menu, i < j PROVE <<menu[j], menu[i]>> \notin BestPairs
    <3>1. PICK a, b : a = menu[j] /\ b = menu[i]
      OBVIOUS
    <3>2. a \in ToSet(menu) /\ b \in ToSet(menu)
      BY <3>1 DEF ToSet
    <3>3. a \notin ask.prefer /\ b \notin ask.prefer
      BY <1>4, <1>6, <2>2, <3>2 DEF Ordinary
    <3>4. Better(a, b) => Leads(a, b)
      BY <3>3 DEF Better
    <3>5. <<a, b>> \notin LedPairs
      BY <1>3, <2>2, <3>1 DEF InOrder
    <3>6. <<a, b>> \notin BestPairs
      BY <3>4, <3>5 DEF BestPairs, LedPairs
    <3> QED
      BY <3>1, <3>6
  <2>3. Ordinary => InOrder(menu', BestPairs)
    BY <2>1, <2>2 DEF InOrder
  <2> QED
    BY <1>1, <1>2, <1>3, <2>1, <2>3, StageDoes
<1>7. CASE ~(NamedIn(menu) = <<>> \/ KeepsOrder)
  <2>1. menu' = ToFront(menu, chosen) /\ chosen \in ToSet(menu) /\ chosen \in ask.prefer /\ Distinct(menu)
    BY <1>3, <1>4, <1>5, <1>7 DEF KeepsOrder
  <2>2. menu' \in Seq(MenuOffers) /\ ToSet(menu') = ToSet(menu) /\ Distinct(menu')
    BY <1>3, <2>1, ToFrontIs
  <2> DEFINE wished == {p \in BestPairs : p[2] # chosen /\ p[1] # chosen}
  <2>3. ASSUME Ordinary PROVE InOrder(menu, wished)
    <3>1. ASSUME NEW i \in DOMAIN menu, NEW j \in DOMAIN menu, i < j PROVE <<menu[j], menu[i]>> \notin wished
      <4>1. PICK a, b : a = menu[j] /\ b = menu[i]
        OBVIOUS
      <4>2. <<a, b>> \notin LedPairs
        BY <1>3, <2>3, <3>1, <4>1 DEF InOrder
      <4>3. a # chosen /\ Better(a, b) => Leads(a, b)
        BY <2>1 DEF Better
      <4>4. <<a, b>> \notin wished
        BY <4>2, <4>3 DEF BestPairs, LedPairs
      <4> QED
        BY <4>1, <4>4
    <3> QED
      BY <3>1 DEF InOrder
  <2> HIDE DEF wished
  <2>4. ASSUME Ordinary PROVE InOrder(menu', wished)
    <3>1. \A x \in ToSet(menu) : <<x, chosen>> \notin wished
      BY DEF wished
    <3> QED
      BY <1>3, <2>1, <2>3, <2>4, <3>1, ToFrontIs
  <2>5. ASSUME Ordinary PROVE InOrder(menu', BestPairs)
    <3>1. ASSUME NEW i \in DOMAIN menu', NEW j \in DOMAIN menu', i < j PROVE <<menu'[j], menu'[i]>> \notin BestPairs
      <4>1. PICK a, b : a = menu'[j] /\ b = menu'[i]
        OBVIOUS
      <4>2. <<a, b>> \notin wished
        BY <2>4, <2>5, <3>1, <4>1 DEF InOrder
      <4>3. b = chosen => ~Better(a, b)
        BY <2>1 DEF Better
      <4>4. a # chosen
        <5>1. 1 \in DOMAIN menu' /\ menu'[1] = chosen
          BY <1>3, <2>1, ToFrontIs
        <5>2. j # 1
          BY <2>2, <3>1
        <5> QED
          BY <2>2, <3>1, <4>1, <5>1, <5>2 DEF Distinct
      <4>5. <<a, b>> \notin BestPairs
        BY <4>2, <4>3, <4>4 DEF wished, BestPairs
      <4> QED
        BY <4>1, <4>5
    <3> QED
      BY <3>1 DEF InOrder
  <2> QED
    BY <1>1, <1>2, <1>3, <2>2, <2>5, StageDoes
<1> QED
  BY <1>6, <1>7

LEMMA PresetInv ==
    ASSUME ChoiceInv, ApplyPreset PROVE ChoiceInv'
<1> DEFINE fits == {o \in MenuOffers : FitsPreset(o)}
<1>1. /\ step = "preset" /\ step' \in {"refused", "evidence"} /\ ask' = ask /\ fit' = fit /\ tries' = tries /\ resting' = resting
      /\ menu' = Kept(menu, fits)
  BY DEF ApplyPreset, Go, TurnDown
<1>2. \A o \in fits : FitsPreset(o)
  OBVIOUS
<1>3. \A o \in MenuOffers : FitsPreset(o) => o \in fits
  OBVIOUS
<1> HIDE DEF fits
<1>4. step \in Between /\ step' \in Between \cup {"refused", "ask"} /\ step' \in Unpinned /\ step' # "prefer"
  BY <1>1 DEF Between, Unranked, Unfiltered, Unpinned
<1>5. /\ menu \in Seq(MenuOffers) /\ ToSet(menu) \subseteq MenuOffers /\ (IsPinned \/ Distinct(menu))
      /\ \A o \in ToSet(menu) : Able(o)
      /\ Ordinary => InOrder(menu, BestPairs)
  BY <1>1, <1>4, MenuIs
<1>6. /\ menu' \in Seq(MenuOffers) /\ ToSet(menu') = ToSet(menu) \cap fits /\ (Distinct(menu) => Distinct(menu'))
      /\ InOrder(menu, BestPairs) => InOrder(menu', BestPairs)
  BY <1>1, <1>5, KeptIs, KeptKeeps
<1>7. \A o : Fitting(o) => FitsPreset(o)
  BY DEF Fitting, MayServe
<1>8. \A o \in ToSet(menu') : Able(o) /\ FitsPreset(o)
  BY <1>2, <1>5, <1>6
<1>9. \A o \in ToSet(menu) : Fitting(o) => o \in ToSet(menu')
  BY <1>3, <1>5, <1>6, <1>7
<1> QED
  BY <1>1, <1>4, <1>5, <1>6, <1>8, <1>9, StageDoes

LEMMA WeighInv ==
    ASSUME ChoiceInv, Weigh PROVE ChoiceInv'
<1> DEFINE planned == {o \in ToSet(menu) \ {Stub} : Facts[o].carded}
           others  == Kept(menu, MenuOffers \ planned)
<1>1. /\ step = "evidence" /\ step' = "pin" /\ ask' = ask /\ fit' = fit /\ tries' = tries /\ resting' = resting
      /\ IF ~Measured THEN menu' = menu
         ELSE \E order \in OrdersOf(planned) :
                 menu' = (IF NamedIn(order) = <<>> THEN order ELSE ToFront(order, NamedIn(order)[1])) \o others
  BY DEF Weigh, Go
<1>2. planned \subseteq ToSet(menu)
  OBVIOUS
<1> HIDE DEF planned
<1>3. step \in Between /\ step' \in Between /\ step' \in Unpinned /\ step' # "prefer"
  BY <1>1 DEF Between, Unranked, Unfiltered, Unpinned
<1>4. /\ menu \in Seq(MenuOffers) /\ ToSet(menu) \subseteq MenuOffers /\ (IsPinned \/ Distinct(menu))
      /\ \A o \in ToSet(menu) : Able(o) /\ FitsPreset(o)
      /\ Ordinary => InOrder(menu, BestPairs)
  BY <1>1, <1>3, MenuIs
<1>5. CASE ~Measured
  <2>1. menu' = menu
    BY <1>1, <1>5
  <2> QED
    BY <1>1, <1>3, <1>4, <2>1, StageDoes
<1>6. CASE Measured
  <2>1. PICK order \in OrdersOf(planned) :
           menu' = (IF NamedIn(order) = <<>> THEN order ELSE ToFront(order, NamedIn(order)[1])) \o others
    BY <1>1, <1>6
  <2> DEFINE led == IF NamedIn(order) = <<>> THEN order ELSE ToFront(order, NamedIn(order)[1])
  <2>2. order \in [1..Cardinality(planned) -> planned] /\ \A i, j \in DOMAIN order : order[i] = order[j] => i = j
    BY DEF OrdersOf
  <2>3. Cardinality(planned) \in Nat
    <3>1. IsFiniteSet(ToSet(menu))
      <4>1. IsFiniteSet(DOMAIN menu)
        <5>1. DOMAIN menu = 1..Len(menu) /\ Len(menu) \in Nat
          BY <1>4
        <5> QED
          BY <5>1, FS_Interval
      <4>2. [i \in DOMAIN menu |-> menu[i]] \in Surjection(DOMAIN menu, ToSet(menu))
        BY DEF Surjection, ToSet
      <4> QED
        BY <4>1, <4>2, FS_Surjection
    <3> QED
      BY <1>2, <3>1, FS_Subset, FS_CardinalityType
  <2>4. order \in Seq(MenuOffers) /\ Distinct(order) /\ ToSet(order) \subseteq planned
    <3>1. order \in [1..Cardinality(planned) -> MenuOffers]
      BY <1>2, <1>4, <2>2
    <3> QED
      BY <2>2, <2>3, <3>1 DEF Distinct, ToSet
  <2>5. NamedIn(order) # <<>> => NamedIn(order)[1] \in ToSet(order)
    BY <2>4, NamedIs
  <2>6. led \in Seq(MenuOffers) /\ Distinct(led) /\ ToSet(led) \subseteq planned
    BY <2>4, <2>5, ToFrontIs
  <2>7. others \in Seq(MenuOffers) /\ ToSet(others) = ToSet(menu) \cap (MenuOffers \ planned) /\ (Distinct(menu) => Distinct(others))
    BY <1>4, KeptIs, KeptKeeps
  <2>8. menu' = led \o others
    BY <2>1
  <2> HIDE DEF led, others
  <2>9. \A o \in ToSet(led) : o \notin ToSet(others)
    BY <2>6, <2>7
  <2>10. /\ menu' \in Seq(MenuOffers) /\ ToSet(menu') \subseteq ToSet(menu) /\ (IsPinned \/ Distinct(menu'))
    BY <1>2, <1>4, <2>6, <2>7, <2>8, <2>9, JoinedIs
  <2> QED
    BY <1>1, <1>3, <1>4, <1>6, <2>10, StageDoes DEF Ordinary
<1> QED
  BY <1>5, <1>6

LEMMA PinRunInv ==
    ASSUME ChoiceInv, PinRun PROVE ChoiceInv'
<1>1. /\ step = "pin" /\ ask' = ask /\ fit' = fit /\ tries' = tries /\ resting' = resting
      /\ step' \in Between \cup {"refused", "ask"} /\ step' # "prefer"
  BY DEF PinRun, Go, TurnDown, Between
<1>2. step \in Between
  BY <1>1 DEF Between
<1>3. /\ menu \in Seq(MenuOffers) /\ ToSet(menu) \subseteq MenuOffers /\ (IsPinned \/ Distinct(menu))
      /\ \A o \in ToSet(menu) : Able(o) /\ FitsPreset(o)
      /\ Ordinary => InOrder(menu, BestPairs)
  BY <1>1, <1>2, MenuIs
<1>4. CASE ask.pin = NoOne \/ ask.exact # NoOne
  <2>1. menu' = menu /\ \A o : PinAllows(o)
    BY <1>4 DEF PinRun, PinAllows
  <2> QED
    BY <1>1, <1>2, <1>3, <2>1, StageDoes
<1>5. CASE ~(ask.pin = NoOne \/ ask.exact # NoOne) /\ Contains(menu, ask.pin)
  <2>1. menu' = <<ask.pin>>
    BY <1>5 DEF PinRun
  <2>2. ask.pin \in ToSet(menu)
    <3>1. DOMAIN menu = 1..Len(menu)
      BY <1>3
    <3> QED
      BY <1>5, <3>1 DEF Contains, ToSet
  <2>3. menu' \in Seq(MenuOffers) /\ ToSet(menu') = {ask.pin} /\ Distinct(menu') /\ InOrder(menu', BestPairs)
    BY <1>3, <2>1, <2>2, OneIsInOrder
  <2>4. \A o : (Fitting(o) => o = ask.pin)
    BY <1>5 DEF Fitting, MayServe
  <2>5. PinAllows(ask.pin)
    BY DEF PinAllows
  <2>6. \A o \in ToSet(menu') : Able(o) /\ FitsPreset(o) /\ PinAllows(o)
    BY <1>3, <2>2, <2>3, <2>5
  <2>7. \A o \in ToSet(menu) : Fitting(o) => o \in ToSet(menu')
    BY <2>3, <2>4
  <2> QED
    BY <1>1, <1>2, <2>2, <2>3, <2>6, <2>7, StageDoes
<1>6. CASE ~(ask.pin = NoOne \/ ask.exact # NoOne) /\ ~Contains(menu, ask.pin)
  <2>1. menu' = menu /\ step' = "refused" /\ step' \in Unpinned
    BY <1>6 DEF PinRun, TurnDown, Unpinned
  <2> QED
    BY <1>1, <1>2, <1>3, <2>1, StageDoes
<1> QED
  BY <1>4, <1>5, <1>6

(* What every stage has kept is what may serve.                            *)
LEMMA WalkedMayServe ==
    ASSUME ChoiceInv, step = "ask", NEW o \in ToSet(menu), ~Barred(o)
    PROVE  MayServe(o)
<1>1. Collectable(o) /\ Able(o) /\ FitsPreset(o) /\ PinAllows(o)
  BY DEF ChoiceInv, MenuIsAllowed, Unpinned, Unfiltered, Unranked
<1> QED
  BY <1>1 DEF Collectable, PinAllows, AppOffered, Barred, ShortEnough, MayServe

LEMMA BarredMayNot == \A o : MayServe(o) => ~Barred(o)
BY DEF MayServe, Barred, ShortEnough

(* What a step of the walk has to do.                                      *)
LEMMA WalkDoes ==
    ASSUME ChoiceInv, step = "ask", ask' = ask, fit' = fit, step' \in Walking,
           menu' \in Seq(MenuOffers), tries' \in Seq(MenuOffers), resting' \subseteq MenuOffers,
           ToSet(menu') \subseteq ToSet(menu), \A o \in ToSet(tries') : o \in ToSet(tries) \/ MayServe(o),
           Distinct(tries \o menu) => Distinct(tries' \o menu'),
           \A ahead : InOrder(tries \o menu, ahead) => InOrder(tries' \o menu', ahead),
           \A o \in ToSet(menu) \cup ToSet(tries) \cup resting :
               MayServe(o) => o \in ToSet(menu') \cup ToSet(tries') \cup resting'
    PROVE  ChoiceInv'
<1>1. /\ step' \in Unpinned \cup Walking /\ step' \notin Unpinned /\ step' \notin Unfiltered /\ step' \notin Unranked
      /\ step' # "collect" /\ step' # "refused" /\ step' # "prefer"
      /\ step \notin Unpinned /\ step \notin Unfiltered /\ step \notin Unranked
  BY DEF Walking, Unpinned, Unfiltered, Unranked
<1>2. /\ Ordinary' <=> Ordinary
      /\ IsPinned' <=> IsPinned
      /\ LedPairs' = LedPairs /\ BestPairs' = BestPairs
      /\ \A o : Fitting(o)' <=> Fitting(o)
      /\ \A o : MayServe(o)' <=> MayServe(o)
      /\ \A o : Collectable(o)' <=> Collectable(o)
      /\ \A o : Able(o)' <=> Able(o)
      /\ \A o : FitsPreset(o)' <=> FitsPreset(o)
      /\ \A o : PinAllows(o)' <=> PinAllows(o)
  BY SameRequest, SameChoice
<1>3. Lists'
  BY <1>1 DEF ChoiceInv, Lists
<1>4. AskedOnce'
  BY <1>2 DEF ChoiceInv, AskedOnce
<1>5. MenuIsAllowed'
  <2>1. \A o \in ToSet(menu') : Collectable(o) /\ Able(o) /\ FitsPreset(o) /\ PinAllows(o)
    BY <1>1 DEF ChoiceInv, MenuIsAllowed
  <2> QED
    BY <1>2, <2>1 DEF MenuIsAllowed
<1>6. TriedMayServe'
  BY <1>2 DEF ChoiceInv, TriedMayServe
<1>7. NoneLost'
  <2>1. ASSUME Ordinary, NEW o \in MenuOffers, Fitting(o) PROVE o \in ToSet(menu') \cup ToSet(tries') \cup resting'
    <3>1. o \in ToSet(menu) \cup ToSet(tries) \cup resting
      BY <2>1 DEF ChoiceInv, NoneLost
    <3>2. MayServe(o)
      BY <2>1 DEF Fitting
    <3> QED
      BY <3>1, <3>2
  <2> QED
    BY <1>2, <2>1 DEF NoneLost
<1>8. RankedByMarks' /\ BestFirst'
  <2>1. Ordinary => InOrder(tries \o menu, BestPairs)
    BY <1>1 DEF ChoiceInv, BestFirst
  <2> QED
    BY <1>1, <1>2, <2>1 DEF RankedByMarks, BestFirst
<1> QED
  BY <1>3, <1>4, <1>5, <1>6, <1>7, <1>8 DEF ChoiceInv

LEMMA SkipInv ==
    ASSUME ChoiceInv, Skip PROVE ChoiceInv'
<1> DEFINE o == Head(menu)
<1>1. /\ step = "ask" /\ step' = step /\ menu # <<>> /\ ask' = ask /\ fit' = fit /\ tries' = tries /\ menu' = Tail(menu)
      /\ (Barred(o) /\ resting' = resting) \/ (~Barred(o) /\ resting' = resting \cup {o})
  BY DEF Skip
<1>2. menu \in Seq(MenuOffers) /\ tries \in Seq(MenuOffers) /\ resting \subseteq MenuOffers
  BY DEF ChoiceInv, Lists
<1> HIDE DEF o
<1>3. /\ o \in ToSet(menu) /\ Tail(menu) \in Seq(MenuOffers) /\ ToSet(menu) = {o} \cup ToSet(Tail(menu))
      /\ Distinct(tries \o menu) => Distinct(tries \o Tail(menu))
      /\ \A ahead : InOrder(tries \o menu, ahead) => InOrder(tries \o Tail(menu), ahead)
  BY <1>1, <1>2, DroppedIs DEF o
<1>4. o \in MenuOffers
  BY <1>2, <1>3 DEF ToSet
<1>5. \A x \in ToSet(menu) \cup ToSet(tries) \cup resting :
          MayServe(x) => x \in ToSet(menu') \cup ToSet(tries') \cup resting'
  BY <1>1, <1>3, BarredMayNot
<1>6. resting' \subseteq MenuOffers /\ step' \in Walking
  BY <1>1, <1>2, <1>4 DEF Walking
<1> QED
  BY <1>1, <1>2, <1>3, <1>5, <1>6, WalkDoes

LEMMA AskInv ==
    ASSUME ChoiceInv, AskOffer PROVE ChoiceInv'
<1> DEFINE o == Head(menu)
<1>1. /\ step = "ask" /\ step' \in Walking /\ menu # <<>> /\ ask' = ask /\ fit' = fit /\ resting' = resting
      /\ ~Barred(o) /\ tries' = Append(tries, o) /\ menu' = Tail(menu)
  BY DEF AskOffer, Go, Walking
<1>2. menu \in Seq(MenuOffers) /\ tries \in Seq(MenuOffers) /\ resting \subseteq MenuOffers
  BY DEF ChoiceInv, Lists
<1> HIDE DEF o
<1>3. /\ o \in ToSet(menu) /\ Tail(menu) \in Seq(MenuOffers) /\ ToSet(menu) = {o} \cup ToSet(Tail(menu))
      /\ Append(tries, o) \in Seq(MenuOffers) /\ ToSet(Append(tries, o)) = ToSet(tries) \cup {o}
      /\ Append(tries, o) \o Tail(menu) = tries \o menu
  BY <1>1, <1>2, DroppedIs DEF o
<1>4. MayServe(o)
  BY <1>1, <1>3, WalkedMayServe
<1>5. tries' \o menu' = tries \o menu
  BY <1>1, <1>3
<1>6. /\ ToSet(menu') \subseteq ToSet(menu) /\ \A x \in ToSet(tries') : x \in ToSet(tries) \/ MayServe(x)
      /\ \A x \in ToSet(menu) \cup ToSet(tries) \cup resting :
             MayServe(x) => x \in ToSet(menu') \cup ToSet(tries') \cup resting'
  BY <1>1, <1>3, <1>4
<1> QED
  BY <1>1, <1>2, <1>3, <1>5, <1>6, WalkDoes

LEMMA RunOutInv ==
    ASSUME ChoiceInv, RunOut PROVE ChoiceInv'
<1>1. /\ step = "ask" /\ step' \in Walking /\ ask' = ask /\ fit' = fit /\ resting' = resting /\ tries' = tries /\ menu' = menu
  BY DEF RunOut, Go, Walking
<1>2. menu \in Seq(MenuOffers) /\ tries \in Seq(MenuOffers) /\ resting \subseteq MenuOffers
  BY DEF ChoiceInv, Lists
<1> QED
  BY <1>1, <1>2, WalkDoes

LEMMA ChoiceInvStutter ==
    ASSUME ChoiceInv, UNCHANGED choiceVars PROVE ChoiceInv'
<1>1. ask' = ask /\ fit' = fit /\ menu' = menu /\ step' = step /\ tries' = tries /\ resting' = resting
  BY DEF choiceVars
<1> QED
  BY <1>1, SameRequest, SameChoice DEF ChoiceInv, Lists, AskedOnce, MenuIsAllowed, TriedMayServe, NoneLost, RankedByMarks, BestFirst,
     Walking, Unpinned, Unfiltered, Unranked

LEMMA ChoiceInvHolds == ChoiceSpec => []ChoiceInv
<1>1. ChoiceInit => ChoiceInv
  BY ChoiceConstants, ChoiceInvInit
<1>2. ChoiceInv /\ [ChoiceNext]_choiceVars => ChoiceInv'
  <2> SUFFICES ASSUME ChoiceInv, [ChoiceNext]_choiceVars PROVE ChoiceInv'
    OBVIOUS
  <2>1. CASE CollectPool
    BY <2>1, ChoiceConstants, PoolInv
  <2>2. CASE CollectPinned
    BY <2>2, ChoiceConstants, PinnedInv
  <2>3. CASE CollectExact
    BY <2>3, ChoiceConstants, ExactInv
  <2>4. CASE FreeFirst
    BY <2>4, FreeFirstInv
  <2>5. CASE Rank
    BY <2>5, ChoiceConstants, RankInv
  <2>6. CASE Prefer
    BY <2>6, PreferInv
  <2>7. CASE ApplyPreset
    BY <2>7, PresetInv
  <2>8. CASE Weigh
    BY <2>8, WeighInv
  <2>9. CASE PinRun
    BY <2>9, PinRunInv
  <2>10. CASE Skip
    BY <2>10, SkipInv
  <2>11. CASE AskOffer
    BY <2>11, AskInv
  <2>12. CASE RunOut
    BY <2>12, RunOutInv
  <2>13. CASE UNCHANGED choiceVars
    BY <2>13, ChoiceInvStutter
  <2> QED
    BY <2>1, <2>2, <2>3, <2>4, <2>5, <2>6, <2>7, <2>8, <2>9, <2>10, <2>11, <2>12, <2>13 DEF ChoiceNext
<1> QED
  BY <1>1, <1>2, PTL DEF ChoiceSpec

(* The menu, the offers asked and those that rest are offers, and unless   *)
(* an administrator pinned a list that names one twice, no offer is on the *)
(* menu twice, or again after it was asked.                                *)
THEOREM ChoiceTyped == ChoiceSpec => []ChoiceTypeOK
<1>1. ChoiceInv => ChoiceTypeOK
  <2> SUFFICES ASSUME ChoiceInv PROVE ChoiceTypeOK
    OBVIOUS
  <2>1. menu \in Seq(MenuOffers) /\ tries \in Seq(MenuOffers) /\ resting \subseteq MenuOffers /\ fit \subseteq MenuOffers
    BY DEF ChoiceInv, Lists
  <2>2. ToSet(menu) \subseteq MenuOffers /\ ToSet(tries) \subseteq MenuOffers
    BY <2>1 DEF ToSet
  <2>3. step \in {"collect", "free first", "rank", "prefer", "preset", "evidence", "pin", "ask", "refused", "answered", "failed"}
    BY DEF ChoiceInv, Lists, Walking, Unpinned, Unfiltered, Unranked
  <2>4. tries \o menu \in Seq(MenuOffers)
    BY <2>1, JoinedIs
  <2>5. IsPinned \/ Len(tries \o menu) = Cardinality(ToSet(tries \o menu))
    BY <2>4, DistinctCounts DEF ChoiceInv, AskedOnce
  <2> QED
    BY <2>1, <2>2, <2>3, <2>5 DEF ChoiceTypeOK
<1> QED
  BY <1>1, ChoiceInvHolds, PTL

(* candidates() and execute() of providers/index.js: for every registry,   *)
(* request, preset, payer and verdict of the planner, whoever is asked may *)
(* serve, by every rule at once, and no better offer that was fit and not  *)
(* resting still waits for its turn.                                       *)
THEOREM TheBestIsAsked == ChoiceSpec => []AsksTheBest
<1>1. ChoiceInv => AsksTheBest
  <2> SUFFICES ASSUME ChoiceInv, NEW i \in DOMAIN tries
               PROVE  /\ MayServe(tries[i])
                      /\ KeepsOrder \/ Measured \/ \A o \in (fit \ {Stub}) \ (resting \cup ToSet(SubSeq(tries, 1, i))) :
                            MayServe(o) => ~Better(o, tries[i])
    BY DEF AsksTheBest
  <2>1. menu \in Seq(MenuOffers) /\ tries \in Seq(MenuOffers) /\ fit \subseteq MenuOffers
    BY DEF ChoiceInv, Lists
  <2>2. MayServe(tries[i])
    BY DEF ChoiceInv, TriedMayServe, ToSet
  <2>3. ASSUME Ordinary, NEW o \in fit \ {Stub}, o \notin resting, o \notin ToSet(SubSeq(tries, 1, i)), MayServe(o), Better(o, tries[i])
        PROVE  FALSE
    <3> DEFINE all == tries \o menu
    <3>1. tries # <<>>
      BY <2>1
    <3>2. step \in Walking
      BY <3>1 DEF ChoiceInv, Lists
    <3>3. InOrder(all, BestPairs) /\ o \in ToSet(menu) \cup ToSet(tries)
      BY <2>1, <2>3, <3>2 DEF ChoiceInv, BestFirst, NoneLost, Fitting, Walking, Unranked
    <3>4. /\ DOMAIN all = 1..(Len(tries) + Len(menu)) /\ Len(tries) \in Nat /\ Len(menu) \in Nat
          /\ i \in 1..Len(tries)
          /\ \A k \in DOMAIN all : all[k] = IF k <= Len(tries) THEN tries[k] ELSE menu[k - Len(tries)]
      BY <2>1
    <3>5. PICK j \in DOMAIN all : all[j] = o
      <4>1. ToSet(all) = ToSet(tries) \cup ToSet(menu)
        BY <2>1, JoinedIs
      <4> QED
        BY <3>3, <4>1 DEF ToSet
    <3>6. ~(j <= i)
      <4>1. ASSUME j <= i PROVE o \in ToSet(SubSeq(tries, 1, i))
        <5>1. DOMAIN SubSeq(tries, 1, i) = 1..i /\ \A k \in 1..i : SubSeq(tries, 1, i)[k] = tries[k]
          BY <2>1, <3>4
        <5>2. j \in 1..i /\ tries[j] = o
          BY <3>4, <3>5, <4>1
        <5> QED
          BY <5>1, <5>2 DEF ToSet
      <4> QED
        BY <2>3, <4>1
    <3>7. i \in DOMAIN all /\ all[i] = tries[i] /\ i < j
      BY <3>4, <3>5, <3>6
    <3> HIDE DEF all
    <3>8. <<o, tries[i]>> \notin BestPairs
      BY <3>3, <3>5, <3>7 DEF InOrder
    <3>9. tries[i] \in MenuOffers /\ o \in MenuOffers
      BY <2>1, <2>3
    <3>10. o # tries[i]
      <4>1. DOMAIN SubSeq(tries, 1, i) = 1..i /\ SubSeq(tries, 1, i)[i] = tries[i] /\ i \in 1..i
        BY <2>1, <3>4
      <4> QED
        BY <2>3, <4>1 DEF ToSet
    <3> QED
      BY <2>2, <2>3, <3>8, <3>9, <3>10 DEF BestPairs, Fitting
  <2> QED
    BY <2>2, <2>3 DEF Ordinary
<1> QED
  BY <1>1, ChoiceInvHolds, PTL

---------------------------------------------------------------------------------
(* The services side by side.                                              *)

(* A step of one service is a step of its own specification, and leaves    *)
(* the others where they are.                                              *)
LEMMA EachServiceSteps ==
    [ServicesNext]_ServicesVars =>
        /\ [BatchNext]_batchVars
        /\ [MemoryNext]_memoryVars
        /\ [CommunityNext]_communityVars
        /\ [CredentialNext]_credentialVars
        /\ [BookNext]_bookVars
        /\ [RegistryNext]_registryVars
        /\ [IncumbentNext]_incumbentVars
        /\ [RatingNext]_ratingVars
        /\ [UseNext]_useVars
        /\ [PriceNext]_priceVars
        /\ [ChoiceNext]_choiceVars
<1> SUFFICES ASSUME [ServicesNext]_ServicesVars
             PROVE  /\ [BatchNext]_batchVars
                    /\ [MemoryNext]_memoryVars
                    /\ [CommunityNext]_communityVars
                    /\ [CredentialNext]_credentialVars
                    /\ [BookNext]_bookVars
                    /\ [RegistryNext]_registryVars
                    /\ [IncumbentNext]_incumbentVars
                    /\ [RatingNext]_ratingVars
                    /\ [UseNext]_useVars
                    /\ [PriceNext]_priceVars
                    /\ [ChoiceNext]_choiceVars
  OBVIOUS
<1>1. CASE OfBatches
  BY <1>1 DEF OfBatches, sellingVars, routingVars
<1>2. CASE OfMemory
  BY <1>2 DEF OfMemory, sellingVars, routingVars
<1>3. CASE OfCommunity
  BY <1>3 DEF OfCommunity, sellingVars, routingVars
<1>4. CASE OfCredentials
  BY <1>4 DEF OfCredentials, sellingVars, routingVars
<1>5. CASE OfPrices
  BY <1>5 DEF OfPrices, sellingVars, routingVars
<1>6. CASE OfRegistry
  BY <1>6 DEF OfRegistry, sellingVars, routingVars
<1>7. CASE OfIncumbents
  BY <1>7 DEF OfIncumbents, sellingVars, routingVars
<1>8. CASE OfRatings
  BY <1>8 DEF OfRatings, sellingVars, routingVars
<1>9. CASE OfAccounts
  BY <1>9 DEF OfAccounts, sellingVars, routingVars, UseNext
<1>10. CASE OfSolvers
  BY <1>10 DEF OfSolvers, sellingVars, routingVars, UseNext
<1>11. CASE OfCharges
  BY <1>11 DEF OfCharges, sellingVars, routingVars
<1>12. CASE OfOffers
  BY <1>12 DEF OfOffers, sellingVars, routingVars
<1>13. CASE UNCHANGED ServicesVars
  BY <1>13 DEF ServicesVars, sellingVars, routingVars
<1> QED
  BY <1>1, <1>2, <1>3, <1>4, <1>5, <1>6, <1>7, <1>8, <1>9, <1>10, <1>11, <1>12, <1>13 DEF ServicesNext

(* So a behaviour of the services together is one of each of them: what is *)
(* proved of a service holds beside the others.                            *)
THEOREM ServicesRunAlone ==
    ServicesSpec =>
        /\ BatchSpec
        /\ MemorySpec
        /\ CommunitySpec
        /\ CredentialSpec
        /\ BookSpec
        /\ RegistrySpec
        /\ IncumbentSpec
        /\ RatingSpec
        /\ UseSpec
        /\ PriceSpec
        /\ ChoiceSpec
<1>1. ServicesInit =>
        /\ BatchInit
        /\ MemoryInit
        /\ CommunityInit
        /\ CredentialInit
        /\ BookInit
        /\ RegistryInit
        /\ IncumbentInit
        /\ RatingInit
        /\ UseInit
        /\ PriceInit
        /\ ChoiceInit
  BY DEF ServicesInit
<1> QED
  BY <1>1, EachServiceSteps, PTL DEF ServicesSpec, BatchSpec, MemorySpec, CommunitySpec, CredentialSpec, BookSpec, RegistrySpec,
     IncumbentSpec, RatingSpec, UseSpec, PriceSpec, ChoiceSpec

(* Every row, claim, request and run of every service keeps its type, for  *)
(* every value of the constants and in every order of their steps.         *)
THEOREM ServicesTyped == ServicesSpec => []ServicesTypeOK
BY ServicesRunAlone, LossesAreWritten, ProfilesForget, CreditsAreFair, KeysAreLatest, PricesAreLogged, RegistryTyped,
   SwitchesAreEarned, RatingsAreNewest, FreeUseIsMetered, ChargeHolds, ChoiceTyped, PTL DEF ServicesTypeOK

==================================================================================
