------------------------------ MODULE CreditPrices ------------------------------
(***************************************************************************)
(* The arithmetic of server/credits.js: what the card of an offer makes of *)
(* tokens, how much max_cost_usd can buy, and what a session that goes     *)
(* from offer to offer therefore holds when its answer is charged.         *)
(* RunMoney has the session's order and its failures, with the amounts as  *)
(* constants; here an amount is computed, in nano-USD, as the code does.   *)
(*                                                                         *)
(* The engine hands on input, output and cached counts: cache_write is 0.  *)
(***************************************************************************)
EXTENDS Integers

CONSTANTS PerMillion,   \* a rate is for so many tokens
          Cards,        \* the retail cards, before a discount
          MaxCosts,     \* what a caller may set max_cost_usd to
          Tokens        \* bound of the model: counts of tokens

CardFields == {"input", "cached", "output", "request"}
Unlimited  == -1
ZeroRetail == [f \in CardFields |-> 0]

ASSUME CreditPricesAssumption ==
    /\ PerMillion \in Nat \ {0}
    /\ Cards \subseteq [CardFields -> Nat]
    /\ MaxCosts \subseteq Nat
    /\ Tokens \subseteq Nat

VARIABLES maxCost,    \* max_cost_usd, or Unlimited
          halved,     \* a batch: the discount of the session
          estimate,   \* inputTokens
          retail,     \* the card the answer will be charged on
          maxTokens,    \* the max_tokens of the attempt
          hasHold,    \* a hold was created
          heldNano,   \* what it holds
          charging,   \* open, managed or prepaid (an attempt); refused; charged, or unclamped if prepaid
          usage,      \* what the provider counted
          charge      \* what Billing charges
priceVars == <<maxCost, halved, estimate, retail, maxTokens, hasHold, heldNano, charging, usage, charge>>

NoUsage == [input |-> 0, cached |-> 0, output |-> 0]

---------------------------------------------------------------------------------
(* chargeNano(): rounded up, per component.                                *)
ChargeNano(tokens, rate) == (tokens * rate + PerMillion - 1) \div PerMillion

(* applyDiscount(): every rate of a batch's card is halved, rounded down.  *)
ApplyDiscount(card) == IF halved THEN [f \in CardFields |-> card[f] \div 2] ELSE card

(* retailChargeNano()                                                      *)
RetailCharge(card, used) ==
    card["request"] + ChargeNano(used.input, card["input"])
      + ChargeNano(used.cached, card["cached"]) + ChargeNano(used.output, card["output"])

(* affordable(): what the input costs, the output tokens the rest of the   *)
(* cap buys, and the amount to hold.                                       *)
BaseOf(card) == card["request"] + ChargeNano(estimate, card["input"])
Binds(card)  == maxCost # Unlimited /\ card["output"] > 0

(* Mutant: the cap buys output tokens as if the input were free.           *)
Can_ForgetsInput(card) == (maxCost * PerMillion) \div card["output"]
Can(card)              == ((maxCost - BaseOf(card)) * PerMillion) \div card["output"]

Affords(card)  == /\ maxCost # Unlimited => maxCost >= BaseOf(card)
                  /\ Binds(card) => Can(card) >= 1
PlanTokens(card, requested) ==
    IF Binds(card) /\ Can(card) < requested THEN Can(card) ELSE requested
PlanAmount(card, requested) == BaseOf(card) + ChargeNano(PlanTokens(card, requested), card["output"])

---------------------------------------------------------------------------------
PriceInit ==
    /\ maxCost \in MaxCosts \cup {Unlimited}
    /\ halved \in BOOLEAN
    /\ estimate \in Tokens
    /\ retail = ZeroRetail /\ maxTokens = 0 /\ hasHold = FALSE /\ heldNano = 0
    /\ charging = "open" /\ usage = NoUsage /\ charge = 0

Sold == UNCHANGED <<maxCost, halved, estimate, usage, charge>>

(* onRoute() of a managed offer the cap can buy: the first one is held,    *)
(* a later one extends the hold by what is missing.                        *)
Hold(card, requested) ==
    /\ charging = "open" /\ Affords(card) /\ requested >= 1
    /\ retail' = card /\ maxTokens' = PlanTokens(card, requested)
    /\ heldNano' = IF PlanAmount(card, requested) > heldNano THEN PlanAmount(card, requested) ELSE heldNano
    /\ hasHold' = TRUE /\ charging' = "managed"
    /\ Sold

(* Billing refuses the extension: the offer is skipped, its card stays.    *)
NotExtended(card, requested) ==
    /\ charging = "open" /\ hasHold /\ Affords(card) /\ requested >= 1
    /\ PlanAmount(card, requested) > heldNano
    /\ retail' = card
    /\ UNCHANGED <<maxTokens, hasHold, heldNano, charging>>
    /\ Sold

(* The cap does not buy one token of the first offer: 402.  A fallback     *)
(* that cannot be bought is skipped, and changes nothing.                  *)
Refuse(card) ==
    /\ charging = "open" /\ ~hasHold /\ ~Affords(card)
    /\ charging' = "refused"
    /\ UNCHANGED <<retail, maxTokens, hasHold, heldNano>>
    /\ Sold

(* A prepaid offer after a hold: charged on its card, or on zero; nothing  *)
(* clamps its output.                                                      *)
Prepaid(card) ==
    /\ charging = "open" /\ hasHold
    /\ retail' = card /\ charging' = "prepaid"
    /\ UNCHANGED <<maxTokens, hasHold, heldNano>>
    /\ Sold

(* maybeExtend(): the output, without the input, would cost four fifths of *)
(* the hold, which grows by as much again, but not above the cap.          *)
Projected(out) == retail["request"] + ChargeNano(out, retail["output"])
Near(out)      == IF heldNano > 0 THEN Projected(out) * 5 >= heldNano * 4 ELSE Projected(out) > 0
StepOf(out)    == LET step == IF heldNano > 0 THEN heldNano ELSE Projected(out)
                      room == maxCost - heldNano
                  IN  IF maxCost # Unlimited /\ step > room THEN room ELSE step

Grow(out) ==
    /\ charging \in {"managed", "prepaid"} /\ Near(out)
    /\ charging = "managed" => out <= maxTokens
    /\ maxCost # Unlimited => heldNano < maxCost
    /\ heldNano' = heldNano + StepOf(out)
    /\ UNCHANGED <<retail, maxTokens, hasHold, charging>>
    /\ Sold

(* The attempt fails, and the router goes on to the next offer.            *)
Fail ==
    /\ charging \in {"managed", "prepaid"}
    /\ charging' = "open"
    /\ UNCHANGED <<retail, maxTokens, hasHold, heldNano>>
    /\ Sold

(* The answer: usageOf() takes the cached tokens out of the whole input,   *)
(* and Billing charges the usage on the card.  A managed provider writes   *)
(* no more than it was asked for.                                          *)
Answer(whole, cached, out) ==
    /\ charging \in {"managed", "prepaid"}
    /\ charging = "managed" => out <= maxTokens
    /\ usage' = [input |-> IF whole > cached THEN whole - cached ELSE 0, cached |-> cached, output |-> out]
    /\ charge' = RetailCharge(retail, usage')
    /\ charging' = IF charging = "managed" THEN "charged" ELSE "unclamped"
    /\ UNCHANGED <<maxCost, halved, estimate, retail, maxTokens, hasHold, heldNano>>

PriceNext ==
    \/ \E c \in Cards :
          \/ \E n \in Tokens : Hold(ApplyDiscount(c), n) \/ NotExtended(ApplyDiscount(c), n)
          \/ Refuse(ApplyDiscount(c))
    \/ \E c \in Cards \cup {ZeroRetail} : Prepaid(ApplyDiscount(c))
    \/ \E n \in Tokens : Grow(n)
    \/ Fail
    \/ \E whole, cached, out \in Tokens : Answer(whole, cached, out)
PriceSpec == PriceInit /\ [][PriceNext]_priceVars

---------------------------------------------------------------------------------
PriceTypeOK ==
    /\ maxCost \in MaxCosts \cup {Unlimited} /\ halved \in BOOLEAN /\ estimate \in Tokens
    /\ retail \in [CardFields -> Nat] /\ maxTokens \in Nat /\ hasHold \in BOOLEAN /\ heldNano \in Nat
    /\ charging \in {"open", "managed", "prepaid", "refused", "charged", "unclamped"}
    /\ usage \in [input : Nat, cached : Nat, output : Nat] /\ charge \in Nat

(* A caller who set max_cost_usd is never held for more, whatever offers,  *)
(* extensions and refusals the session went through; and the answer of a   *)
(* managed offer, when its input was what the session estimated and the    *)
(* card does not ask more for cached input, is charged no more than what   *)
(* is held, but for the one nano-USD that rounding the cached part on its  *)
(* own may add (affordable(), onRoute() and maybeExtend() of credits.js).  *)
ChargeIsHeld ==
    /\ maxCost # Unlimited => heldNano <= maxCost
    /\ charging = "charged" /\ usage.input + usage.cached <= estimate /\ retail["cached"] <= retail["input"]
          => charge <= heldNano + (IF usage.cached > 0 THEN 1 ELSE 0)
=================================================================================
