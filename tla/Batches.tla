--------------------------------- MODULE Batches ---------------------------------
(***************************************************************************)
(* The half-price batches (server/batch/service.js, server/batch/          *)
(* capacity.js): a worker claims one item at a time, runs it where         *)
(* capacity is cheap enough, and the settle check of its run refuses an    *)
(* answer whose route cost more than the customer is charged, unless the   *)
(* loss budget of the day covers the difference.  A run that outlives the  *)
(* wait of its worker goes on without it, and so does one whose worker     *)
(* stopped early; a process that dies takes both with it.                  *)
(***************************************************************************)
EXTENDS Naturals, FiniteSets, FiniteSetsExt, Sequences, SequencesExt

CONSTANTS ItemOrder,     \* Seq(items): the oldest first
          BatchOf,       \* [items -> batches]
          Unpriced,      \* the batches whose model has no retail card
          BatchWorkers,  \* the processes that tick
          Retail,        \* the retail card of the model: per input and per output token
          Offers,        \* what serves the model: [cost, source, hours]
          Usage,         \* the token counts an answer may have
          LossBudget,    \* ai.batches.loss_budget_usd_per_day, in nano-USD
          OutlivesWait,  \* whether a run may outlive the wait of its worker
          MaxBatchRuns,  \* bound of the model: the runs there are
          MaxStops       \* bound of the model: how often a worker stops early or dies

Prices == [input : Nat, output : Nat]

ASSUME BatchConstants ==
    /\ IsFiniteSet(ToSet(ItemOrder))
    /\ Retail \in Prices /\ Usage \subseteq Prices
    /\ Offers \subseteq [cost : Prices, source : STRING, hours : SUBSET {"peak", "off-peak"}]
    /\ LossBudget \in Nat /\ OutlivesWait \in BOOLEAN /\ MaxBatchRuns \in Nat /\ MaxStops \in Nat

NoItem  == "no item"
NoRoute == [cost |-> [input |-> 0, output |-> 0], source |-> "none", hours |-> {}]
BatchItems == ToSet(ItemOrder)
Batches    == {BatchOf[i] : i \in BatchItems}
BatchRuns  == 1..MaxBatchRuns

VARIABLES items,    \* batch_items: status, who claimed it, whether its error_code is batch.cost_exceeded, what it absorbed
          batches,  \* batches: status and absorbed_nano_usd
          ticks,    \* of each worker: the step of runOnce(), the item and the route it decided on, the run it waits for
          jobs,     \* the runs the items were given to: item, route, step, tokens, what budgetLeft() said, what it cost
          hour,     \* the hour of the day: off-peak or peak
          late,     \* the batches whose deadline passed
          charges,  \* history: how often an item was charged
          stops
batchVars == <<items, batches, ticks, jobs, hour, late, charges, stops>>

NoJob  == [item |-> NoItem, route |-> NoRoute, step |-> "none", named |-> FALSE,
           tokens |-> [input |-> 0, output |-> 0], left |-> 0]
Ended  == {"failed", "charged", "refused"}
NoTick == [step |-> "idle", item |-> NoItem, job |-> 0, regular |-> FALSE]

BatchInit ==
    /\ items = [i \in BatchItems |-> [status |-> "queued", by |-> NoItem, marked |-> FALSE, absorbed |-> 0]]
    /\ batches = [b \in Batches |-> [status |-> "queued", absorbed |-> 0]]
    /\ ticks = [w \in BatchWorkers |-> NoTick]
    /\ jobs = [r \in BatchRuns |-> NoJob]
    /\ hour = "peak" /\ late = {} /\ stops = 0
    /\ charges = [i \in BatchItems |-> 0]

---------------------------------------------------------------------------------
(* capacity.js: where a batch may run.                                     *)

Cost(card, tokens) == card.input * tokens.input + card.output * tokens.output

(* Every component of the card is halved, rounded down.                    *)
Charge == [part \in {"input", "output"} |-> Retail[part] \div 2]

Within(cost) == \A part \in {"input", "output"} : cost[part] <= Charge[part]

(* What costs the network nothing, a seller who asks at most half, or a    *)
(* provider inside its off-peak window at a price of at most half.         *)
Eligible(offer) ==
    CASE offer.source \in {"own", "free"} -> TRUE
      [] offer.source = "community"       -> Within(offer.cost)
      [] offer.source = "window"          -> hour \in offer.hours /\ Within(offer.cost)
      [] OTHER                            -> FALSE

(* Own and free capacity is entered at no cost.                            *)
RouteOf(offer) == IF offer.source \in {"own", "free"} THEN [offer EXCEPT !.cost = NoRoute.cost] ELSE offer

Routes(b) == IF b \in Unpriced THEN {} ELSE {RouteOf(o) : o \in {offer \in Offers : Eligible(offer)}}
Cheapest(routes) == {r \in routes : \A s \in routes : r.cost.input <= s.cost.input}

---------------------------------------------------------------------------------
(* A pass of the worker: runOnce().                                        *)

Set(i, status) == [items EXCEPT ![i].status = status, ![i].by = NoItem]
At(w, step)    == ticks' = [ticks EXCEPT ![w].step = step]
Idle(w)        == ticks' = [ticks EXCEPT ![w] = NoTick]

Open == {"queued", "waiting"}
Claimable(i) == items[i].status \in Open /\ items[i].by = NoItem

(* claimNext(): the oldest open item that nobody claims.                   *)
ClaimItem(w) ==
    /\ ticks[w].step = "idle"
    /\ \E n \in DOMAIN ItemOrder :
        /\ Claimable(ItemOrder[n]) /\ \A m \in 1..(n - 1) : ~Claimable(ItemOrder[m])
        /\ items' = [items EXCEPT ![ItemOrder[n]].by = w]
        /\ ticks' = [ticks EXCEPT ![w].step = "decide", ![w].item = ItemOrder[n]]
    /\ UNCHANGED <<batches, jobs, hour, late, charges, stops>>

(* budgetLeft(): what is written on the items, against the budget.         *)
Absorbed   == MapThenSumSet(LAMBDA i : items[i].absorbed, BatchItems)
BudgetLeft == IF LossBudget > Absorbed THEN LossBudget - Absorbed ELSE 0

(* runItem() creates a run, with the route as a preference.                *)
GiveToRun(w, route, regular) ==
    \E r \in BatchRuns :
        /\ jobs[r] = NoJob /\ \A s \in 1..(r - 1) : jobs[s] # NoJob
        /\ jobs' = [jobs EXCEPT ![r].item = ticks[w].item, ![r].route = route, ![r].step = "going"]
        /\ ticks' = [ticks EXCEPT ![w].step = "wait", ![w].job = r, ![w].regular = regular]

(* On cheap capacity if there is any; else the item waits for it until its *)
(* deadline; then ordinary capacity if the loss budget has anything left;  *)
(* else it expires.                                                        *)
DecideRun(w) ==
    /\ ticks[w].step = "decide"
    /\ LET b == BatchOf[ticks[w].item] IN
       IF Routes(b) # {} THEN \E route \in Cheapest(Routes(b)) : GiveToRun(w, route, FALSE)
       ELSE b \in late \ Unpriced /\ BudgetLeft > 0 /\ GiveToRun(w, NoRoute, TRUE)
    /\ UNCHANGED <<items, batches, hour, late, charges, stops>>

DecideWait(w) ==
    /\ ticks[w].step = "decide"
    /\ Routes(BatchOf[ticks[w].item]) = {} /\ BatchOf[ticks[w].item] \notin late
    /\ items' = Set(ticks[w].item, "waiting") /\ Idle(w)
    /\ UNCHANGED <<batches, jobs, hour, late, charges, stops>>

DecideExpire(w) ==
    /\ ticks[w].step = "decide"
    /\ LET b == BatchOf[ticks[w].item] IN Routes(b) = {} /\ b \in late /\ (b \in Unpriced \/ BudgetLeft = 0)
    /\ At(w, "expire")
    /\ UNCHANGED <<items, batches, jobs, hour, late, charges, stops>>

(* The run is over, or the wait is: a run that did not succeed makes the   *)
(* item failed, one whose settle was refused makes it wait, any other is   *)
(* the answer.                                                             *)
Succeeded(r) == jobs[r].step \in {"charged", "refused"} \cup (IF OutlivesWait THEN {"check", "absorb", "settle"} ELSE {})

WaitFails(w) ==
    /\ ticks[w].step = "wait"
    /\ jobs[ticks[w].job].step \in {"failed"} \cup (IF OutlivesWait THEN {"going"} ELSE {})
    /\ items' = [Set(ticks[w].item, "failed") EXCEPT ![ticks[w].item].marked = FALSE]
    /\ At(w, "release")
    /\ UNCHANGED <<batches, jobs, hour, late, charges, stops>>

WaitRefused(w) ==
    /\ ticks[w].step = "wait" /\ Succeeded(ticks[w].job)
    /\ items[ticks[w].item].marked
    /\ items' = Set(ticks[w].item, "waiting")
    /\ At(w, IF ticks[w].regular THEN "expire" ELSE "release")
    /\ UNCHANGED <<batches, jobs, hour, late, charges, stops>>

WaitAnswered(w) ==
    /\ ticks[w].step = "wait" /\ Succeeded(ticks[w].job)
    /\ ~items[ticks[w].item].marked
    /\ items' = Set(ticks[w].item, "succeeded")
    /\ At(w, "finish")
    /\ UNCHANGED <<batches, jobs, hour, late, charges, stops>>

(* runOnce() makes an item whose run gave no answer wait, whatever runItem *)
(* wrote.                                                                  *)
ReleaseItem(w) ==
    /\ ticks[w].step = "release"
    /\ items' = Set(ticks[w].item, "waiting") /\ Idle(w)
    /\ UNCHANGED <<batches, jobs, hour, late, charges, stops>>

(* expireItem(): the item, then its batch.                                 *)
ExpireItem(w) ==
    /\ ticks[w].step = "expire"
    /\ items' = Set(ticks[w].item, "expired") /\ At(w, "expireBatch")
    /\ UNCHANGED <<batches, jobs, hour, late, charges, stops>>

ExpireBatch(w) ==
    /\ ticks[w].step = "expireBatch"
    /\ LET b == BatchOf[ticks[w].item] IN
       batches' = [batches EXCEPT ![b].status = IF @ = "queued" THEN "expired" ELSE @]
    /\ Idle(w)
    /\ UNCHANGED <<items, jobs, hour, late, charges, stops>>

(* finishBatch(): a batch without open items says how they ended.          *)
InBatch(b) == {i \in BatchItems : BatchOf[i] = b}

(* Mutant: the batch is finished with its last answer, not its last item.  *)
FinishBatch_AnyOpen(w) ==
    /\ ticks[w].step = "finish"
    /\ batches' = [batches EXCEPT ![BatchOf[ticks[w].item]].status = "succeeded"]
    /\ Idle(w)
    /\ UNCHANGED <<items, jobs, hour, late, charges, stops>>

FinishBatch(w) ==
    /\ ticks[w].step = "finish"
    /\ LET b == BatchOf[ticks[w].item]
           ends == {items[i].status : i \in InBatch(b)} IN
       batches' = IF ends \cap Open # {} THEN batches
                  ELSE [batches EXCEPT ![b].status = IF "failed" \in ends THEN "failed"
                                                     ELSE IF "expired" \in ends THEN "expired" ELSE "succeeded"]
    /\ Idle(w)
    /\ UNCHANGED <<items, jobs, hour, late, charges, stops>>

---------------------------------------------------------------------------------
(* The run of an item, and the settle check inside its settle.             *)

JobAt(r, step) == jobs' = [jobs EXCEPT ![r].step = step]

(* It is answered by its route, by another offer at the list price, or not.*)
JobAnswers(r) ==
    /\ jobs[r].step = "going"
    /\ \E tokens \in Usage, named \in IF jobs[r].route = NoRoute THEN {FALSE} ELSE BOOLEAN :
        jobs' = [jobs EXCEPT ![r].step = "check", ![r].tokens = tokens, ![r].named = named]
    /\ UNCHANGED <<items, batches, ticks, hour, late, charges, stops>>

JobFails(r) ==
    /\ jobs[r].step = "going" /\ JobAt(r, "failed")
    /\ UNCHANGED <<items, batches, ticks, hour, late, charges, stops>>

(* What the route that answered cost, and what the customer is charged.    *)
RealCost(r) == Cost(IF jobs[r].named THEN jobs[r].route.cost ELSE Retail, jobs[r].tokens)
Charged(r)  == Cost(Charge, jobs[r].tokens)
Loss(r)     == IF RealCost(r) > Charged(r) THEN RealCost(r) - Charged(r) ELSE 0

(* Mutant: the settle check lets every cost pass.                          *)
CheckFits_Always(r) ==
    /\ jobs[r].step = "check" /\ JobAt(r, "settle")
    /\ UNCHANGED <<items, batches, ticks, hour, late, charges, stops>>

CheckFits(r) ==
    /\ jobs[r].step = "check" /\ Loss(r) = 0
    /\ JobAt(r, "settle")
    /\ UNCHANGED <<items, batches, ticks, hour, late, charges, stops>>

(* A dear route reads the budget first ...                                 *)
CheckBudget(r) ==
    /\ jobs[r].step = "check" /\ Loss(r) > 0
    /\ jobs' = [jobs EXCEPT ![r].step = "absorb", ![r].left = BudgetLeft]
    /\ UNCHANGED <<items, batches, ticks, hour, late, charges, stops>>

(* ... and is absorbed, on the item and on its batch, or refused: the item *)
(* is marked, the hold released, nothing charged.                          *)
CheckAbsorbs(r) ==
    /\ jobs[r].step = "absorb" /\ jobs[r].left >= Loss(r)
    /\ items' = [items EXCEPT ![jobs[r].item].absorbed = Loss(r)]
    /\ batches' = [batches EXCEPT ![BatchOf[jobs[r].item]].absorbed = @ + Loss(r)]
    /\ jobs' = [jobs EXCEPT ![r].step = "settle", ![r].left = 0]
    /\ UNCHANGED <<ticks, hour, late, charges, stops>>

CheckRefuses(r) ==
    /\ jobs[r].step = "absorb" /\ jobs[r].left < Loss(r)
    /\ items' = [items EXCEPT ![jobs[r].item].marked = TRUE, ![jobs[r].item].absorbed = 0]
    /\ jobs' = [jobs EXCEPT ![r].step = "refused", ![r].left = 0]
    /\ UNCHANGED <<batches, ticks, hour, late, charges, stops>>

JobSettles(r) ==
    /\ jobs[r].step = "settle" /\ JobAt(r, "charged")
    /\ charges' = [charges EXCEPT ![jobs[r].item] = @ + 1]
    /\ UNCHANGED <<items, batches, ticks, hour, late, stops>>

---------------------------------------------------------------------------------
(* Time and failures.                                                      *)

HourPasses   == /\ hour' = IF hour = "peak" THEN "off-peak" ELSE "peak"
                /\ UNCHANGED <<items, batches, ticks, jobs, late, charges, stops>>
DeadlinePasses(b) == /\ b \notin late /\ late' = late \cup {b}
                     /\ UNCHANGED <<items, batches, ticks, jobs, hour, charges, stops>>

(* A statement fails: the pass ends, and the claim stays on the item.      *)
StopEarly(w) ==
    /\ ticks[w].step # "idle" /\ stops < MaxStops
    /\ Idle(w) /\ stops' = stops + 1
    /\ UNCHANGED <<items, batches, jobs, hour, late, charges>>

(* The process dies, and with it the run that the pass waits for.          *)
WorkerDies(w) ==
    /\ ticks[w].step = "wait" /\ jobs[ticks[w].job].step \notin Ended /\ stops < MaxStops
    /\ jobs' = [jobs EXCEPT ![ticks[w].job].step = "failed"]
    /\ Idle(w) /\ stops' = stops + 1
    /\ UNCHANGED <<items, batches, hour, late, charges>>

(* A claim of 15 minutes outlives a pass, whose wait is two: only that of  *)
(* an item that nobody works on runs out.                                  *)
ClaimLapses(i) ==
    /\ items[i].by # NoItem /\ \A w \in BatchWorkers : ticks[w].item # i
    /\ items' = [items EXCEPT ![i].by = NoItem]
    /\ UNCHANGED <<batches, ticks, jobs, hour, late, charges, stops>>

BatchNext ==
    \/ \E w \in BatchWorkers :
        \/ ClaimItem(w) \/ DecideRun(w) \/ DecideWait(w) \/ DecideExpire(w)
        \/ WaitFails(w) \/ WaitRefused(w) \/ WaitAnswered(w)
        \/ ReleaseItem(w) \/ ExpireItem(w) \/ ExpireBatch(w) \/ FinishBatch(w)
        \/ StopEarly(w) \/ WorkerDies(w)
    \/ \E r \in BatchRuns :
        \/ JobAnswers(r) \/ JobFails(r) \/ JobSettles(r)
        \/ CheckFits(r) \/ CheckBudget(r) \/ CheckAbsorbs(r) \/ CheckRefuses(r)
    \/ \E b \in Batches : DeadlinePasses(b)
    \/ \E i \in BatchItems : ClaimLapses(i)
    \/ HourPasses

BatchSpec == BatchInit /\ [][BatchNext]_batchVars

---------------------------------------------------------------------------------
(* Properties.                                                             *)

BatchTypeOK ==
    /\ items \in [BatchItems -> [status : Open \cup {"succeeded", "failed", "expired"},
                                 by : BatchWorkers \cup {NoItem}, marked : BOOLEAN, absorbed : Nat]]
    /\ batches \in [Batches -> [status : {"queued", "succeeded", "failed", "expired"}, absorbed : Nat]]
    /\ \A w \in BatchWorkers : ticks[w].job \in 0..MaxBatchRuns /\ ticks[w].item \in BatchItems \cup {NoItem}
    /\ late \subseteq Batches /\ hour \in {"peak", "off-peak"} /\ stops \in 0..MaxStops

(* capacity.js and the settle check together: whatever hour it becomes and *)
(* whichever offer answers in the end, an answer that was charged cost the *)
(* network no more than the customer paid, but for what its batch says was *)
(* absorbed.                                                               *)
LossIsWritten == \A b \in Batches :
    MapThenSumSet(Loss, {r \in BatchRuns : jobs[r].step = "charged" /\ jobs[r].item \in InBatch(b)}) <= batches[b].absorbed

(* One worker, whatever stops early and however late a run ends: what was  *)
(* answered stays answered, and a batch that says it succeeded has all its *)
(* answers.                                                                *)
AnswerStays == [][
    /\ \A i \in BatchItems : items[i].status = "succeeded" => items'[i].status = "succeeded"
    /\ \A b \in Batches : batches'[b].status = "succeeded" => \A i \in InBatch(b) : items'[i].status = "succeeded"
    ]_batchVars

(* batch/service.js, where it reads the mark of a refused settle: the item *)
(* waits again and the customer is charged nothing.                        *)
RefusedIsUncharged == \A i \in BatchItems :
    items[i].status = "waiting" /\ items[i].by = NoItem /\ items[i].marked => charges[i] = 0
==================================================================================
