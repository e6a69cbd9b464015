-------------------------------- MODULE RunMoney --------------------------------
(***************************************************************************)
(* The money of one run: what execute() of server/runs.js does with the    *)
(* Balance session of server/credits.js, with the accounting that follows  *)
(* an answer or a failure, and with the settle queue of                    *)
(* server/credit-settlements.js.                                           *)
(*                                                                         *)
(* Billing is external.  A call to it is applied or refused; its reply may *)
(* be lost (a 5 s timeout), and then the service does not know which.      *)
(* An amount is in units of the charge of one delta; the charge of the     *)
(* input, and the charge per request, are the offer's Base.                *)
(***************************************************************************)
EXTENDS Naturals, Sequences

CONSTANTS Offers,        \* what the router may try
          Paid,          \* the managed offers that spend Balance; the others are prepaid
          Base, Worst,   \* [Offers -> Nat]: the charge of the input, and of input plus max_tokens
          None,          \* no offer yet
          NoCap, Cap,    \* max_cost_usd, or NoCap
          MaxTries,      \* config.routing.maxAttempts offers, each config.providerRetries more times
          MaxCalls,      \* bound of the model: router calls of one run
          MaxStream,     \* bound of the model: deltas the session counts
          BillingFails,  \* whether Billing may be unreachable, or its reply lost
          DbFails,       \* whether a statement of execute() or of the settle queue may fail
          MaxRestarts    \* bound of the model: how often the process dies

ASSUME RunMoneyAssumption ==
    /\ Paid \subseteq Offers
    /\ Base \in [Offers -> Nat] /\ Worst \in [Offers -> Nat]
    /\ \A o \in Offers : Base[o] < Worst[o]
    /\ Cap = NoCap \/ Cap \in Nat
    /\ None \notin Offers
    /\ MaxTries \in Nat /\ MaxCalls \in Nat \ {0} /\ MaxStream \in Nat /\ MaxRestarts \in Nat
    /\ BillingFails \in BOOLEAN /\ DbFails \in BOOLEAN

VARIABLES row,        \* runs.status
          pc,         \* program counter of execute()
          calls,      \* router calls the workflow made
          tries,      \* attempts of the current routing
          offer,      \* the offer of the current attempt
          streamed,   \* the router's flag: a delta of this answer went out
          output,     \* the output the session counted from the deltas
          answered,   \* a request row with status ok was logged
          hold,       \* the session knows its hold id
          held,       \* the session's heldNano
          pending,    \* the step of the extension in flight, 0 when there is none
          refused,    \* extensionRefused
          ended,      \* the session: open, settled or released
          bill,       \* Billing's state of the hold: none, held, settled, released, expired
          amount,     \* what Billing holds
          queue,      \* the run's row of credit_settle_queue
          recorded,   \* the outcomes of the ai.call.recorded events
          canceller,  \* cancel(): none, read, updated, done
          signal,     \* the AbortController: none, cancel or drain
          restarts

runVars     == <<row, pc, calls, tries, offer, streamed, output, answered>>
session     == <<hold, held, pending, refused, ended>>
billing     == <<bill, amount>>
books       == <<queue, recorded>>
controlVars == <<canceller, signal, restarts>>
vars == <<row, pc, calls, tries, offer, streamed, output, answered, hold, held, pending, refused, ended,
          bill, amount, queue, recorded, canceller, signal, restarts>>

Open == {"queued", "running"}

Init ==
    /\ row = "queued" /\ pc = "start" /\ calls = 1 /\ tries = 0 /\ offer = None
    /\ streamed = FALSE /\ output = 0 /\ answered = FALSE
    /\ hold = FALSE /\ held = 0 /\ pending = 0 /\ refused = FALSE /\ ended = "open"
    /\ bill = "none" /\ amount = 0
    /\ queue = "none" /\ recorded = <<>>
    /\ canceller = "none" /\ signal = "none" /\ restarts = 0

---------------------------------------------------------------------------------
(* The router's loop over its offers, and the session before each attempt. *)

(* affordable(): the worst case of the offer, clamped by max_cost_usd,     *)
(* which must leave room for one output token.                             *)
Affordable(o) == Cap # NoCap => Cap > Base[o]
Plan(o)       == IF Cap = NoCap \/ Worst[o] <= Cap THEN Worst[o] ELSE Cap

(* execute() begins: the row is still queued and becomes running.          *)
Start ==
    /\ pc = "start"
    /\ IF row = "queued" THEN row' = "running" /\ pc' = "route" ELSE pc' = "end" /\ UNCHANGED row
    /\ UNCHANGED <<calls, tries, offer, streamed, output, answered, session, billing, books, controlVars>>

(* Mutant: the chain of attempts has no end.                               *)
TryOffer_Unbounded(o) ==
    /\ pc = "route" /\ signal = "none"
    /\ tries' = tries + 1
    /\ pc' = "asking" /\ offer' = o
    /\ UNCHANGED <<row, calls, streamed, output, answered, session, billing, books, controlVars>>

(* The next attempt: not aborted, and the chain is not at its end.         *)
TryOffer(o) ==
    /\ pc = "route" /\ signal = "none" /\ tries < MaxTries
    /\ tries' = tries + 1
    /\ pc' = "asking" /\ offer' = o
    /\ UNCHANGED <<row, calls, streamed, output, answered, session, billing, books, controlVars>>

(* The router gives up: an abort, or no offer left.                        *)
GiveUp ==
    /\ pc = "route"
    /\ pc' = "thrown"
    /\ UNCHANGED <<row, calls, tries, offer, streamed, output, answered, session, billing, books, controlVars>>

(* onRoute of a prepaid offer touches no Balance.                          *)
RoutePrepaid ==
    /\ pc = "asking" /\ offer \notin Paid
    /\ pc' = "calling"
    /\ UNCHANGED <<row, calls, tries, offer, streamed, output, answered, session, billing, books, controlVars>>

(* onRoute of the first managed offer: the hold, or a refusal (402, 503)   *)
(* that is thrown before the provider is called.  The hold key is the      *)
(* request id: a hold whose reply was lost is answered again.              *)
CanHold == Affordable(offer) /\ (bill = "held" => amount = Plan(offer))

RouteHold ==
    /\ pc = "asking" /\ offer \in Paid /\ ~hold
    /\ \/ /\ CanHold
          /\ pc' = "calling"
          /\ hold' = TRUE /\ held' = Plan(offer)
          /\ bill' = "held" /\ amount' = Plan(offer)
       \/ /\ pc' = "thrown"
          /\ UNCHANGED <<hold, held, billing>>
       \/ /\ BillingFails /\ CanHold
          /\ pc' = "thrown" /\ bill' = "held" /\ amount' = Plan(offer)
          /\ UNCHANGED <<hold, held>>
    /\ UNCHANGED <<row, calls, tries, offer, streamed, output, answered, pending, refused, ended, books, controlVars>>

(* Mutant: a fallback that the hold does not cover is called anyway.       *)
RouteFallback_NoExtend ==
    /\ pc = "asking" /\ offer \in Paid /\ hold
    /\ pc' = "calling"
    /\ UNCHANGED <<row, calls, tries, offer, streamed, output, answered, session, billing, books, controlVars>>

(* onRoute of a later managed offer: covered already, covered by an        *)
(* extension, skipped because it cannot be, or the run ends on a 503.      *)
Missing == Plan(offer) - held

RouteFallback ==
    /\ pc = "asking" /\ offer \in Paid /\ hold
    /\ IF ~Affordable(offer) THEN pc' = "route" /\ UNCHANGED <<held, amount>>
       ELSE IF Plan(offer) <= held THEN pc' = "calling" /\ UNCHANGED <<held, amount>>
       ELSE \/ pc' = "calling" /\ held' = Plan(offer) /\ amount' = amount + Missing
            \/ pc' = "route" /\ UNCHANGED <<held, amount>>
            \/ BillingFails /\ pc' = "thrown" /\ amount' \in {amount, amount + Missing} /\ UNCHANGED held
    /\ UNCHANGED <<row, calls, tries, offer, streamed, output, answered, hold, pending, refused, ended, bill,
                   books, controlVars>>

(* A delta reaches the router; the floor guard may still hold its text.    *)
Delta ==
    /\ pc = "calling" /\ ~streamed
    /\ streamed' = TRUE
    /\ UNCHANGED <<row, pc, calls, tries, offer, output, answered, session, billing, books, controlVars>>

(* observe() counts a delta; maybeExtend() asks for another hold's worth   *)
(* when four fifths of the hold are used, never above the cap.  A prepaid  *)
(* offer may carry a card, and extends like a managed one.                 *)
Near == 5 * (output + 1) >= 4 * held
Step == IF Cap = NoCap \/ held <= Cap - held THEN held ELSE Cap - held

Observe ==
    /\ pc = "calling" /\ streamed
    /\ hold /\ ended = "open" /\ ~refused /\ output < MaxStream
    /\ output' = output + 1
    /\ \E extends \in (IF offer \in Paid THEN {TRUE} ELSE BOOLEAN) :
          IF extends /\ Near /\ pending = 0
          THEN IF Cap # NoCap /\ held >= Cap
               THEN refused' = TRUE /\ UNCHANGED <<held, pending>>
               ELSE held' = held + Step /\ pending' = Step /\ UNCHANGED refused
          ELSE UNCHANGED <<held, pending, refused>>
    /\ UNCHANGED <<row, pc, calls, tries, offer, streamed, answered, hold, ended, billing, books, controlVars>>

(* Mutant: a refused extension keeps the step it had counted.              *)
ExtendReturn_KeepsStep ==
    /\ pending > 0
    /\ pending' = 0
    /\ refused' = TRUE
    /\ UNCHANGED <<runVars, hold, held, ended, billing, books, controlVars>>

(* The extension's reply: applied; refused (402 or 409); unreachable; or   *)
(* applied with the reply lost.                                            *)
ExtendReturn ==
    /\ pending > 0
    /\ pending' = 0
    /\ \/ amount' = amount + pending /\ UNCHANGED <<held, refused>>
       \/ held' = held - pending /\ refused' = TRUE /\ UNCHANGED amount
       \/ /\ BillingFails
          /\ held' = held - pending
          /\ amount' \in {amount, amount + pending}
          /\ UNCHANGED refused
    /\ UNCHANGED <<runVars, hold, ended, bill, books, controlVars>>

(* The provider answers: an ok request row.                                *)
ProviderAnswers ==
    /\ pc = "calling"
    /\ answered' = TRUE
    /\ pc' = "answered"
    /\ UNCHANGED <<row, calls, tries, offer, streamed, output, session, billing, books, controlVars>>

(* The provider fails: the next attempt, unless a delta went out or the    *)
(* run was aborted.                                                        *)
ProviderFails ==
    /\ pc = "calling"
    /\ pc' = IF streamed \/ signal # "none" THEN "thrown" ELSE "route"
    /\ UNCHANGED <<row, calls, tries, offer, streamed, output, answered, session, billing, books, controlVars>>

(* The workflow engine: a further step, or the next window of a media      *)
(* analysis, which also goes on after a window that failed.  The steps     *)
(* that stream are the only ones of their workflows.                       *)
NextCall ==
    /\ pc \in {"answered", "thrown"} /\ ~streamed /\ signal = "none"
    /\ \/ pc' = "route" /\ calls < MaxCalls /\ calls' = calls + 1 /\ tries' = 0
       \/ pc' = "answered" /\ UNCHANGED <<calls, tries>>
    /\ UNCHANGED <<row, offer, streamed, output, answered, session, billing, books, controlVars>>

(* The engine throws: the router's failure, or an output that does not fit *)
(* the schema of the workflow.                                             *)
EngineThrows ==
    /\ pc \in {"answered", "thrown"}
    /\ pc' = "catch"
    /\ UNCHANGED <<row, calls, tries, offer, streamed, output, answered, session, billing, books, controlVars>>

---------------------------------------------------------------------------------
(* settle() and release() against Billing.                                 *)

(* settle(): once, and not while an extension is in flight.  What Billing  *)
(* does not take is queued under the settle key (ON CONFLICT DO NOTHING),  *)
(* for review when Billing decided against it; the INSERT may fail too.    *)
Enqueue(state) ==
    queue' \in (IF queue \in {"none", "lost"} THEN {state} ELSE {queue})
               \cup (IF DbFails THEN {IF queue = "none" THEN "lost" ELSE queue} ELSE {})

SettleCall ==
    IF hold /\ ended = "open"
    THEN /\ pending = 0
         /\ \/ bill' = "settled" /\ ended' = "settled" /\ UNCHANGED queue
            \/ UNCHANGED <<bill, ended>> /\ Enqueue("review")
            \/ BillingFails /\ bill' \in {bill, "settled"} /\ UNCHANGED ended /\ Enqueue("queued")
    ELSE UNCHANGED <<bill, ended, queue>>

(* release(): a failure is logged, and the hold is left to expire.         *)
ReleaseCall ==
    /\ UNCHANGED queue
    /\ IF hold /\ ended = "open"
       THEN \/ bill' = "released" /\ ended' = "released"
            \/ BillingFails /\ bill' \in {bill, "released"} /\ UNCHANGED ended
       ELSE UNCHANGED <<bill, ended>>

(* Billing expires a hold that nobody settled.                             *)
Expire ==
    /\ bill = "held" /\ pc \in {"end", "dead"}
    /\ bill' = "expired"
    /\ UNCHANGED <<runVars, session, amount, books, controlVars>>

---------------------------------------------------------------------------------
(* The success path of execute().                                          *)

CheckAbort ==
    /\ pc = "answered"
    /\ pc' = IF signal = "none" THEN "commit" ELSE "catch"
    /\ UNCHANGED <<row, calls, tries, offer, streamed, output, answered, session, billing, books, controlVars>>

(* Mutant: an answered run is committed and never settled.                 *)
Commit_Unpaid ==
    /\ pc = "commit"
    /\ IF row = "running" THEN row' = "succeeded" /\ pc' = "account" ELSE pc' = "end" /\ UNCHANGED row
    /\ UNCHANGED <<calls, tries, offer, streamed, output, answered, session, billing, books, controlVars>>

(* The UPDATE to succeeded; a row that a cancel ended meanwhile is left,   *)
(* and execute() returns.                                                  *)
Commit ==
    /\ pc = "commit"
    /\ IF row = "running" THEN row' = "succeeded" /\ pc' = "settle" ELSE pc' = "end" /\ UNCHANGED row
    /\ UNCHANGED <<calls, tries, offer, streamed, output, answered, session, billing, books, controlVars>>

Settle ==
    /\ pc = "settle"
    /\ SettleCall
    /\ pc' = "account"
    /\ UNCHANGED <<row, calls, tries, offer, streamed, output, answered, hold, held, pending, refused,
                   amount, recorded, controlVars>>

(* publishUsage swallows its own failures.                                 *)
Record(outcome) ==
    recorded' \in {Append(recorded, outcome)} \cup (IF DbFails THEN {recorded} ELSE {})

Publish ==
    /\ pc = "publish"
    /\ Record("succeeded")
    /\ pc' = "budget"
    /\ UNCHANGED <<row, calls, tries, offer, streamed, output, answered, session, billing, queue, controlVars>>

(* quotas.account before the record, runBudgets.add and cache.put after it: *)
(* none touches the session.                                               *)
NextStep == [account |-> "publish", budget |-> "cache", cache |-> "end"]

Book ==
    /\ pc \in DOMAIN NextStep
    /\ pc' = NextStep[pc]
    /\ UNCHANGED <<row, calls, tries, offer, streamed, output, answered, session, billing, books, controlVars>>

(* A statement fails: on the success path the catch follows, in the catch  *)
(* execute() itself rejects.                                               *)
Throw ==
    /\ DbFails
    /\ \/ pc \in {"commit"} \cup DOMAIN NextStep /\ pc' = "catch"
       \/ pc \in {"catch", "catchMoney"} /\ pc' = "end"
    /\ UNCHANGED <<row, calls, tries, offer, streamed, output, answered, session, billing, books, controlVars>>

---------------------------------------------------------------------------------
(* The catch path of execute().                                            *)

Outcome == IF signal = "cancel" THEN "cancelled" ELSE "failed"

CatchRow ==
    /\ pc = "catch"
    /\ row' = IF row \in Open THEN Outcome ELSE row
    /\ pc' = "catchMoney"
    /\ UNCHANGED <<calls, tries, offer, streamed, output, answered, session, billing, books, controlVars>>

(* Partial usage is settled; a hold that nothing was produced on goes back.*)
Produced == output > 0 \/ answered

(* Mutant: only an answered attempt counts as usage.                       *)
CatchMoney_ForgetsStream ==
    /\ pc = "catchMoney"
    /\ pc' = "catchRecord"
    /\ IF answered THEN SettleCall ELSE ReleaseCall
    /\ UNCHANGED <<row, calls, tries, offer, streamed, output, answered, hold, held, pending, refused,
                   amount, recorded, controlVars>>

CatchMoney ==
    /\ pc = "catchMoney"
    /\ pc' = "catchRecord"
    /\ IF Produced THEN SettleCall ELSE ReleaseCall
    /\ UNCHANGED <<row, calls, tries, offer, streamed, output, answered, hold, held, pending, refused,
                   amount, recorded, controlVars>>

(* The record, then quotas.account and runBudgets.add, which may reject.   *)
CatchRecord ==
    /\ pc = "catchRecord"
    /\ Record(Outcome)
    /\ pc' = "end"
    /\ UNCHANGED <<row, calls, tries, offer, streamed, output, answered, session, billing, queue, controlVars>>

---------------------------------------------------------------------------------
(* cancel(), drain() and the restart.                                      *)

CancelRead ==
    /\ canceller = "none" /\ row \in Open
    /\ canceller' = "read"
    /\ UNCHANGED <<runVars, session, billing, books, signal, restarts>>

CancelUpdate ==
    /\ canceller = "read"
    /\ canceller' = "updated"
    /\ row' = IF row \in Open THEN "cancelled" ELSE row
    /\ UNCHANGED <<pc, calls, tries, offer, streamed, output, answered, session, billing, books, signal, restarts>>

CancelSignal ==
    /\ canceller = "updated"
    /\ canceller' = "done"
    /\ signal' = IF signal = "none" THEN "cancel" ELSE signal
    /\ UNCHANGED <<runVars, session, billing, books, restarts>>

(* drain() aborts with shuttingDown set: execute() then sees an interrupt. *)
Drain ==
    /\ pc \notin {"end", "dead"} /\ signal # "drain"
    /\ signal' = "drain"
    /\ UNCHANGED <<runVars, session, billing, books, canceller, restarts>>

(* The process dies and starts again: the run's memory and its session are *)
(* gone, an extension in flight may still reach Billing, an open row is    *)
(* failed, and the settle queue starts from what was committed.            *)
Restart ==
    /\ restarts < MaxRestarts
    /\ restarts' = restarts + 1
    /\ pc' = "dead" /\ calls' = 1 /\ tries' = 0 /\ offer' = None /\ streamed' = FALSE
    /\ row' = IF row \in Open THEN "failed" ELSE row
    /\ amount' \in {amount, amount + pending}
    /\ hold' = FALSE /\ held' = 0 /\ pending' = 0 /\ refused' = FALSE /\ ended' = "open"
    /\ queue' = IF queue = "delivered" THEN "queued" ELSE queue
    /\ canceller' = "done" /\ signal' = "none"
    /\ UNCHANGED <<output, answered, bill, recorded>>

---------------------------------------------------------------------------------
(* The settle queue: a pass of runOnce() over the run's row.               *)

(* Mutant: a 409 or a 422 is rescheduled like an outage.                   *)
QueueSend_RetriesRefusals ==
    /\ queue = "queued" /\ bill \in {"held", "settled"}
    /\ bill' = "settled" /\ queue' = "delivered"
    /\ UNCHANGED <<runVars, session, amount, recorded, controlVars>>

(* Billing answers: it takes the settle, or replays its answer to the same *)
(* key; or it decides against it, on a hold that is over or on the body.   *)
QueueSend ==
    /\ queue = "queued"
    /\ \/ bill \in {"held", "settled"} /\ bill' = "settled" /\ queue' = "delivered"
       \/ queue' = "review" /\ UNCHANGED bill
    /\ UNCHANGED <<runVars, session, amount, recorded, controlVars>>

(* The reply is lost: the row is rescheduled.                              *)
QueueReplyLost ==
    /\ queue = "queued" /\ BillingFails /\ bill = "held"
    /\ bill' = "settled"
    /\ UNCHANGED <<runVars, session, amount, books, controlVars>>

(* sent(): the row is done; when the UPDATE fails it is rescheduled.       *)
QueueSent ==
    /\ queue = "delivered"
    /\ queue' = "sent"
    /\ UNCHANGED <<runVars, session, billing, recorded, controlVars>>

QueueSentFails ==
    /\ queue = "delivered" /\ DbFails
    /\ queue' = "queued"
    /\ UNCHANGED <<runVars, session, billing, recorded, controlVars>>

---------------------------------------------------------------------------------
Execute == \/ Start \/ (\E o \in Offers : TryOffer(o)) \/ GiveUp
           \/ RoutePrepaid \/ RouteHold \/ RouteFallback
           \/ Delta \/ Observe \/ ProviderAnswers \/ ProviderFails
           \/ NextCall \/ EngineThrows
           \/ CheckAbort \/ Commit \/ Settle \/ Book \/ Publish \/ Throw
           \/ CatchRow \/ CatchMoney \/ CatchRecord

SettleQueue == QueueSend \/ QueueReplyLost \/ QueueSent \/ QueueSentFails

Next == \/ Execute \/ ExtendReturn \/ Expire
        \/ CancelRead \/ CancelUpdate \/ CancelSignal \/ Drain \/ Restart
        \/ SettleQueue

Spec == Init /\ [][Next]_vars

(* The settle queue is drained by a timer that never stops; Billing and    *)
(* the database answer it again and again, though never for good.          *)
LiveSpec == Spec /\ SF_vars(QueueSend) /\ SF_vars(QueueSent)

---------------------------------------------------------------------------------
(* Properties.                                                             *)

TypeOK ==
    /\ row \in {"queued", "running", "succeeded", "failed", "cancelled"}
    /\ pc \in {"start", "route", "asking", "calling", "answered", "thrown", "commit", "settle",
               "account", "publish", "budget", "cache", "catch", "catchMoney", "catchRecord", "end", "dead"}
    /\ calls \in 1..MaxCalls /\ tries \in 0..MaxTries /\ offer \in Offers \cup {None}
    /\ streamed \in BOOLEAN /\ output \in 0..MaxStream /\ answered \in BOOLEAN
    /\ hold \in BOOLEAN /\ held \in Nat /\ pending \in Nat /\ refused \in BOOLEAN
    /\ ended \in {"open", "settled", "released"}
    /\ bill \in {"none", "held", "settled", "released", "expired"} /\ amount \in Nat
    /\ queue \in {"none", "queued", "delivered", "sent", "review", "lost"}
    /\ recorded \in Seq({"succeeded", "failed", "cancelled"})
    /\ canceller \in {"none", "read", "updated", "done"} /\ signal \in {"none", "cancel", "drain"}
    /\ restarts \in 0..MaxRestarts

(* While a managed provider is called, Billing holds the worst case of its *)
(* offer: onRoute() holds, or extends after a fallback, before the call,   *)
(* whatever Billing refused, lost or applied unseen before.                *)
CallCovered ==
    pc = "calling" /\ offer \in Paid => bill = "held" /\ amount >= Plan(offer)

(* What the session believes it holds, less the extension it waits for, is *)
(* held at Billing: maybeExtend() takes back what was not granted.         *)
HeldIsCovered == hold /\ ended = "open" => held <= amount + pending

(* A hold is given back only for a run that produced nothing: the catch of *)
(* execute() releases no partial answer for free.                          *)
ReleasedUnused == bill = "released" => output = 0 /\ ~answered

(* An answer whose row committed is settled, or its settle was queued, is  *)
(* under review, or was lost by a failed INSERT; it is never just dropped, *)
(* as long as the process lives: the session dies with it.                 *)
AnswerIsPaid ==
    row = "succeeded" /\ hold /\ pc # "settle" => bill = "settled" \/ queue # "none"

(* A queued settle ends: runOnce() delivers it or puts it up for review,   *)
(* over refusals, lost replies, failed UPDATEs and restarts.               *)
SettleDelivered == queue = "queued" ~> queue \in {"sent", "review"}

(* credits.js: an abort settles what was streamed, and an error before the *)
(* first token releases the hold; a cancelled run leaves no hold behind.   *)
CancelledRunSettled ==
    pc = "end" /\ row = "cancelled" /\ hold => bill # "held" \/ queue # "none"
=================================================================================
