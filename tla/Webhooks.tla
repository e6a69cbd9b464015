--------------------------------- MODULE Webhooks --------------------------------
(***************************************************************************)
(* The webhooks of the Exchange (server/exchange/webhooks.js): an event    *)
(* becomes one row per receiver, and a worker sends every due row, once    *)
(* per pass, after it claimed the row by pushing its time a lease ahead.   *)
(* Time is relative: a row knows the ticks until it is due, a pass its age.*)
(***************************************************************************)
EXTENDS Integers, FiniteSets, Sequences, SequencesExt

CONSTANTS Senders,         \* the processes that run the delivery worker
          Receivers,       \* the receivers one owner may register
          WebhookEvents,   \* the runs and offers there is an event of
          SubscribersOf,   \* [WebhookEvents -> SUBSET Receivers]: those that ask for its type
          MaxPerOwner,
          MaxAttempts,
          SendTimeout,     \* timeoutMs, in ticks
          LeaseMargin,     \* the 30 s a lease adds to it
          BackoffCap,      \* maxDelayMs, in ticks; the base delay is one tick
          MaxSendFaults    \* bound of the model: failing statements and dying processes

ASSUME WebhookConstants ==
    /\ IsFiniteSet(Receivers) /\ IsFiniteSet(WebhookEvents) /\ "not yet" \notin Receivers
    /\ {SendTimeout, LeaseMargin, BackoffCap, MaxAttempts} \subseteq Nat \ {0} /\ MaxSendFaults \in Nat
    /\ SubscribersOf \in [WebhookEvents -> SUBSET Receivers]

Rows == {d \in WebhookEvents \X Receivers : d[2] \in SubscribersOf[d[1]]}
(* A pass gets no older than its rows make it.                             *)
MaxAge == Cardinality(Rows) * SendTimeout

VARIABLES receivers,   \* exchange_webhook_endpoints: the receivers registered
          registering, \* the create() calls that counted the receivers and have not inserted theirs
          emitting,    \* of each event: the receivers emit() read and has not inserted a row for
          rows,        \* exchange_webhook_deliveries: status, attempts, ticks until next_attempt_at
          passes,      \* of each worker: its step, the rows it read, its age, the row and the outcome at hand
          taken,       \* history: the rows a receiver answered with 2xx
          sendFaults   \* history: the statements that failed and the processes that died
webhookVars == <<receivers, registering, emitting, rows, passes, taken, sendFaults>>

Resting == [step |-> "idle", todo |-> << >>, seen |-> << >>, age |-> 0, sending |-> 0, outcome |-> "none"]
NoRow   == [status |-> "none", attempts |-> 0, wait |-> 0]

WebhookInit ==
    /\ receivers = {} /\ registering = {}
    /\ emitting = [e \in WebhookEvents |-> {"not yet"}]
    /\ rows = [d \in Rows |-> NoRow]
    /\ passes = [w \in Senders |-> Resting]
    /\ taken = {} /\ sendFaults = 0

---------------------------------------------------------------------------------
(* The owner: create() counts, then inserts; remove() takes the rows along.*)

RegisterCount(r) ==
    /\ r \notin receivers \cup registering
    /\ Cardinality(receivers) < MaxPerOwner
    /\ \A e \in WebhookEvents : r \in SubscribersOf[e] => rows[<<e, r>>].status = "none"
    /\ registering' = registering \cup {r}
    /\ UNCHANGED <<receivers, emitting, rows, passes, taken, sendFaults>>

RegisterInsert(r) ==
    /\ r \in registering
    /\ registering' = registering \ {r} /\ receivers' = receivers \cup {r}
    /\ UNCHANGED <<emitting, rows, passes, taken, sendFaults>>

Unregister(r) ==
    /\ r \in receivers
    /\ receivers' = receivers \ {r}
    /\ rows' = [d \in Rows |-> IF d[2] = r /\ rows[d].status # "none" THEN [NoRow EXCEPT !.status = "gone"] ELSE rows[d]]
    /\ UNCHANGED <<registering, emitting, passes, taken, sendFaults>>

---------------------------------------------------------------------------------
(* emit(): the receivers are read, then one row each is inserted; the row  *)
(* of a receiver that was removed meanwhile is refused by its foreign key. *)

EmitRead(e) ==
    /\ emitting[e] = {"not yet"}
    /\ emitting' = [emitting EXCEPT ![e] = receivers \cap SubscribersOf[e]]
    /\ UNCHANGED <<receivers, registering, rows, passes, taken, sendFaults>>

EmitInsert(e) == \E r \in emitting[e] \cap Receivers :
    /\ emitting' = [emitting EXCEPT ![e] = @ \ {r}]
    /\ rows' = IF r \in receivers THEN [rows EXCEPT ![<<e, r>>].status = "pending"] ELSE rows
    /\ UNCHANGED <<receivers, registering, passes, taken, sendFaults>>

(* The process dies between the write that caused the event and its rows.  *)
EmitStops(e) ==
    /\ emitting[e] # {} /\ sendFaults < MaxSendFaults
    /\ emitting' = [emitting EXCEPT ![e] = {}] /\ sendFaults' = sendFaults + 1
    /\ UNCHANGED <<receivers, registering, rows, passes, taken>>

---------------------------------------------------------------------------------
(* A pass of a worker: deliverDue(), one at a time in a process.           *)

(* Due when the pass began.                                                *)
Due(d, age) == rows[d].status = "pending" /\ rows[d].wait + age <= 0
Lease       == SendTimeout + LeaseMargin

BeginDelivery(w) ==
    /\ passes[w].step = "idle"
    /\ \E todo \in SetToSeqs({d \in Rows : Due(d, 0)}) :
        /\ todo # << >>
        /\ \A n, m \in DOMAIN todo : n < m => rows[todo[n]].wait <= rows[todo[m]].wait
        /\ passes' = [passes EXCEPT ![w] = [Resting EXCEPT !.step = "claim", !.todo = todo,
                                                           !.seen = [n \in DOMAIN todo |-> rows[todo[n]].attempts]]]
    /\ UNCHANGED <<receivers, registering, emitting, rows, taken, sendFaults>>

Row(w) == Head(passes[w].todo)
(* What follows the row at hand.                                           *)
NextRow(w) == IF Len(passes[w].todo) = 1 THEN Resting
              ELSE [passes[w] EXCEPT !.step = "claim", !.todo = Tail(@), !.seen = Tail(@), !.sending = 0, !.outcome = "none"]

(* The claim is one UPDATE, to a lease counted from when the pass began.   *)
ClaimRow(w) ==
    /\ passes[w].step = "claim"
    /\ IF Due(Row(w), passes[w].age)
       THEN /\ rows' = [rows EXCEPT ![Row(w)].wait = Lease - passes[w].age]
            /\ passes' = [passes EXCEPT ![w].step = "send"]
       ELSE /\ passes' = [passes EXCEPT ![w] = NextRow(w)] /\ UNCHANGED rows
    /\ UNCHANGED <<receivers, registering, emitting, taken, sendFaults>>

(* The request goes out; a URL that is judged private now does not.        *)
SendRow(w) ==
    /\ passes[w].step = "send"
    /\ \/ passes' = [passes EXCEPT ![w].step = "answer"]
       \/ passes' = [passes EXCEPT ![w].step = "record", ![w].outcome = "retry"]
    /\ UNCHANGED <<receivers, registering, emitting, rows, taken, sendFaults>>

(* The receiver takes it, in time or not, or answers otherwise.            *)
ReceiverAnswers(w) ==
    /\ passes[w].step = "answer"
    /\ \E outcome \in {"ok", "late", "retry", "final"} :
        /\ passes' = [passes EXCEPT ![w].step = "record", ![w].sending = 0,
                                    ![w].outcome = IF outcome = "late" THEN "retry" ELSE outcome]
        /\ taken' = IF outcome \in {"ok", "late"} THEN taken \cup {Row(w)} ELSE taken
    /\ UNCHANGED <<receivers, registering, emitting, rows, sendFaults>>

Tries(w) == Head(passes[w].seen) + 1
Pause(n) == IF 2 ^ (n - 1) < BackoffCap THEN 2 ^ (n - 1) ELSE BackoffCap

(* An UPDATE by the id alone, of a row that may be gone.                   *)
Write(d, row) == IF rows[d].status \in {"none", "gone"} THEN rows ELSE [rows EXCEPT ![d] = row]

(* Delivered, or due again after the backoff, or failed.                   *)
Outcome(w) ==
    CASE passes[w].outcome = "ok" -> [status |-> "delivered", attempts |-> Tries(w), wait |-> 0]
      [] passes[w].outcome = "retry" /\ Tries(w) < MaxAttempts ->
            [status |-> "pending", attempts |-> Tries(w), wait |-> Pause(Tries(w))]
      [] OTHER -> [status |-> "failed", attempts |-> Tries(w), wait |-> 0]

(* Mutant: the attempt is not counted.                                     *)
RecordRow_Uncounted(w) ==
    /\ passes[w].step = "record"
    /\ rows' = Write(Row(w), [Outcome(w) EXCEPT !.attempts = Head(passes[w].seen)])
    /\ passes' = [passes EXCEPT ![w] = NextRow(w)]
    /\ UNCHANGED <<receivers, registering, emitting, taken, sendFaults>>

(* Mutant: whatever the receiver answered, the row is delivered.           *)
RecordRow_AnyAnswer(w) ==
    /\ passes[w].step = "record"
    /\ rows' = Write(Row(w), [status |-> "delivered", attempts |-> Tries(w), wait |-> 0])
    /\ passes' = [passes EXCEPT ![w] = NextRow(w)]
    /\ UNCHANGED <<receivers, registering, emitting, taken, sendFaults>>

RecordRow(w) ==
    /\ passes[w].step = "record"
    /\ rows' = Write(Row(w), Outcome(w))
    /\ passes' = [passes EXCEPT ![w] = NextRow(w)]
    /\ UNCHANGED <<receivers, registering, emitting, taken, sendFaults>>

(* The UPDATE to delivered fails: attempt() takes it for a failure of the  *)
(* receiver.  Any other failing UPDATE ends the pass.                      *)
RecordFails(w) ==
    /\ passes[w].step = "record" /\ sendFaults < MaxSendFaults
    /\ sendFaults' = sendFaults + 1
    /\ passes' = [passes EXCEPT ![w] = IF @.outcome = "ok" THEN [@ EXCEPT !.outcome = "retry"] ELSE Resting]
    /\ UNCHANGED <<receivers, registering, emitting, rows, taken>>

SenderDies(w) ==
    /\ passes[w].step # "idle" /\ sendFaults < MaxSendFaults
    /\ sendFaults' = sendFaults + 1 /\ passes' = [passes EXCEPT ![w] = Resting]
    /\ UNCHANGED <<receivers, registering, emitting, rows, taken>>

---------------------------------------------------------------------------------
(* Time passes while nothing is sent, and while a receiver has not         *)
(* answered, for no longer than the timeout; a statement takes no time.    *)
TimePasses ==
    /\ \A w \in Senders : passes[w].step = "idle" \/ (passes[w].step = "answer" /\ passes[w].sending < SendTimeout)
    /\ passes' = [w \in Senders |-> IF passes[w].step = "idle" THEN Resting
                                    ELSE [passes[w] EXCEPT !.age = @ + 1, !.sending = @ + 1]]
    /\ rows' = [d \in Rows |-> IF rows[d].status = "pending" /\ rows[d].wait > -MaxAge
                               THEN [rows[d] EXCEPT !.wait = @ - 1] ELSE rows[d]]
    /\ UNCHANGED <<receivers, registering, emitting, taken, sendFaults>>

SenderSteps(w) ==
    \/ BeginDelivery(w) \/ ClaimRow(w) \/ SendRow(w) \/ ReceiverAnswers(w) \/ RecordRow(w)

WebhookNext ==
    \/ \E r \in Receivers : RegisterCount(r) \/ RegisterInsert(r) \/ Unregister(r)
    \/ \E e \in WebhookEvents : EmitRead(e) \/ EmitInsert(e) \/ EmitStops(e)
    \/ \E w \in Senders : SenderSteps(w) \/ RecordFails(w) \/ SenderDies(w)
    \/ TimePasses

(* The interval timer starts a pass as long as the process lives, an       *)
(* answer comes or its timeout does, and the clock goes on.                *)
WebhookFairness == /\ \A w \in Senders : WF_webhookVars(SenderSteps(w))
                   /\ WF_webhookVars(TimePasses)
WebhookSpec == WebhookInit /\ [][WebhookNext]_webhookVars /\ WebhookFairness

---------------------------------------------------------------------------------
(* Properties.                                                             *)

WebhookTypeOK ==
    /\ receivers \subseteq Receivers /\ registering \subseteq Receivers
    /\ rows \in [Rows -> [status : {"none", "pending", "delivered", "failed", "gone"},
                          attempts : 0..MaxAttempts, wait : -MaxAge..(Lease + BackoffCap)]]
    /\ \A w \in Senders : /\ passes[w].step \in {"idle", "claim", "send", "answer", "record"}
                          /\ passes[w].age \in 0..MaxAge
    /\ taken \subseteq Rows /\ sendFaults \in 0..MaxSendFaults

(* The abstract sender, of the rows of this table.                         *)
Promise == INSTANCE AtLeastOnce WITH
    Messages <- Rows,
    stage    <- [d \in Rows |-> CASE rows[d].status = "none" -> "none" [] rows[d].status = "pending" -> "open"
                                  [] rows[d].status = "delivered" -> "delivered" [] OTHER -> "over"]

(* One worker at a time implements the promise: a delivery is reported     *)
(* only after its receiver took it, and one that is over is not reopened.  *)
KeepsPromise == Promise!Init /\ [][Promise!Next]_(Promise!promised)

(* Every row that was queued is delivered, failed or removed with its      *)
(* receiver in the end, whatever died.                                     *)
DeliveriesEnd == \A d \in Rows : rows[d].status = "pending" ~> rows[d].status # "pending"
==================================================================================
