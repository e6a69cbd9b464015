----------------------------- MODULE ProviderRouter -----------------------------
(***************************************************************************)
(* server/providers/index.js execute(): how concurrent requests go through *)
(* a person's own keys and then through the offers of the network, what    *)
(* they share (the circuit breaker of each provider, the slot of the       *)
(* host's own model), and when a streamed answer is final.                 *)
(*                                                                         *)
(* Which offers fit a request, and in which order, is data: a request may  *)
(* skip any offer and takes the others in any order, which covers every    *)
(* ranking.  An error is one of the kinds the code tells apart.            *)
(***************************************************************************)
EXTENDS Naturals, FiniteSets

CONSTANTS Requests,
          Providers,
          Local,         \* the host's own models: one slot for all of them
          None,          \* no provider chosen yet
          OwnKeys,       \* [Requests -> Nat]: the person's own keys that can serve the request
          OnlyMine,      \* the requests with only_my_keys
          Streaming,     \* the requests whose answer streams (onDelta)
          MaxAttempts,   \* config.routing.maxAttempts
          Retries,       \* config.providerRetries
          Threshold,     \* config.breaker.failureThreshold
          LocalLimit,    \* config.localLlm.concurrency
          Cancellable,   \* the requests whose signal may abort
          DbFails,       \* whether a write of provider_health may fail
          MayReset,      \* whether an operator resets a circuit
          Past           \* the rows provider_health may hold when the process starts

Row == [open : BOOLEAN, failures : 0..Threshold, exhausted : BOOLEAN]

(* What opens a circuit: Threshold failures in a row, or a balance answer. *)
Caused(row) == row.open => row.failures = Threshold \/ row.exhausted

ASSUME RouterAssumption ==
    /\ IsFiniteSet(Requests)
    /\ Local \subseteq Providers /\ None \notin Providers
    /\ OwnKeys \in [Requests -> Nat]
    /\ OnlyMine \subseteq Requests /\ Streaming \subseteq Requests /\ Cancellable \subseteq Requests
    /\ MaxAttempts \in Nat \ {0} /\ Retries \in Nat /\ Threshold \in Nat \ {0} /\ LocalLimit \in Nat \ {0}
    /\ DbFails \in BOOLEAN /\ MayReset \in BOOLEAN
    /\ Past \subseteq Row /\ \A row \in Past : Caused(row)

VARIABLES health,    \* provider_health: open or closed, failures in a row, exhausted_at set
          cooled,    \* the open circuits whose cooldown is over: they read half_open
          slot,      \* the requests that count in localActive
          pc,        \* where a request is, or how it ended
          chain,     \* its own keys and offers not tried yet, attemptsMade, resting and unreadable
          at,        \* its current offer (or key): attempts before this one, last error, row read
          calls,     \* provider calls it made
          voices,    \* the calls whose text reached the caller
          aborted    \* the requests whose signal fired

vars    == <<health, cooled, slot, pc, chain, at, calls, voices, aborted>>
breaker == <<health, cooled>>

Retryable == {"down", "rate"}                            \* a timeout, a 5xx, a 429
Blameless == {"caller", "rate", "unreadable"}            \* callerFault, rateLimited
Errors    == Retryable \cup Blameless \cup {"balance", "odd"}
Outcomes  == {"answered", "cancelled", "broken", "floor", "refused", "needsKey", "error",
              "unreadable", "resting", "unavailable"}
Closed    == [open |-> FALSE, failures |-> 0, exhausted |-> FALSE]
Place     == [offer : Providers \cup {None}, tries : 0..Retries, err : Errors, seen : Row, half : BOOLEAN]
Nowhere   == [offer |-> None, tries |-> 0, err |-> "odd", seen |-> Closed, half |-> FALSE]
Chain     == [keys : Nat, left : SUBSET Providers, made : 0..MaxAttempts, why : SUBSET {"resting", "unreadable"}]
Spent     == [keys |-> 0, left |-> {}, made |-> 0, why |-> {}]

Init ==
    /\ health \in [Providers -> Past] /\ cooled = {} /\ slot = {}
    /\ pc = [r \in Requests |-> "own"]
    /\ chain = [r \in Requests |-> [keys |-> OwnKeys[r], left |-> Providers, made |-> 0, why |-> {}]]
    /\ at = [r \in Requests |-> Nowhere]
    /\ calls = [r \in Requests |-> 0] /\ voices = [r \in Requests |-> {}]
    /\ aborted = {}

Go(r, step) == pc' = [pc EXCEPT ![r] = step]

(* The request is back in the loop over its offers, or over its keys.      *)
Leave(r, step) == Go(r, step) /\ at' = [at EXCEPT ![r] = Nowhere]

(* The request is over, and its local state with it.                       *)
End(r, code) == Leave(r, code) /\ chain' = [chain EXCEPT ![r] = Spent]

Ended(r) == pc[r] \in Outcomes

(* The answer of the current call has begun to reach the caller.           *)
Spoke(r) == calls[r] \in voices[r]

---------------------------------------------------------------------------------
(* The person's own keys (executeWithCredential).                          *)

(* Mutant: a key that an abort keeps from being tried stays in the list.   *)
OwnTry_KeepsKey(r) ==
    /\ pc[r] = "own" /\ chain[r].keys > 0 /\ r \notin aborted
    /\ chain' = [chain EXCEPT ![r].keys = @ - 1]
    /\ Go(r, "ownCall") /\ calls' = [calls EXCEPT ![r] = @ + 1]
    /\ UNCHANGED <<breaker, slot, at, voices, aborted>>

(* The next key; an abort is an error of the key like any other.           *)
OwnTry(r) ==
    /\ pc[r] = "own" /\ chain[r].keys > 0
    /\ chain' = [chain EXCEPT ![r].keys = @ - 1]
    /\ IF r \in aborted THEN UNCHANGED <<pc, calls>>
       ELSE Go(r, "ownCall") /\ calls' = [calls EXCEPT ![r] = @ + 1]
    /\ UNCHANGED <<breaker, slot, at, voices, aborted>>

(* A delta of an own key goes straight to the caller.                      *)
OwnDelta(r) ==
    /\ pc[r] = "ownCall" /\ r \in Streaming
    /\ voices' = [voices EXCEPT ![r] = @ \cup {calls[r]}]
    /\ UNCHANGED <<breaker, slot, pc, chain, at, calls, aborted>>

(* The key answered; the hard floor may still refuse the whole answer.     *)
OwnAnswers(r) ==
    /\ pc[r] = "ownCall"
    /\ \E code \in {"answered", "floor"} : End(r, code)
    /\ UNCHANGED <<breaker, slot, calls, voices, aborted>>

(* The key failed: again on a transient failure before any delta, else the *)
(* loop over the keys goes on, whatever the error was.                     *)
OwnFails(r) ==
    /\ pc[r] = "ownCall"
    /\ \/ /\ ~Spoke(r) /\ r \notin aborted /\ at[r].tries < Retries
          /\ at' = [at EXCEPT ![r].tries = @ + 1]
          /\ calls' = [calls EXCEPT ![r] = @ + 1]
          /\ UNCHANGED pc
       \/ Leave(r, "own") /\ UNCHANGED calls
    /\ UNCHANGED <<breaker, slot, chain, voices, aborted>>

(* No key answered: the network is the fallback unless only_my_keys.       *)
OwnOver(r) ==
    /\ pc[r] = "own" /\ chain[r].keys = 0
    /\ IF r \in OnlyMine THEN End(r, "needsKey") ELSE Go(r, "pick") /\ UNCHANGED <<chain, at>>
    /\ UNCHANGED <<breaker, slot, calls, voices, aborted>>

---------------------------------------------------------------------------------
(* The candidate loop.                                                     *)

Paused(p) == health[p].open /\ p \notin cooled

(* An offer is passed over: who pays, the price, what it supports.         *)
Skip(r, p) ==
    /\ pc[r] = "pick" /\ p \in chain[r].left
    /\ chain' = [chain EXCEPT ![r].left = @ \ {p}]
    /\ UNCHANGED <<breaker, slot, pc, at, calls, voices, aborted>>

(* skipReason() reads the circuit: an open one rests.                      *)
Consider(r, p) ==
    /\ pc[r] = "pick" /\ p \in chain[r].left
    /\ IF Paused(p)
       THEN /\ chain' = [chain EXCEPT ![r].left = @ \ {p}, ![r].why = @ \cup {"resting"}]
            /\ UNCHANGED <<pc, at>>
       ELSE /\ chain' = [chain EXCEPT ![r].left = @ \ {p}]
            /\ Go(r, "claim") /\ at' = [at EXCEPT ![r].offer = p]
    /\ UNCHANGED <<breaker, slot, calls, voices, aborted>>

(* With no await in between: a busy local model is passed over, the chain  *)
(* of attempts ends, or the attempt begins and takes the local slot.       *)
OnHost(r) == at[r].offer \in Local
Busy(r)   == OnHost(r) /\ Cardinality(slot) >= LocalLimit

Claim(r) ==
    /\ pc[r] = "claim"
    /\ \/ /\ Busy(r)
          /\ Leave(r, "pick") /\ chain' = [chain EXCEPT ![r].why = @ \cup {"resting"}]
          /\ UNCHANGED slot
       \/ /\ ~Busy(r) /\ chain[r].made >= MaxAttempts
          /\ Leave(r, "over")
          /\ UNCHANGED <<slot, chain>>
       \/ /\ ~Busy(r) /\ chain[r].made < MaxAttempts
          /\ Go(r, "attempt")
          /\ chain' = [chain EXCEPT ![r].made = @ + 1]
          /\ slot' = IF OnHost(r) THEN slot \cup {r} ELSE slot
          /\ UNCHANGED at
    /\ UNCHANGED <<breaker, calls, voices, aborted>>

(* Mutant: an offer that onRoute passes on keeps the local slot.           *)
Attempt_KeepsSlot(r) ==
    /\ pc[r] = "attempt" /\ r \notin aborted
    /\ \/ Go(r, "calling") /\ calls' = [calls EXCEPT ![r] = @ + 1] /\ UNCHANGED at
       \/ Leave(r, "pick") /\ UNCHANGED calls
    /\ UNCHANGED <<breaker, slot, chain, voices, aborted>>

(* One attempt: an abort ends the request; onRoute (the Balance hold) may  *)
(* pass on the offer or refuse the request; else the provider is called.   *)
Attempt(r) ==
    /\ pc[r] = "attempt"
    /\ \/ /\ r \notin aborted
          /\ Go(r, "calling") /\ calls' = [calls EXCEPT ![r] = @ + 1]
          /\ UNCHANGED <<slot, chain, at>>
       \/ /\ r \notin aborted
          /\ Leave(r, "pick") /\ slot' = slot \ {r}
          /\ UNCHANGED <<chain, calls>>
       \/ /\ End(r, IF r \in aborted THEN "cancelled" ELSE "refused") /\ slot' = slot \ {r}
          /\ UNCHANGED calls
    /\ UNCHANGED <<breaker, voices, aborted>>

(* A delta passes the floor guard and goes out.                            *)
Delta(r) ==
    /\ pc[r] = "calling" /\ r \in Streaming
    /\ voices' = [voices EXCEPT ![r] = @ \cup {calls[r]}]
    /\ UNCHANGED <<breaker, slot, pc, chain, at, calls, aborted>>

(* A delta breaks the floor: it is held back, and the request is refused.  *)
Breach(r) ==
    /\ pc[r] = "calling" /\ r \in Streaming
    /\ End(r, IF r \in aborted THEN "cancelled" ELSE "floor") /\ slot' = slot \ {r}
    /\ UNCHANGED <<breaker, calls, voices, aborted>>

(* The provider answered within the floor; the bookkeeping follows.        *)
Answer(r) ==
    /\ pc[r] = "calling"
    /\ Go(r, "booking")
    /\ UNCHANGED <<breaker, slot, chain, at, calls, voices, aborted>>

(* The loop goes on after error e: to the next offer at once when the      *)
(* provider is blameless, else after its failure is recorded.              *)
MoveOn(r, e) ==
    /\ IF e \in Blameless THEN Leave(r, "pick") ELSE Go(r, "failed") /\ at' = [at EXCEPT ![r].err = e]
    /\ slot' = slot \ {r}
    /\ chain' = [chain EXCEPT ![r].why = @ \cup (IF e = "balance" THEN {"resting"}
                                                 ELSE IF e = "unreadable" THEN {e} ELSE {})]

(* Mutant: a stream that broke off falls back like any other failure.      *)
Fail_Fallback(r, e) ==
    /\ pc[r] = "calling" /\ r \notin aborted
    /\ MoveOn(r, e)
    /\ UNCHANGED <<breaker, calls, voices, aborted>>

(* Mutant: a request the provider rejects as malformed counts against it.  *)
Fail_BlamesProvider(r, e) ==
    /\ pc[r] = "calling" /\ r \notin aborted /\ ~Spoke(r)
    /\ Go(r, "failed") /\ at' = [at EXCEPT ![r].err = e]
    /\ slot' = slot \ {r}
    /\ UNCHANGED <<breaker, chain, calls, voices, aborted>>

(* Mutant: a transient failure is retried once too often.                  *)
Fail_OneMoreRetry(r, e) ==
    /\ pc[r] = "calling" /\ r \notin aborted /\ ~Spoke(r)
    /\ IF e \in Retryable /\ at[r].tries <= Retries
       THEN Go(r, "attempt") /\ at' = [at EXCEPT ![r].tries = @ + 1] /\ UNCHANGED <<slot, chain>>
       ELSE MoveOn(r, e)
    /\ UNCHANGED <<breaker, calls, voices, aborted>>

(* The call failed (or the bookkeeping of its answer did): final after an  *)
(* abort or a delta; one more attempt on a transient failure; else the     *)
(* slot is freed and the loop goes on, the provider blamed or not.         *)
Fail(r, e) ==
    /\ pc[r] = "calling" \/ (DbFails /\ pc[r] = "booking" /\ e \in {"odd", "down"})
    /\ IF r \in aborted \/ Spoke(r)
       THEN End(r, IF r \in aborted THEN "cancelled" ELSE "broken") /\ slot' = slot \ {r}
       ELSE IF e \in Retryable /\ at[r].tries < Retries
       THEN Go(r, "attempt") /\ at' = [at EXCEPT ![r].tries = @ + 1] /\ UNCHANGED <<slot, chain>>
       ELSE MoveOn(r, e)
    /\ UNCHANGED <<breaker, calls, voices, aborted>>

(* No offer is left, or the chain is at its end.                           *)
GiveUp(r) ==
    /\ pc[r] = "over" \/ (pc[r] = "pick" /\ chain[r].left = {})
    /\ End(r, IF "unreadable" \in chain[r].why THEN "unreadable"
              ELSE IF "resting" \in chain[r].why THEN "resting" ELSE "unavailable")
    /\ UNCHANGED <<breaker, slot, calls, voices, aborted>>

---------------------------------------------------------------------------------
(* The circuit breaker.                                                    *)

(* recordSuccess() closes the circuit whatever it was.                     *)
Succeed(r) ==
    /\ pc[r] = "booking"
    /\ LET p == at[r].offer IN
       health' = [health EXCEPT ![p] = Closed] /\ cooled' = cooled \ {p}
    /\ slot' = slot \ {r}
    /\ End(r, "answered")
    /\ UNCHANGED <<calls, voices, aborted>>

(* recordFailure() reads the row; an audit row may be written before ...   *)
ReadHealth(r) ==
    /\ pc[r] = "failed"
    /\ at' = [at EXCEPT ![r].seen = health[at[r].offer], ![r].half = at[r].offer \in cooled]
    /\ Go(r, "record")
    /\ UNCHANGED <<breaker, slot, chain, calls, voices, aborted>>

Count(f) == IF f < Threshold THEN f + 1 ELSE Threshold

(* It writes the row of the offer, opening the circuit or not.             *)
Write(r, open, failures, balance) ==
    LET p == at[r].offer IN
    /\ health' = [health EXCEPT ![p] = [open |-> open, failures |-> failures,
                                        exhausted |-> balance \/ at[r].seen.exhausted]]
    /\ cooled' = cooled \ {p}
    /\ Leave(r, "pick")
    /\ UNCHANGED <<slot, chain, calls, voices, aborted>>

(* Mutant: a failed probe opens the circuit and counts from zero.          *)
RecordFailure_Recounts(r) ==
    /\ pc[r] = "record"
    /\ LET balance  == at[r].err = "balance"
           failures == IF at[r].half THEN 1 ELSE Count(at[r].seen.failures)
       IN  Write(r, balance \/ at[r].half \/ failures >= Threshold, failures, balance)

(* ... it writes the row from what it read: open after a balance answer, a *)
(* failed probe or Threshold failures, and closed otherwise.               *)
RecordFailure(r) ==
    /\ pc[r] = "record"
    /\ LET balance  == at[r].err = "balance"
           failures == Count(at[r].seen.failures)
       IN  Write(r, balance \/ at[r].half \/ failures >= Threshold, failures, balance)

(* The read or the write of the row fails, and the request with it.        *)
RecordThrows(r) ==
    /\ DbFails /\ pc[r] \in {"failed", "record"}
    /\ End(r, "error")
    /\ UNCHANGED <<breaker, slot, calls, voices, aborted>>

(* The cooldown of an open circuit is over: health() reads it half_open.   *)
Cool(p) ==
    /\ Paused(p)
    /\ cooled' = cooled \cup {p}
    /\ UNCHANGED <<health, slot, pc, chain, at, calls, voices, aborted>>

(* An operator resets the circuit.                                         *)
Reset(p) ==
    /\ MayReset /\ health[p] # Closed
    /\ health' = [health EXCEPT ![p] = Closed]
    /\ cooled' = cooled \ {p}
    /\ UNCHANGED <<slot, pc, chain, at, calls, voices, aborted>>

(* The caller, or a drain, aborts the request.                             *)
Abort(r) ==
    /\ r \in Cancellable \ aborted /\ ~Ended(r)
    /\ aborted' = aborted \cup {r}
    /\ UNCHANGED <<breaker, slot, pc, chain, at, calls, voices>>

---------------------------------------------------------------------------------
OwnNext(r)   == OwnTry(r) \/ OwnDelta(r) \/ OwnAnswers(r) \/ OwnFails(r) \/ OwnOver(r)
OfferNext(r) == \/ \E p \in Providers : Skip(r, p) \/ Consider(r, p)
                \/ Claim(r) \/ Attempt(r) \/ Delta(r) \/ Breach(r) \/ Answer(r)
                \/ \E e \in Errors : Fail(r, e)
                \/ GiveUp(r) \/ Succeed(r) \/ ReadHealth(r) \/ RecordFailure(r) \/ RecordThrows(r)

Next == \/ \E r \in Requests : OwnNext(r) \/ OfferNext(r) \/ Abort(r)
        \/ \E p \in Providers : Cool(p) \/ Reset(p)

Spec == Init /\ [][Next]_vars

(* A provider call ends (every call has a timeout), and so does a          *)
(* statement; a request goes on from there by itself.                      *)
LiveSpec == Spec /\ \A r \in Requests : WF_vars(OwnNext(r) \/ OfferNext(r))

---------------------------------------------------------------------------------
(* Properties.                                                             *)

Steps == {"own", "ownCall", "pick", "claim", "attempt", "calling", "booking", "failed", "record", "over"}

(* Every variable stays in its domain.                                     *)
TypeOK ==
    /\ health \in [Providers -> Row]
    /\ cooled \subseteq Providers /\ slot \subseteq Requests
    /\ pc \in [Requests -> Steps \cup Outcomes]
    /\ chain \in [Requests -> Chain] /\ at \in [Requests -> Place]
    /\ calls \in [Requests -> Nat] /\ voices \in [Requests -> SUBSET Nat]
    /\ aborted \subseteq Requests

(* What a request may spend: no more calls than its keys and the attempts  *)
(* of its chain allow, each with its retries.                              *)
CallsBounded == \A r \in Requests : calls[r] <= (OwnKeys[r] + MaxAttempts) * (Retries + 1)

(* The local slot is held exactly by the requests inside an attempt on the *)
(* host's own model, and by no more of them than LocalLimit: no way out of *)
(* the attempt leaks it, and no two requests pass the check together.      *)
SlotIsExact ==
    /\ slot = {r \in Requests : pc[r] \in {"attempt", "calling", "booking"} /\ OnHost(r)}
    /\ Cardinality(slot) <= LocalLimit

(* A circuit opens for a cause: Threshold failures in a row, or a balance  *)
(* answer, also when two requests record their failures over each other.   *)
OpenForCause == \A p \in Providers : Caused(health[p])

(* A failure is counted only for the offer of a request whose error is the *)
(* provider's: a malformed request or a 429 takes it away from nobody.     *)
BlameIsEarned ==
    [][\A p \in Providers :
          health'[p] # health[p] /\ health'[p] # Closed =>
              \E r \in Requests : pc[r] = "record" /\ at[r].offer = p /\ at[r].err \notin Blameless]_vars

(* Once a delta of a network offer went out, the request calls nobody else.*)
StreamIsFinal ==
    [][\A r \in Requests :
          pc[r] \in {"calling", "booking"} /\ Spoke(r) => pc'[r] \in {"calling", "booking"} \cup Outcomes]_vars

(* Every request ends, whatever the providers, the keys and the circuits do. *)
EveryRequestEnds == \A r \in Requests : <>Ended(r)
=================================================================================
