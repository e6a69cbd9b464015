-------------------------------- MODULE RunQueue --------------------------------
(***************************************************************************)
(* server/runs.js: how a run gets from a create call to a terminal status. *)
(*                                                                         *)
(* Every await of the code is a point where another handler may run, so a  *)
(* create call, a cancel call and an execution are each a chain of actions *)
(* with a program counter of their own.  What one action does between two  *)
(* awaits is atomic, as in the single JavaScript thread.  row and outbox   *)
(* are PostgreSQL's and survive a crash; queue places, the in-flight map,  *)
(* the slots and the program counters are the process's and do not.        *)
(***************************************************************************)
EXTENDS Naturals, FiniteSets, Sequences

CONSTANTS Requests,             \* the create calls; each becomes at most one run of the same name
          CallerOf,             \* [Requests -> callers]: the requester
          NoKey, KeyOf,         \* [Requests -> (requester, idempotency key) or NoKey]
          Priority,             \* [Requests -> Nat]: the kudos priority of the run
          Cancellable,          \* the runs whose caller may cancel
          MaxConcurrent,        \* config.runs.maxConcurrent
          MaxQueued,            \* config.runs.maxQueued
          MaxQueuedPerCaller,   \* config.runs.maxQueuedPerCaller
          FaultOn,              \* bound of the model: the runs whose statements may fail in the database
          MaxRestarts           \* bound of the model: how often the process may die

ASSUME RunQueueAssumption ==
    /\ IsFiniteSet(Requests)
    /\ Cancellable \subseteq Requests
    /\ FaultOn \subseteq Requests
    /\ Priority \in [Requests -> Nat]
    /\ MaxConcurrent \in Nat \ {0}
    /\ MaxQueued \in Nat \ {0}
    /\ MaxQueuedPerCaller \in Nat \ {0}
    /\ MaxRestarts \in Nat

VARIABLES row,        \* runs.status in the database, "absent" before the INSERT
          outbox,     \* the ai.run.* events of the run in event_outbox, in order
          create,     \* program counter of the create call
          place,      \* 1 + the index of the run in `queue`, 0 when it is not in it
          inflight,   \* the keys of the `inflight` map
          slots,      \* the runs whose promise still owes an active--; its size is `active`
          exec,       \* program counter of execute() and of the promise around it
          aborted,    \* the runs whose AbortController fired
          canceller,  \* program counter of cancel(), with the handle it captured
          hold,       \* the run's tier hold: none, held, or returned (settled or released)
          mode,       \* up, draining (shuttingDown), or down
          restarts

dbVars   == <<row, outbox>>
memVars  == <<place, inflight, slots, exec, aborted>>
vars     == <<row, outbox, create, place, inflight, slots, exec, aborted, canceller, hold, mode, restarts>>

Open     == {"queued", "running"}
Terminal == {"succeeded", "failed", "cancelled", "cached"}

CreateSteps == {"idle", "fresh", "admitted", "reserved", "stored", "accepted", "replayed", "refused", "error", "lost"}
ExecSteps   == {"none", "gated", "released", "read", "running", "leaving", "done", "dead"}
CancelSteps == {"none", "withHandle", "noHandle", "signal", "done"}

Working     == {"read", "running"}     \* execute() is past its own status check

---------------------------------------------------------------------------------
(* The queue.                                                              *)

Queued     == {r \in Requests : place[r] > 0}
QueuedOf(c) == {r \in Queued : CallerOf[r] = c}
Active     == Cardinality(slots)

(* queue.push: the place behind the last one.                              *)
IsNextPlace(p) == /\ \A s \in Requests : place[s] < p
                  /\ p = 1 \/ \E s \in Requests : place[s] = p - 1

(* pump() prefers the higher kudos priority, then the earlier arrival.     *)
Before(r, s, pl) == \/ Priority[r] > Priority[s]
                    \/ Priority[r] = Priority[s] /\ pl[r] < pl[s]

(* pump(): while a slot is free, take the best queued run that is still in *)
(* flight.  Ids whose run is gone are only spliced out, and they lose to   *)
(* every live one: they leave when the slots outlast the live runs.        *)
Pump(pl, inf, sl, ex) ==
    LET live == {r \in Requests : pl[r] > 0 /\ r \in inf}
    IN  \E S \in SUBSET live :
          /\ Cardinality(sl \cup S) <= MaxConcurrent
          /\ S # live => Cardinality(sl \cup S) >= MaxConcurrent
          /\ \A r \in S, s \in live \ S : Before(r, s, pl)
          /\ slots' = sl \cup S
          /\ exec'  = [r \in Requests |-> IF r \in S /\ ex[r] = "gated" THEN "released" ELSE ex[r]]
          /\ place' = [r \in Requests |->
                          IF r \in S \/ Cardinality(sl \cup S) < MaxConcurrent THEN 0 ELSE pl[r]]

(* Mutant: every status change queues an event.                            *)
Write_AlwaysAnnounces(r, status) ==
    /\ row' = [row EXCEPT ![r] = status]
    /\ outbox' = [outbox EXCEPT ![r] = Append(@, status)]

(* A status change and the event it owes commit in one transaction.        *)
Announced == {"queued", "cached", "succeeded", "failed"}
Write(r, status) ==
    /\ row' = [row EXCEPT ![r] = status]
    /\ outbox' = IF status \in Announced THEN [outbox EXCEPT ![r] = Append(@, status)] ELSE outbox

---------------------------------------------------------------------------------
Init ==
    /\ row       = [r \in Requests |-> "absent"]
    /\ outbox    = [r \in Requests |-> <<>>]
    /\ create    = [r \in Requests |-> "idle"]
    /\ place     = [r \in Requests |-> 0]
    /\ inflight  = {}
    /\ slots     = {}
    /\ exec      = [r \in Requests |-> "none"]
    /\ aborted   = {}
    /\ canceller = [r \in Requests |-> "none"]
    /\ hold      = [r \in Requests |-> "none"]
    /\ mode      = "up"
    /\ restarts  = 0

---------------------------------------------------------------------------------
(* create(), one action per stretch between awaits that other handlers can *)
(* tell apart.                                                             *)

SameKey(r) == {s \in Requests : s # r /\ KeyOf[s] = KeyOf[r] /\ KeyOf[r] # NoKey /\ row[s] # "absent"}

(* Validation, then the idempotency SELECT: an earlier run of the same key *)
(* is answered as it is, or refused when it was another input (409).       *)
CheckKey(r) ==
    /\ mode = "up"
    /\ create[r] = "idle"
    /\ create' = [create EXCEPT ![r] = IF SameKey(r) = {} THEN "fresh" ELSE "replayed"]
    /\ UNCHANGED <<dbVars, memVars, canceller, hold, mode, restarts>>

(* The cache held an answer: the run is inserted as 'cached' with its      *)
(* event.  The usage record, the receipt and the audit row come after.     *)
ServeCached(r) ==
    /\ mode # "down"
    /\ create[r] = "fresh"
    /\ \/ /\ SameKey(r) = {}
          /\ Write(r, "cached")
          /\ \E end \in {"accepted"} \cup (IF r \in FaultOn THEN {"error"} ELSE {}) :
               create' = [create EXCEPT ![r] = end]
       \/ /\ SameKey(r) # {}
          /\ create' = [create EXCEPT ![r] = "error"]
          /\ UNCHANGED dbVars
    /\ UNCHANGED <<memVars, canceller, hold, mode, restarts>>

(* admit(): starts at once, or waits in a queue that has room for it and   *)
(* for its caller; otherwise 429 queue.full.                               *)
HasRoom(r) == \/ Active < MaxConcurrent /\ Queued = {}
              \/ /\ Cardinality(Queued) < MaxQueued
                 /\ Cardinality(QueuedOf(CallerOf[r]) \cap inflight) < MaxQueuedPerCaller

Admit(r) ==
    /\ mode # "down"
    /\ create[r] = "fresh"
    /\ create' = [create EXCEPT ![r] = IF HasRoom(r) THEN "admitted" ELSE "refused"]
    /\ UNCHANGED <<dbVars, memVars, canceller, hold, mode, restarts>>

(* tiers.admit, then quotas.reserve: a quota refusal gives the tier hold   *)
(* back; a run on the person's own key has no hold at all.                 *)
Reserve(r) ==
    /\ mode # "down"
    /\ create[r] = "admitted"
    /\ \/ /\ \E h \in {"none", "held"} : hold' = [hold EXCEPT ![r] = h]
          /\ create' = [create EXCEPT ![r] = "reserved"]
       \/ /\ \E h \in {"none", "returned"} : hold' = [hold EXCEPT ![r] = h]
          /\ create' = [create EXCEPT ![r] = "refused"]
    /\ UNCHANGED <<dbVars, memVars, canceller, mode, restarts>>

(* The INSERT of the queued row.  The unique index refuses the second of   *)
(* two creates that both found the key free; the hold goes back.           *)
Store(r) ==
    /\ mode # "down"
    /\ create[r] = "reserved"
    /\ \/ /\ SameKey(r) = {}
          /\ Write(r, "queued")
          /\ create' = [create EXCEPT ![r] = "stored"]
          /\ UNCHANGED hold
       \/ /\ SameKey(r) # {}
          /\ create' = [create EXCEPT ![r] = "error"]
          /\ hold' = [hold EXCEPT ![r] = IF @ = "held" THEN "returned" ELSE @]
          /\ UNCHANGED dbVars
    /\ UNCHANGED <<memVars, canceller, mode, restarts>>

(* The audit row is written; then, with no await in between, the run goes  *)
(* in flight, is pushed on the queue and pump() runs.                      *)
Enqueue(r) ==
    /\ mode # "down"
    /\ create[r] = "stored"
    /\ create' = [create EXCEPT ![r] = "accepted"]
    /\ inflight' = inflight \cup {r}
    /\ \E p \in 1..Cardinality(Requests) :
         /\ IsNextPlace(p)
         /\ Pump([place EXCEPT ![r] = p], inflight', slots, [exec EXCEPT ![r] = "gated"])
    /\ UNCHANGED <<dbVars, aborted, canceller, hold, mode, restarts>>

(* The audit write (or the event read-back) throws: the create call ends   *)
(* in an error after the row was stored, and nothing is put in flight.     *)
FailAfterStore(r) ==
    /\ mode # "down"
    /\ r \in FaultOn
    /\ create[r] = "stored"
    /\ create' = [create EXCEPT ![r] = "error"]
    /\ UNCHANGED <<dbVars, memVars, canceller, hold, mode, restarts>>

---------------------------------------------------------------------------------
(* execute(), behind the gate that pump, cancel or drain releases.         *)

(* getRow: a run that is no longer queued is dropped.                      *)
ReadRow(r) ==
    /\ exec[r] = "released"
    /\ IF row[r] = "queued"
       THEN exec' = [exec EXCEPT ![r] = "read"] /\ UNCHANGED inflight
       ELSE exec' = [exec EXCEPT ![r] = "leaving"] /\ inflight' = inflight \ {r}
    /\ UNCHANGED <<dbVars, create, place, slots, aborted, canceller, hold, mode, restarts>>

(* UPDATE ... 'running' WHERE status = 'queued'; the count is not looked at.*)
MarkRunning(r) ==
    /\ exec[r] = "read"
    /\ exec' = [exec EXCEPT ![r] = "running"]
    /\ IF row[r] = "queued" THEN Write(r, "running") ELSE UNCHANGED dbVars
    /\ UNCHANGED <<create, place, inflight, slots, aborted, canceller, hold, mode, restarts>>

(* A statement before the try block fails (getRow, the UPDATE, or the      *)
(* workflow version's SELECT): the promise ends, the in-flight entry stays.*)
(* It is deleted when the failing UPDATE is that of the catch block.       *)
FailEarly(r) ==
    /\ r \in FaultOn
    /\ exec[r] \in {"released", "read", "running"}
    /\ exec' = [exec EXCEPT ![r] = "leaving"]
    /\ inflight' \in {inflight} \cup (IF exec[r] = "running" THEN {inflight \ {r}} ELSE {})
    /\ UNCHANGED <<dbVars, create, place, slots, aborted, canceller, hold, mode, restarts>>

(* Mutant: the UPDATE to succeeded has no "AND status = 'running'".        *)
Answer_Unconditional(r) ==
    /\ exec[r] = "running" /\ r \notin aborted
    /\ exec' = [exec EXCEPT ![r] = "leaving"]
    /\ inflight' = inflight \ {r}
    /\ Write(r, "succeeded")
    /\ UNCHANGED <<create, place, slots, aborted, canceller, hold, mode, restarts>>

(* The workflow answered and no abort was seen: succeeded, unless a cancel *)
(* already ended the row.                                                  *)
Answer(r) ==
    /\ exec[r] = "running"
    /\ r \notin aborted
    /\ exec' = [exec EXCEPT ![r] = "leaving"]
    /\ inflight' = inflight \ {r}
    /\ IF row[r] = "running" THEN Write(r, "succeeded") ELSE UNCHANGED dbVars
    /\ UNCHANGED <<create, place, slots, aborted, canceller, hold, mode, restarts>>

(* The workflow threw, or the abort reached it: cancelled when only the    *)
(* caller aborted it, failed otherwise (run.interrupted while draining).   *)
Break(r) ==
    /\ exec[r] = "running"
    /\ exec' = [exec EXCEPT ![r] = "leaving"]
    /\ inflight' = inflight \ {r}
    /\ IF row[r] \in Open
       THEN Write(r, IF r \in aborted /\ mode # "draining" THEN "cancelled" ELSE "failed")
       ELSE UNCHANGED dbVars
    /\ UNCHANGED <<create, place, slots, aborted, canceller, hold, mode, restarts>>

(* Mutant: the slot is freed and nobody pumps.                             *)
Leave_NoPump(r) ==
    /\ exec[r] = "leaving"
    /\ hold' = [hold EXCEPT ![r] = IF @ = "held" THEN "returned" ELSE @]
    /\ exec' = [exec EXCEPT ![r] = "done"]
    /\ slots' = slots \ {r}
    /\ UNCHANGED <<dbVars, create, place, inflight, aborted, canceller, mode, restarts>>

(* The promise around execute() ends: the tier hold goes back, the slot is *)
(* freed and pump() runs.  A promise that had already ended when pump took *)
(* its run frees the slot at once.                                         *)
Leave(r) ==
    /\ exec[r] = "leaving" \/ (exec[r] = "done" /\ r \in slots)
    /\ hold' = [hold EXCEPT ![r] = IF @ = "held" THEN "returned" ELSE @]
    /\ IF r \in slots
       THEN Pump(place, inflight, slots \ {r}, [exec EXCEPT ![r] = "done"])
       ELSE exec' = [exec EXCEPT ![r] = "done"] /\ UNCHANGED <<place, slots>>
    /\ UNCHANGED <<dbVars, create, inflight, aborted, canceller, mode, restarts>>

---------------------------------------------------------------------------------
(* cancel(): reads the row, captures the in-flight handle, updates the row,*)
(* and only then aborts and takes the run out of the queue.                *)

CancelRead(r) ==
    /\ mode # "down"
    /\ r \in Cancellable
    /\ canceller[r] = "none"
    /\ row[r] \in Open
    /\ canceller' = [canceller EXCEPT ![r] = IF r \in inflight THEN "withHandle" ELSE "noHandle"]
    /\ UNCHANGED <<dbVars, create, memVars, hold, mode, restarts>>

(* Mutant: the abort and the release come before the UPDATE.               *)
CancelUpdate_SignalsFirst(r) ==
    /\ canceller[r] = "withHandle"
    /\ canceller' = [canceller EXCEPT ![r] = "signal"]
    /\ UNCHANGED <<dbVars, create, memVars, hold, mode, restarts>>

CancelUpdate(r) ==
    /\ canceller[r] \in {"withHandle", "noHandle"}
    /\ canceller' = [canceller EXCEPT ![r] = IF @ = "withHandle" THEN "signal" ELSE "done"]
    /\ IF row[r] \in Open THEN Write(r, "cancelled") ELSE UNCHANGED dbVars
    /\ UNCHANGED <<create, memVars, hold, mode, restarts>>

(* Mutant: the run leaves the queue and its gate stays shut.               *)
CancelSignal_GateShut(r) ==
    /\ canceller[r] = "signal"
    /\ canceller' = [canceller EXCEPT ![r] = "done"]
    /\ aborted' = aborted \cup {r}
    /\ place' = [place EXCEPT ![r] = 0]
    /\ UNCHANGED <<dbVars, create, inflight, slots, exec, hold, mode, restarts>>

CancelSignal(r) ==
    /\ canceller[r] = "signal"
    /\ canceller' = [canceller EXCEPT ![r] = "done"]
    /\ aborted' = aborted \cup {r}
    /\ place' = [place EXCEPT ![r] = 0]
    /\ exec' = [exec EXCEPT ![r] = IF r \in Queued /\ @ = "gated" THEN "released" ELSE @]
    /\ UNCHANGED <<dbVars, create, inflight, slots, hold, mode, restarts>>

---------------------------------------------------------------------------------
(* The process.                                                            *)

(* drain(): every in-flight run is aborted and let through its gate.       *)
Drain ==
    /\ mode = "up"
    /\ mode' = "draining"
    /\ aborted' = aborted \cup inflight
    /\ exec' = [r \in Requests |-> IF r \in inflight /\ exec[r] = "gated" THEN "released" ELSE exec[r]]
    /\ UNCHANGED <<dbVars, create, place, inflight, slots, canceller, hold, restarts>>

(* The process exits after its drain, or dies at any moment.               *)
Die ==
    /\ mode # "down"
    /\ restarts < MaxRestarts
    /\ restarts' = restarts + 1
    /\ mode' = "down"
    /\ create' = [r \in Requests |-> IF create[r] \in {"fresh", "admitted", "reserved", "stored"} THEN "lost" ELSE create[r]]
    /\ place' = [r \in Requests |-> 0]
    /\ inflight' = {}
    /\ slots' = {}
    /\ exec' = [r \in Requests |-> IF exec[r] \in {"none", "done"} THEN exec[r] ELSE "dead"]
    /\ aborted' = {}
    /\ canceller' = [r \in Requests |-> IF canceller[r] = "none" THEN "none" ELSE "done"]
    /\ UNCHANGED <<dbVars, hold>>

(* Mutant: only running rows are recovered.                                *)
Boot_RunningOnly ==
    /\ mode = "down"
    /\ mode' = "up"
    /\ row' = [r \in Requests |-> IF row[r] = "running" THEN "failed" ELSE row[r]]
    /\ outbox' = [r \in Requests |-> IF row[r] = "running" THEN Append(outbox[r], "failed") ELSE outbox[r]]
    /\ UNCHANGED <<create, memVars, canceller, hold, restarts>>

(* recoverInterrupted(), before the server listens: every open run fails   *)
(* with run.interrupted and its event, in one transaction.                 *)
Boot ==
    /\ mode = "down"
    /\ mode' = "up"
    /\ row' = [r \in Requests |-> IF row[r] \in Open THEN "failed" ELSE row[r]]
    /\ outbox' = [r \in Requests |-> IF row[r] \in Open THEN Append(outbox[r], "failed") ELSE outbox[r]]
    /\ UNCHANGED <<create, memVars, canceller, hold, restarts>>

CreateNext(r) == \/ CheckKey(r) \/ ServeCached(r) \/ Admit(r) \/ Reserve(r)
                 \/ Store(r) \/ Enqueue(r) \/ FailAfterStore(r)
ExecNext(r)   == ReadRow(r) \/ MarkRunning(r) \/ FailEarly(r) \/ Answer(r) \/ Break(r) \/ Leave(r)
CancelNext(r) == CancelRead(r) \/ CancelUpdate(r) \/ CancelSignal(r)

Next == \/ \E r \in Requests : CreateNext(r) \/ ExecNext(r) \/ CancelNext(r)
        \/ Drain \/ Die \/ Boot

Spec == Init /\ [][Next]_vars

(* A create call past its reservation and an execution past its gate go on *)
(* (statements and provider calls end, by an answer or a timeout); a dead  *)
(* process is started again.  Nobody has to call, cancel, drain or crash.  *)
Fairness == /\ \A r \in Requests : /\ WF_vars(Store(r)) /\ WF_vars(Enqueue(r) \/ FailAfterStore(r))
                                  /\ WF_vars(ExecNext(r)) /\ WF_vars(CancelUpdate(r) \/ CancelSignal(r))
            /\ WF_vars(Boot)
LiveSpec == Spec /\ Fairness

---------------------------------------------------------------------------------
(* Properties.                                                             *)

(* Every variable stays in its domain; in particular no event is queued    *)
(* for a status that has none (events.js runChanged).                      *)
TypeOK ==
    /\ row       \in [Requests -> {"absent"} \cup Open \cup Terminal]
    /\ outbox    \in [Requests -> Seq(Announced)]
    /\ create    \in [Requests -> CreateSteps]
    /\ place     \in [Requests -> Nat]
    /\ inflight  \in SUBSET Requests
    /\ slots     \in SUBSET Requests
    /\ exec      \in [Requests -> ExecSteps]
    /\ aborted   \in SUBSET Requests
    /\ canceller \in [Requests -> CancelSteps]
    /\ hold      \in [Requests -> {"none", "held", "returned"}]
    /\ mode      \in {"up", "draining", "down"}
    /\ restarts  \in 0..MaxRestarts

(* Until the process drains, at most MaxConcurrent workflows execute: a run *)
(* let through its gate by cancel() instead of pump() never executes,      *)
(* because the row it reads was cancelled first.                           *)
ConcurrencyCap ==
    mode = "up" => Cardinality({r \in Requests : exec[r] \in Working}) <= MaxConcurrent

(* pump() leaves no run waiting beside a free slot, whatever create, cancel,*)
(* drain or the end of a run does to the queue and to the slots.           *)
NoIdleSlot == Queued \cap inflight # {} => Cardinality(slots) = MaxConcurrent

(* The queue, the worker, the cancel calls and the restarts together are   *)
(* one lifecycle per run, its events in the outbox in the same order.      *)
Lifecycle == INSTANCE RunLifecycle
ImplementsLifecycle == Lifecycle!Spec

(* A stored run comes to an end, by its execution, by a cancel or by the   *)
(* restart that finds it open.                                             *)
EveryRunEnds == \A r \in Requests \ FaultOn : row[r] = "queued" ~> row[r] \in Terminal

(* A tier hold is given back in the end, unless the process died with it.  *)
HoldGoesBack ==
    \A r \in Requests \ FaultOn :
        hold[r] = "held" ~> (hold[r] = "returned" \/ create[r] = "lost" \/ exec[r] = "dead")
=================================================================================
