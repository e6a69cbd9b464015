----------------------------- MODULE RunQueueProofs -----------------------------
(***************************************************************************)
(* Theorems about RunQueue, for every set of requests, callers and caps.   *)
(***************************************************************************)
EXTENDS RunQueue, FiniteSetTheorems, TLAPS

---------------------------------------------------------------------------------
(* The inductive invariant of the concurrency cap.                         *)

SlotsBounded == Cardinality(slots) <= MaxConcurrent

(* Nothing executes or cancels a run before its row exists.                *)
RowBeforeRun ==
    \A r \in Requests :
        /\ create[r] \in {"idle", "fresh", "admitted", "reserved"} => row[r] = "absent"
        /\ create[r] = "stored" => row[r] # "absent"
        /\ row[r] = "absent" => exec[r] = "none" /\ canceller[r] = "none"

(* A cancel signals only after its UPDATE ended the row.                   *)
CancelledFirst == \A r \in Requests : canceller[r] = "signal" => row[r] \notin Open

(* A run that passed its gate without a slot will find its row cancelled.  *)
SlotOrCancelled ==
    mode = "up" => \A r \in Requests :
        /\ exec[r] = "released" /\ r \notin slots => row[r] \notin Open
        /\ exec[r] \in Working => r \in slots

(* A dead process executes nothing.                                        *)
DownIsIdle == mode = "down" => \A r \in Requests : exec[r] \in {"none", "done", "dead"}

IInv == TypeOK /\ SlotsBounded /\ RowBeforeRun /\ CancelledFirst /\ SlotOrCancelled /\ DownIsIdle

---------------------------------------------------------------------------------
(* What pump() does to its arguments: it takes runs up to the cap, keeps   *)
(* the slots it was given, and opens gates only of runs that got a slot.   *)
LEMMA PumpEffect ==
    ASSUME NEW pl \in [Requests -> Nat], NEW inf, NEW sl \in SUBSET Requests,
           NEW ex \in [Requests -> ExecSteps], Pump(pl, inf, sl, ex)
    PROVE  /\ slots' \in SUBSET Requests
           /\ place' \in [Requests -> Nat]
           /\ exec' \in [Requests -> ExecSteps]
           /\ Cardinality(slots') <= MaxConcurrent
           /\ sl \subseteq slots'
           /\ \A r \in Requests : \/ exec'[r] = ex[r]
                                  \/ ex[r] = "gated" /\ exec'[r] = "released" /\ r \in slots'
<1> DEFINE live == {r \in Requests : pl[r] > 0 /\ r \in inf}
<1>1. PICK S \in SUBSET live :
          /\ Cardinality(sl \cup S) <= MaxConcurrent
          /\ slots' = sl \cup S
          /\ exec'  = [r \in Requests |-> IF r \in S /\ ex[r] = "gated" THEN "released" ELSE ex[r]]
          /\ place' = [r \in Requests |->
                          IF r \in S \/ Cardinality(sl \cup S) < MaxConcurrent THEN 0 ELSE pl[r]]
  BY Zenon DEF Pump
<1>2. S \in SUBSET Requests
  BY <1>1
<1>3. slots' \in SUBSET Requests /\ sl \subseteq slots' /\ Cardinality(slots') <= MaxConcurrent
  BY <1>1, <1>2
<1>4. exec' \in [Requests -> ExecSteps]
  BY <1>1 DEF ExecSteps
<1>5. place' \in [Requests -> Nat]
  BY <1>1
<1>6. \A r \in Requests : \/ exec'[r] = ex[r]
                          \/ ex[r] = "gated" /\ exec'[r] = "released" /\ r \in slots'
  BY <1>1
<1> QED
  BY <1>3, <1>4, <1>5, <1>6

(* A write of a status keeps the rows and the outbox in their domains.     *)
LEMMA WriteType ==
    ASSUME TypeOK, NEW r \in Requests, NEW status \in Open \cup Terminal, Write(r, status)
    PROVE  /\ row' \in [Requests -> {"absent"} \cup Open \cup Terminal]
           /\ outbox' \in [Requests -> Seq(Announced)]
           /\ row' = [row EXCEPT ![r] = status]
<1>1. outbox' \in [Requests -> Seq(Announced)]
  <2>1. CASE status \in Announced
    <3>1. outbox[r] \in Seq(Announced)
      BY DEF TypeOK
    <3>2. Append(outbox[r], status) \in Seq(Announced)
      BY <2>1, <3>1
    <3> QED
      BY <2>1, <3>2 DEF TypeOK, Write
  <2>2. CASE status \notin Announced
    BY <2>2 DEF TypeOK, Write
  <2> QED
    BY <2>1, <2>2
<1> QED
  BY <1>1 DEF TypeOK, Write

(* Every action keeps the inductive invariant.                             *)
LEMMA CheckKeyKeeps ==
    ASSUME IInv, NEW r \in Requests, CheckKey(r)
    PROVE  IInv'
BY DEF IInv, TypeOK, SlotsBounded, RowBeforeRun, CancelledFirst, SlotOrCancelled, DownIsIdle, CheckKey,
       Open, Terminal, CreateSteps, ExecSteps, CancelSteps, Working, dbVars, memVars

LEMMA ServeCachedKeeps ==
    ASSUME IInv, NEW r \in Requests, ServeCached(r)
    PROVE  IInv'
<1>1. TypeOK
  BY DEF IInv
<1>2. /\ row' \in [Requests -> {"absent"} \cup Open \cup Terminal]
      /\ outbox' \in [Requests -> Seq(Announced)]
      /\ row' = row \/ \E status \in {"cached"} : row' = [row EXCEPT ![r] = status]
  <2>1. CASE UNCHANGED dbVars
    BY <1>1, <2>1 DEF TypeOK, dbVars
  <2>2. CASE \E status \in {"cached"} : Write(r, status)
    BY <1>1, <2>2, WriteType DEF Open, Terminal
  <2> QED
    BY <2>1, <2>2 DEF ServeCached
<1>3. TypeOK'
  BY ZenonT(60), <1>1, <1>2 DEF TypeOK, ServeCached, CreateSteps, ExecSteps, CancelSteps, memVars
<1> QED
  BY <1>2, <1>3 DEF IInv, TypeOK, SlotsBounded, RowBeforeRun, CancelledFirst, SlotOrCancelled, DownIsIdle,
     ServeCached, Write, Open, Terminal, CreateSteps, ExecSteps, CancelSteps, Working, dbVars, memVars

LEMMA AdmitKeeps ==
    ASSUME IInv, NEW r \in Requests, Admit(r)
    PROVE  IInv'
BY DEF IInv, TypeOK, SlotsBounded, RowBeforeRun, CancelledFirst, SlotOrCancelled, DownIsIdle, Admit,
       Open, Terminal, CreateSteps, ExecSteps, CancelSteps, Working, dbVars, memVars

LEMMA ReserveKeeps ==
    ASSUME IInv, NEW r \in Requests, Reserve(r)
    PROVE  IInv'
<1>1. /\ \E h \in {"none", "held", "returned"} : hold' = [hold EXCEPT ![r] = h]
      /\ \E end \in {"reserved", "refused"} : create' = [create EXCEPT ![r] = end]
      /\ create[r] = "admitted"
      /\ UNCHANGED <<row, outbox, place, inflight, slots, exec, aborted, canceller, mode, restarts>>
  BY DEF Reserve, dbVars, memVars
<1>2. TypeOK'
  BY <1>1 DEF IInv, TypeOK, CreateSteps
<1>3. RowBeforeRun'
  BY <1>1 DEF IInv, TypeOK, RowBeforeRun, CreateSteps
<1> QED
  BY <1>1, <1>2, <1>3 DEF IInv, SlotsBounded, CancelledFirst, SlotOrCancelled, DownIsIdle

LEMMA StoreKeeps ==
    ASSUME IInv, NEW r \in Requests, Store(r)
    PROVE  IInv'
<1>1. TypeOK
  BY DEF IInv
<1>2. /\ row' \in [Requests -> {"absent"} \cup Open \cup Terminal]
      /\ outbox' \in [Requests -> Seq(Announced)]
      /\ row' = row \/ \E status \in {"queued"} : row' = [row EXCEPT ![r] = status]
  <2>1. CASE UNCHANGED dbVars
    BY <1>1, <2>1 DEF TypeOK, dbVars
  <2>2. CASE \E status \in {"queued"} : Write(r, status)
    BY <1>1, <2>2, WriteType DEF Open, Terminal
  <2> QED
    BY <2>1, <2>2 DEF Store
<1>3. TypeOK'
  BY <1>1, <1>2 DEF TypeOK, Store, CreateSteps, ExecSteps, CancelSteps, memVars
<1> QED
  BY <1>2, <1>3 DEF IInv, TypeOK, SlotsBounded, RowBeforeRun, CancelledFirst, SlotOrCancelled, DownIsIdle,
     Store, Write, Open, Terminal, CreateSteps, ExecSteps, CancelSteps, Working, dbVars, memVars

LEMMA EnqueueKeeps ==
    ASSUME IInv, NEW r \in Requests, Enqueue(r)
    PROVE  IInv'
<1> DEFINE ex == [exec EXCEPT ![r] = "gated"]
<1>1. TypeOK
  BY DEF IInv
<1>2. PICK p \in Nat : Pump([place EXCEPT ![r] = p], inflight', slots, ex)
  BY FS_CardinalityType, RunQueueAssumption DEF Enqueue
<1>3. /\ [place EXCEPT ![r] = p] \in [Requests -> Nat]
      /\ slots \in SUBSET Requests
      /\ ex \in [Requests -> ExecSteps]
  BY <1>1 DEF TypeOK, ExecSteps
<1>4. /\ slots' \in SUBSET Requests
      /\ place' \in [Requests -> Nat]
      /\ exec' \in [Requests -> ExecSteps]
      /\ Cardinality(slots') <= MaxConcurrent
      /\ slots \subseteq slots'
      /\ \A s \in Requests : \/ exec'[s] = ex[s]
                             \/ ex[s] = "gated" /\ exec'[s] = "released" /\ s \in slots'
  <2> DEFINE pl == [place EXCEPT ![r] = p]
  <2>1. pl \in [Requests -> Nat] /\ Pump(pl, inflight', slots, ex)
    BY <1>2, <1>3
  <2> HIDE DEF pl, ex
  <2> QED
    BY SMTT(60), <1>3, <2>1, PumpEffect
<1>5. TypeOK'
  BY <1>1, <1>4 DEF TypeOK, Enqueue, CreateSteps, dbVars
<1> QED
  BY <1>4, <1>5 DEF IInv, TypeOK, SlotsBounded, RowBeforeRun, CancelledFirst, SlotOrCancelled, DownIsIdle,
     Enqueue, Open, Terminal, CreateSteps, ExecSteps, CancelSteps, Working, dbVars

LEMMA FailAfterStoreKeeps ==
    ASSUME IInv, NEW r \in Requests, FailAfterStore(r)
    PROVE  IInv'
BY DEF IInv, TypeOK, SlotsBounded, RowBeforeRun, CancelledFirst, SlotOrCancelled, DownIsIdle, FailAfterStore,
       Open, Terminal, CreateSteps, ExecSteps, CancelSteps, Working, dbVars, memVars

LEMMA ReadRowKeeps ==
    ASSUME IInv, NEW r \in Requests, ReadRow(r)
    PROVE  IInv'
BY ZenonT(60) DEF IInv, TypeOK, SlotsBounded, RowBeforeRun, CancelledFirst, SlotOrCancelled, DownIsIdle, ReadRow,
       Open, Terminal, CreateSteps, ExecSteps, CancelSteps, Working, dbVars, memVars

LEMMA MarkRunningKeeps ==
    ASSUME IInv, NEW r \in Requests, MarkRunning(r)
    PROVE  IInv'
<1>1. TypeOK
  BY DEF IInv
<1>2. /\ row' \in [Requests -> {"absent"} \cup Open \cup Terminal]
      /\ outbox' \in [Requests -> Seq(Announced)]
      /\ row' = row \/ \E status \in {"running"} : row' = [row EXCEPT ![r] = status]
  <2>1. CASE UNCHANGED dbVars
    BY <1>1, <2>1 DEF TypeOK, dbVars
  <2>2. CASE \E status \in {"running"} : Write(r, status)
    BY <1>1, <2>2, WriteType DEF Open, Terminal
  <2> QED
    BY <2>1, <2>2 DEF MarkRunning
<1>3. TypeOK'
  BY <1>1, <1>2 DEF TypeOK, MarkRunning, CreateSteps, ExecSteps, CancelSteps, memVars
<1> QED
  BY <1>2, <1>3 DEF IInv, TypeOK, SlotsBounded, RowBeforeRun, CancelledFirst, SlotOrCancelled, DownIsIdle,
     MarkRunning, Write, Open, Terminal, CreateSteps, ExecSteps, CancelSteps, Working, dbVars, memVars

LEMMA FailEarlyKeeps ==
    ASSUME IInv, NEW r \in Requests, FailEarly(r)
    PROVE  IInv'
BY DEF IInv, TypeOK, SlotsBounded, RowBeforeRun, CancelledFirst, SlotOrCancelled, DownIsIdle, FailEarly,
       Open, Terminal, CreateSteps, ExecSteps, CancelSteps, Working, dbVars, memVars

LEMMA AnswerKeeps ==
    ASSUME IInv, NEW r \in Requests, Answer(r)
    PROVE  IInv'
<1>1. TypeOK
  BY DEF IInv
<1>2. /\ row' \in [Requests -> {"absent"} \cup Open \cup Terminal]
      /\ outbox' \in [Requests -> Seq(Announced)]
      /\ row' = row \/ \E status \in {"succeeded"} : row' = [row EXCEPT ![r] = status]
  <2>1. CASE UNCHANGED dbVars
    BY <1>1, <2>1 DEF TypeOK, dbVars
  <2>2. CASE \E status \in {"succeeded"} : Write(r, status)
    BY <1>1, <2>2, WriteType DEF Open, Terminal
  <2> QED
    BY <2>1, <2>2 DEF Answer
<1>3. TypeOK'
  BY <1>1, <1>2 DEF TypeOK, Answer, CreateSteps, ExecSteps, CancelSteps, memVars
<1> QED
  BY <1>2, <1>3 DEF IInv, TypeOK, SlotsBounded, RowBeforeRun, CancelledFirst, SlotOrCancelled, DownIsIdle,
     Answer, Write, Open, Terminal, CreateSteps, ExecSteps, CancelSteps, Working, dbVars, memVars

LEMMA BreakKeeps ==
    ASSUME IInv, NEW r \in Requests, Break(r)
    PROVE  IInv'
<1>1. TypeOK
  BY DEF IInv
<1>2. /\ row' \in [Requests -> {"absent"} \cup Open \cup Terminal]
      /\ outbox' \in [Requests -> Seq(Announced)]
      /\ row' = row \/ \E status \in {"cancelled", "failed"} : row' = [row EXCEPT ![r] = status]
  <2>1. CASE UNCHANGED dbVars
    BY <1>1, <2>1 DEF TypeOK, dbVars
  <2>2. CASE \E status \in {"cancelled", "failed"} : Write(r, status)
    BY <1>1, <2>2, WriteType DEF Open, Terminal
  <2> QED
    BY <2>1, <2>2 DEF Break
<1>3. TypeOK'
  BY <1>1, <1>2 DEF TypeOK, Break, CreateSteps, ExecSteps, CancelSteps, memVars
<1> QED
  BY <1>2, <1>3 DEF IInv, TypeOK, SlotsBounded, RowBeforeRun, CancelledFirst, SlotOrCancelled, DownIsIdle,
     Break, Write, Open, Terminal, CreateSteps, ExecSteps, CancelSteps, Working, dbVars, memVars

LEMMA LeaveKeeps ==
    ASSUME IInv, NEW r \in Requests, Leave(r)
    PROVE  IInv'
<1> DEFINE ex == [exec EXCEPT ![r] = "done"]
<1>1. TypeOK
  BY DEF IInv
<1>2. /\ slots' \in SUBSET Requests
      /\ place' \in [Requests -> Nat]
      /\ exec' \in [Requests -> ExecSteps]
      /\ Cardinality(slots') <= MaxConcurrent
      /\ slots \ {r} \subseteq slots'
      /\ \A s \in Requests : \/ exec'[s] = ex[s]
                             \/ ex[s] = "gated" /\ exec'[s] = "released" /\ s \in slots'
  <2>1. CASE r \in slots
    <3>1. Pump(place, inflight, slots \ {r}, ex)
      BY <2>1 DEF Leave
    <3>2. /\ place \in [Requests -> Nat]
          /\ slots \ {r} \in SUBSET Requests
          /\ ex \in [Requests -> ExecSteps]
      BY <1>1 DEF TypeOK, ExecSteps
    <3> HIDE DEF ex
    <3> QED
      BY ZenonT(60), <3>1, <3>2, PumpEffect
  <2>2. CASE r \notin slots
    BY <2>2 DEF Leave, IInv, TypeOK, SlotsBounded, ExecSteps
  <2> QED
    BY <2>1, <2>2
<1>3. TypeOK'
  BY <1>1, <1>2 DEF TypeOK, Leave, dbVars
<1>4. SlotsBounded' /\ CancelledFirst'
  BY <1>2 DEF IInv, SlotsBounded, CancelledFirst, Leave, dbVars
<1>5. RowBeforeRun'
  BY <1>1, <1>2 DEF IInv, TypeOK, RowBeforeRun, Leave, dbVars, ExecSteps
<1>6. SlotOrCancelled'
  <2> SUFFICES ASSUME mode = "up", NEW s \in Requests
               PROVE  /\ exec'[s] = "released" /\ s \notin slots' => row[s] \notin Open
                      /\ exec'[s] \in Working => s \in slots'
    BY DEF SlotOrCancelled, Leave, dbVars
  <2>1. CASE s = r
    BY <1>1, <1>2, <2>1 DEF TypeOK, Working
  <2>2. CASE s # r
    <3>1. ex[s] = exec[s] /\ (s \in slots => s \in slots')
      BY <1>1, <1>2, <2>2 DEF TypeOK
    <3> QED
      BY <1>2, <3>1 DEF IInv, SlotOrCancelled, Working
  <2> QED
    BY <2>1, <2>2
<1>7. DownIsIdle'
  BY <1>1, <1>2 DEF IInv, TypeOK, DownIsIdle, Leave
<1> QED
  BY <1>3, <1>4, <1>5, <1>6, <1>7 DEF IInv

LEMMA CancelReadKeeps ==
    ASSUME IInv, NEW r \in Requests, CancelRead(r)
    PROVE  IInv'
BY DEF IInv, TypeOK, SlotsBounded, RowBeforeRun, CancelledFirst, SlotOrCancelled, DownIsIdle, CancelRead,
       Open, Terminal, CreateSteps, ExecSteps, CancelSteps, Working, dbVars, memVars

LEMMA CancelUpdateKeeps ==
    ASSUME IInv, NEW r \in Requests, CancelUpdate(r)
    PROVE  IInv'
<1>1. TypeOK
  BY DEF IInv
<1>2. /\ row' \in [Requests -> {"absent"} \cup Open \cup Terminal]
      /\ outbox' \in [Requests -> Seq(Announced)]
      /\ row' = row \/ \E status \in {"cancelled"} : row' = [row EXCEPT ![r] = status]
  <2>1. CASE UNCHANGED dbVars
    BY <1>1, <2>1 DEF TypeOK, dbVars
  <2>2. CASE \E status \in {"cancelled"} : Write(r, status)
    BY <1>1, <2>2, WriteType DEF Open, Terminal
  <2> QED
    BY <2>1, <2>2 DEF CancelUpdate
<1>3. TypeOK'
  BY <1>1, <1>2 DEF TypeOK, CancelUpdate, CreateSteps, ExecSteps, CancelSteps, memVars
<1> QED
  BY <1>2, <1>3 DEF IInv, TypeOK, SlotsBounded, RowBeforeRun, CancelledFirst, SlotOrCancelled, DownIsIdle,
     CancelUpdate, Write, Open, Terminal, CreateSteps, ExecSteps, CancelSteps, Working, dbVars, memVars

LEMMA CancelSignalKeeps ==
    ASSUME IInv, NEW r \in Requests, CancelSignal(r)
    PROVE  IInv'
BY DEF IInv, TypeOK, SlotsBounded, RowBeforeRun, CancelledFirst, SlotOrCancelled, DownIsIdle, CancelSignal,
       Open, Terminal, CreateSteps, ExecSteps, CancelSteps, Working, dbVars, memVars

LEMMA DrainKeeps ==
    ASSUME IInv, Drain
    PROVE  IInv'
BY DEF IInv, TypeOK, SlotsBounded, RowBeforeRun, CancelledFirst, SlotOrCancelled, DownIsIdle, Drain,
       Open, Terminal, CreateSteps, ExecSteps, CancelSteps, Working, dbVars, memVars

LEMMA DieKeeps ==
    ASSUME IInv, Die
    PROVE  IInv'
BY FS_EmptySet, RunQueueAssumption DEF IInv, TypeOK, SlotsBounded, RowBeforeRun, CancelledFirst, SlotOrCancelled, DownIsIdle, Die,
       Open, Terminal, CreateSteps, ExecSteps, CancelSteps, Working, dbVars, memVars

LEMMA BootKeeps ==
    ASSUME IInv, Boot
    PROVE  IInv'
<1>1. TypeOK
  BY DEF IInv
<1>2. outbox' \in [Requests -> Seq(Announced)]
  <2>1. ASSUME NEW r \in Requests
        PROVE  outbox[r] \in Seq(Announced) /\ Append(outbox[r], "failed") \in Seq(Announced)
    <3>1. outbox[r] \in Seq(Announced) /\ "failed" \in Announced
      BY <1>1 DEF TypeOK, Announced
    <3> QED
      BY <3>1
  <2> QED
    BY <2>1 DEF Boot
<1>3. TypeOK'
  BY <1>1, <1>2 DEF TypeOK, Boot, Open, Terminal, memVars
<1> QED
  BY <1>3 DEF IInv, TypeOK, SlotsBounded, RowBeforeRun, CancelledFirst, SlotOrCancelled, DownIsIdle,
     Boot, Open, Terminal, CreateSteps, ExecSteps, CancelSteps, Working, memVars

---------------------------------------------------------------------------------
LEMMA InitHolds == Init => IInv
<1> SUFFICES ASSUME Init PROVE IInv
  OBVIOUS
<1>1. TypeOK
  <2>1. <<>> \in Seq(Announced)
    OBVIOUS
  <2> QED
    BY <2>1, RunQueueAssumption DEF Init, TypeOK, CreateSteps, ExecSteps, CancelSteps
<1> QED
  BY <1>1, FS_EmptySet, RunQueueAssumption
     DEF Init, IInv, SlotsBounded, RowBeforeRun, CancelledFirst, SlotOrCancelled, DownIsIdle, Working

LEMMA StepHolds == IInv /\ [Next]_vars => IInv'
<1> SUFFICES ASSUME IInv, [Next]_vars PROVE IInv'
  OBVIOUS
<1>1. ASSUME NEW r \in Requests, CheckKey(r) PROVE IInv'
  BY <1>1, CheckKeyKeeps
<1>2. ASSUME NEW r \in Requests, ServeCached(r) PROVE IInv'
  BY <1>2, ServeCachedKeeps
<1>3. ASSUME NEW r \in Requests, Admit(r) PROVE IInv'
  BY <1>3, AdmitKeeps
<1>4. ASSUME NEW r \in Requests, Reserve(r) PROVE IInv'
  BY <1>4, ReserveKeeps
<1>5. ASSUME NEW r \in Requests, Store(r) PROVE IInv'
  BY <1>5, StoreKeeps
<1>6. ASSUME NEW r \in Requests, Enqueue(r) PROVE IInv'
  BY <1>6, EnqueueKeeps
<1>7. ASSUME NEW r \in Requests, FailAfterStore(r) PROVE IInv'
  BY <1>7, FailAfterStoreKeeps
<1>8. ASSUME NEW r \in Requests, ReadRow(r) PROVE IInv'
  BY <1>8, ReadRowKeeps
<1>9. ASSUME NEW r \in Requests, MarkRunning(r) PROVE IInv'
  BY <1>9, MarkRunningKeeps
<1>10. ASSUME NEW r \in Requests, FailEarly(r) PROVE IInv'
  BY <1>10, FailEarlyKeeps
<1>11. ASSUME NEW r \in Requests, Answer(r) PROVE IInv'
  BY <1>11, AnswerKeeps
<1>12. ASSUME NEW r \in Requests, Break(r) PROVE IInv'
  BY <1>12, BreakKeeps
<1>13. ASSUME NEW r \in Requests, Leave(r) PROVE IInv'
  BY <1>13, LeaveKeeps
<1>14. ASSUME NEW r \in Requests, CancelRead(r) PROVE IInv'
  BY <1>14, CancelReadKeeps
<1>15. ASSUME NEW r \in Requests, CancelUpdate(r) PROVE IInv'
  BY <1>15, CancelUpdateKeeps
<1>16. ASSUME NEW r \in Requests, CancelSignal(r) PROVE IInv'
  BY <1>16, CancelSignalKeeps
<1>17. CASE Drain
  BY <1>17, DrainKeeps
<1>18. CASE Die
  BY <1>18, DieKeeps
<1>19. CASE Boot
  BY <1>19, BootKeeps
<1>20. CASE UNCHANGED vars
  BY <1>20 DEF vars, IInv, TypeOK, SlotsBounded, RowBeforeRun, CancelledFirst, SlotOrCancelled, DownIsIdle, Working
<1> QED
  BY <1>1, <1>2, <1>3, <1>4, <1>5, <1>6, <1>7, <1>8, <1>9, <1>10, <1>11, <1>12, <1>13, <1>14, <1>15, <1>16, <1>17, <1>18, <1>19, <1>20 DEF Next, CreateNext, ExecNext, CancelNext

(* The queue, the in-flight map and the statuses stay in their domains for *)
(* every number of requests, and no event is queued for a status without one. *)
THEOREM TypeCorrect == Spec => []TypeOK
<1>1. IInv => TypeOK
  BY DEF IInv
<1> QED
  BY <1>1, InitHolds, StepHolds, PTL DEF Spec

(* maxConcurrent holds for every cap and every number of create, cancel    *)
(* and execution chains until the process drains.                          *)
THEOREM CapHolds == Spec => []ConcurrencyCap
<1>1. IInv => ConcurrencyCap
  <2> SUFFICES ASSUME IInv, mode = "up"
               PROVE  Cardinality({r \in Requests : exec[r] \in Working}) <= MaxConcurrent
    BY DEF ConcurrencyCap
  <2>1. {r \in Requests : exec[r] \in Working} \subseteq slots
    BY DEF IInv, SlotOrCancelled
  <2>2. IsFiniteSet(slots)
    BY FS_Subset, RunQueueAssumption DEF IInv, TypeOK
  <2>3. /\ IsFiniteSet({r \in Requests : exec[r] \in Working})
        /\ Cardinality({r \in Requests : exec[r] \in Working}) <= Cardinality(slots)
    BY <2>1, <2>2, FS_Subset
  <2> QED
    BY <2>2, <2>3, FS_CardinalityType, RunQueueAssumption DEF IInv, SlotsBounded
<1> QED
  BY <1>1, InitHolds, StepHolds, PTL DEF Spec

---------------------------------------------------------------------------------
(* No slot idles while a run waits.                                        *)

(* After pump() every run still waiting in flight waits for a full house.  *)
LEMMA PumpFills ==
    ASSUME NEW pl \in [Requests -> Nat], NEW inf, NEW sl \in SUBSET Requests, NEW ex, Pump(pl, inf, sl, ex)
    PROVE  (\E r \in Requests : place'[r] > 0 /\ r \in inf) => Cardinality(slots') = MaxConcurrent
<1> DEFINE live == {r \in Requests : pl[r] > 0 /\ r \in inf}
<1>1. PICK S \in SUBSET live :
          /\ Cardinality(sl \cup S) <= MaxConcurrent
          /\ S # live => Cardinality(sl \cup S) >= MaxConcurrent
          /\ slots' = sl \cup S
          /\ place' = [r \in Requests |->
                          IF r \in S \/ Cardinality(sl \cup S) < MaxConcurrent THEN 0 ELSE pl[r]]
  BY Zenon DEF Pump
<1>2. Cardinality(sl \cup S) \in Nat /\ MaxConcurrent \in Nat
  <2>1. sl \cup S \subseteq Requests
    OBVIOUS
  <2> QED
    BY <2>1, FS_Subset, FS_CardinalityType, RunQueueAssumption
<1> SUFFICES ASSUME NEW r \in Requests, place'[r] > 0, r \in inf
             PROVE  Cardinality(slots') = MaxConcurrent
  OBVIOUS
<1>3. r \notin S /\ r \in live
  BY <1>1
<1> QED
  BY <1>1, <1>2, <1>3

LEMMA NoIdleKept == IInv /\ NoIdleSlot /\ [Next]_vars => NoIdleSlot'
<1> SUFFICES ASSUME IInv, NoIdleSlot, [Next]_vars PROVE NoIdleSlot'
  OBVIOUS
<1>t. place \in [Requests -> Nat] /\ slots \in SUBSET Requests
  BY DEF IInv, TypeOK
<1>1. ASSUME NEW r \in Requests, Enqueue(r) PROVE NoIdleSlot'
  <2>1. PICK p \in Nat : Pump([place EXCEPT ![r] = p], inflight', slots, [exec EXCEPT ![r] = "gated"])
    BY <1>1, FS_CardinalityType, RunQueueAssumption DEF Enqueue
  <2> DEFINE pl == [place EXCEPT ![r] = p]
             ex == [exec EXCEPT ![r] = "gated"]
  <2>2. pl \in [Requests -> Nat] /\ Pump(pl, inflight', slots, ex)
    BY <1>t, <2>1
  <2> HIDE DEF pl, ex
  <2>3. (\E s \in Requests : place'[s] > 0 /\ s \in inflight') => Cardinality(slots') = MaxConcurrent
    BY ZenonT(60), <1>t, <2>2, PumpFills
  <2> QED
    BY <2>3 DEF NoIdleSlot, Queued
<1>2. ASSUME NEW r \in Requests, Leave(r) PROVE NoIdleSlot'
  <2>1. CASE r \in slots
    <3> DEFINE sl == slots \ {r}
               ex == [exec EXCEPT ![r] = "done"]
    <3>1. sl \in SUBSET Requests /\ Pump(place, inflight, sl, ex) /\ UNCHANGED inflight
      BY <1>t, <1>2, <2>1 DEF Leave
    <3> HIDE DEF sl, ex
    <3>2. (\E s \in Requests : place'[s] > 0 /\ s \in inflight) => Cardinality(slots') = MaxConcurrent
      BY ZenonT(60), <1>t, <3>1, PumpFills
    <3> QED
      BY <3>1, <3>2 DEF NoIdleSlot, Queued
  <2>2. CASE r \notin slots
    BY <1>2, <2>2 DEF Leave, NoIdleSlot, Queued
  <2> QED
    BY <2>1, <2>2
<1>3. ASSUME \A r \in Requests : place'[r] = place[r] \/ place'[r] = 0,
             inflight' \subseteq inflight, UNCHANGED slots
      PROVE  NoIdleSlot'
  BY <1>3 DEF NoIdleSlot, Queued
<1>4. ASSUME NEW r \in Requests,
             \/ CheckKey(r) \/ ServeCached(r) \/ Admit(r) \/ Reserve(r) \/ Store(r) \/ FailAfterStore(r)
             \/ ReadRow(r) \/ MarkRunning(r) \/ FailEarly(r) \/ Answer(r) \/ Break(r)
             \/ CancelRead(r) \/ CancelUpdate(r)
      PROVE  place' = place /\ slots' = slots /\ inflight' \subseteq inflight
  BY <1>4 DEF CheckKey, ServeCached, Admit, Reserve, Store, FailAfterStore, ReadRow, MarkRunning, FailEarly,
     Answer, Break, CancelRead, CancelUpdate, memVars
<1>5. ASSUME NEW r \in Requests, CancelSignal(r) PROVE NoIdleSlot'
  BY <1>t, <1>3, <1>5 DEF CancelSignal
<1>6. CASE Die
  BY <1>6 DEF Die, NoIdleSlot
<1>7. CASE Drain \/ Boot \/ UNCHANGED vars
  BY <1>3, <1>7 DEF Drain, Boot, memVars, vars
<1> QED
  BY <1>1, <1>2, <1>3, <1>4, <1>5, <1>6, <1>7 DEF Next, CreateNext, ExecNext, CancelNext

(* However create calls, cancels, drains and the ends of runs alternate,   *)
(* pump() leaves no run in flight waiting beside a free slot.              *)
THEOREM NoSlotIdles == Spec => []NoIdleSlot
<1>1. Init => NoIdleSlot
  BY DEF Init, NoIdleSlot, Queued
<1> QED
  BY <1>1, InitHolds, StepHolds, NoIdleKept, PTL DEF Spec

---------------------------------------------------------------------------------
(* Refinement: row and outbox are the same variables in both modules.      *)

LEMMA WriteMoves ==
    ASSUME TypeOK, NEW r \in Requests, NEW status, Write(r, status)
    PROVE  Lifecycle!MoveAll({r}, status)
<1>1. row' = [s \in Requests |-> IF s \in {r} THEN status ELSE row[s]]
  BY DEF TypeOK, Write
<1>2. outbox' = [s \in Requests |-> IF s \in {r} /\ status \in Announced THEN Append(outbox[s], status) ELSE outbox[s]]
  <2>1. CASE status \in Announced
    BY <2>1 DEF TypeOK, Write
  <2>2. CASE status \notin Announced
    BY <2>2 DEF TypeOK, Write
  <2> QED
    BY <2>1, <2>2
<1> QED
  BY <1>1, <1>2 DEF Lifecycle!MoveAll, Lifecycle!Announced, Announced

LEMMA StepMaps == IInv /\ [Next]_vars => [Lifecycle!Next]_(Lifecycle!vars)
<1> SUFFICES ASSUME IInv, [Next]_vars PROVE Lifecycle!Next \/ UNCHANGED dbVars
  BY DEF dbVars, Lifecycle!vars
<1>t. TypeOK
  BY DEF IInv
<1>1. ASSUME NEW r \in Requests, ServeCached(r) \/ Store(r)
      PROVE  Lifecycle!Next \/ UNCHANGED dbVars
  <2>1. CASE \E status \in {"queued", "cached"} : SameKey(r) = {} /\ Write(r, status)
    <3>1. row[r] = "absent"
      BY <1>1 DEF IInv, RowBeforeRun, ServeCached, Store
    <3>2. PICK status \in {"queued", "cached"} : SameKey(r) = {} /\ Write(r, status)
      BY <2>1
    <3>3. ~Lifecycle!KeyTaken(r)
      BY <3>2 DEF Lifecycle!KeyTaken, SameKey
    <3>4. Lifecycle!MoveAll({r}, status)
      BY <1>t, <3>2, WriteMoves
    <3> QED
      BY <3>1, <3>2, <3>3, <3>4 DEF Lifecycle!Appear, Lifecycle!Next
  <2>2. CASE UNCHANGED dbVars
    BY <2>2
  <2> QED
    BY <1>1, <2>1, <2>2 DEF ServeCached, Store
<1>2. ASSUME NEW r \in Requests, MarkRunning(r)
      PROVE  Lifecycle!Next \/ UNCHANGED dbVars
  <2>1. CASE row[r] = "queued" /\ Write(r, "running")
    BY <1>t, <2>1, WriteMoves DEF Lifecycle!Start, Lifecycle!Next
  <2> QED
    BY <1>2, <2>1 DEF MarkRunning
<1>3. ASSUME NEW r \in Requests, Answer(r)
      PROVE  Lifecycle!Next \/ UNCHANGED dbVars
  <2>1. CASE row[r] = "running" /\ Write(r, "succeeded")
    BY <1>t, <2>1, WriteMoves DEF Lifecycle!Finish, Lifecycle!Next
  <2> QED
    BY <1>3, <2>1 DEF Answer
<1>4. ASSUME NEW r \in Requests, Break(r) \/ CancelUpdate(r)
      PROVE  Lifecycle!Next \/ UNCHANGED dbVars
  <2>1. CASE row[r] \in Open /\ \E status \in {"failed", "cancelled"} : Write(r, status)
    <3>1. PICK status \in {"failed", "cancelled"} : Write(r, status)
      BY <2>1
    <3>2. Lifecycle!MoveAll({r}, status)
      BY <1>t, <3>1, WriteMoves
    <3> QED
      BY <2>1, <3>1, <3>2 DEF Lifecycle!Finish, Lifecycle!Next, Lifecycle!Open, Open
  <2> QED
    BY <1>4, <2>1 DEF Break, CancelUpdate
<1>5. CASE Boot
  <2>1. /\ row' = [r \in Requests |-> IF r \in {s \in Requests : row[s] \in Open} THEN "failed" ELSE row[r]]
        /\ outbox' = [r \in Requests |-> IF r \in {s \in Requests : row[s] \in Open} /\ "failed" \in Announced
                                         THEN Append(outbox[r], "failed") ELSE outbox[r]]
    BY <1>5 DEF Boot, Announced
  <2> QED
    BY <2>1 DEF Lifecycle!Next, Lifecycle!Recover, Lifecycle!MoveAll, Lifecycle!Announced, Announced, Lifecycle!Open, Open
<1>6. ASSUME NEW r \in Requests,
             \/ CheckKey(r) \/ Admit(r) \/ Reserve(r) \/ Enqueue(r) \/ FailAfterStore(r)
             \/ ReadRow(r) \/ FailEarly(r) \/ Leave(r) \/ CancelRead(r) \/ CancelSignal(r)
      PROVE  UNCHANGED dbVars
  BY <1>6 DEF CheckKey, Admit, Reserve, Enqueue, FailAfterStore, ReadRow, FailEarly, Leave, CancelRead, CancelSignal, dbVars
<1>7. CASE Drain \/ Die \/ UNCHANGED vars
  BY <1>7 DEF Drain, Die, vars, dbVars
<1> QED
  BY <1>1, <1>2, <1>3, <1>4, <1>5, <1>6, <1>7 DEF Next, CreateNext, ExecNext, CancelNext

(* The queue, the worker, the cancel calls and the restarts implement the  *)
(* lifecycle: a run appears once per idempotency key, its status only      *)
(* moves forward, and each announced status queues exactly one event.      *)
THEOREM RefinesLifecycle == Spec => ImplementsLifecycle
<1>1. Init => Lifecycle!Init
  BY DEF Init, Lifecycle!Init
<1> QED
  BY <1>1, InitHolds, StepHolds, StepMaps, PTL DEF Spec, Lifecycle!Spec, ImplementsLifecycle

=================================================================================
