------------------------------- MODULE WorkersProofs ------------------------------
(***************************************************************************)
(* Theorems about the workers that a timer starts.  Of Webhooks: what      *)
(* holds of the table of deliveries for every set of receivers and events  *)
(* and any number of workers, and that one worker implements AtLeastOnce.  *)
(* Of GpuRentals: that one reconciler keeps the monthly cap.  Of           *)
(* RefusalRates: that the claim of the weekly job lets one process         *)
(* measure.                                                                *)
(***************************************************************************)
EXTENDS Webhooks, GpuRentals, RefusalRates, Totals, FiniteSetTheorems, TLAPS

---------------------------------------------------------------------------------
(* The inductive invariant.                                                *)

Attempted  == 0..MaxAttempts
Untired    == 0..(MaxAttempts - 1)
RowRecord  == [status : {"none", "pending", "delivered", "failed", "gone"},
               attempts : Attempted, wait : -MaxAge..(Lease + BackoffCap)]
PassRecord == [step : {"idle", "claim", "send", "answer", "record"}, todo : Seq(Rows), seen : Seq(Untired),
               age : Nat, sending : Nat, outcome : {"none", "ok", "retry", "final"}]

Shape == /\ receivers \subseteq Receivers /\ registering \subseteq Receivers
         /\ emitting \in [WebhookEvents -> SUBSET (Receivers \cup {"not yet"})]
         /\ rows \in [Rows -> RowRecord] /\ passes \in [Senders -> PassRecord]
         /\ taken \subseteq Rows /\ sendFaults \in 0..MaxSendFaults

(* emit() inserts a row at most once, and none before it read the receivers.*)
InsertsOnce == \A e \in WebhookEvents :
    /\ emitting[e] = {"not yet"} \/ emitting[e] \subseteq SubscribersOf[e]
    /\ \A r \in SubscribersOf[e] : r \in emitting[e] \/ emitting[e] = {"not yet"} => rows[<<e, r>>] = NoRow

(* A row that is still to be sent has attempts left.                       *)
GoodRow(row) == /\ row.status = "none" => row = NoRow
                /\ row.status = "pending" => row.attempts < MaxAttempts
MayStillTry  == \A d \in Rows : GoodRow(rows[d])

(* A pass is no older than the rows it is done with, and the one at hand,  *)
(* may have taken.                                                         *)
Gone(p)   == (Cardinality(Rows) - Len(p.todo)) * SendTimeout
OnTime(p) == /\ p.step \in {"claim", "send"} => p.age <= Gone(p)
             /\ p.step = "answer" => p.age <= Gone(p) + p.sending /\ p.sending <= SendTimeout
             /\ p.step = "record" => p.age <= Gone(p) + SendTimeout
GoodPass(p) == /\ p.step = "idle" => p = Resting
               /\ p.step # "idle" => p.todo # << >>
               /\ p.step \in {"claim", "send"} => p.sending = 0
               /\ Len(p.seen) = Len(p.todo) /\ Len(p.todo) <= Cardinality(Rows)
               /\ OnTime(p)
PassInOrder == \A w \in Senders : GoodPass(passes[w])

(* Nothing is reported as delivered that its receiver did not take.        *)
ReportsWhatIsTaken ==
    /\ \A w \in Senders : passes[w].step = "record" /\ passes[w].outcome = "ok" => Row(w) \in taken
    /\ \A d \in Rows : rows[d].status = "delivered" => d \in taken

(* The row a lone worker has at hand is still open, or went with its       *)
(* receiver.                                                               *)
Alone  == \A v, w \in Senders : v = w
AtHand == \A w \in Senders : passes[w].step \in {"send", "answer", "record"} =>
                                 rows[Row(w)].status \in {"pending", "gone"}

WebhookInv == Shape /\ InsertsOnce /\ MayStillTry /\ PassInOrder /\ ReportsWhatIsTaken /\ (Alone => AtHand)

---------------------------------------------------------------------------------
(* Rows, time and passes.                                                  *)

LEMMA RowsAre == /\ \A e \in WebhookEvents, r \in Receivers : <<e, r>> \in Rows <=> r \in SubscribersOf[e]
                 /\ \A d \in Rows : /\ d[1] \in WebhookEvents /\ d[2] \in SubscribersOf[d[1]] /\ d[2] \in Receivers
                                    /\ d = <<d[1], d[2]>>
<1>1. \A e \in WebhookEvents : SubscribersOf[e] \subseteq Receivers
  BY WebhookConstants
<1>2. \A e \in WebhookEvents, r \in Receivers : <<e, r>>[1] = e /\ <<e, r>>[2] = r
  OBVIOUS
<1>3. \A d \in WebhookEvents \X Receivers : d[1] \in WebhookEvents /\ d[2] \in Receivers /\ d = <<d[1], d[2]>>
  OBVIOUS
<1> QED
  BY <1>1, <1>2, <1>3 DEF Rows

LEMMA RowsFinite == IsFiniteSet(Rows) /\ Cardinality(Rows) \in Nat
<1>1. IsFiniteSet(WebhookEvents \X Receivers)
  BY WebhookConstants, FS_Product
<1>2. Rows \subseteq WebhookEvents \X Receivers
  BY DEF Rows
<1> QED
  BY <1>1, <1>2, FS_Subset, FS_CardinalityType

LEMMA Times == ASSUME NEW k \in Nat, NEW t \in Nat PROVE k * t \in Nat /\ (k + 1) * t = k * t + t
  OBVIOUS

LEMMA TimesGrows == ASSUME NEW k \in Nat, NEW n \in Nat, NEW t \in Nat, k <= n PROVE k * t <= n * t
  OBVIOUS

LEMMA AgesAre == /\ MaxAge \in Nat /\ Lease \in Nat /\ SendTimeout \in Nat /\ BackoffCap \in Nat
                 /\ MaxAttempts \in Nat \ {0} /\ MaxSendFaults \in Nat
<1>1. SendTimeout \in Nat /\ LeaseMargin \in Nat /\ BackoffCap \in Nat /\ MaxAttempts \in Nat \ {0} /\ MaxSendFaults \in Nat
  BY WebhookConstants
<1>2. Cardinality(Rows) * SendTimeout \in Nat
  BY <1>1, RowsFinite, Times
<1> QED
  BY <1>1, <1>2 DEF MaxAge, Lease

(* The rows that nobody sends yet, or any more.                            *)
LEMMA NewRows ==
    /\ NoRow \in RowRecord /\ GoodRow(NoRow) /\ NoRow.status = "none"
    /\ [NoRow EXCEPT !.status = "gone"] \in RowRecord
    /\ [NoRow EXCEPT !.status = "pending"] \in RowRecord /\ GoodRow([NoRow EXCEPT !.status = "pending"])
<1>1. 0 \in Attempted /\ 0 \in -MaxAge..(Lease + BackoffCap) /\ 0 < MaxAttempts
  BY AgesAre DEF Attempted
<1> QED
  BY <1>1 DEF NoRow, RowRecord, GoodRow

(* However a pass goes on, it is no older than MaxAge.                     *)
LEMMA PassAges == ASSUME NEW p \in PassRecord, GoodPass(p) PROVE p.age <= MaxAge
<1> DEFINE N == Cardinality(Rows)
           k == N - Len(p.todo)
           T == SendTimeout
<1>1. N \in Nat /\ T \in Nat /\ Len(p.todo) \in Nat /\ Len(p.todo) <= N /\ p.age \in Nat /\ p.sending \in Nat
  BY RowsFinite, AgesAre DEF PassRecord, GoodPass
<1>2. MaxAge = N * T /\ Gone(p) = k * T
  BY DEF MaxAge, Gone
<1>3. k \in Nat /\ k * T \in Nat /\ k * T <= N * T
  <2>1. k \in Nat /\ k <= N
    BY <1>1
  <2> HIDE DEF k, N, T
  <2> QED
    BY <2>1, <1>1, Times, TimesGrows
<1>4. CASE p.step = "idle"
  <2>1. p.age = 0
    BY <1>4 DEF GoodPass, Resting
  <2> QED
    BY <2>1, AgesAre
<1>5. CASE p.step \in {"claim", "send"}
  <2> HIDE DEF k, N, T
  <2> QED
    BY <1>1, <1>2, <1>3, <1>5 DEF GoodPass, OnTime
<1>6. CASE p.step \in {"answer", "record"}
  <2>1. Len(p.todo) > 0
    BY <1>6 DEF GoodPass, PassRecord
  <2>2. k + 1 \in Nat /\ k + 1 <= N
    BY <1>1, <2>1
  <2> HIDE DEF k, N
  <2>3. k * T + T <= N * T
    <3>1. (k + 1) * T <= N * T /\ (k + 1) * T = k * T + T
      <4> HIDE DEF T
      <4> QED
        BY <1>1, <1>3, <2>2, Times, TimesGrows
    <3> QED
      BY <3>1
  <2>4. p.age <= k * T + T
    <3>1. (p.age <= Gone(p) + p.sending /\ p.sending <= T) \/ p.age <= Gone(p) + T
      BY <1>6 DEF GoodPass, OnTime
    <3> HIDE DEF T
    <3> QED
      BY <1>1, <1>2, <1>3, <3>1
  <2> HIDE DEF T
  <2> QED
    BY <1>1, <1>2, <1>3, <2>3, <2>4, Times
<1> QED
  BY <1>4, <1>5, <1>6 DEF PassRecord

(* The row at hand, and what a pass is after it.                           *)
LEMMA HandIs == ASSUME Shape, NEW w \in Senders, passes[w].todo # << >>
                PROVE  Row(w) \in Rows
<1>1. passes[w].todo \in Seq(Rows)
  BY DEF Shape, PassRecord
<1>2. Head(passes[w].todo) \in Rows
  BY <1>1
<1> QED
  BY <1>2 DEF Row

LEMMA RestingIs == Resting \in PassRecord /\ GoodPass(Resting) /\ Resting.step = "idle"
<1>1. << >> \in Seq(Rows) /\ << >> \in Seq(Untired) /\ Len(<< >>) = 0
  OBVIOUS
<1> QED
  BY <1>1, RowsFinite DEF Resting, PassRecord, GoodPass, OnTime

LEMMA NextPass ==
    ASSUME Shape, NEW w \in Senders, GoodPass(passes[w]), passes[w].step \in {"claim", "record"}
    PROVE  /\ NextRow(w) \in PassRecord /\ GoodPass(NextRow(w)) /\ NextRow(w).step \in {"idle", "claim"}
<1> DEFINE p == passes[w]
           N == Cardinality(Rows)
           k == N - Len(p.todo)
           T == SendTimeout
<1>1. p \in PassRecord /\ p.todo # << >> /\ Len(p.seen) = Len(p.todo) /\ Len(p.todo) <= N /\ Len(p.todo) \in Nat \ {0}
  <2>1. p \in PassRecord /\ p.step # "idle"
    BY DEF Shape
  <2>2. p.todo # << >> /\ Len(p.seen) = Len(p.todo) /\ Len(p.todo) <= N
    BY <2>1 DEF GoodPass
  <2>3. Len(p.todo) \in Nat \ {0}
    BY <2>1, <2>2 DEF PassRecord
  <2> QED
    BY <2>1, <2>2, <2>3
<1>2. N \in Nat /\ T \in Nat /\ p.age \in Nat
  BY <1>1, RowsFinite, AgesAre DEF PassRecord
<1>3. Resting \in PassRecord /\ GoodPass(Resting) /\ Resting.step = "idle"
  BY RestingIs
<1>4. ASSUME Len(p.todo) # 1
      PROVE  LET q == [p EXCEPT !.step = "claim", !.todo = Tail(@), !.seen = Tail(@), !.sending = 0, !.outcome = "none"]
             IN  q \in PassRecord /\ GoodPass(q) /\ q.step = "claim"
  <2> DEFINE q == [p EXCEPT !.step = "claim", !.todo = Tail(@), !.seen = Tail(@), !.sending = 0, !.outcome = "none"]
  <2>1. /\ Tail(p.todo) \in Seq(Rows) /\ Tail(p.seen) \in Seq(Untired)
        /\ Len(Tail(p.todo)) = Len(p.todo) - 1 /\ Len(Tail(p.seen)) = Len(p.seen) - 1
    BY <1>1 DEF PassRecord
  <2>2. /\ q.step = "claim" /\ q.todo = Tail(p.todo) /\ q.seen = Tail(p.seen) /\ q.age = p.age
        /\ q.sending = 0 /\ q.outcome = "none"
    BY <1>1 DEF PassRecord
  <2>3. q \in PassRecord
    <3> DEFINE a == Tail(p.todo)
               b == Tail(p.seen)
    <3> HIDE DEF a, b, p
    <3>1. q = [p EXCEPT !.step = "claim", !.todo = a, !.seen = b, !.sending = 0, !.outcome = "none"]
      BY DEF a, b
    <3>2. a \in Seq(Rows) /\ b \in Seq(Untired) /\ p \in PassRecord
      BY <1>1, <2>1 DEF a, b
    <3> QED
      BY <3>1, <3>2 DEF PassRecord
  <2>4. p.age <= Gone(q)
    <3>1. p.age <= Gone(p) + T
      <4>1. p.age <= Gone(p) \/ p.age <= Gone(p) + T
        BY DEF GoodPass, OnTime
      <4>2. Gone(p) \in Nat
        <5>1. k \in Nat
          BY <1>1, <1>2
        <5> HIDE DEF k, T
        <5>2. k * T \in Nat
          BY <1>2, <5>1, Times
        <5> QED
          BY <5>2 DEF Gone, k, T
      <4> QED
        BY <4>1, <4>2, <1>2
    <3>2. Len(q.todo) = Len(p.todo) - 1
      BY <2>1, <2>2
    <3>3. Gone(p) = k * T /\ Gone(q) = (N - Len(q.todo)) * T
      BY DEF Gone
    <3>4. N - Len(q.todo) = k + 1 /\ k \in Nat
      BY <3>2, <1>1, <1>2
    <3> HIDE DEF k, T, N, p, q
    <3>5. (k + 1) * T = k * T + T
      BY <1>2, <3>4, Times
    <3> QED
      BY <3>1, <3>3, <3>4, <3>5
  <2>5. GoodPass(q)
    <3>1. q.todo # << >> /\ Len(q.seen) = Len(q.todo) /\ Len(q.todo) <= N
      <4>1. Len(Tail(p.todo)) # 0 /\ Len(Tail(p.todo)) <= N
        BY <1>1, <1>2, <1>4, <2>1
      <4>2. Tail(p.todo) # << >>
        <5>1. Len(<< >>) = 0
          OBVIOUS
        <5> QED
          BY <4>1, <5>1, Zenon
      <4> QED
        BY <1>1, <2>1, <2>2, <4>1, <4>2
    <3> HIDE DEF q
    <3> QED
      BY <2>2, <2>4, <3>1 DEF GoodPass, OnTime
  <2> QED
    BY <2>2, <2>3, <2>5
<1> QED
  BY <1>3, <1>4 DEF NextRow

---------------------------------------------------------------------------------
(* The steps.                                                              *)

(* A step of a worker: it changes its pass, the row at hand if it is there,*)
(* and what the receivers took.                                            *)
LEMMA WorkerKeeps ==
    ASSUME WebhookInv, NEW w \in Senders, NEW p \in PassRecord, GoodPass(p), passes' = [passes EXCEPT ![w] = p],
           UNCHANGED <<receivers, registering, emitting>>, sendFaults' \in 0..MaxSendFaults,
           taken \subseteq taken', taken' \subseteq Rows,
           p.step = "record" /\ p.outcome = "ok" => Head(p.todo) \in taken',
           rows' \in [Rows -> RowRecord],
           \A d \in Rows :
                          \/ rows'[d] = rows[d]
                          \/ /\ rows[d].status \notin {"none", "gone"} /\ rows'[d].status # "none" /\ GoodRow(rows'[d])
                             /\ rows'[d].status = "delivered" => d \in taken',
           Alone /\ p.step \in {"send", "answer", "record"} => rows'[Head(p.todo)].status \in {"pending", "gone"}
    PROVE  WebhookInv'
<1>1. passes' \in [Senders -> PassRecord] /\ passes'[w] = p /\ \A v \in Senders : v # w => passes'[v] = passes[v]
  BY DEF WebhookInv, Shape
<1>2. Shape'
  BY <1>1 DEF WebhookInv, Shape
<1>3. InsertsOnce'
  <2>1. \A d \in Rows : rows[d] = NoRow => rows'[d] = rows[d]
    BY DEF NoRow
  <2>2. \A e \in WebhookEvents : \A r \in SubscribersOf[e] : <<e, r>> \in Rows
    BY RowsAre, WebhookConstants
  <2> QED
    BY <2>1, <2>2 DEF WebhookInv, InsertsOnce
<1>4. MayStillTry'
  BY DEF WebhookInv, MayStillTry, GoodRow
<1>5. PassInOrder'
  BY <1>1 DEF WebhookInv, PassInOrder, GoodPass, OnTime, Gone
<1>6. ReportsWhatIsTaken'
  BY <1>1 DEF WebhookInv, ReportsWhatIsTaken, Row
<1>7. Alone => AtHand'
  BY <1>1 DEF Alone, AtHand, Row
<1> QED
  BY <1>2, <1>3, <1>4, <1>5, <1>6, <1>7 DEF WebhookInv, Alone

(* A step of an owner or of emit(): a row is inserted or gone.             *)
LEMMA OthersKeep ==
    ASSUME WebhookInv, UNCHANGED <<passes, taken>>, sendFaults' \in 0..MaxSendFaults,
           receivers' \subseteq Receivers, registering' \subseteq Receivers,
           emitting' \in [WebhookEvents -> SUBSET (Receivers \cup {"not yet"})],
           rows' \in [Rows -> RowRecord], InsertsOnce',
           \A d \in Rows :
                          \/ rows'[d] = rows[d]
                          \/ rows'[d].status = "gone"
                          \/ rows[d].status = "none" /\ rows'[d].status = "pending" /\ GoodRow(rows'[d])
    PROVE  WebhookInv'
<1>1. Shape'
  BY DEF WebhookInv, Shape
<1>2. MayStillTry'
  BY DEF WebhookInv, MayStillTry, GoodRow
<1>3. PassInOrder'
  BY DEF WebhookInv, PassInOrder, GoodPass, OnTime, Gone
<1>4. ReportsWhatIsTaken'
  BY DEF WebhookInv, ReportsWhatIsTaken, Row
<1>5. Alone => AtHand'
  <2> SUFFICES ASSUME Alone, NEW w \in Senders, passes[w].step \in {"send", "answer", "record"}
               PROVE  rows'[Row(w)].status \in {"pending", "gone"}
    BY DEF AtHand, Row
  <2>1. rows[Row(w)].status \in {"pending", "gone"}
    BY DEF WebhookInv, AtHand
  <2>2. Row(w) \in Rows
    BY HandIs DEF WebhookInv, PassInOrder, GoodPass
  <2> QED
    BY <2>1, <2>2
<1> QED
  BY <1>1, <1>2, <1>3, <1>4, <1>5 DEF WebhookInv, Alone

LEMMA InitHolds == WebhookInit => WebhookInv
<1> SUFFICES ASSUME WebhookInit PROVE WebhookInv
  OBVIOUS
<1>1. NoRow \in RowRecord /\ GoodRow(NoRow) /\ NoRow.status = "none"
  BY NewRows
<1>2. Resting \in PassRecord /\ GoodPass(Resting) /\ Resting.step = "idle"
  BY RestingIs
<1>3. Shape
  <2>1. sendFaults \in 0..MaxSendFaults
    <3>1. sendFaults = 0
      BY DEF WebhookInit
    <3> QED
      BY <3>1, AgesAre
  <2> QED
    BY <1>1, <1>2, <2>1 DEF WebhookInit, Shape
<1>4. InsertsOnce
  <2>1. \A e \in WebhookEvents : \A r \in SubscribersOf[e] : <<e, r>> \in Rows
    BY RowsAre, WebhookConstants
  <2> QED
    BY <2>1 DEF WebhookInit, InsertsOnce
<1>5. MayStillTry /\ PassInOrder /\ ReportsWhatIsTaken /\ AtHand
  BY <1>1, <1>2 DEF WebhookInit, MayStillTry, PassInOrder, ReportsWhatIsTaken, AtHand
<1> QED
  BY <1>3, <1>4, <1>5 DEF WebhookInv

LEMMA OwnerKeeps == ASSUME WebhookInv, NEW r \in Receivers, RegisterCount(r) \/ RegisterInsert(r) \/ Unregister(r)
                    PROVE  WebhookInv'
<1>t. Shape /\ InsertsOnce
  BY DEF WebhookInv
<1>1. CASE RegisterCount(r) \/ RegisterInsert(r)
  <2>1. /\ receivers' \subseteq Receivers /\ registering' \subseteq Receivers
        /\ UNCHANGED <<emitting, rows, passes, taken, sendFaults>>
    BY <1>1, <1>t DEF RegisterCount, RegisterInsert, Shape
  <2>2. InsertsOnce'
    BY <1>t, <2>1 DEF InsertsOnce
  <2> QED
    BY <1>t, <2>1, <2>2, OthersKeep DEF Shape
<1>2. CASE Unregister(r)
  <2> DEFINE out == [NoRow EXCEPT !.status = "gone"]
  <2>1. /\ receivers' \subseteq Receivers /\ UNCHANGED <<registering, emitting, passes, taken, sendFaults>>
        /\ rows' = [d \in Rows |-> IF d[2] = r /\ rows[d].status # "none" THEN out ELSE rows[d]]
    BY <1>2, <1>t DEF Unregister, Shape
  <2>2. out \in RowRecord /\ out.status = "gone"
    BY NewRows DEF NoRow
  <2> HIDE DEF out
  <2>3. rows' \in [Rows -> RowRecord] /\ \A d \in Rows : rows'[d] = rows[d] \/ (rows'[d].status = "gone" /\ rows[d].status # "none")
    BY <1>t, <2>1, <2>2 DEF Shape
  <2>4. InsertsOnce'
    <3>1. \A d \in Rows : rows[d] = NoRow => rows'[d] = rows[d]
      BY <2>3 DEF NoRow
    <3>2. \A e \in WebhookEvents : \A q \in SubscribersOf[e] : <<e, q>> \in Rows
      BY RowsAre, WebhookConstants
    <3> QED
      BY <1>t, <2>1, <3>1, <3>2 DEF InsertsOnce
  <2> QED
    BY <1>t, <2>1, <2>3, <2>4, OthersKeep DEF Shape
<1> QED
  BY <1>1, <1>2

LEMMA EmitKeeps == ASSUME WebhookInv, NEW e \in WebhookEvents, EmitRead(e) \/ EmitInsert(e) \/ EmitStops(e)
                   PROVE  WebhookInv'
<1>t. Shape /\ InsertsOnce /\ MayStillTry
  BY DEF WebhookInv
<1>r. /\ \A f \in WebhookEvents : \A q \in SubscribersOf[f] : <<f, q>> \in Rows
      /\ SubscribersOf[e] \subseteq Receivers /\ "not yet" \notin Receivers /\ MaxSendFaults \in Nat
  BY RowsAre, AgesAre, WebhookConstants
<1>1. CASE EmitRead(e)
  <2>1. /\ emitting[e] = {"not yet"} /\ emitting' = [emitting EXCEPT ![e] = receivers \cap SubscribersOf[e]]
        /\ UNCHANGED <<receivers, registering, rows, passes, taken, sendFaults>>
    BY <1>1 DEF EmitRead
  <2>2. /\ emitting' \in [WebhookEvents -> SUBSET (Receivers \cup {"not yet"})]
        /\ emitting'[e] = receivers \cap SubscribersOf[e]
        /\ \A f \in WebhookEvents : f # e => emitting'[f] = emitting[f]
    BY <1>t, <2>1 DEF Shape
  <2>3. InsertsOnce'
    BY <1>t, <1>r, <2>1, <2>2 DEF InsertsOnce
  <2> QED
    BY <1>t, <2>1, <2>2, <2>3, OthersKeep DEF Shape
<1>2. CASE EmitInsert(e)
  <2>1. PICK r \in emitting[e] \cap Receivers :
            /\ emitting' = [emitting EXCEPT ![e] = @ \ {r}]
            /\ rows' = IF r \in receivers THEN [rows EXCEPT ![<<e, r>>].status = "pending"] ELSE rows
            /\ UNCHANGED <<receivers, registering, passes, taken, sendFaults>>
    BY <1>2 DEF EmitInsert
  <2>2. emitting[e] # {"not yet"} /\ r \in SubscribersOf[e] /\ emitting[e] \subseteq SubscribersOf[e]
    BY <1>t, <1>r DEF InsertsOnce
  <2> DEFINE d == <<e, r>>
  <2>3. d \in Rows /\ rows[d] = NoRow /\ rows[d] \in RowRecord
    BY <1>t, <1>r, <2>2 DEF InsertsOnce, Shape
  <2>4. /\ emitting' \in [WebhookEvents -> SUBSET (Receivers \cup {"not yet"})]
        /\ emitting'[e] = emitting[e] \ {r} /\ \A f \in WebhookEvents : f # e => emitting'[f] = emitting[f]
    BY <1>t, <2>1 DEF Shape
  <2>5. \A f \in WebhookEvents : \A q \in SubscribersOf[f] : <<f, q>> = d => f = e /\ q = r
    OBVIOUS
  <2> DEFINE fresh == [NoRow EXCEPT !.status = "pending"]
  <2>6. fresh \in RowRecord /\ fresh.status = "pending" /\ GoodRow(fresh) /\ NoRow.status = "none"
    BY NewRows DEF NoRow
  <2> HIDE DEF d
  <2>7. rows' = rows \/ rows' = [rows EXCEPT ![d] = fresh]
    BY <2>1, <2>3, <1>t DEF d, Shape
  <2> HIDE DEF fresh
  <2>8. /\ rows' \in [Rows -> RowRecord] /\ \A c \in Rows : c # d => rows'[c] = rows[c]
        /\ rows'[d] \in {rows[d], fresh}
    BY <1>t, <2>3, <2>6, <2>7 DEF Shape
  <2>9. InsertsOnce'
    <3> SUFFICES ASSUME NEW f \in WebhookEvents
                 PROVE  /\ emitting'[f] = {"not yet"} \/ emitting'[f] \subseteq SubscribersOf[f]
                        /\ \A q \in SubscribersOf[f] : q \in emitting'[f] \/ emitting'[f] = {"not yet"} => rows'[<<f, q>>] = NoRow
      BY DEF InsertsOnce
    <3>1. CASE f # e
      BY <3>1, <1>t, <1>r, <2>4, <2>5, <2>8 DEF InsertsOnce
    <3>2. CASE f = e
      <4>1. emitting'[e] # {"not yet"} /\ emitting'[e] \subseteq SubscribersOf[e]
        BY <1>r, <2>2, <2>4
      <4>2. \A q \in SubscribersOf[e] : q \in emitting'[e] => <<e, q>> # d /\ rows[<<e, q>>] = NoRow /\ <<e, q>> \in Rows
        BY <1>t, <1>r, <2>4, <2>5 DEF InsertsOnce
      <4> QED
        BY <3>2, <4>1, <4>2, <2>8
    <3> QED
      BY <3>1, <3>2
  <2> QED
    BY <1>t, <2>1, <2>3, <2>4, <2>6, <2>8, <2>9, OthersKeep DEF Shape
<1>3. CASE EmitStops(e)
  <2>1. /\ emitting' = [emitting EXCEPT ![e] = {}] /\ sendFaults' = sendFaults + 1 /\ sendFaults < MaxSendFaults
        /\ UNCHANGED <<receivers, registering, rows, passes, taken>>
    BY <1>3 DEF EmitStops
  <2>2. /\ emitting' \in [WebhookEvents -> SUBSET (Receivers \cup {"not yet"})] /\ sendFaults' \in 0..MaxSendFaults
        /\ emitting'[e] = {} /\ \A f \in WebhookEvents : f # e => emitting'[f] = emitting[f]
    <3>1. sendFaults' \in 0..MaxSendFaults
      <4>1. sendFaults \in 0..MaxSendFaults /\ MaxSendFaults \in Nat
        BY <1>t, <1>r DEF Shape
      <4> QED
        BY <2>1, <4>1
    <3>2. emitting \in [WebhookEvents -> SUBSET (Receivers \cup {"not yet"})]
      BY <1>t DEF Shape
    <3> QED
      BY <2>1, <3>1, <3>2
  <2>3. InsertsOnce'
    BY <1>t, <1>r, <2>1, <2>2 DEF InsertsOnce
  <2> QED
    BY <1>t, <2>1, <2>2, <2>3, OthersKeep DEF Shape
<1> QED
  BY <1>1, <1>2, <1>3

(* The record a step of a pass leaves, when the step says which fields.    *)
LEMMA PassFields ==
    ASSUME NEW p \in PassRecord, NEW s \in {"idle", "claim", "send", "answer", "record"},
           NEW o \in {"none", "ok", "retry", "final"}, NEW a \in Nat, NEW n \in Nat
    PROVE  /\ [p EXCEPT !.step = s] \in PassRecord
           /\ [p EXCEPT !.step = s, !.outcome = o] \in PassRecord
           /\ [p EXCEPT !.step = s, !.sending = n, !.outcome = o] \in PassRecord
           /\ [p EXCEPT !.age = a, !.sending = n] \in PassRecord
           /\ [p EXCEPT !.outcome = o] \in PassRecord
  BY DEF PassRecord

LEMMA WorkerStep ==
    ASSUME WebhookInv, NEW w \in Senders
    PROVE  /\ Shape /\ MayStillTry /\ PassInOrder /\ ReportsWhatIsTaken
           /\ passes[w] \in PassRecord /\ GoodPass(passes[w])
           /\ passes \in [Senders -> PassRecord] /\ rows \in [Rows -> RowRecord] /\ taken \subseteq Rows
           /\ sendFaults \in 0..MaxSendFaults
           /\ passes[w].step # "idle" => passes[w].todo # << >> /\ Row(w) \in Rows
  BY HandIs DEF WebhookInv, Shape, PassInOrder, GoodPass

LEMMA BeginKeeps == ASSUME WebhookInv, NEW w \in Senders, BeginDelivery(w) PROVE WebhookInv'
<1> DEFINE due == {d \in Rows : Due(d, 0)}
<1>t. /\ Shape /\ MayStillTry /\ passes \in [Senders -> PassRecord] /\ rows \in [Rows -> RowRecord] /\ taken \subseteq Rows
      /\ sendFaults \in 0..MaxSendFaults
  BY WorkerStep
<1>1. PICK todo \in SetToSeqs(due) :
          /\ todo # << >>
          /\ passes' = [passes EXCEPT ![w] = [Resting EXCEPT !.step = "claim", !.todo = todo,
                                                             !.seen = [n \in DOMAIN todo |-> rows[todo[n]].attempts]]]
  BY DEF BeginDelivery
<1>2. UNCHANGED <<receivers, registering, emitting, rows, taken, sendFaults>>
  BY DEF BeginDelivery
<1>3. due \subseteq Rows /\ IsFiniteSet(due) /\ Cardinality(due) \in Nat /\ Cardinality(due) <= Cardinality(Rows)
  BY RowsFinite, FS_Subset, FS_CardinalityType
<1>4. todo \in [1..Cardinality(due) -> due]
  BY <1>1 DEF SetToSeqs
<1>5. todo \in Seq(Rows) /\ Len(todo) = Cardinality(due) /\ DOMAIN todo = 1..Cardinality(due)
  <2>1. todo \in [1..Cardinality(due) -> Rows]
    BY <1>3, <1>4
  <2> HIDE DEF due
  <2> QED
    BY <1>3, <2>1
<1> DEFINE seen == [n \in DOMAIN todo |-> rows[todo[n]].attempts]
<1>6. seen \in Seq(Untired) /\ Len(seen) = Len(todo)
  <2>1. \A n \in 1..Cardinality(due) : rows[todo[n]].attempts \in Untired
    <3> TAKE n \in 1..Cardinality(due)
    <3>1. todo[n] \in Rows /\ rows[todo[n]].status = "pending"
      BY <1>4 DEF Due
    <3>2. rows[todo[n]].attempts \in 0..MaxAttempts /\ rows[todo[n]].attempts < MaxAttempts
      BY <3>1, <1>t DEF MayStillTry, GoodRow, RowRecord, Attempted
    <3> QED
      BY <3>2, AgesAre DEF Untired
  <2>2. seen \in [1..Cardinality(due) -> Untired]
    BY <1>5, <2>1
  <2> HIDE DEF due, seen
  <2> QED
    BY <1>3, <1>5, <2>2
<1> DEFINE p == [Resting EXCEPT !.step = "claim", !.todo = todo, !.seen = seen]
<1>7. p.step = "claim" /\ p.todo = todo /\ p.seen = seen /\ p.age = 0 /\ p.sending = 0 /\ p.outcome = "none"
  <2> HIDE DEF seen
  <2> QED
    BY DEF Resting
<1>8. p \in PassRecord
  <2> HIDE DEF seen
  <2> QED
    BY <1>5, <1>6 DEF Resting, PassRecord
<1>9. GoodPass(p)
  <2>1. Gone(p) >= 0
    <3> DEFINE k == Cardinality(Rows) - Len(todo)
    <3>1. k \in Nat
      BY <1>3, <1>5, RowsFinite
    <3> HIDE DEF k
    <3>2. k * SendTimeout \in Nat
      BY <3>1, AgesAre, Times
    <3>3. p.todo = todo
      BY <1>7
    <3> HIDE DEF p
    <3> QED
      BY <3>2, <3>3 DEF Gone, k
  <2> HIDE DEF p, seen, due
  <2> QED
    BY <1>1, <1>3, <1>5, <1>6, <1>7, <2>1 DEF GoodPass, OnTime
<1>10. passes' = [passes EXCEPT ![w] = p] /\ p.step = "claim"
  BY <1>1, <1>7
<1> HIDE DEF p
<1> QED
  BY <1>t, <1>2, <1>8, <1>9, <1>10, WorkerKeeps

LEMMA ClaimKeeps == ASSUME WebhookInv, NEW w \in Senders, ClaimRow(w) PROVE WebhookInv'
<1>t. /\ Shape /\ MayStillTry /\ passes \in [Senders -> PassRecord] /\ rows \in [Rows -> RowRecord] /\ taken \subseteq Rows
      /\ sendFaults \in 0..MaxSendFaults /\ passes[w] \in PassRecord /\ GoodPass(passes[w]) /\ passes[w].step = "claim"
      /\ Row(w) \in Rows /\ passes[w].todo # << >>
  BY WorkerStep DEF ClaimRow
<1>u. UNCHANGED <<receivers, registering, emitting, taken, sendFaults>>
  BY DEF ClaimRow
<1>1. CASE Due(Row(w), passes[w].age)
  <2> DEFINE p == [passes[w] EXCEPT !.step = "send"]
             left == Lease - passes[w].age
  <2>1. /\ rows' = [rows EXCEPT ![Row(w)].wait = left] /\ passes' = [passes EXCEPT ![w].step = "send"]
        /\ rows[Row(w)].status = "pending"
    BY <1>1 DEF ClaimRow, Due
  <2>2. passes' = [passes EXCEPT ![w] = p]
    BY <1>t, <2>1
  <2>3. p \in PassRecord
    BY <1>t, PassFields
  <2>4. p.step = "send" /\ p.todo = passes[w].todo /\ p.seen = passes[w].seen /\ p.age = passes[w].age
    BY <1>t DEF PassRecord
  <2>5. left \in -MaxAge..(Lease + BackoffCap)
    <3>1. passes[w].age \in Nat /\ passes[w].age <= MaxAge
      BY <1>t, PassAges DEF PassRecord
    <3> QED
      BY <3>1, AgesAre
  <2>s. p.sending = 0
    BY <1>t DEF PassRecord, GoodPass
  <2>6. GoodPass(p)
    <3> HIDE DEF p
    <3> QED
      BY <1>t, <2>4, <2>s DEF GoodPass, OnTime, Gone
  <2> DEFINE row == [rows[Row(w)] EXCEPT !.wait = left]
  <2> HIDE DEF p, left
  <2>7. rows' = [rows EXCEPT ![Row(w)] = row]
    BY <1>t, <2>1
  <2>8. row \in RowRecord /\ row.status = "pending" /\ row.attempts = rows[Row(w)].attempts
    BY <1>t, <2>1, <2>5 DEF RowRecord
  <2>9. GoodRow(row)
    BY <1>t, <2>1, <2>8 DEF MayStillTry, GoodRow
  <2> HIDE DEF row
  <2>10. /\ rows' \in [Rows -> RowRecord] /\ rows'[Row(w)] = row
         /\ \A d \in Rows : d # Row(w) => rows'[d] = rows[d]
    BY <1>t, <2>7, <2>8
  <2>11. Head(p.todo) = Row(w)
    BY <2>4 DEF Row
  <2> QED
    BY <1>t, <1>u, <2>1, <2>2, <2>3, <2>4, <2>6, <2>8, <2>9, <2>10, <2>11, WorkerKeeps
<1>2. CASE ~Due(Row(w), passes[w].age)
  <2>1. passes' = [passes EXCEPT ![w] = NextRow(w)] /\ UNCHANGED rows
    BY <1>2 DEF ClaimRow
  <2>2. NextRow(w) \in PassRecord /\ GoodPass(NextRow(w)) /\ NextRow(w).step \in {"idle", "claim"}
    BY <1>t, NextPass
  <2> QED
    BY <1>t, <1>u, <2>1, <2>2, WorkerKeeps
<1> QED
  BY <1>1, <1>2

LEMMA SendKeeps == ASSUME WebhookInv, NEW w \in Senders, SendRow(w) PROVE WebhookInv'
<1>t. /\ Shape /\ passes \in [Senders -> PassRecord] /\ rows \in [Rows -> RowRecord] /\ taken \subseteq Rows
      /\ sendFaults \in 0..MaxSendFaults /\ passes[w] \in PassRecord /\ GoodPass(passes[w]) /\ passes[w].step = "send"
  BY WorkerStep DEF SendRow
<1>u. UNCHANGED <<receivers, registering, emitting, rows, taken, sendFaults>>
  BY DEF SendRow
<1>1. PICK p \in {[passes[w] EXCEPT !.step = "answer"], [passes[w] EXCEPT !.step = "record", !.outcome = "retry"]} :
          passes' = [passes EXCEPT ![w] = p]
  <2>1. passes' \in {[passes EXCEPT ![w].step = "answer"], [passes EXCEPT ![w].step = "record", ![w].outcome = "retry"]}
    BY DEF SendRow
  <2> QED
    BY <1>t, <2>1
<1>2. p \in PassRecord
  BY <1>t, PassFields
<1>3. /\ p.step \in {"answer", "record"} /\ (p.step = "record" => p.outcome = "retry")
      /\ p.todo = passes[w].todo /\ p.seen = passes[w].seen /\ p.age = passes[w].age /\ p.sending = passes[w].sending
  BY <1>t DEF PassRecord
<1>4. GoodPass(p)
  <2>1. passes[w].age <= Gone(passes[w]) /\ passes[w].sending = 0 /\ Gone(p) = Gone(passes[w]) /\ passes[w].age \in Nat
    BY <1>t, <1>3 DEF GoodPass, OnTime, Gone, PassRecord
  <2>2. Gone(p) \in Int
    <3>1. Len(passes[w].todo) \in Nat
      BY <1>t DEF PassRecord
    <3> QED
      BY <3>1, <2>1, RowsFinite, AgesAre DEF Gone
  <2>3. OnTime(p)
    BY <1>3, <2>1, <2>2, AgesAre DEF OnTime
  <2> QED
    BY <1>t, <1>3, <2>3 DEF GoodPass
<1>5. Alone => rows[Head(p.todo)].status \in {"pending", "gone"}
  BY <1>t, <1>3 DEF WebhookInv, AtHand, Row
<1> QED
  BY <1>t, <1>u, <1>1, <1>2, <1>3, <1>4, <1>5, WorkerKeeps

LEMMA AnswerKeeps == ASSUME WebhookInv, NEW w \in Senders, ReceiverAnswers(w) PROVE WebhookInv'
<1>t. /\ Shape /\ passes \in [Senders -> PassRecord] /\ rows \in [Rows -> RowRecord] /\ taken \subseteq Rows
      /\ sendFaults \in 0..MaxSendFaults /\ passes[w] \in PassRecord /\ GoodPass(passes[w]) /\ passes[w].step = "answer"
      /\ Row(w) \in Rows
  BY WorkerStep DEF ReceiverAnswers
<1>u. UNCHANGED <<receivers, registering, emitting, rows, sendFaults>>
  BY DEF ReceiverAnswers
<1>1. PICK outcome \in {"ok", "late", "retry", "final"} :
          /\ passes' = [passes EXCEPT ![w].step = "record", ![w].sending = 0,
                                      ![w].outcome = IF outcome = "late" THEN "retry" ELSE outcome]
          /\ taken' = IF outcome \in {"ok", "late"} THEN taken \cup {Row(w)} ELSE taken
  BY DEF ReceiverAnswers
<1> DEFINE o == IF outcome = "late" THEN "retry" ELSE outcome
           p == [passes[w] EXCEPT !.step = "record", !.sending = 0, !.outcome = o]
<1>2. o \in {"ok", "retry", "final"} /\ (o = "ok" => outcome = "ok")
  OBVIOUS
<1> HIDE DEF o
<1>3. passes' = [passes EXCEPT ![w] = p]
  BY <1>t, <1>1 DEF o
<1>4. p \in PassRecord
  BY <1>t, <1>2, PassFields
<1>5. /\ p.step = "record" /\ p.outcome = o /\ p.todo = passes[w].todo /\ p.seen = passes[w].seen /\ p.age = passes[w].age
  BY <1>t DEF PassRecord
<1> HIDE DEF p
<1>6. GoodPass(p)
  <2>1. /\ passes[w].age <= Gone(passes[w]) + passes[w].sending /\ passes[w].sending <= SendTimeout
        /\ Gone(p) = Gone(passes[w]) /\ passes[w].age \in Nat /\ passes[w].sending \in Nat
    BY <1>t, <1>5 DEF GoodPass, OnTime, Gone, PassRecord
  <2>2. Gone(p) \in Int
    <3>1. Len(passes[w].todo) \in Nat
      BY <1>t DEF PassRecord
    <3> QED
      BY <3>1, <2>1, RowsFinite, AgesAre DEF Gone
  <2>3. OnTime(p)
    BY <1>5, <2>1, <2>2, AgesAre DEF OnTime
  <2> QED
    BY <1>t, <1>5, <2>3 DEF GoodPass
<1>7. /\ taken \subseteq taken' /\ taken' \subseteq Rows
      /\ p.step = "record" /\ p.outcome = "ok" => Head(p.todo) \in taken'
  BY <1>t, <1>1, <1>2, <1>5 DEF Row
<1>8. Alone => rows[Head(p.todo)].status \in {"pending", "gone"}
  BY <1>t, <1>5 DEF WebhookInv, AtHand, Row
<1> QED
  BY <1>t, <1>u, <1>3, <1>4, <1>5, <1>6, <1>7, <1>8, WorkerKeeps

(* A power of two is a natural number: there are that many sets of numbers.*)
LEMMA PowerIs == ASSUME NEW k \in Nat PROVE 2 ^ k \in Nat
<1>1. IsFiniteSet(1..k) /\ Cardinality(1..k) = k
  BY FS_Interval
<1>2. IsFiniteSet(SUBSET (1..k)) /\ Cardinality(SUBSET (1..k)) = 2 ^ Cardinality(1..k)
  BY <1>1, FS_SUBSET
<1> QED
  BY <1>1, <1>2, FS_CardinalityType

(* What a worker writes of the row at hand.                                *)
LEMMA OutcomeIs ==
    ASSUME WebhookInv, NEW w \in Senders, passes[w].step = "record"
    PROVE  /\ Outcome(w) \in RowRecord /\ GoodRow(Outcome(w)) /\ Outcome(w).status \in {"pending", "delivered", "failed"}
           /\ Outcome(w).status = "delivered" => passes[w].outcome = "ok" /\ Row(w) \in taken
<1>1. /\ passes[w] \in PassRecord /\ passes[w].todo # << >> /\ Len(passes[w].seen) = Len(passes[w].todo)
      /\ passes[w].outcome = "ok" => Row(w) \in taken
  BY WorkerStep DEF ReportsWhatIsTaken, GoodPass
<1>2. Head(passes[w].seen) \in Untired
  <2>1. passes[w].seen \in Seq(Untired) /\ passes[w].todo \in Seq(Rows)
    BY <1>1 DEF PassRecord
  <2>2. Len(passes[w].seen) # 0
    BY <1>1, <2>1
  <2> QED
    BY <2>1, <2>2
<1>3. Tries(w) \in Attempted /\ Tries(w) \in Nat
  BY <1>2, AgesAre DEF Tries, Untired, Attempted
<1>4. Pause(Tries(w)) \in 0..BackoffCap
  <2>1. Tries(w) - 1 \in Nat
    BY <1>2, AgesAre DEF Tries, Untired
  <2>2. 2 ^ (Tries(w) - 1) \in Nat
    BY <2>1, PowerIs
  <2> QED
    BY <2>2, AgesAre DEF Pause
<1>5. 0 \in -MaxAge..(Lease + BackoffCap) /\ Pause(Tries(w)) \in -MaxAge..(Lease + BackoffCap)
  BY <1>4, AgesAre
<1> QED
  BY <1>1, <1>3, <1>5 DEF Outcome, RowRecord, GoodRow

LEMMA RecordKeeps == ASSUME WebhookInv, NEW w \in Senders, RecordRow(w) PROVE WebhookInv'
<1>t. /\ Shape /\ passes \in [Senders -> PassRecord] /\ rows \in [Rows -> RowRecord] /\ taken \subseteq Rows
      /\ sendFaults \in 0..MaxSendFaults /\ passes[w] \in PassRecord /\ GoodPass(passes[w]) /\ passes[w].step = "record"
      /\ Row(w) \in Rows
  BY WorkerStep DEF RecordRow
<1>u. /\ UNCHANGED <<receivers, registering, emitting, taken, sendFaults>>
      /\ rows' = Write(Row(w), Outcome(w)) /\ passes' = [passes EXCEPT ![w] = NextRow(w)]
  BY DEF RecordRow
<1>1. NextRow(w) \in PassRecord /\ GoodPass(NextRow(w)) /\ NextRow(w).step \in {"idle", "claim"}
  BY <1>t, NextPass
<1>2. /\ Outcome(w) \in RowRecord /\ GoodRow(Outcome(w)) /\ Outcome(w).status # "none"
      /\ Outcome(w).status = "delivered" => Row(w) \in taken
  BY <1>t, OutcomeIs
<1>3. /\ rows' \in [Rows -> RowRecord]
      /\ \A d \in Rows : \/ rows'[d] = rows[d]
                         \/ d = Row(w) /\ rows[d].status \notin {"none", "gone"} /\ rows'[d] = Outcome(w)
  BY <1>t, <1>u, <1>2 DEF Write
<1> QED
  BY <1>t, <1>u, <1>1, <1>2, <1>3, WorkerKeeps

LEMMA FaultKeeps == ASSUME WebhookInv, NEW w \in Senders, RecordFails(w) \/ SenderDies(w) PROVE WebhookInv'
<1>t. /\ Shape /\ passes \in [Senders -> PassRecord] /\ rows \in [Rows -> RowRecord] /\ taken \subseteq Rows
      /\ sendFaults \in 0..MaxSendFaults /\ passes[w] \in PassRecord /\ GoodPass(passes[w])
  BY WorkerStep
<1>u. UNCHANGED <<receivers, registering, emitting, rows, taken>>
  BY DEF RecordFails, SenderDies
<1>f. sendFaults' \in 0..MaxSendFaults
  <2>1. sendFaults' = sendFaults + 1 /\ sendFaults < MaxSendFaults
    BY DEF RecordFails, SenderDies
  <2> QED
    BY <1>t, <2>1, AgesAre
<1>r. Resting \in PassRecord /\ GoodPass(Resting) /\ Resting.step = "idle"
  BY RestingIs
<1>1. CASE passes' = [passes EXCEPT ![w] = Resting]
  BY <1>t, <1>u, <1>f, <1>r, <1>1, WorkerKeeps
<1>2. CASE passes[w].step = "record" /\ passes' = [passes EXCEPT ![w] = [passes[w] EXCEPT !.outcome = "retry"]]
  <2> DEFINE p == [passes[w] EXCEPT !.outcome = "retry"]
  <2>1. p \in PassRecord
    BY <1>t, PassFields
  <2>2. /\ p.step = "record" /\ p.outcome = "retry" /\ p.todo = passes[w].todo /\ p.seen = passes[w].seen
        /\ p.age = passes[w].age
    BY <1>t, <1>2 DEF PassRecord
  <2>3. passes' = [passes EXCEPT ![w] = p]
    BY <1>2
  <2> HIDE DEF p
  <2>4. GoodPass(p)
    BY <1>t, <1>2, <2>2 DEF GoodPass, OnTime, Gone
  <2>5. Alone => rows[Head(p.todo)].status \in {"pending", "gone"}
    BY <1>2, <2>2 DEF WebhookInv, AtHand, Row
  <2> QED
    BY <1>t, <1>u, <1>f, <2>1, <2>2, <2>3, <2>4, <2>5, WorkerKeeps
<1>3. passes' = [passes EXCEPT ![w] = Resting]
      \/ (passes[w].step = "record" /\ passes' = [passes EXCEPT ![w] = [passes[w] EXCEPT !.outcome = "retry"]])
  BY DEF RecordFails, SenderDies
<1> QED
  BY <1>1, <1>2, <1>3

LEMMA TimeKeeps == ASSUME WebhookInv, TimePasses PROVE WebhookInv'
<1>t. Shape /\ InsertsOnce /\ MayStillTry /\ PassInOrder /\ ReportsWhatIsTaken
  BY DEF WebhookInv
<1>1. /\ \A w \in Senders : passes[w].step = "idle" \/ (passes[w].step = "answer" /\ passes[w].sending < SendTimeout)
      /\ passes' = [w \in Senders |-> IF passes[w].step = "idle" THEN Resting
                                      ELSE [passes[w] EXCEPT !.age = @ + 1, !.sending = @ + 1]]
      /\ rows' = [d \in Rows |-> IF rows[d].status = "pending" /\ rows[d].wait > -MaxAge
                                 THEN [rows[d] EXCEPT !.wait = @ - 1] ELSE rows[d]]
      /\ UNCHANGED <<receivers, registering, emitting, taken, sendFaults>>
  BY DEF TimePasses
<1>2. ASSUME NEW w \in Senders
      PROVE  /\ passes'[w] \in PassRecord /\ GoodPass(passes'[w]) /\ passes'[w].step \in {"idle", "answer"}
             /\ passes'[w].step = "answer" => passes'[w].todo = passes[w].todo /\ passes[w].step = "answer"
  <2>p. passes[w] \in PassRecord /\ GoodPass(passes[w])
    BY <1>t DEF Shape, PassInOrder
  <2>1. CASE passes[w].step = "idle"
    BY <1>1, <2>1, RestingIs
  <2>2. CASE passes[w].step = "answer" /\ passes[w].sending < SendTimeout
    <3> DEFINE p == [passes[w] EXCEPT !.age = @ + 1, !.sending = @ + 1]
    <3>1. passes'[w] = p
      BY <1>1, <2>2
    <3>2. passes[w].age + 1 \in Nat /\ passes[w].sending + 1 \in Nat
      BY <2>p DEF PassRecord
    <3>3. p \in PassRecord
      BY <2>p, <3>2, PassFields
    <3>4. /\ p.step = "answer" /\ p.todo = passes[w].todo /\ p.seen = passes[w].seen
          /\ p.age = passes[w].age + 1 /\ p.sending = passes[w].sending + 1
      BY <2>p, <2>2 DEF PassRecord
    <3> HIDE DEF p
    <3>5. OnTime(p)
      <4>1. /\ passes[w].age <= Gone(passes[w]) + passes[w].sending /\ Gone(p) = Gone(passes[w])
            /\ passes[w].age \in Nat /\ passes[w].sending \in Nat /\ SendTimeout \in Nat
        BY <2>p, <2>2, <3>4, AgesAre DEF GoodPass, OnTime, Gone, PassRecord
      <4>2. Gone(p) \in Int
        <5>1. Len(passes[w].todo) \in Nat
          BY <2>p DEF PassRecord
        <5> QED
          BY <5>1, <4>1, RowsFinite, AgesAre DEF Gone
      <4> QED
        BY <2>2, <3>4, <4>1, <4>2 DEF OnTime
    <3>6. GoodPass(p)
      BY <2>p, <2>2, <3>4, <3>5 DEF GoodPass
    <3> QED
      BY <2>2, <3>1, <3>3, <3>4, <3>6
  <2> QED
    BY <1>1, <2>1, <2>2
<1>3. ASSUME NEW d \in Rows
      PROVE  /\ rows'[d] \in RowRecord /\ rows'[d].status = rows[d].status /\ rows'[d].attempts = rows[d].attempts
             /\ rows[d].status # "pending" => rows'[d] = rows[d]
  <2>1. rows[d] \in RowRecord
    BY <1>t DEF Shape
  <2>2. CASE rows[d].status = "pending" /\ rows[d].wait > -MaxAge
    <3> DEFINE left == rows[d].wait - 1
    <3>1. left \in -MaxAge..(Lease + BackoffCap)
      <4>1. rows[d].wait \in -MaxAge..(Lease + BackoffCap)
        BY <2>1 DEF RowRecord
      <4> QED
        BY <2>2, <4>1, AgesAre
    <3>2. rows'[d] = [rows[d] EXCEPT !.wait = left]
      BY <1>1, <2>2
    <3> HIDE DEF left
    <3> QED
      BY <2>1, <2>2, <3>1, <3>2 DEF RowRecord
  <2>3. CASE ~(rows[d].status = "pending" /\ rows[d].wait > -MaxAge)
    BY <1>1, <2>1, <2>3
  <2> QED
    BY <2>2, <2>3
<1>4. Shape'
  <2>1. rows' \in [Rows -> RowRecord] /\ passes' \in [Senders -> PassRecord]
    BY <1>1, <1>2, <1>3
  <2> QED
    BY <1>t, <1>1, <2>1 DEF Shape
<1>5. InsertsOnce'
  <2>1. \A d \in Rows : rows[d] = NoRow => rows'[d] = rows[d]
    BY <1>3 DEF NoRow
  <2>2. \A e \in WebhookEvents : \A r \in SubscribersOf[e] : <<e, r>> \in Rows
    BY RowsAre, WebhookConstants
  <2> QED
    BY <1>t, <1>1, <2>1, <2>2 DEF InsertsOnce
<1>6. MayStillTry'
  BY <1>t, <1>3 DEF MayStillTry, GoodRow
<1>7. PassInOrder'
  BY <1>2 DEF PassInOrder, GoodPass, OnTime, Gone
<1>8. ReportsWhatIsTaken'
  BY <1>t, <1>1, <1>2, <1>3 DEF ReportsWhatIsTaken
<1>9. Alone => AtHand'
  <2> SUFFICES ASSUME Alone, NEW w \in Senders, passes'[w].step \in {"send", "answer", "record"}
               PROVE  rows'[Head(passes'[w].todo)].status \in {"pending", "gone"}
    BY DEF AtHand, Row
  <2>1. passes[w].step = "answer" /\ passes'[w].todo = passes[w].todo
    BY <1>2
  <2>2. rows[Row(w)].status \in {"pending", "gone"} /\ Row(w) \in Rows
    BY <2>1, WorkerStep DEF WebhookInv, AtHand
  <2> QED
    BY <1>3, <2>1, <2>2 DEF Row
<1> QED
  BY <1>4, <1>5, <1>6, <1>7, <1>8, <1>9 DEF WebhookInv, Alone

LEMMA StepHolds == WebhookInv /\ [WebhookNext]_webhookVars => WebhookInv'
<1> SUFFICES ASSUME WebhookInv, [WebhookNext]_webhookVars PROVE WebhookInv'
  OBVIOUS
<1>1. CASE UNCHANGED webhookVars
  BY <1>1, Zenon DEF webhookVars, WebhookInv, Shape, InsertsOnce, MayStillTry, PassInOrder, ReportsWhatIsTaken, Row, Alone, AtHand
<1>2. ASSUME NEW w \in Senders, SenderSteps(w) \/ RecordFails(w) \/ SenderDies(w) PROVE WebhookInv'
  BY <1>2, BeginKeeps, ClaimKeeps, SendKeeps, AnswerKeeps, RecordKeeps, FaultKeeps DEF SenderSteps
<1> QED
  BY <1>1, <1>2, OwnerKeeps, EmitKeeps, TimeKeeps DEF WebhookNext

LEMMA WebhookAlways == WebhookSpec => []WebhookInv
<1>1. WebhookSpec => [][WebhookNext]_webhookVars
  BY DEF WebhookSpec
<1>2. WebhookSpec => WebhookInv
  BY InitHolds DEF WebhookSpec
<1> QED
  BY <1>1, <1>2, StepHolds, PTL

---------------------------------------------------------------------------------
(* What follows for the table.                                             *)

(* Every row keeps to its attempts and its times, and no pass gets older   *)
(* than its rows make it, however often it waits for a receiver.           *)
THEOREM TypeCorrect == WebhookSpec => []WebhookTypeOK
<1>1. WebhookInv => WebhookTypeOK
  <2> SUFFICES ASSUME WebhookInv PROVE WebhookTypeOK
    OBVIOUS
  <2>1. Shape /\ PassInOrder
    BY DEF WebhookInv
  <2>2. ASSUME NEW w \in Senders
        PROVE  passes[w].step \in {"idle", "claim", "send", "answer", "record"} /\ passes[w].age \in 0..MaxAge
    <3>1. passes[w] \in PassRecord /\ GoodPass(passes[w])
      BY <2>1 DEF Shape, PassInOrder
    <3>2. passes[w].age \in Nat /\ passes[w].age <= MaxAge
      BY <3>1, PassAges DEF PassRecord
    <3> QED
      BY <3>1, <3>2, AgesAre DEF PassRecord
  <2> QED
    BY <2>1, <2>2 DEF Shape, RowRecord, Attempted, WebhookTypeOK
<1> QED
  BY <1>1, WebhookAlways, PTL

(* However many workers send the same rows, claim them again and die: no   *)
(* row says "delivered" whose receiver never answered 2xx.                 *)
DeliveredWasTaken == \A d \in Rows : rows[d].status = "delivered" => d \in taken
THEOREM NothingUnearned == WebhookSpec => []DeliveredWasTaken
<1>1. WebhookInv => DeliveredWasTaken
  BY DEF WebhookInv, ReportsWhatIsTaken, DeliveredWasTaken
<1> QED
  BY <1>1, WebhookAlways, PTL

---------------------------------------------------------------------------------
(* One worker implements the promise, step by step.                        *)

StageOf(status) == CASE status = "none" -> "none" [] status = "pending" -> "open"
                     [] status = "delivered" -> "delivered" [] OTHER -> "over"

LEMMA PromisedIs == Promise!promised = <<[d \in Rows |-> StageOf(rows[d].status)], taken>>
BY DEF Promise!promised, StageOf

(* A step that leaves every status, and what was taken, is a stutter.      *)
LEMMA Stutters == ASSUME \A d \in Rows : rows'[d].status = rows[d].status, UNCHANGED taken
                  PROVE  UNCHANGED Promise!promised
BY PromisedIs DEF Promise!promised

(* A step that moves one row.                                              *)
LEMMA Moves == ASSUME NEW d \in Rows, UNCHANGED taken,
                      \A c \in Rows : c # d => rows'[c].status = rows[c].status
               PROVE  \A from, to : StageOf(rows[d].status) = from /\ StageOf(rows'[d].status) = to
                                        => Promise!Move(d, from, to)
BY DEF Promise!Move, StageOf

LEMMA EmitAccepts == ASSUME WebhookInv, NEW e \in WebhookEvents, EmitInsert(e)
                     PROVE  Promise!Next \/ UNCHANGED Promise!promised
<1>t. InsertsOnce /\ rows \in [Rows -> RowRecord] /\ UNCHANGED taken
  BY DEF WebhookInv, Shape, EmitInsert
<1>1. PICK r \in emitting[e] \cap Receivers :
          rows' = IF r \in receivers THEN [rows EXCEPT ![<<e, r>>].status = "pending"] ELSE rows
  BY DEF EmitInsert
<1>2. r \in SubscribersOf[e] /\ <<e, r>> \in Rows /\ rows[<<e, r>>].status = "none"
  <2>1. r \in SubscribersOf[e]
    BY <1>t, <1>1, WebhookConstants DEF InsertsOnce
  <2>2. rows[<<e, r>>] = NoRow
    BY <1>t, <1>1, <2>1 DEF InsertsOnce
  <2> QED
    BY <1>1, <2>1, <2>2, RowsAre DEF NoRow
<1>3. CASE r \in receivers
  <2> DEFINE d == <<e, r>>
  <2>1. d \in Rows /\ rows[d].status = "none"
    BY <1>2
  <2>2. rows' = [rows EXCEPT ![d].status = "pending"]
    BY <1>1, <1>3
  <2> HIDE DEF d
  <2>3. rows'[d].status = "pending" /\ \A c \in Rows : c # d => rows'[c].status = rows[c].status
    BY <1>t, <2>1, <2>2 DEF RowRecord
  <2>4. StageOf("none") = "none" /\ StageOf("pending") = "open"
    BY DEF StageOf
  <2>5. Promise!Accept(d)
    BY <1>t, <2>1, <2>3, <2>4, Moves DEF Promise!Accept
  <2> QED
    BY <2>1, <2>5 DEF Promise!Next
<1>4. CASE r \notin receivers
  BY <1>t, <1>1, <1>4, Stutters
<1> QED
  BY <1>3, <1>4

LEMMA RemovalWithdraws == ASSUME WebhookInv, NEW r \in Receivers, Unregister(r) PROVE Promise!Next
<1>1. /\ UNCHANGED taken
      /\ rows' = [d \in Rows |-> IF d[2] = r /\ rows[d].status # "none" THEN [NoRow EXCEPT !.status = "gone"] ELSE rows[d]]
  BY DEF Unregister
<1> DEFINE M == {d \in Rows : d[2] = r /\ rows[d].status # "none"}
<1>2. \A d \in Rows : rows'[d].status = IF d \in M THEN "gone" ELSE rows[d].status
  BY <1>1 DEF NoRow
<1>3. M \in SUBSET Rows
  OBVIOUS
<1>4. PICK gone \in SUBSET Rows : gone = M
  BY <1>3
<1> HIDE DEF M
<1>5. Promise!Withdraw(gone)
  BY <1>1, <1>2, <1>4 DEF Promise!Withdraw
<1> QED
  BY <1>5 DEF Promise!Next

LEMMA AnswerTakes == ASSUME WebhookInv, Alone, NEW w \in Senders, ReceiverAnswers(w)
                     PROVE  Promise!Next \/ UNCHANGED Promise!promised
<1>1. Row(w) \in Rows /\ UNCHANGED rows /\ (taken' = taken \/ taken' = taken \cup {Row(w)})
  BY WorkerStep DEF ReceiverAnswers
<1>2. rows[Row(w)].status \in {"pending", "gone"}
  BY DEF WebhookInv, AtHand, ReceiverAnswers
<1>3. CASE taken' = taken
  BY <1>1, <1>3, Stutters
<1>4. CASE taken' = taken \cup {Row(w)}
  <2>1. Promise!Take(Row(w))
    BY <1>1, <1>2, <1>4 DEF Promise!Take
  <2> QED
    BY <1>1, <2>1 DEF Promise!Next
<1> QED
  BY <1>1, <1>3, <1>4

LEMMA RecordCloses == ASSUME WebhookInv, Alone, NEW w \in Senders, RecordRow(w)
                      PROVE  Promise!Next \/ UNCHANGED Promise!promised
<1>t. /\ rows \in [Rows -> RowRecord] /\ Row(w) \in Rows /\ passes[w].step = "record"
      /\ UNCHANGED taken /\ rows' = Write(Row(w), Outcome(w))
  BY WorkerStep DEF RecordRow, WebhookInv, Shape
<1>1. rows[Row(w)].status \in {"pending", "gone"}
  BY <1>t DEF WebhookInv, AtHand
<1>2. /\ Outcome(w).status \in {"pending", "delivered", "failed"}
      /\ Outcome(w).status = "delivered" => Row(w) \in taken
  BY <1>t, OutcomeIs
<1>3. CASE rows[Row(w)].status = "gone"
  BY <1>t, <1>3, Stutters DEF Write
<1>4. CASE rows[Row(w)].status = "pending"
  <2>1. rows'[Row(w)] = Outcome(w) /\ \A c \in Rows : c # Row(w) => rows'[c] = rows[c]
    BY <1>t, <1>4 DEF Write
  <2>2. CASE Outcome(w).status = "pending"
    BY <1>t, <1>4, <2>1, <2>2, Stutters
  <2>3. StageOf("pending") = "open" /\ StageOf("delivered") = "delivered" /\ StageOf("failed") = "over"
    BY DEF StageOf
  <2>r. PICK d \in Rows : d = Row(w)
    BY <1>t
  <2>4. CASE Outcome(w).status = "delivered"
    <3>1. Promise!Deliver(d)
      BY <1>t, <1>2, <1>4, <2>1, <2>3, <2>r, <2>4, Moves DEF Promise!Deliver
    <3> QED
      BY <3>1 DEF Promise!Next
  <2>5. CASE Outcome(w).status = "failed"
    <3>1. Promise!GiveUp(d)
      BY <1>t, <1>4, <2>1, <2>3, <2>r, <2>5, Moves DEF Promise!GiveUp
    <3> QED
      BY <3>1 DEF Promise!Next
  <2> QED
    BY <1>2, <2>2, <2>4, <2>5
<1> QED
  BY <1>1, <1>3, <1>4

LEMMA StepPromises == ASSUME Alone
                      PROVE  WebhookInv /\ [WebhookNext]_webhookVars => [Promise!Next]_(Promise!promised)
<1> SUFFICES ASSUME WebhookInv, [WebhookNext]_webhookVars
             PROVE  Promise!Next \/ UNCHANGED Promise!promised
  OBVIOUS
<1>t. rows \in [Rows -> RowRecord]
  BY DEF WebhookInv, Shape
<1>1. CASE UNCHANGED webhookVars
  BY <1>1, Stutters DEF webhookVars
<1>2. ASSUME NEW r \in Receivers, RegisterCount(r) \/ RegisterInsert(r) PROVE UNCHANGED Promise!promised
  BY <1>2, Stutters DEF RegisterCount, RegisterInsert
<1>3. ASSUME NEW e \in WebhookEvents, EmitRead(e) \/ EmitStops(e) PROVE UNCHANGED Promise!promised
  BY <1>3, Stutters DEF EmitRead, EmitStops
<1>4. ASSUME NEW w \in Senders, BeginDelivery(w) \/ SendRow(w) \/ RecordFails(w) \/ SenderDies(w)
      PROVE  UNCHANGED Promise!promised
  BY <1>4, Stutters DEF BeginDelivery, SendRow, RecordFails, SenderDies
<1>5. ASSUME NEW w \in Senders, ClaimRow(w) PROVE UNCHANGED Promise!promised
  <2>1. \A d \in Rows : rows'[d].status = rows[d].status
    BY <1>t, <1>5 DEF ClaimRow, RowRecord
  <2> QED
    BY <1>5, <2>1, Stutters DEF ClaimRow
<1>6. ASSUME TimePasses PROVE UNCHANGED Promise!promised
  <2>1. \A d \in Rows : rows'[d].status = rows[d].status
    BY <1>t, <1>6 DEF TimePasses, RowRecord
  <2> QED
    BY <1>6, <2>1, Stutters DEF TimePasses
<1>7. ASSUME NEW w \in Senders, SenderSteps(w) \/ RecordFails(w) \/ SenderDies(w)
      PROVE  Promise!Next \/ UNCHANGED Promise!promised
  BY <1>4, <1>5, <1>7, AnswerTakes, RecordCloses DEF SenderSteps
<1> QED
  BY <1>1, <1>2, <1>3, <1>6, <1>7, EmitAccepts, RemovalWithdraws DEF WebhookNext

(* The delivery table of one process implements AtLeastOnce: every step is *)
(* one of the abstract sender's or changes nothing it knows of, whatever   *)
(* statement fails and whenever the process dies.  Of two processes it is  *)
(* not true: the late UPDATE of one opens a row the other has closed.      *)
THEOREM OneSenderKeepsPromise == ASSUME Alone PROVE WebhookSpec => KeepsPromise
<1>1. WebhookInit => Promise!Init
  <2> SUFFICES ASSUME WebhookInit PROVE Promise!Init
    OBVIOUS
  <2>1. taken = {} /\ \A d \in Rows : rows[d].status = "none"
    BY DEF WebhookInit, NoRow
  <2> QED
    BY <2>1 DEF Promise!Init
<1>2. WebhookSpec => WebhookInit /\ [][WebhookNext]_webhookVars
  BY DEF WebhookSpec
<1> QED
  BY <1>1, <1>2, WebhookAlways, StepPromises, PTL DEF KeepsPromise

---------------------------------------------------------------------------------
(* The rented GPUs: one reconciler keeps what is reserved, and what ended  *)
(* rents cost, within the cap.                                             *)

OneReconciler == \A v, w \in Reconcilers : v = w

Phases == {"idle", "endpoints", "sweep", "stale", "requests", "instances", "wanted"}

(* What a row takes of the cap, and what a pass is about to take.          *)
IsLive(i)  == rents[i].status \in Live
Lower(a, b) == IF a <= b THEN a ELSE b
Share(r)   == IF r.status \in Live THEN r.reserved ELSE IF r.linked THEN Lower(r.charged, r.reserved) ELSE 0
Shares     == [i \in Rents |-> Share(rents[i])]
Pending(x) == IF x.step \in {"hold", "insert"} THEN x.reserved ELSE 0

RentsFit ==
    /\ DOMAIN rents = Rents
    /\ \A i \in Rents : /\ DOMAIN rents[i] = DOMAIN NoRent /\ rents[i].linked \in BOOLEAN
                        /\ rents[i].hourly \in Nat /\ rents[i].reserved \in Nat
                        /\ rents[i].age \in Nat /\ rents[i].charged \in Nat
    (* The marketplace has ended what is linked and no longer live.        *)
    /\ \A i \in Rents : ~IsLive(i) /\ rents[i].linked => i \notin up
    /\ up \subseteq Rents

(* What a pass has read still holds of the rows it will write.             *)
FitPass(x) ==
    /\ DOMAIN x = DOMAIN Away /\ x.phase \in Phases /\ x.reserved \in Nat /\ x.hourly \in Nat
    /\ x.phase \in {"idle", "sweep", "stale"} => x.step = "next"
    /\ x.phase = "instances" => x.step \in {"next", "destroy", "destroyed", "afterDestroy"}
    /\ x.phase = "sweep" => \A i \in x.todo : i \in Rents /\ (IsLive(i) \/ ~rents[i].linked)
    /\ x.phase = "stale" => \A i \in x.todo : i \in Rents /\ ~rents[i].linked
    /\ x.phase = "instances" => \A i \in x.todo : i \in Rents /\ IsLive(i)
    /\ x.phase = "instances" /\ x.step \in {"destroy", "destroyed"} => x.rent \notin x.todo
    /\ x.step \in {"create", "link", "destroy", "destroyed"} => x.rent \in Rents /\ IsLive(x.rent)
    /\ x.step = "create" => ~rents[x.rent].linked
    /\ x.step = "destroyed" /\ rents[x.rent].linked => x.rent \notin up

GpuInv ==
    /\ RentsFit /\ DOMAIN passing = Reconcilers
    /\ Total(Shares, Rents) <= MonthlyCap
    /\ \A w \in Reconcilers : FitPass(passing[w]) /\ Total(Shares, Rents) + Pending(passing[w]) <= MonthlyCap

LEMMA RentsFinite == IsFiniteSet(Rents)
BY GpuConstants, FS_Interval DEF Rents

LEMMA SharesAre == ASSUME RentsFit PROVE \A i \in Rents : Shares[i] = Share(rents[i]) /\ Shares[i] \in Nat
BY DEF RentsFit, Shares, Share, Lower

(* Shares that fall leave room.                                            *)
LEMMA SharesFall ==
    ASSUME RentsFit, RentsFit', \A i \in Rents : Share(rents'[i]) <= Share(rents[i])
    PROVE  Total(Shares, Rents)' <= Total(Shares, Rents) /\ Total(Shares, Rents) \in Nat /\ Total(Shares, Rents)' \in Nat
<1>1. PICK g : g = Shares
  OBVIOUS
<1>2. PICK h : h = Shares'
  OBVIOUS
<1>3. \A i \in Rents : g[i] = Share(rents[i]) /\ g[i] \in Nat
  BY <1>1, SharesAre
<1>4. \A i \in Rents : h[i] = Share(rents'[i]) /\ h[i] \in Nat
  BY <1>2 DEF RentsFit, Shares, Share, Lower
<1>5. \A i \in Rents : h[i] <= g[i]
  BY <1>3, <1>4
<1>6. Total(h, Rents) <= Total(g, Rents) /\ Total(g, Rents) \in Nat /\ Total(h, Rents) \in Nat
  BY <1>3, <1>4, <1>5, RentsFinite, TotalAtMost, TotalNat
<1>7. Total(Shares, Rents)' = Total(h, Rents)
  BY <1>2 DEF Total, Adds, Rents
<1> QED
  BY <1>1, <1>6, <1>7

(* A step of the pass that takes nothing more of the cap.                  *)
LEMMA PassGoes ==
    ASSUME OneReconciler, GpuInv, RentsFit', \A i \in Rents : Share(rents'[i]) <= Share(rents[i]),
           NEW w \in Reconcilers, NEW x, passing' = [passing EXCEPT ![w] = x], FitPass(x)', Pending(x) <= Pending(passing[w])
    PROVE  GpuInv'
<1>1. Total(Shares, Rents)' <= Total(Shares, Rents) /\ Total(Shares, Rents) \in Nat /\ Total(Shares, Rents)' \in Nat
  BY SharesFall DEF GpuInv
<1>2. DOMAIN passing' = Reconcilers /\ \A v \in Reconcilers : passing'[v] = x
  BY DEF GpuInv, OneReconciler
<1>3. Pending(x) \in Nat /\ Pending(passing[w]) \in Nat
  BY DEF GpuInv, FitPass, Pending
<1>4. Pending(x)' = Pending(x)
  BY DEF Pending
<1>5. Total(Shares, Rents) + Pending(passing[w]) <= MonthlyCap
  BY DEF GpuInv
<1>6. Total(Shares, Rents)' + Pending(x) <= MonthlyCap /\ Total(Shares, Rents)' <= MonthlyCap
  BY <1>1, <1>3, <1>5, GpuConstants
<1>7. \A v \in Reconcilers : FitPass(passing[v])' /\ Total(Shares, Rents)' + Pending(passing[v])' <= MonthlyCap
  BY <1>2, <1>4, <1>6 DEF FitPass, Pending
<1> QED
  BY <1>2, <1>6, <1>7 DEF GpuInv

(* One that leaves the rows alone.                                         *)
LEMMA OnlyPassGoes ==
    ASSUME OneReconciler, GpuInv, UNCHANGED <<rents, up>>, NEW w \in Reconcilers, NEW x,
           passing' = [passing EXCEPT ![w] = x], FitPass(x), Pending(x) <= Pending(passing[w])
    PROVE  GpuInv'
<1>1. RentsFit' /\ FitPass(x)'
  BY DEF GpuInv, RentsFit, FitPass, IsLive
<1>2. \A i \in Rents : Share(rents'[i]) <= Share(rents[i])
  BY DEF GpuInv, RentsFit, Share, Lower
<1> QED
  BY <1>1, <1>2, PassGoes

LEMMA PassFits == ASSUME GpuInv, NEW w \in Reconcilers
                  PROVE  FitPass(passing[w]) /\ w \in DOMAIN passing /\ Pending(passing[w]) \in Nat
BY DEF GpuInv, FitPass, Pending

FieldsOfPass == {"phase", "step", "todo", "seen", "cur", "rent", "hourly", "reserved", "why"}
LEMMA AwayIs == DOMAIN Away = FieldsOfPass
BY DEF Away, FieldsOfPass

(* Where a pass goes to another step of its phase, or is done with a row.  *)
LEMMA GoIs ==
    ASSUME GpuInv, NEW w \in Reconcilers, NEW step, Go(w, step)
    PROVE  \E x : /\ passing' = [passing EXCEPT ![w] = x] /\ DOMAIN x = FieldsOfPass /\ x.step = step
                  /\ \A f \in FieldsOfPass \ {"step"} : x[f] = passing[w][f]
<1> DEFINE x == [passing[w] EXCEPT !.step = step]
<1>1. passing' = [passing EXCEPT ![w] = x]
  BY PassFits DEF Go
<1>2. DOMAIN x = FieldsOfPass /\ x.step = step /\ \A f \in FieldsOfPass \ {"step"} : x[f] = passing[w][f]
  BY PassFits, AwayIs DEF FitPass, FieldsOfPass
<1> QED
  BY <1>1, <1>2

LEMMA DoneIs ==
    ASSUME GpuInv, NEW w \in Reconcilers, Done(w)
    PROVE  \E x : /\ passing' = [passing EXCEPT ![w] = x] /\ FitPass(x) /\ Pending(x) = 0
                  /\ x.step = "next" /\ x.phase = passing[w].phase /\ x.todo = passing[w].todo
<1> DEFINE x == [passing[w] EXCEPT !.step = "next", !.cur = Nobody, !.rent = 0, !.why = "none",
                                   !.hourly = 0, !.reserved = 0, !.seen = NoEndpoint]
<1>1. passing' = [passing EXCEPT ![w] = x]
  BY PassFits DEF Done
<1>2. /\ DOMAIN x = FieldsOfPass /\ x.step = "next" /\ x.reserved = 0 /\ x.hourly = 0
      /\ x.phase = passing[w].phase /\ x.todo = passing[w].todo
  BY PassFits, AwayIs DEF FitPass, FieldsOfPass
<1> HIDE DEF x
<1>3. FitPass(x) /\ Pending(x) = 0
  BY <1>2, PassFits, AwayIs DEF FitPass, Pending
<1> QED
  BY <1>1, <1>2, <1>3

(* The steps of a launch that write no row.                                *)
LEMMA GoesOn ==
    ASSUME OneReconciler, GpuInv, UNCHANGED <<rents, up>>, NEW w \in Reconcilers,
           passing[w].phase \notin {"idle", "sweep", "stale"},
           NEW step \in {"price", "refused", "launched", "stillLive", "insert"}, Go(w, step), passing[w].phase # "instances",
           step = "insert" => passing[w].step = "hold"
    PROVE  GpuInv'
<1>1. PICK x : /\ passing' = [passing EXCEPT ![w] = x] /\ DOMAIN x = FieldsOfPass /\ x.step = step
               /\ \A f \in FieldsOfPass \ {"step"} : x[f] = passing[w][f]
  BY GoIs
<1>2. x.phase = passing[w].phase /\ x.todo = passing[w].todo /\ x.reserved = passing[w].reserved /\ x.hourly = passing[w].hourly
  BY <1>1 DEF FieldsOfPass
<1>3. FitPass(x) /\ Pending(x) <= Pending(passing[w])
  BY <1>1, <1>2, PassFits, AwayIs DEF FitPass, Pending
<1> QED
  BY <1>1, <1>3, OnlyPassGoes

LEMMA IsDone == ASSUME OneReconciler, GpuInv, UNCHANGED <<rents, up>>, NEW w \in Reconcilers, Done(w) PROVE GpuInv'
<1>1. PICK x : passing' = [passing EXCEPT ![w] = x] /\ FitPass(x) /\ Pending(x) = 0
  BY DoneIs
<1>2. Pending(x) <= Pending(passing[w])
  BY <1>1, PassFits
<1> QED
  BY <1>1, <1>2, OnlyPassGoes

LEMMA CheckKept ==
    ASSUME OneReconciler, GpuInv, NEW w \in Reconcilers,
           LaunchCheck(w) \/ TakeHold(w) \/ Launched(w) \/ LaunchRefused(w) \/ LiveFor(w) \/ StillLive(w) \/ AfterDestroy(w)
    PROVE  GpuInv'
<1>0. FitPass(passing[w])
  BY PassFits
<1>1. CASE LaunchCheck(w)
  <2>0. /\ UNCHANGED <<rents, up>> /\ passing[w].step = "launch"
        /\ passing[w].phase \notin {"idle", "sweep", "stale", "instances"}
    BY <1>0, <1>1 DEF LaunchCheck, FitPass
  <2>1. CASE Go(w, "price")
    BY <2>0, <2>1, GoesOn
  <2>2. CASE \E i \in RentOf(passing[w].cur) : passing' = [passing EXCEPT ![w].step = "launched", ![w].rent = i]
    <3>1. PICK i : passing' = [passing EXCEPT ![w].step = "launched", ![w].rent = i]
      BY <2>2
    <3> DEFINE x == [passing[w] EXCEPT !.step = "launched", !.rent = i]
    <3>2. passing' = [passing EXCEPT ![w] = x]
      BY <3>1, PassFits
    <3>3. /\ DOMAIN x = FieldsOfPass /\ x.step = "launched" /\ x.reserved = passing[w].reserved /\ x.hourly = passing[w].hourly
          /\ x.phase = passing[w].phase /\ x.todo = passing[w].todo
      BY <1>0, AwayIs DEF FitPass, FieldsOfPass
    <3> HIDE DEF x
    <3>4. FitPass(x) /\ Pending(x) <= Pending(passing[w])
      BY <1>0, <2>0, <3>3, AwayIs DEF FitPass, Pending
    <3> QED
      BY <2>0, <3>2, <3>4, OnlyPassGoes
  <2>3. RentOf(passing[w].cur) # {} => (CHOOSE i \in RentOf(passing[w].cur) : TRUE) \in RentOf(passing[w].cur)
    OBVIOUS
  <2> QED
    BY <1>1, <2>1, <2>2, <2>3 DEF LaunchCheck
<1>2. CASE TakeHold(w)
  <2>1. /\ UNCHANGED <<rents, up>> /\ passing[w].step = "hold" /\ (Go(w, "insert") \/ Go(w, "refused"))
        /\ passing[w].phase \notin {"idle", "sweep", "stale", "instances"}
    BY <1>0, <1>2 DEF TakeHold, FitPass
  <2> QED
    BY <2>1, GoesOn
<1>3. CASE Launched(w) \/ LaunchRefused(w)
  BY <1>3, IsDone DEF Launched, LaunchRefused
<1>4. CASE LiveFor(w)
  <2>0. UNCHANGED <<rents, up>> /\ passing[w].phase = "endpoints" /\ passing[w].step = "liveFor"
    BY <1>4 DEF LiveFor, At
  <2>1. CASE Go(w, "stillLive")
    BY <2>0, <2>1, GoesOn
  <2>2. CASE \E i \in RentOf(passing[w].cur) : passing' = [passing EXCEPT ![w] = Destroying(w, i, "stopped")]
    <3>1. PICK i \in RentOf(passing[w].cur) : passing' = [passing EXCEPT ![w] = Destroying(w, i, "stopped")]
      BY <2>2
    <3> DEFINE x == Destroying(w, i, "stopped")
    <3>2. /\ DOMAIN x = FieldsOfPass /\ x.step = "destroy" /\ x.reserved = passing[w].reserved /\ x.hourly = passing[w].hourly
          /\ x.phase = passing[w].phase /\ x.todo = passing[w].todo /\ x.rent = i
      BY <1>0, AwayIs DEF FitPass, FieldsOfPass, Destroying
    <3>3. i \in Rents /\ IsLive(i)
      BY DEF RentOf, LiveRents, IsLive
    <3> HIDE DEF x
    <3>4. FitPass(x) /\ Pending(x) <= Pending(passing[w])
      BY <1>0, <2>0, <3>2, <3>3, AwayIs DEF FitPass, Pending
    <3> QED
      BY <2>0, <3>1, <3>4, OnlyPassGoes DEF x
  <2>3. RentOf(passing[w].cur) # {} => (CHOOSE i \in RentOf(passing[w].cur) : TRUE) \in RentOf(passing[w].cur)
    OBVIOUS
  <2> QED
    BY <1>4, <2>1, <2>2, <2>3 DEF LiveFor
<1>5. CASE StillLive(w)
  BY <1>5, IsDone DEF StillLive
<1>6. CASE AfterDestroy(w)
  <2>1. CASE Done(w)
    BY <1>6, <2>1, IsDone DEF AfterDestroy
  <2>2. CASE Go(w, "stillLive") /\ passing[w].phase = "endpoints"
    BY <1>6, <2>2, GoesOn DEF AfterDestroy
  <2> QED
    BY <1>6, <2>1, <2>2 DEF AfterDestroy
<1> QED
  BY <1>1, <1>2, <1>3, <1>4, <1>5, <1>6

---------------------------------------------------------------------------------
(* The price of a launch: what is on the ledger and what is reserved are   *)
(* at least the shares.                                                    *)

ChargedSum(R)     == MapThenSumSet(LAMBDA i : R[i].charged, Rents)
ReservedSum(R, S) == MapThenSumSet(LAMBDA i : R[i].reserved, S)

LEMMA ChargedAdd == ASSUME NEW R, NEW g, \A i \in Rents : g[i] = R[i].charged PROVE ChargedSum(R) = Total(g, Rents)
<1>0. PICK E : E = Rents
  OBVIOUS
<1> DEFINE step(it) == [s \in SUBSET E |-> IF s = {} THEN 0 ELSE LET x == CHOOSE x \in s : TRUE IN R[x].charged + it[s \ {x}]]
           iter == CHOOSE it : it = step(it)
<1>1. ChargedSum(R) = iter[E]
  BY <1>0 DEF ChargedSum, MapThenSumSet, MapThenFoldSet
<1>2. PICK k : Adds(k, g, E)
  BY <1>0, RentsFinite, SomethingAdds
<1> DEFINE h == [s \in SUBSET E |-> k[s]]
<1>3. h = step(h)
  <2>1. \A s \in SUBSET E : h[s] = step(h)[s]
    BY <1>0, <1>2 DEF Adds, One
  <2> QED
    BY <2>1
<1>4. iter = step(iter)
  <2> HIDE DEF step, h
  <2> QED
    BY <1>3
<1>5. Adds(iter, g, E)
  <2>1. \A s \in SUBSET E : iter[s] = step(iter)[s]
    BY <1>4
  <2> HIDE DEF iter
  <2> QED
    BY <1>0, <2>1 DEF Adds, One
<1>6. iter[E] = Total(g, E)
  <2> HIDE DEF iter
  <2> QED
    BY <1>0, <1>5, RentsFinite, TotalIs
<1> QED
  BY <1>0, <1>1, <1>6

LEMMA ReservedAdd ==
    ASSUME NEW R, NEW E \in SUBSET Rents, NEW g, \A i \in Rents : g[i] = R[i].reserved
    PROVE  ReservedSum(R, E) = Total(g, E)
<1>0. IsFiniteSet(E)
  BY RentsFinite, FS_Subset
<1> DEFINE step(it) == [s \in SUBSET E |-> IF s = {} THEN 0 ELSE LET x == CHOOSE x \in s : TRUE IN R[x].reserved + it[s \ {x}]]
           iter == CHOOSE it : it = step(it)
<1>1. ReservedSum(R, E) = iter[E]
  BY DEF ReservedSum, MapThenSumSet, MapThenFoldSet
<1>2. PICK k : Adds(k, g, E)
  BY <1>0, SomethingAdds
<1> DEFINE h == [s \in SUBSET E |-> k[s]]
<1>3. h = step(h)
  <2>1. \A s \in SUBSET E : h[s] = step(h)[s]
    BY <1>2 DEF Adds, One
  <2> QED
    BY <2>1
<1>4. iter = step(iter)
  <2> HIDE DEF step, h
  <2> QED
    BY <1>3
<1>5. Adds(iter, g, E)
  <2>1. \A s \in SUBSET E : iter[s] = step(iter)[s]
    BY <1>4
  <2> HIDE DEF iter
  <2> QED
    BY <2>1 DEF Adds, One
<1>6. iter[E] = Total(g, E)
  <2> HIDE DEF iter
  <2> QED
    BY <1>0, <1>5, TotalIs
<1> QED
  BY <1>1, <1>6

LEMMA SharesWithin == ASSUME RentsFit PROVE /\ Total(Shares, Rents) <= Settled + Reserved
                                            /\ Settled \in Nat /\ Reserved \in Nat
<1>1. PICK g : g = Shares
  OBVIOUS
<1>2. PICK a : a = [i \in Rents |-> rents[i].charged]
  OBVIOUS
<1>3. PICK b : b = [i \in Rents |-> rents[i].reserved]
  OBVIOUS
<1>4. PICK T : T = LiveRents
  OBVIOUS
<1>5. \A i \in Rents : g[i] \in Nat /\ a[i] \in Nat /\ b[i] \in Nat
  BY <1>1, <1>2, <1>3, SharesAre DEF RentsFit
<1>6. \A i \in Rents : g[i] <= a[i] + (IF i \in T THEN b[i] ELSE 0)
  BY <1>1, <1>2, <1>3, <1>4, SharesAre DEF RentsFit, Share, Lower, LiveRents
<1>7. Settled = ChargedSum(rents) /\ Reserved = ReservedSum(rents, T)
  BY <1>4 DEF Settled, ChargedSum, Reserved, ReservedSum, MapThenSumSet, MapThenFoldSet
<1>8. PICK R : R = rents
  OBVIOUS
<1>9. T \in SUBSET Rents /\ Rents \cap T = T
  BY <1>4 DEF LiveRents
<1>10. ChargedSum(R) = Total(a, Rents) /\ ReservedSum(R, T) = Total(b, T)
  BY <1>2, <1>3, <1>8, <1>9, ChargedAdd, ReservedAdd
<1>11. Total(g, Rents) <= Total(a, Rents) + Total(b, T)
  BY <1>5, <1>6, <1>9, RentsFinite, TotalWithin
<1>12. Total(a, Rents) \in Nat /\ Total(b, T) \in Nat
  BY <1>5, <1>9, RentsFinite, TotalNat
<1> QED
  BY <1>1, <1>7, <1>8, <1>10, <1>11, <1>12

(* Division leaves a rest.                                                 *)
LEMMA DivisionIs == ASSUME NEW n \in Nat, NEW h \in Nat \ {0} PROVE n \div h \in Nat /\ h * (n \div h) <= n
OBVIOUS

LEMMA HoursFit ==
    ASSUME RentsFit, NEW h \in HourPrices, Settled + Reserved < MonthlyCap
    PROVE  h * Hours(h) \in Nat /\ Settled + Reserved + h * Hours(h) <= MonthlyCap
<1>1. PICK n \in Nat : n = MonthlyCap - (Settled + Reserved)
  BY SharesWithin, GpuConstants
<1>2. h \in Nat \ {0} /\ MaxHours \in Nat
  BY GpuConstants
<1>3. PICK q \in Nat : q = n \div h /\ h * q <= n
  BY <1>2, DivisionIs
<1> DEFINE T == {MaxHours, q}
<1>4. Min(T) \in T /\ Min(T) <= q /\ Min(T) \in Nat
  <2>1. \E m \in T : \A x \in T : m <= x
    BY <1>2, <1>3
  <2>2. Min(T) \in T /\ \A x \in T : Min(T) <= x
    BY <2>1 DEF Min
  <2> QED
    BY <1>2, <1>3, <2>2
<1>5. Hours(h) = Min(T)
  BY <1>1, <1>3 DEF Hours
<1>6. ASSUME NEW a \in Nat, NEW b \in Nat, a <= b PROVE h * a \in Nat /\ h * b \in Nat /\ h * a <= h * b
  BY <1>2, <1>6
<1> HIDE DEF T
<1>7. h * Hours(h) \in Nat /\ h * Hours(h) <= h * q /\ h * q \in Nat
  BY <1>3, <1>4, <1>5, <1>6
<1> QED
  BY <1>1, <1>3, <1>7, SharesWithin, GpuConstants

LEMMA PriceKept == ASSUME OneReconciler, GpuInv, NEW w \in Reconcilers, LaunchPrice(w) PROVE GpuInv'
<1>0. /\ UNCHANGED <<rents, up>> /\ FitPass(passing[w]) /\ passing[w].step = "price" /\ RentsFit
      /\ passing[w].phase \notin {"idle", "sweep", "stale", "instances"}
  BY PassFits DEF LaunchPrice, FitPass, GpuInv
<1>1. CASE Go(w, "refused")
  BY <1>0, <1>1, GoesOn
<1>2. ASSUME NEW h \in HourPrices, Settled + Reserved < MonthlyCap, NEW step \in {"hold", "insert"},
             passing' = [passing EXCEPT ![w].step = step, ![w].hourly = h, ![w].reserved = h * Hours(h)]
      PROVE  GpuInv'
  <2>1. PICK m \in Nat : m = h * Hours(h) /\ Settled + Reserved + m <= MonthlyCap
    BY <1>0, <1>2, HoursFit
  <2>2. PICK x : x = [passing[w] EXCEPT !.step = step, !.hourly = h, !.reserved = m]
    OBVIOUS
  <2>3. /\ passing' = [passing EXCEPT ![w] = x]
        /\ DOMAIN x = FieldsOfPass /\ x.step = step /\ x.reserved = m /\ x.hourly = h
        /\ x.phase = passing[w].phase /\ x.todo = passing[w].todo
    <3>1. passing' = [passing EXCEPT ![w] = x]
      BY <1>2, <2>1, <2>2, PassFits
    <3> QED
      BY <1>0, <2>2, <3>1, AwayIs DEF FitPass, FieldsOfPass
  <2>4. FitPass(x) /\ Pending(x) = m
    BY <1>0, <2>3, AwayIs, GpuConstants DEF FitPass, Pending
  <2>5. Total(Shares, Rents) + Pending(x) <= MonthlyCap
    <3>1. PICK t \in Nat : t = Total(Shares, Rents)
      BY <1>0, SharesAre, RentsFinite, TotalNat
    <3> QED
      BY <1>0, <2>1, <2>4, <3>1, SharesWithin, GpuConstants
  <2>6. DOMAIN passing' = Reconcilers /\ \A v \in Reconcilers : passing'[v] = x
    BY <2>3 DEF GpuInv, OneReconciler
  <2>7. RentsFit' /\ FitPass(x)' /\ Pending(x)' = Pending(x)
    <3>1. rents' = rents /\ up' = up
      BY <1>0
    <3>2. RentsFit'
      BY <1>0, <3>1 DEF RentsFit, IsLive
    <3>3. FitPass(x)'
      BY <2>4, <3>1 DEF FitPass, IsLive
    <3> QED
      BY <3>2, <3>3 DEF Pending
  <2>8. Total(Shares, Rents)' = Total(Shares, Rents)
    BY <1>0 DEF Total, Adds, Shares, Share, Rents
  <2>9. \A v \in Reconcilers : FitPass(passing[v])' /\ Total(Shares, Rents)' + Pending(passing[v])' <= MonthlyCap
    <3>1. Total(Shares, Rents)' + Pending(x) <= MonthlyCap
      BY <2>5, <2>8
    <3> QED
      BY <2>6, <2>7, <3>1 DEF FitPass, Pending
  <2> QED
    BY <2>6, <2>7, <2>8, <2>9 DEF GpuInv
<1>3. ASSUME NEW h \in HourPrices, ~(Settled + Reserved >= MonthlyCap \/ Hours(h) < 1) PROVE Settled + Reserved < MonthlyCap
  BY <1>0, <1>3, SharesWithin, GpuConstants
<1> QED
  BY <1>1, <1>2, <1>3 DEF LaunchPrice

---------------------------------------------------------------------------------
(* The steps that write a row.                                             *)

FitRow(row) == /\ DOMAIN row = DOMAIN NoRent /\ row.linked \in BOOLEAN
               /\ row.hourly \in Nat /\ row.reserved \in Nat /\ row.age \in Nat /\ row.charged \in Nat

FieldsOfRent == {"of", "status", "linked", "hourly", "reserved", "age", "charged", "health", "used"}
LEMMA NoRentIs == DOMAIN NoRent = FieldsOfRent /\ Share(NoRent) = 0 /\ FitRow(NoRent) /\ NoRent.status \notin Live /\ ~NoRent.linked
BY DEF NoRent, FieldsOfRent, Share, FitRow, Live

LEMMA RowFits == ASSUME RentsFit, NEW i \in Rents PROVE FitRow(rents[i])
BY DEF RentsFit, FitRow

LEMMA RowWritten ==
    ASSUME RentsFit, NEW i \in Rents, NEW row, FitRow(row), rents' = [rents EXCEPT ![i] = row],
           up' \subseteq up \cup {i}, row.status \notin Live /\ row.linked => i \notin up'
    PROVE  RentsFit' /\ rents'[i] = row /\ \A j \in Rents \ {i} : rents'[j] = rents[j]
<1>1. DOMAIN rents' = Rents /\ rents'[i] = row /\ \A j \in Rents \ {i} : rents'[j] = rents[j]
  BY DEF RentsFit
<1> QED
  BY <1>1 DEF RentsFit, FitRow, IsLive

(* charge() writes what the hours cost.                                    *)
LEMMA ChargeIs ==
    ASSUME NEW row, FitRow(row)
    PROVE  /\ FitRow(Charge(row)) /\ Charge(row).status = row.status /\ Charge(row).linked = row.linked
           /\ Charge(row).reserved = row.reserved
<1>1. row.hourly * row.age \in Nat
  BY DEF FitRow
<1> QED
  BY <1>1, NoRentIs DEF FitRow, Charge, FieldsOfRent

(* A row that is written before the marketplace is asked takes what its    *)
(* launch had found room for.                                              *)
LEMMA InsertKept == ASSUME OneReconciler, GpuInv, NEW w \in Reconcilers, InsertRent(w) PROVE GpuInv'
<1>0. /\ up' = up /\ FitPass(passing[w]) /\ passing[w].step = "insert" /\ RentsFit
      /\ passing[w].phase \notin {"idle", "sweep", "stale", "instances"}
  BY PassFits DEF InsertRent, FitPass, GpuInv
<1>1. PICK i \in Rents : /\ rents[i] = NoRent
                        /\ rents' = [rents EXCEPT ![i] = [NoRent EXCEPT !.of = passing[w].cur, !.status = "starting",
                                                       !.hourly = passing[w].hourly, !.reserved = passing[w].reserved]]
                        /\ passing' = [passing EXCEPT ![w].step = "create", ![w].rent = i]
  BY DEF InsertRent
<1>2. PICK m \in Nat : m = passing[w].reserved
  BY <1>0 DEF FitPass
<1>3. PICK row : row = [NoRent EXCEPT !.of = passing[w].cur, !.status = "starting",
                                      !.hourly = passing[w].hourly, !.reserved = passing[w].reserved]
  OBVIOUS
<1>4. FitRow(row) /\ row.status = "starting" /\ row.reserved = m /\ ~row.linked
  BY <1>0, <1>2, <1>3, NoRentIs DEF FitRow, FitPass, FieldsOfRent
<1>5. RentsFit' /\ rents'[i] = row /\ \A j \in Rents \ {i} : rents'[j] = rents[j]
  BY <1>0, <1>1, <1>3, <1>4, RowWritten
<1>6. PICK x : x = [passing[w] EXCEPT !.step = "create", !.rent = i]
  OBVIOUS
<1>7. /\ passing' = [passing EXCEPT ![w] = x] /\ DOMAIN x = FieldsOfPass /\ x.step = "create" /\ x.rent = i
      /\ x.reserved = m /\ x.hourly = passing[w].hourly /\ x.phase = passing[w].phase
  <2>1. passing' = [passing EXCEPT ![w] = x]
    BY <1>1, <1>6, PassFits
  <2> QED
    BY <1>0, <1>2, <1>6, <2>1, AwayIs DEF FitPass, FieldsOfPass
<1>8. FitPass(x)' /\ Pending(x)' = 0
  BY <1>0, <1>2, <1>4, <1>5, <1>7, AwayIs DEF FitPass, Pending, IsLive, Live
<1>9. Total(Shares, Rents)' = m + Total(Shares, Rents)
  <2>1. PICK g : g = Shares
    OBVIOUS
  <2>2. PICK h : h = Shares'
    OBVIOUS
  <2>3. \A j \in Rents : g[j] \in Nat /\ h[j] \in Nat
    BY <1>0, <1>5, <2>1, <2>2, SharesAre DEF RentsFit, Shares, Share, Lower
  <2>4. g[i] = 0 /\ h[i] = m /\ \A j \in Rents \ {i} : g[j] = h[j]
    BY <1>1, <1>4, <1>5, <2>1, <2>2, NoRentIs DEF Shares, Share, Live
  <2>5. Total(g, Rents) = Total(g, Rents \ {i}) /\ Total(h, Rents) = m + Total(h, Rents \ {i})
    <3>1. Total(g, Rents) = g[i] + Total(g, Rents \ {i})
      BY <2>3, RentsFinite, TotalTakes
    <3>2. Total(h, Rents) = h[i] + Total(h, Rents \ {i})
      BY <2>3, RentsFinite, TotalTakes
    <3>3. Total(g, Rents \ {i}) \in Nat
      BY <2>3, RentsFinite, TotalNat
    <3> QED
      BY <2>4, <3>1, <3>2, <3>3
  <2>6. Total(g, Rents \ {i}) = Total(h, Rents \ {i})
    BY <2>4, RentsFinite, FS_Subset, TotalSame
  <2>7. Total(Shares, Rents)' = Total(h, Rents)
    BY <2>2 DEF Total, Adds, Rents
  <2> QED
    BY <2>1, <2>5, <2>6, <2>7
<1>10. m + Total(Shares, Rents) <= MonthlyCap
  <2>1. Pending(passing[w]) = m /\ Total(Shares, Rents) + Pending(passing[w]) <= MonthlyCap
    BY <1>0, <1>2 DEF Pending, GpuInv
  <2>2. Total(Shares, Rents) \in Nat
    BY <1>0, SharesAre, RentsFinite, TotalNat
  <2> QED
    BY <2>1, <2>2
<1>11. DOMAIN passing' = Reconcilers /\ \A v \in Reconcilers : passing'[v] = x
  BY <1>7 DEF GpuInv, OneReconciler
<1>12. Total(Shares, Rents) \in Nat
  BY <1>0, SharesAre, RentsFinite, TotalNat
<1>13. Total(Shares, Rents)' <= MonthlyCap /\ Total(Shares, Rents)' + Pending(x)' <= MonthlyCap
  BY <1>8, <1>9, <1>10, <1>12
<1>14. \A v \in Reconcilers : FitPass(passing[v])' /\ Total(Shares, Rents)' + Pending(passing[v])' <= MonthlyCap
  BY <1>8, <1>11, <1>13 DEF FitPass, Pending
<1> QED
  BY <1>5, <1>11, <1>13, <1>14 DEF GpuInv

(* The row of one rent becomes another, of which the share is no larger.   *)
LEMMA RowGoes ==
    ASSUME OneReconciler, GpuInv, NEW i \in Rents, NEW row, FitRow(row), rents' = [rents EXCEPT ![i] = row],
           Share(row) <= Share(rents[i]), up' \subseteq up \cup {i}, row.status \notin Live /\ row.linked => i \notin up',
           NEW w \in Reconcilers, NEW x, passing' = [passing EXCEPT ![w] = x], FitPass(x)', Pending(x) <= Pending(passing[w])
    PROVE  GpuInv'
<1>1. RentsFit' /\ rents'[i] = row /\ \A j \in Rents \ {i} : rents'[j] = rents[j]
  BY RowWritten DEF GpuInv
<1>2. \A j \in Rents : Share(rents[j]) \in Nat
  BY DEF GpuInv, RentsFit, Share, Lower
<1>3. \A j \in Rents : Share(rents'[j]) <= Share(rents[j])
  BY <1>1, <1>2
<1> QED
  BY <1>1, <1>3, PassGoes

LEMMA CreateKept == ASSUME OneReconciler, GpuInv, NEW w \in Reconcilers, CreateInstance(w) \/ LinkRent(w) PROVE GpuInv'
<1>0. FitPass(passing[w]) /\ RentsFit
  BY PassFits DEF GpuInv
<1>1. PICK i : i = passing[w].rent
  OBVIOUS
<1>2. /\ i \in Rents /\ IsLive(i) /\ FitRow(rents[i]) /\ passing[w].step \in {"create", "link"}
      /\ passing[w].phase \notin {"idle", "sweep", "stale", "instances"}
  BY <1>0, <1>1, RowFits DEF FitPass, CreateInstance, LinkRent
<1>3. PICK step \in {"link", "refused", "launched"} : Go(w, step)
  BY DEF CreateInstance, LinkRent
<1>4. PICK x : /\ passing' = [passing EXCEPT ![w] = x] /\ DOMAIN x = FieldsOfPass /\ x.step = step
               /\ \A f \in FieldsOfPass \ {"step"} : x[f] = passing[w][f]
  BY <1>3, GoIs
<1>5. x.phase = passing[w].phase /\ x.reserved = passing[w].reserved /\ x.hourly = passing[w].hourly /\ x.rent = i
  BY <1>1, <1>4 DEF FieldsOfPass
<1>6. CASE passing[w].step = "create" /\ up' = up \cup {i} /\ UNCHANGED rents /\ step = "link"
  <2>1. RentsFit'
    BY <1>0, <1>2, <1>6 DEF RentsFit, IsLive
  <2>2. FitPass(x)' /\ Pending(x) <= Pending(passing[w])
    BY <1>0, <1>2, <1>4, <1>5, <1>6, AwayIs DEF FitPass, Pending, IsLive
  <2>3. \A j \in Rents : Share(rents'[j]) <= Share(rents[j])
    BY <1>0, <1>6 DEF RentsFit, Share, Lower
  <2> QED
    BY <1>4, <2>1, <2>2, <2>3, PassGoes
<1>7. CASE passing[w].step = "create" /\ up' \in {up, up \cup {i}} /\ rents' = [rents EXCEPT ![i].status = "refused"] /\ step = "refused"
  <2>1. PICK row : row = [rents[i] EXCEPT !.status = "refused"]
    OBVIOUS
  <2>2. rents' = [rents EXCEPT ![i] = row] /\ FitRow(row) /\ row.status = "refused" /\ ~row.linked
    BY <1>0, <1>1, <1>2, <1>7, <2>1, NoRentIs DEF FitRow, FitPass, FieldsOfRent, RentsFit
  <2>3. Share(row) <= Share(rents[i])
    BY <1>2, <2>2 DEF Share, Live, IsLive, FitRow
  <2>4. FitPass(x)' /\ Pending(x) <= Pending(passing[w])
    BY <1>0, <1>2, <1>4, <1>5, <1>7, AwayIs DEF FitPass, Pending
  <2> QED
    BY <1>2, <1>4, <1>7, <2>2, <2>3, <2>4, RowGoes
<1>8. CASE passing[w].step = "link" /\ up' = up /\ rents' = [rents EXCEPT ![i].linked = TRUE] /\ step = "launched"
  <2>1. PICK row : row = [rents[i] EXCEPT !.linked = TRUE]
    OBVIOUS
  <2>2. rents' = [rents EXCEPT ![i] = row] /\ FitRow(row) /\ row.status \in Live /\ row.reserved = rents[i].reserved
    BY <1>0, <1>2, <1>8, <2>1, NoRentIs DEF FitRow, FieldsOfRent, RentsFit, IsLive
  <2>3. Share(row) <= Share(rents[i])
    BY <1>2, <2>2 DEF Share, IsLive, FitRow
  <2>4. FitPass(x)' /\ Pending(x) <= Pending(passing[w])
    BY <1>0, <1>2, <1>4, <1>5, <1>8, AwayIs DEF FitPass, Pending
  <2> QED
    BY <1>2, <1>4, <1>8, <2>2, <2>3, <2>4, RowGoes
<1>9. \A s : Go(w, s) => passing'[w].step = s
  BY <1>0, AwayIs, PassFits DEF Go, FitPass, FieldsOfPass
<1> QED
  BY <1>1, <1>3, <1>6, <1>7, <1>8, <1>9 DEF CreateInstance, LinkRent

(* An instance is ended at the marketplace, then its row.                  *)
LEMMA DestroyKept == ASSUME OneReconciler, GpuInv, NEW w \in Reconcilers, DestroyRemote(w) \/ DestroyRow(w) PROVE GpuInv'
<1>0. FitPass(passing[w]) /\ RentsFit
  BY PassFits DEF GpuInv
<1>1. PICK i : i = passing[w].rent
  OBVIOUS
<1>2. /\ i \in Rents /\ IsLive(i) /\ FitRow(rents[i]) /\ passing[w].step \in {"destroy", "destroyed"}
      /\ passing[w].phase \notin {"idle", "sweep", "stale"}
  BY <1>0, <1>1, RowFits DEF FitPass, DestroyRemote, DestroyRow
<1>3. ASSUME DestroyRemote(w), Go(w, "destroyed"), up' = IF rents[i].linked THEN up \ {i} ELSE up PROVE GpuInv'
  <2>1. PICK x : /\ passing' = [passing EXCEPT ![w] = x] /\ DOMAIN x = FieldsOfPass /\ x.step = "destroyed"
                 /\ \A f \in FieldsOfPass \ {"step"} : x[f] = passing[w][f]
    BY <1>3, GoIs
  <2>2. /\ x.phase = passing[w].phase /\ x.reserved = passing[w].reserved /\ x.hourly = passing[w].hourly /\ x.rent = i
        /\ x.todo = passing[w].todo
    BY <1>1, <2>1 DEF FieldsOfPass
  <2>3. rents' = rents /\ passing[w].step = "destroy"
    BY <1>3 DEF DestroyRemote
  <2>4. RentsFit' /\ \A j \in Rents : Share(rents'[j]) <= Share(rents[j])
    BY <1>0, <1>3, <2>3 DEF RentsFit, IsLive, Share, Lower
  <2>5. FitPass(x)' /\ Pending(x) <= Pending(passing[w])
    BY <1>0, <1>1, <1>2, <1>3, <2>1, <2>2, <2>3, AwayIs DEF FitPass, Pending, IsLive
  <2> QED
    BY <2>1, <2>4, <2>5, PassGoes
<1>4. ASSUME DestroyRemote(w), Go(w, "stillLive"), passing[w].phase = "endpoints", UNCHANGED up PROVE GpuInv'
  BY <1>4, GoesOn DEF DestroyRemote
<1>5. ASSUME DestroyRemote(w), Done(w), UNCHANGED up PROVE GpuInv'
  BY <1>5, IsDone DEF DestroyRemote
<1>6. CASE DestroyRow(w)
  <2>1. passing[w].step = "destroyed" /\ up' = up /\ rents' = [rents EXCEPT ![i] = [Charge(rents[i]) EXCEPT !.status = "destroyed"]]
    BY <1>0, <1>1, <1>2, <1>6 DEF DestroyRow, RentsFit
  <2>2. PICK row : row = [Charge(rents[i]) EXCEPT !.status = "destroyed"]
    OBVIOUS
  <2>3. /\ rents' = [rents EXCEPT ![i] = row] /\ FitRow(row) /\ row.status = "destroyed"
        /\ row.reserved = rents[i].reserved /\ row.linked = rents[i].linked
    BY <1>2, <2>1, <2>2, ChargeIs, NoRentIs DEF FitRow, FieldsOfRent
  <2>4. Share(row) <= Share(rents[i])
    BY <1>2, <2>3 DEF Share, Live, IsLive, FitRow, Lower
  <2>5. row.linked => i \notin up'
    BY <1>0, <1>1, <2>1, <2>3 DEF FitPass
  <2>6. RentsFit' /\ rents'[i] = row /\ \A j \in Rents \ {i} : rents'[j] = rents[j]
    BY <1>0, <1>2, <2>1, <2>3, <2>5, RowWritten
  <2>7. PICK x : /\ passing' = [passing EXCEPT ![w] = x] /\ DOMAIN x = FieldsOfPass /\ x.phase = passing[w].phase
                 /\ x.todo = passing[w].todo /\ x.step \in {"next", "afterDestroy"} /\ x.reserved \in Nat /\ x.hourly \in Nat
    <3>1. CASE Done(w)
      <4>1. PICK x : /\ passing' = [passing EXCEPT ![w] = x] /\ FitPass(x) /\ Pending(x) = 0
                     /\ x.step = "next" /\ x.phase = passing[w].phase /\ x.todo = passing[w].todo
        BY <3>1, DoneIs
      <4> QED
        BY <4>1, AwayIs DEF FitPass
    <3>2. CASE passing' = [passing EXCEPT ![w].step = "afterDestroy", ![w].cur = rents[i].of]
      <4> DEFINE x == [passing[w] EXCEPT !.step = "afterDestroy", !.cur = rents[i].of]
      <4>1. passing' = [passing EXCEPT ![w] = x]
        BY <3>2, PassFits
      <4>2. /\ DOMAIN x = FieldsOfPass /\ x.phase = passing[w].phase
            /\ x.todo = passing[w].todo /\ x.step = "afterDestroy" /\ x.reserved \in Nat /\ x.hourly \in Nat
        BY <1>0, AwayIs DEF FitPass, FieldsOfPass
      <4> HIDE DEF x
      <4> QED
        BY <4>1, <4>2
    <3> QED
      BY <1>1, <1>6, <3>1, <3>2 DEF DestroyRow
  <2>8. FitPass(x)' /\ Pending(x) <= Pending(passing[w])
    <3>1. x.phase = "instances" => i \notin x.todo
      BY <1>0, <1>1, <2>1, <2>7 DEF FitPass
    <3>2. x.phase = "instances" => \A j \in x.todo : j \in Rents /\ IsLive(j)'
      BY <1>0, <2>6, <2>7, <3>1 DEF FitPass, IsLive
    <3>3. Pending(x) = 0 /\ Pending(passing[w]) = 0
      BY <2>1, <2>7 DEF Pending
    <3> QED
      BY <1>0, <1>2, <2>7, <3>2, <3>3, AwayIs DEF FitPass
  <2> QED
    BY <1>2, <2>1, <2>3, <2>4, <2>5, <2>7, <2>8, RowGoes
<1> QED
  BY <1>1, <1>3, <1>4, <1>5, <1>6 DEF DestroyRemote

---------------------------------------------------------------------------------
(* The phases: what is read, and what is taken of it.                      *)

(* One of what the phase has read is taken.                                *)
LEMMA TakeIs ==
    ASSUME GpuInv, NEW w \in Reconcilers, NEW i, Take(w, i, passing[w])
    PROVE  \E x : /\ passing' = [passing EXCEPT ![w] = x] /\ DOMAIN x = FieldsOfPass /\ x.todo = passing[w].todo \ {i}
                  /\ \A f \in FieldsOfPass \ {"todo"} : x[f] = passing[w][f]
<1> DEFINE x == [passing[w] EXCEPT !.todo = @ \ {i}]
<1>1. passing' = [passing EXCEPT ![w] = x]
  BY DEF Take
<1>2. /\ DOMAIN x = FieldsOfPass /\ x.todo = passing[w].todo \ {i}
      /\ \A f \in FieldsOfPass \ {"todo"} : x[f] = passing[w][f]
  BY PassFits, AwayIs DEF FitPass, FieldsOfPass
<1> HIDE DEF x
<1> QED
  BY <1>1, <1>2

LEMMA SweepKept == ASSUME OneReconciler, GpuInv, NEW w \in Reconcilers, SweepInstance(w) \/ AbandonStale(w) PROVE GpuInv'
<1>0. FitPass(passing[w]) /\ RentsFit
  BY PassFits DEF GpuInv
<1>1. PICK i \in passing[w].todo : Take(w, i, passing[w]) /\
         \/ /\ At(w, "sweep", "next")
            /\ IF i \in LiveRents
               THEN rents' = [rents EXCEPT ![i].linked = TRUE] /\ UNCHANGED up
               ELSE \/ rents' = [rents EXCEPT ![i] = [Charge(rents[i]) EXCEPT !.status = "destroyed"]] /\ up' = up \ {i}
                    \/ rents' = [rents EXCEPT ![i] = Charge(rents[i])] /\ UNCHANGED up
         \/ At(w, "stale", "next") /\ rents' = [rents EXCEPT ![i].status = "refused"] /\ UNCHANGED up
  <2>1. DOMAIN rents = Rents /\ \A i \in passing[w].todo : passing[w].phase \in {"sweep", "stale"} => i \in Rents
    BY <1>0 DEF RentsFit, FitPass
  <2> QED
    BY <2>1 DEF SweepInstance, AbandonStale, At
<1>2. PICK x : /\ passing' = [passing EXCEPT ![w] = x] /\ DOMAIN x = FieldsOfPass /\ x.todo = passing[w].todo \ {i}
               /\ \A f \in FieldsOfPass \ {"todo"} : x[f] = passing[w][f]
  BY <1>1, TakeIs
<1>3. x.phase = passing[w].phase /\ x.reserved = passing[w].reserved /\ x.hourly = passing[w].hourly /\ x.step = passing[w].step
  BY <1>2 DEF FieldsOfPass
<1>4. /\ passing[w].phase \in {"sweep", "stale"} /\ passing[w].step = "next" /\ i \in Rents /\ FitRow(rents[i])
      /\ passing[w].phase = "sweep" => IsLive(i) \/ ~rents[i].linked
      /\ passing[w].phase = "stale" => ~rents[i].linked
  BY <1>0, <1>1, RowFits DEF At, FitPass
<1>5. PICK row : /\ rents' = [rents EXCEPT ![i] = row] /\ FitRow(row) /\ Share(row) <= Share(rents[i])
                 /\ up' \subseteq up /\ (row.status \notin Live => ~row.linked)
                 /\ passing[w].phase = "stale" => ~row.linked
  <2>1. CASE passing[w].phase = "sweep" /\ IsLive(i) /\ rents' = [rents EXCEPT ![i].linked = TRUE] /\ UNCHANGED up
    <3> DEFINE row == [rents[i] EXCEPT !.linked = TRUE]
    <3>1. /\ rents' = [rents EXCEPT ![i] = row] /\ FitRow(row) /\ row.reserved = rents[i].reserved
          /\ row.status = rents[i].status
      BY <1>0, <1>4, <2>1, NoRentIs DEF FitRow, FieldsOfRent, RentsFit
    <3> HIDE DEF row
    <3>2. Share(row) <= Share(rents[i]) /\ row.status \in Live
      BY <2>1, <3>1 DEF Share, IsLive, FitRow
    <3> QED
      BY <2>1, <3>1, <3>2
  <2>2. CASE /\ passing[w].phase = "sweep" /\ ~IsLive(i)
             /\ rents' = [rents EXCEPT ![i] = [Charge(rents[i]) EXCEPT !.status = "destroyed"]] /\ up' = up \ {i}
    <3> DEFINE row == [Charge(rents[i]) EXCEPT !.status = "destroyed"]
    <3>1. rents' = [rents EXCEPT ![i] = row] /\ FitRow(row) /\ row.status = "destroyed" /\ ~row.linked
      BY <1>4, <2>2, ChargeIs, NoRentIs DEF FitRow, FieldsOfRent
    <3> HIDE DEF row
    <3>2. Share(row) <= Share(rents[i])
      BY <1>4, <2>2, <3>1 DEF Share, Live, IsLive, FitRow
    <3> QED
      BY <2>2, <3>1, <3>2
  <2>3. CASE passing[w].phase = "sweep" /\ ~IsLive(i) /\ rents' = [rents EXCEPT ![i] = Charge(rents[i])] /\ UNCHANGED up
    <3> DEFINE row == Charge(rents[i])
    <3>1. rents' = [rents EXCEPT ![i] = row] /\ FitRow(row) /\ row.status = rents[i].status /\ ~row.linked
      BY <1>4, <2>3, ChargeIs
    <3> HIDE DEF row
    <3>2. Share(row) <= Share(rents[i])
      BY <1>4, <2>3, <3>1 DEF Share, Live, IsLive, FitRow
    <3> QED
      BY <2>3, <3>1, <3>2
  <2>4. CASE passing[w].phase = "stale" /\ rents' = [rents EXCEPT ![i].status = "refused"] /\ UNCHANGED up
    <3> DEFINE row == [rents[i] EXCEPT !.status = "refused"]
    <3>1. rents' = [rents EXCEPT ![i] = row] /\ FitRow(row) /\ row.status = "refused" /\ ~row.linked
      BY <1>0, <1>4, <2>4, NoRentIs DEF FitRow, FieldsOfRent, RentsFit
    <3> HIDE DEF row
    <3>2. Share(row) <= Share(rents[i])
      BY <1>4, <3>1 DEF Share, Live, IsLive, FitRow
    <3> QED
      BY <2>4, <3>1, <3>2
  <2> QED
    BY <1>1, <1>4, <2>1, <2>2, <2>3, <2>4 DEF At, LiveRents, IsLive
<1>6. RentsFit' /\ rents'[i] = row /\ \A j \in Rents \ {i} : rents'[j] = rents[j]
  BY <1>0, <1>4, <1>5, RowWritten
<1>7. FitPass(x)' /\ Pending(x) <= Pending(passing[w])
  <2>1. x.phase = "sweep" => \A j \in x.todo : j \in Rents /\ (IsLive(j) \/ ~rents[j].linked)'
    BY <1>0, <1>2, <1>3, <1>6 DEF FitPass, IsLive
  <2>2. x.phase = "stale" => \A j \in x.todo : j \in Rents /\ ~rents'[j].linked
    BY <1>0, <1>2, <1>3, <1>6 DEF FitPass
  <2>3. Pending(x) = 0 /\ Pending(passing[w]) = 0
    BY <1>3, <1>4 DEF Pending
  <2> QED
    BY <1>0, <1>2, <1>3, <1>4, <2>1, <2>2, <2>3, AwayIs DEF FitPass
<1> QED
  BY <1>2, <1>4, <1>5, <1>7, RowGoes

(* A live row is charged and stays live; where it ends, it is destroyed    *)
(* next.                                                                   *)
LEMMA InstanceKept == ASSUME OneReconciler, GpuInv, NEW w \in Reconcilers, NextInstance(w) PROVE GpuInv'
<1>0. FitPass(passing[w]) /\ RentsFit /\ passing[w].phase = "instances" /\ passing[w].step = "next" /\ up' = up
  BY PassFits DEF GpuInv, NextInstance, At
<1>1. PICK i \in passing[w].todo :
        /\ \/ Take(w, i, passing[w]) \/ \E why \in {"over", "idle", "died"} : Take(w, i, Destroying(w, i, why))
        /\ \E r \in {rents[i], [rents[i] EXCEPT !.status = "running", !.health = 0, !.used = TRUE],
                    [rents[i] EXCEPT !.health = 0], [rents[i] EXCEPT !.health = @ + 1]} :
             rents' = [rents EXCEPT ![i] = Charge(r)]
  BY <1>0 DEF NextInstance, FitPass, RentsFit
<1>2. i \in Rents /\ IsLive(i) /\ FitRow(rents[i])
  BY <1>0, RowFits DEF FitPass
<1>3. PICK row : /\ rents' = [rents EXCEPT ![i] = row] /\ FitRow(row) /\ row.status \in Live
                 /\ row.linked = rents[i].linked /\ row.reserved = rents[i].reserved
  <2>1. PICK r \in {rents[i], [rents[i] EXCEPT !.status = "running", !.health = 0, !.used = TRUE],
                    [rents[i] EXCEPT !.health = 0], [rents[i] EXCEPT !.health = @ + 1]} :
             rents' = [rents EXCEPT ![i] = Charge(r)]
    BY <1>1
  <2>2. FitRow(r) /\ r.status \in Live /\ r.linked = rents[i].linked /\ r.reserved = rents[i].reserved
    <3>1. DOMAIN rents[i] = FieldsOfRent
      BY <1>2, NoRentIs DEF FitRow
    <3>2. CASE r = rents[i]
      BY <1>2, <3>2 DEF IsLive
    <3>3. CASE r = [rents[i] EXCEPT !.status = "running", !.health = 0, !.used = TRUE]
      BY <1>2, <3>1, <3>3, NoRentIs DEF FitRow, FieldsOfRent, Live
    <3>4. CASE r = [rents[i] EXCEPT !.health = 0]
      BY <1>2, <3>1, <3>4, NoRentIs DEF FitRow, FieldsOfRent, IsLive
    <3>5. CASE r = [rents[i] EXCEPT !.health = @ + 1]
      BY <1>2, <3>1, <3>5, NoRentIs DEF FitRow, FieldsOfRent, IsLive
    <3> QED
      BY <2>1, <3>2, <3>3, <3>4, <3>5
  <2>3. /\ FitRow(Charge(r)) /\ Charge(r).status = r.status /\ Charge(r).linked = r.linked /\ Charge(r).reserved = r.reserved
    BY <2>2, ChargeIs
  <2> QED
    BY <2>1, <2>2, <2>3
<1>4. Share(row) <= Share(rents[i])
  BY <1>2, <1>3 DEF Share, IsLive, FitRow
<1>5. RentsFit' /\ rents'[i] = row /\ \A j \in Rents \ {i} : rents'[j] = rents[j]
  BY <1>0, <1>2, <1>3, RowWritten
<1>6. PICK x : /\ passing' = [passing EXCEPT ![w] = x] /\ DOMAIN x = FieldsOfPass /\ x.todo = passing[w].todo \ {i}
               /\ x.phase = "instances" /\ x.reserved \in Nat /\ x.hourly \in Nat
               /\ x.step = "next" \/ (x.step = "destroy" /\ x.rent = i)
  <2>1. CASE Take(w, i, passing[w])
    <3>1. PICK x : /\ passing' = [passing EXCEPT ![w] = x] /\ DOMAIN x = FieldsOfPass /\ x.todo = passing[w].todo \ {i}
                   /\ \A f \in FieldsOfPass \ {"todo"} : x[f] = passing[w][f]
      BY <2>1, TakeIs
    <3>2. x.phase = "instances" /\ x.reserved \in Nat /\ x.hourly \in Nat /\ x.step = "next"
      BY <1>0, <3>1 DEF FieldsOfPass, FitPass
    <3> QED
      BY <3>1, <3>2
  <2>2. ASSUME NEW why, Take(w, i, Destroying(w, i, why))
        PROVE  \E x : /\ passing' = [passing EXCEPT ![w] = x] /\ DOMAIN x = FieldsOfPass /\ x.todo = passing[w].todo \ {i}
                      /\ x.phase = "instances" /\ x.reserved \in Nat /\ x.hourly \in Nat /\ x.step = "destroy" /\ x.rent = i
    <3> DEFINE x == [Destroying(w, i, why) EXCEPT !.todo = @ \ {i}]
    <3>1. passing' = [passing EXCEPT ![w] = x]
      BY <2>2 DEF Take
    <3>2. /\ DOMAIN x = FieldsOfPass /\ x.todo = passing[w].todo \ {i}
          /\ x.phase = "instances" /\ x.reserved \in Nat /\ x.hourly \in Nat /\ x.step = "destroy" /\ x.rent = i
      BY <1>0, AwayIs DEF FitPass, FieldsOfPass, Destroying
    <3> HIDE DEF x
    <3> QED
      BY <3>1, <3>2
  <2> QED
    BY <1>1, <2>1, <2>2
<1>7. FitPass(x)' /\ Pending(x) <= Pending(passing[w])
  <2>1. \A j \in x.todo : j \in Rents /\ IsLive(j)'
    BY <1>0, <1>5, <1>6 DEF FitPass, IsLive
  <2>2. IsLive(i)' /\ Pending(x) = 0 /\ Pending(passing[w]) = 0
    BY <1>0, <1>3, <1>5, <1>6 DEF IsLive, Pending
  <2> QED
    BY <1>2, <1>6, <2>1, <2>2, AwayIs DEF FitPass, Phases
<1> QED
  BY <1>0, <1>2, <1>3, <1>4, <1>6, <1>7, RowGoes

(* What is taken up for an endpoint, a request or a wanted model.          *)
LEMMA TakenUp ==
    ASSUME OneReconciler, GpuInv, UNCHANGED <<rents, up>>, NEW w \in Reconcilers, NEW q, NEW with, Take(w, q, with),
           passing[w].phase \notin {"idle", "sweep", "stale", "instances"}, passing[w].step = "next",
           DOMAIN with = FieldsOfPass, with.phase = passing[w].phase, with.reserved = passing[w].reserved,
           with.hourly = passing[w].hourly,
           \/ with.step \in {"next", "launch", "liveFor", "afterDestroy"}
           \/ with.step = "destroy" /\ with.rent \in LiveRents
    PROVE  GpuInv'
<1>1. PICK x : x = [with EXCEPT !.todo = @ \ {q}]
  OBVIOUS
<1>2. passing' = [passing EXCEPT ![w] = x]
  BY <1>1 DEF Take
<1>3. /\ DOMAIN x = FieldsOfPass /\ x.phase = with.phase /\ x.reserved = with.reserved /\ x.hourly = with.hourly
      /\ x.step = with.step /\ x.rent = with.rent
  BY <1>1 DEF FieldsOfPass
<1>4. x.step = "destroy" => x.rent \in Rents /\ IsLive(x.rent)
  BY <1>3 DEF LiveRents, IsLive
<1>5. FitPass(x) /\ Pending(x) <= Pending(passing[w])
  BY <1>3, <1>4, PassFits, AwayIs DEF FitPass, Pending
<1> QED
  BY <1>2, <1>5, OnlyPassGoes

LEMMA NextKept ==
    ASSUME OneReconciler, GpuInv, NEW w \in Reconcilers, NextEndpoint(w) \/ NextRequest(w) \/ NextWanted(w)
    PROVE  GpuInv'
<1>0. FitPass(passing[w]) /\ DOMAIN passing[w] = FieldsOfPass
  BY PassFits, AwayIs DEF FitPass
<1>1. CASE NextEndpoint(w)
  <2>0. UNCHANGED <<rents, up>> /\ passing[w].phase = "endpoints" /\ passing[w].step = "next"
    BY <1>1 DEF NextEndpoint, At
  <2>1. PICK q, with : /\ Take(w, q, with)
                       /\ \/ with = passing[w]
                          \/ \E step \in {"launch", "liveFor", "afterDestroy"} :
                               with = [passing[w] EXCEPT !.cur = q.id, !.seen = q.row, !.step = step]
    BY <1>1 DEF NextEndpoint
  <2>2. /\ DOMAIN with = FieldsOfPass /\ with.phase = passing[w].phase /\ with.reserved = passing[w].reserved
        /\ with.hourly = passing[w].hourly /\ with.step \in {"next", "launch", "liveFor", "afterDestroy"}
    BY <1>0, <2>0, <2>1 DEF FieldsOfPass
  <2> QED
    BY <2>0, <2>1, <2>2, TakenUp
<1>2. CASE NextRequest(w)
  <2>0. UNCHANGED <<rents, up>> /\ passing[w].phase = "requests" /\ passing[w].step = "next"
    BY <1>2 DEF NextRequest, At
  <2>1. PICK q : Take(w, q, IF q.action = "launch" THEN [passing[w] EXCEPT !.cur = q.model, !.step = "launch"]
                      ELSE IF RentOf(q.model) = {} THEN passing[w]
                      ELSE [passing[w] EXCEPT !.cur = q.model, !.rent = CHOOSE i \in RentOf(q.model) : TRUE,
                                                !.step = "destroy", !.why = "stopped"])
    BY <1>2 DEF NextRequest
  <2>2. RentOf(q.model) # {} => (CHOOSE i \in RentOf(q.model) : TRUE) \in RentOf(q.model)
    OBVIOUS
  <2>3. PICK with : /\ Take(w, q, with)
                    /\ \/ with = passing[w]
                       \/ with = [passing[w] EXCEPT !.cur = q.model, !.step = "launch"]
                       \/ \E i \in LiveRents : with = [passing[w] EXCEPT !.cur = q.model, !.rent = i,
                                                                        !.step = "destroy", !.why = "stopped"]
    BY <2>1, <2>2 DEF RentOf
  <2>4. /\ DOMAIN with = FieldsOfPass /\ with.phase = passing[w].phase /\ with.reserved = passing[w].reserved
        /\ with.hourly = passing[w].hourly
        /\ with.step \in {"next", "launch"} \/ (with.step = "destroy" /\ with.rent \in LiveRents)
    BY <1>0, <2>0, <2>3 DEF FieldsOfPass
  <2> QED
    BY <2>0, <2>3, <2>4, TakenUp
<1>3. CASE NextWanted(w)
  <2>0. UNCHANGED <<rents, up>> /\ passing[w].phase = "wanted" /\ passing[w].step = "next"
    BY <1>3 DEF NextWanted, At
  <2>1. PICK q, with : /\ Take(w, q, with)
                       /\ with = passing[w] \/ with = [passing[w] EXCEPT !.cur = q, !.step = "launch"]
    BY <1>3 DEF NextWanted
  <2>2. /\ DOMAIN with = FieldsOfPass /\ with.phase = passing[w].phase /\ with.reserved = passing[w].reserved
        /\ with.hourly = passing[w].hourly /\ with.step \in {"next", "launch"}
    BY <1>0, <2>0, <2>1 DEF FieldsOfPass
  <2> QED
    BY <2>0, <2>1, <2>2, TakenUp
<1> QED
  BY <1>1, <1>2, <1>3

(* A phase begins with what is on the table then.                          *)
LEMMA PhaseKept ==
    ASSUME OneReconciler, GpuInv, NEW w \in Reconcilers, BeginPass(w) \/ NextPhase(w) \/ ReconcilerDies(w)
    PROVE  GpuInv'
<1>0. FitPass(passing[w]) /\ RentsFit /\ UNCHANGED <<rents, up>>
  BY PassFits DEF GpuInv, BeginPass, NextPhase, ReconcilerDies
<1>1. ASSUME NEW phase \in Phases, NEW todo, Enter(w, phase, todo),
             phase = "sweep" => todo = up,
             phase = "stale" => \A i \in todo : i \in Rents /\ ~rents[i].linked,
             phase = "instances" => todo = LiveRents
      PROVE  GpuInv'
  <2>1. PICK x : x = [Away EXCEPT !.phase = phase, !.todo = todo]
    OBVIOUS
  <2>2. passing' = [passing EXCEPT ![w] = x]
    BY <1>1, <2>1 DEF Enter
  <2>3. /\ DOMAIN x = FieldsOfPass /\ x.phase = phase /\ x.todo = todo /\ x.step = "next" /\ x.reserved = 0 /\ x.hourly = 0
    BY <2>1, AwayIs DEF Away, FieldsOfPass
  <2>4. x.phase = "sweep" => \A i \in x.todo : i \in Rents /\ (IsLive(i) \/ ~rents[i].linked)
    BY <1>0, <1>1, <2>3 DEF RentsFit
  <2>5. x.phase = "instances" => \A i \in x.todo : i \in Rents /\ IsLive(i)
    BY <1>1, <2>3 DEF LiveRents, IsLive
  <2>6. FitPass(x) /\ Pending(x) <= Pending(passing[w])
    BY <1>1, <2>3, <2>4, <2>5, PassFits, AwayIs DEF FitPass, Pending
  <2> QED
    BY <1>0, <2>2, <2>6, OnlyPassGoes
<1>2. CASE BeginPass(w)
  BY <1>1, <1>2 DEF BeginPass, Phases
<1>3. CASE NextPhase(w)
  <2>1. passing[w].phase \in Phases \ {"idle"}
    BY <1>0, <1>3 DEF NextPhase, FitPass
  <2>2. \E phase, todo : /\ phase \in Phases /\ Enter(w, phase, todo)
                         /\ phase = "sweep" => todo = up
                         /\ phase = "stale" => \A i \in todo : i \in Rents /\ ~rents[i].linked
                         /\ phase = "instances" => todo = LiveRents
    <3>1. CASE passing[w].phase = "endpoints"
      <4>1. Enter(w, "sweep", up)
        BY <1>3, <3>1 DEF NextPhase
      <4> QED
        BY <4>1 DEF Phases
    <3>2. CASE passing[w].phase = "sweep"
      <4> DEFINE T == {i \in Rents : rents[i].status = "starting" /\ ~rents[i].linked /\ rents[i].age > StaleAfter}
      <4>1. Enter(w, "stale", T)
        BY <1>3, <3>2 DEF NextPhase
      <4>2. \A i \in T : i \in Rents /\ ~rents[i].linked
        OBVIOUS
      <4> HIDE DEF T
      <4> QED
        BY <4>1, <4>2 DEF Phases
    <3>3. CASE passing[w].phase = "stale"
      <4>1. Enter(w, "requests", requests)
        BY <1>3, <3>3 DEF NextPhase
      <4> QED
        BY <4>1 DEF Phases
    <3>4. CASE passing[w].phase = "requests"
      <4>1. Enter(w, "instances", LiveRents)
        BY <1>3, <3>4 DEF NextPhase
      <4> QED
        BY <4>1 DEF Phases
    <3>5. CASE passing[w].phase = "instances"
      <4>1. Enter(w, "wanted", GpuModels)
        BY <1>3, <3>5 DEF NextPhase
      <4> QED
        BY <4>1 DEF Phases
    <3>6. CASE passing[w].phase = "wanted"
      <4>1. Enter(w, "idle", {})
        BY <1>3, <3>6 DEF NextPhase
      <4> QED
        BY <4>1 DEF Phases
    <3> QED
      BY <2>1, <3>1, <3>2, <3>3, <3>4, <3>5, <3>6 DEF Phases
  <2> QED
    BY <1>1, <2>2
<1>4. CASE ReconcilerDies(w)
  <2>1. PICK x : x = Away
    OBVIOUS
  <2>2. passing' = [passing EXCEPT ![w] = x]
    BY <1>4, <2>1 DEF ReconcilerDies
  <2>3. x.phase = "idle" /\ x.step = "next" /\ x.reserved = 0 /\ x.hourly = 0 /\ DOMAIN x = DOMAIN Away
    BY <2>1 DEF Away
  <2>4. FitPass(x) /\ Pending(x) <= Pending(passing[w])
    BY <2>3, PassFits DEF FitPass, Pending, Phases
  <2> QED
    BY <1>0, <2>2, <2>4, OnlyPassGoes
<1> QED
  BY <1>2, <1>3, <1>4

---------------------------------------------------------------------------------
(* What happens around the passes.                                         *)

(* Nothing of the rows that the cap is about changes, and an instance may  *)
(* be gone.                                                                *)
LEMMA Around ==
    ASSUME GpuInv, UNCHANGED passing, up' \subseteq up, DOMAIN rents' = Rents,
           \A i \in Rents : /\ DOMAIN rents'[i] = DOMAIN NoRent /\ rents'[i].age \in Nat
                            /\ \A f \in {"status", "linked", "hourly", "reserved", "charged"} : rents'[i][f] = rents[i][f]
    PROVE  GpuInv'
<1>1. \A i \in Rents : /\ rents'[i].status = rents[i].status /\ rents'[i].linked = rents[i].linked
                       /\ rents'[i].hourly = rents[i].hourly /\ rents'[i].reserved = rents[i].reserved
                       /\ rents'[i].charged = rents[i].charged
  OBVIOUS
<1>2. RentsFit'
  BY <1>1 DEF GpuInv, RentsFit, IsLive
<1>3. \A i \in Rents : Share(rents'[i]) <= Share(rents[i])
  BY <1>1 DEF GpuInv, RentsFit, Share, Lower
<1>4. Total(Shares, Rents)' <= Total(Shares, Rents) /\ Total(Shares, Rents) \in Nat /\ Total(Shares, Rents)' \in Nat
  BY <1>2, <1>3, SharesFall DEF GpuInv
<1>5. ASSUME NEW x, FitPass(x), Total(Shares, Rents) + Pending(x) <= MonthlyCap
      PROVE  FitPass(x)' /\ Total(Shares, Rents)' + Pending(x)' <= MonthlyCap
  <2>1. FitPass(x)'
    <3>1. \A i \in Rents : (IsLive(i)' <=> IsLive(i)) /\ (rents'[i].linked <=> rents[i].linked) /\ (i \notin up => i \notin up')
      BY <1>1 DEF IsLive
    <3> QED
      BY <1>5, <3>1 DEF FitPass
  <2>2. Pending(x)' = Pending(x) /\ Pending(x) \in Nat
    BY <1>5 DEF Pending, FitPass
  <2> QED
    BY <1>4, <1>5, <2>1, <2>2, GpuConstants
<1>6. \A v \in Reconcilers : FitPass(passing[v])' /\ Total(Shares, Rents)' + Pending(passing[v])' <= MonthlyCap
  <2>1. TAKE v \in Reconcilers
  <2>2. PICK x : x = passing[v]
    OBVIOUS
  <2>3. FitPass(x) /\ Total(Shares, Rents) + Pending(x) <= MonthlyCap
    BY <2>2 DEF GpuInv
  <2>4. FitPass(x)' /\ Total(Shares, Rents)' + Pending(x)' <= MonthlyCap
    BY <1>5, <2>3
  <2>5. passing'[v] = x
    BY <2>2
  <2> QED
    BY <2>4, <2>5 DEF FitPass, Pending
<1> QED
  BY <1>2, <1>4, <1>6, GpuConstants DEF GpuInv

LEMMA AroundKept ==
    ASSUME GpuInv,
           \/ \E m \in GpuModels, action \in {"launch", "stop"} : RequestModel(m, action)
           \/ \E e \in OwnEndpoints : CreateEndpoint(e) \/ StopEndpoint(e)
           \/ \E i \in Rents : UseRent(i) \/ InstanceDies(i)
           \/ GpuTimePasses
    PROVE  GpuInv'
<1>0. DOMAIN rents = Rents /\ \A i \in Rents : DOMAIN rents[i] = FieldsOfRent /\ rents[i].age \in Nat
  BY NoRentIs DEF GpuInv, RentsFit
<1>1. CASE /\ UNCHANGED passing /\ up' \subseteq up /\ UNCHANGED rents
  BY <1>0, <1>1, Around, NoRentIs
<1>2. ASSUME NEW i \in Rents, UseRent(i) PROVE GpuInv'
  <2>1. UNCHANGED <<passing, up>> /\ rents' = [rents EXCEPT ![i].used = TRUE]
    BY <1>2 DEF UseRent
  <2>2. DOMAIN rents' = Rents /\ \A j \in Rents \ {i} : rents'[j] = rents[j]
    BY <1>0, <2>1
  <2>3. DOMAIN rents'[i] = FieldsOfRent /\ \A f \in FieldsOfRent \ {"used"} : rents'[i][f] = rents[i][f]
    BY <1>0, <2>1
  <2>4. \A j \in Rents : /\ DOMAIN rents'[j] = DOMAIN NoRent /\ rents'[j].age \in Nat
                         /\ \A f \in {"status", "linked", "hourly", "reserved", "charged"} : rents'[j][f] = rents[j][f]
    BY <1>0, <2>2, <2>3, NoRentIs DEF FieldsOfRent
  <2> QED
    BY <2>1, <2>2, <2>4, Around
<1>3. CASE GpuTimePasses
  <2>1. /\ UNCHANGED <<passing, up>>
        /\ rents' = [i \in Rents |-> IF i \in LiveRents \cup up THEN [rents[i] EXCEPT !.age = @ + 1, !.used = FALSE] ELSE rents[i]]
    BY <1>3 DEF GpuTimePasses
  <2>2. \A j \in Rents : /\ DOMAIN rents'[j] = DOMAIN NoRent /\ rents'[j].age \in Nat
                         /\ \A f \in {"status", "linked", "hourly", "reserved", "charged"} : rents'[j][f] = rents[j][f]
    <3>1. TAKE j \in Rents
    <3>2. CASE rents'[j] = rents[j]
      BY <1>0, <3>2, NoRentIs
    <3>3. CASE rents'[j] = [rents[j] EXCEPT !.age = @ + 1, !.used = FALSE]
      BY <1>0, <3>3, NoRentIs DEF FieldsOfRent
    <3> QED
      BY <2>1, <3>2, <3>3
  <2> QED
    BY <2>1, <2>2, Around
<1> QED
  BY <1>1, <1>2, <1>3 DEF RequestModel, CreateEndpoint, StopEndpoint, InstanceDies

LEMMA NothingRented == GpuInit => GpuInv
<1> SUFFICES ASSUME GpuInit PROVE GpuInv
  OBVIOUS
<1>1. DOMAIN rents = Rents /\ up = {} /\ \A i \in Rents : rents[i] = NoRent
  BY DEF GpuInit
<1>2. RentsFit
  BY <1>1, NoRentIs DEF RentsFit, FitRow, IsLive
<1>3. Total(Shares, Rents) = 0
  <2>1. PICK g : g = Shares
    OBVIOUS
  <2>2. \A i \in Rents : g[i] = 0
    BY <1>1, <2>1, NoRentIs DEF Shares
  <2>3. Total(g, Rents) = 0
    BY <2>2, RentsFinite, TotalOfNone
  <2> QED
    BY <2>1, <2>3
<1>4. PICK x : x = Away
  OBVIOUS
<1>5. x.phase = "idle" /\ x.step = "next" /\ x.reserved = 0 /\ x.hourly = 0 /\ DOMAIN x = DOMAIN Away
  BY <1>4 DEF Away
<1>6. FitPass(x) /\ Pending(x) = 0
  BY <1>5 DEF FitPass, Pending, Phases
<1>7. DOMAIN passing = Reconcilers /\ \A w \in Reconcilers : passing[w] = x
  BY <1>4 DEF GpuInit
<1> QED
  BY <1>2, <1>3, <1>6, <1>7, GpuConstants DEF GpuInv

LEMMA GpuStep == ASSUME OneReconciler, GpuInv, [GpuNext]_gpuVars PROVE GpuInv'
<1>1. ASSUME NEW w \in Reconcilers, PassSteps(w) \/ ReconcilerDies(w) PROVE GpuInv'
  BY <1>1, CheckKept, PriceKept, InsertKept, CreateKept, DestroyKept, SweepKept, InstanceKept, NextKept, PhaseKept DEF PassSteps
<1>2. CASE UNCHANGED gpuVars
  <2>1. UNCHANGED <<passing, rents, up>>
    BY <1>2 DEF gpuVars
  <2>2. DOMAIN rents = Rents /\ \A i \in Rents : DOMAIN rents[i] = DOMAIN NoRent /\ rents[i].age \in Nat
    BY DEF GpuInv, RentsFit
  <2> QED
    BY <2>1, <2>2, Around
<1> QED
  BY <1>1, <1>2, AroundKept DEF GpuNext

(* What CapHeld adds up.                                                   *)
HeldOf(R, L, i)  == IF i \in L THEN R[i].reserved ELSE Min({R[i].charged, R[i].reserved})
HeldSum(R, L, E) == MapThenSumSet(LAMBDA i : IF i \in L THEN R[i].reserved ELSE Min({R[i].charged, R[i].reserved}), E)

LEMMA HeldAdd ==
    ASSUME NEW R, NEW L, NEW E \in SUBSET Rents, NEW g, \A i \in E : g[i] = HeldOf(R, L, i)
    PROVE  HeldSum(R, L, E) = Total(g, E)
<1>0. IsFiniteSet(E)
  BY RentsFinite, FS_Subset
<1> DEFINE step(it) == [s \in SUBSET E |-> IF s = {} THEN 0 ELSE LET x == CHOOSE x \in s : TRUE IN
                          HeldOf(R, L, x) + it[s \ {x}]]
           iter == CHOOSE it : it = step(it)
<1>1. HeldSum(R, L, E) = iter[E]
  BY DEF HeldSum, HeldOf, MapThenSumSet, MapThenFoldSet
<1>2. PICK k : Adds(k, g, E)
  BY <1>0, SomethingAdds
<1>3. \A s \in SUBSET E : s # {} => One(s) \in E
  BY OneIs
<1> DEFINE h == [s \in SUBSET E |-> k[s]]
<1>4. h = step(h)
  <2>1. \A s \in SUBSET E : h[s] = step(h)[s]
    BY <1>2, <1>3 DEF Adds, One
  <2> QED
    BY <2>1
<1>5. iter = step(iter)
  <2> HIDE DEF step, h
  <2> QED
    BY <1>4
<1>6. Adds(iter, g, E)
  <2>1. \A s \in SUBSET E : iter[s] = step(iter)[s]
    BY <1>5
  <2> HIDE DEF iter
  <2> QED
    BY <1>3, <2>1 DEF Adds, One
<1>7. iter[E] = Total(g, E)
  <2> HIDE DEF iter
  <2> QED
    BY <1>0, <1>6, TotalIs
<1> QED
  BY <1>1, <1>7

LEMMA InvHoldsCap == GpuInv => CapHeld
<1> SUFFICES ASSUME GpuInv PROVE CapHeld
  OBVIOUS
<1>1. PICK R : R = rents
  OBVIOUS
<1>2. PICK L : L = LiveRents
  OBVIOUS
<1>3. PICK E : E = {i \in Rents : i \in L \/ R[i].linked}
  OBVIOUS
<1>4. PICK g : g = Shares
  OBVIOUS
<1>5. ASSUME NEW a \in Nat, NEW b \in Nat PROVE Min({a, b}) = Lower(a, b)
  <2>1. Lower(a, b) \in {a, b} /\ \A y \in {a, b} : Lower(a, b) <= y
    BY DEF Lower
  <2>2. \A z \in {a, b} : (\A y \in {a, b} : z <= y) => z = Lower(a, b)
    BY DEF Lower
  <2> QED
    BY <2>1, <2>2 DEF Min
<1>6. \A i \in E : g[i] = HeldOf(R, L, i)
  <2>1. TAKE i \in E
  <2>2. i \in Rents /\ R[i].reserved \in Nat /\ R[i].charged \in Nat
    BY <1>1, <1>3 DEF GpuInv, RentsFit
  <2>3. g[i] = Share(R[i]) /\ (i \in L <=> R[i].status \in Live) /\ (i \in L \/ R[i].linked)
    BY <1>1, <1>2, <1>3, <1>4, <2>2, SharesAre DEF GpuInv, LiveRents
  <2>4. Min({R[i].charged, R[i].reserved}) = Lower(R[i].charged, R[i].reserved)
    BY <1>5, <2>2
  <2> QED
    BY <2>3, <2>4 DEF Share, HeldOf
<1>7. HeldSum(R, L, E) = Total(g, E)
  <2>1. E \in SUBSET Rents
    BY <1>3
  <2> QED
    BY <1>6, <2>1, HeldAdd
<1>8. Total(g, E) <= Total(g, Rents) /\ Total(g, E) \in Nat /\ Total(g, Rents) \in Nat
  <2>1. E \in SUBSET Rents /\ \A i \in Rents : g[i] \in Nat
    BY <1>3, <1>4, SharesAre DEF GpuInv
  <2> QED
    BY <2>1, RentsFinite, TotalOfSome, TotalNat
<1>9. Total(g, Rents) <= MonthlyCap
  BY <1>4 DEF GpuInv
<1>10. HeldSum(R, L, E) <= MonthlyCap
  BY <1>7, <1>8, <1>9, GpuConstants
<1>11. HeldSum(R, L, E) = MapThenSumSet(LAMBDA i : IF i \in LiveRents THEN rents[i].reserved ELSE Min({rents[i].charged, rents[i].reserved}),
                  {i \in Rents : i \in LiveRents \/ rents[i].linked})
  BY <1>1, <1>2, <1>3 DEF HeldSum, MapThenSumSet, MapThenFoldSet
<1> QED
  BY <1>10, <1>11 DEF CapHeld

(* provisioner.js, rule 2: the reservations of the live rents and what the *)
(* ended ones cost within theirs never exceed the monthly cap, for every   *)
(* set of models and persons, every price and any number of failures, when *)
(* no two passes overlap.  moneySummary() counts a rent by its charge or   *)
(* by its reservation the moment its row is written, and the launch that   *)
(* read the summary is the only one that writes before the row is there.   *)
THEOREM CapIsHeld == ASSUME OneReconciler PROVE GpuSpec => []CapHeld
<1>1. GpuInit => GpuInv
  BY NothingRented
<1>2. GpuInv /\ [GpuNext]_gpuVars => GpuInv'
  BY GpuStep
<1>3. GpuInv => CapHeld
  BY InvHoldsCap
<1> QED
  BY <1>1, <1>2, <1>3, PTL DEF GpuSpec

---------------------------------------------------------------------------------
(* The claim of the weekly job.                                            *)

MeasurerSteps == {"idle", "due", "measuring", "measured", "stopped", "over"}

(* Who measures holds the claim that stands, or outlived it.               *)
MeasuresByClaim ==
    \A p \in Measurers : measurer[p] = "measuring" => p \in outlived \/ (claimedBy = p /\ claimStands)
ClaimInv == measurer \in [Measurers -> MeasurerSteps] /\ MeasuresByClaim

LEMMA ClaimKept == ClaimInv /\ [RefusalNext]_refusalVars => ClaimInv'
<1> SUFFICES ASSUME ClaimInv, [RefusalNext]_refusalVars PROVE ClaimInv'
  OBVIOUS
<1>t. measurer \in [Measurers -> MeasurerSteps] /\ MeasuresByClaim
  BY DEF ClaimInv
<1>1. ASSUME NEW p \in Measurers, FindDue(p) \/ FindUnread(p) \/ ClaimRefused(p) \/ MeasureOffers(p) \/ MarkRun(p)
      PROVE  ClaimInv'
  <2>1. /\ UNCHANGED <<claimedBy, claimStands, outlived>>
        /\ \E to \in MeasurerSteps \ {"measuring"} : measurer' = [measurer EXCEPT ![p] = to]
    BY <1>1 DEF FindDue, FindUnread, Ticks, ClaimRefused, MeasureOffers, MarkRun, MeasurerMoves, MeasurerSteps
  <2> QED
    BY <1>t, <2>1 DEF ClaimInv, MeasuresByClaim
<1>2. ASSUME NEW p \in Measurers, TakeClaim(p) PROVE ClaimInv'
  <2>1. /\ Free /\ claimedBy' = p /\ claimStands' = TRUE /\ outlived' = outlived \ {p}
        /\ \E to \in {"measuring", "idle"} : measurer' = [measurer EXCEPT ![p] = to]
    BY <1>2 DEF TakeClaim, MeasurerMoves, Forgets
  <2>2. \A q \in Measurers : measurer[q] = "measuring" => q \in outlived
    BY <1>t, <2>1, RefusalConstants DEF MeasuresByClaim, Free
  <2> QED
    BY <1>t, <2>1, <2>2 DEF ClaimInv, MeasuresByClaim, MeasurerSteps
<1>3. ASSUME NEW p \in Measurers, ReleaseClaim(p) PROVE ClaimInv'
  <2>1. /\ outlived' = outlived \ {p}
        /\ (claimedBy = p) \/ UNCHANGED <<claimedBy, claimStands>>
        /\ \E to \in {"over", "idle"} : measurer' = [measurer EXCEPT ![p] = to]
    BY <1>3 DEF ReleaseClaim, GivesBack, AfterRelease, MeasurerMoves, Forgets
  <2> QED
    BY <1>t, <2>1 DEF ClaimInv, MeasuresByClaim, MeasurerSteps
<1>4. ASSUME NEW p \in Measurers, MeasurerDies(p) PROVE ClaimInv'
  BY <1>t, <1>4 DEF MeasurerDies, Forgets, ClaimInv, MeasuresByClaim, MeasurerSteps
<1>5. CASE IntervalPasses \/ UNCHANGED refusalVars
  BY <1>t, <1>5 DEF IntervalPasses, refusalVars, ClaimInv, MeasuresByClaim
<1>6. CASE ClaimRunsOut
  BY <1>t, <1>6 DEF ClaimRunsOut, ClaimInv, MeasuresByClaim
<1> QED
  BY <1>1, <1>2, <1>3, <1>4, <1>5, <1>6 DEF RefusalNext, MeasurerActs

(* One process measures the refusal rates at a time, however many run the  *)
(* job, lose answers or die: a second one only beside one whose claim ran  *)
(* out under it, and no release gives away the claim of another process.   *)
THEOREM OneMeasures == RefusalSpec => []OneMeasurer
<1>1. RefusalInit => ClaimInv
  BY DEF RefusalInit, ClaimInv, MeasuresByClaim, MeasurerSteps
<1>2. ClaimInv => OneMeasurer
  BY DEF ClaimInv, MeasuresByClaim, OneMeasurer
<1> QED
  BY <1>1, <1>2, ClaimKept, PTL DEF RefusalSpec
=================================================================================
