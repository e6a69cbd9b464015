----------------------------- MODULE AccountingProofs ----------------------------
(***************************************************************************)
(* Theorems about Accounting, for every set of runs, subjects, providers,  *)
(* limits and allowances, in every world of silent stores, failing         *)
(* statements and a death of the process.                                  *)
(***************************************************************************)
EXTENDS Accounting, Totals

---------------------------------------------------------------------------------
(* The inductive invariant.                                                *)

Steps == {"new", "admit", "reserve", "count", "work", "account", "claim", "mirror", "settle", "post", "close"}
         \cup Finished
(* What follows the work of a run.                                         *)
Late  == {"account", "claim", "mirror", "settle", "post", "close", "over"}

(* A transaction is open only while it claims, and claims one attempt at a *)
(* time of those that used tokens.                                         *)
TxInOrder == \A r \in Runs :
    /\ made[r] <= Len(Attempts[r])
    /\ Len(tx[r].claims) <= made[r]
    /\ ~InTx(r) => tx[r] = NoTx
    /\ pc[r] = "mirror" => tiers /\ Len(tx[r].claims) > 0

(* admit() takes the subject's budget, then the project's.                 *)
AdmitInOrder == \A r \in Runs :
    /\ pc[r] = "new" => known[r] = {}
    /\ pc[r] = "admit" => known[r] \in {{}, {"subject"}}

(* A hold is known to its run or lost; once the accounting was settled, or *)
(* the run is over, none is known.                                         *)
HeldIsKnown == \A r \in Runs :
    /\ \A b \in Budgets : gov[r][b] = "held" => b \in known[r] \cup lost[r]
    /\ pc[r] \in Finished \/ (accounted[r] > 0 /\ pc[r] # "settle") => known[r] = {}

(* Only a run that worked is accounted.                                    *)
AccountedLate == \A r \in Runs :
    /\ accounted[r] > 0 => pc[r] \in Late
    /\ pc[r] = "settle" => accounted[r] > 0

(* A second accounting is the catch's, and there is no third.              *)
AtMostTwice == \A r \in Runs :
    /\ InTx(r) \/ pc[r] = "account" => accounted[r] <= (IF caught[r] THEN 1 ELSE 0)
    /\ pc[r] = "settle" => accounted[r] <= (IF caught[r] THEN 2 ELSE 1)
    /\ pc[r] = "post" => accounted[r] <= 1

(* What became of a hold that went back.                                   *)
SpentOrFreed == \A r \in Runs, b \in Budgets :
    /\ gov[r][b] = "spent" => accounted[r] > 0 /\ made[r] > 0
    /\ gov[r][b] = "freed" => \/ accounted[r] = 0 /\ pc[r] \in Finished
                              \/ made[r] = 0 /\ pc[r] \in Late
                              \/ r \in Free \cap SilentFor

(* Without the tiers an open transaction holds the rows it will write,     *)
(* alone, and has counted what is committed there.                         *)
RowsAreLocked == ~tiers =>
    /\ \A r \in Runs, row \in Rows : tx[r].draft[row] > 0 => row \in tx[r].locks
    /\ \A r, s \in Runs : r # s => tx[r].locks \cap tx[s].locks = {}
    /\ \A r \in Runs, row \in Rows : free[row] + tx[r].draft[row] <= Cap
    /\ \A row \in Rows : free[row] <= Cap

(* With them the store is ahead of PostgreSQL, and of what will be written.*)
StoreIsAhead == tiers =>
    \A row \in Rows : /\ store[row] <= Cap /\ free[row] <= store[row]
                      /\ \A r \in Runs : tx[r].draft[row] <= store[row]
                      /\ \A r \in Runs : pc[r] = "mirror" /\ Mirrored(r) = row => tx[r].told <= store[row]

(* reserve() counts only in a window it read with room.                    *)
CountsWithRoom == \A r \in Runs : pc[r] = "count" => ~Full(seen[r])

BooksInv == /\ TypeOK /\ TxInOrder /\ AdmitInOrder /\ HeldIsKnown /\ AccountedLate /\ AtMostTwice /\ SpentOrFreed
            /\ RowsAreLocked /\ StoreIsAhead /\ CountsWithRoom

---------------------------------------------------------------------------------
(* The operators.                                                          *)

LEMMA MinOfTwo == ASSUME NEW a \in Nat, NEW b \in Nat
                  PROVE  Min({a, b}) \in {a, b} /\ Min({a, b}) <= a /\ Min({a, b}) <= b
<1>1. \E x \in {a, b} : \A y \in {a, b} : x <= y
  OBVIOUS
<1> QED
  BY <1>1, Zenon DEF Min

LEMMA MaxOfTwo == ASSUME NEW a \in Nat, NEW b \in Nat
                  PROVE  Max({a, b}) \in {a, b} /\ Max({a, b}) >= a /\ Max({a, b}) >= b
<1>1. \E x \in {a, b} : \A y \in {a, b} : x >= y
  OBVIOUS
<1> QED
  BY <1>1, Zenon DEF Max

LEMMA MaxOfThree == ASSUME NEW a \in Nat, NEW b \in Nat, NEW c \in Nat
                    PROVE  /\ Max({a, b, c}) \in {a, b, c}
                           /\ Max({a, b, c}) >= a /\ Max({a, b, c}) >= b /\ Max({a, b, c}) >= c
<1>1. \E x \in {a, b, c} : \A y \in {a, b, c} : x >= y
  OBVIOUS
<1> QED
  BY <1>1, Zenon DEF Max

(* What the store answers with is one of the totals it was told.           *)
LEMMA InStoreIs ==
    ASSUME NEW r, store[Row(r)] \in Nat, free[Row(r)] \in Nat, tx[r].draft[Row(r)] \in Nat
    PROVE  /\ InStore(r) \in Nat /\ InStore(r) \in {store[Row(r)], free[Row(r)], tx[r].draft[Row(r)]}
           /\ InStore(r) >= store[Row(r)]
<1> DEFINE total == Max({store[Row(r)], free[Row(r)], tx[r].draft[Row(r)]})
<1>1. /\ total \in {store[Row(r)], free[Row(r)], tx[r].draft[Row(r)]}
      /\ total >= store[Row(r)]
  BY MaxOfThree
<1>2. InStore(r) = total
  BY Zenon DEF InStore
<1> HIDE DEF total
<1> QED
  BY <1>1, <1>2

(* A grant never passes what the allowance has left.                       *)
LEMMA GrantFits == ASSUME NEW used \in Nat
                   PROVE  Grant(used) \in Nat /\ (used <= Cap => used + Grant(used) <= Cap)
<1> DEFINE left == IF used < Cap THEN Cap - used ELSE 0
<1>1. left \in Nat /\ Quantity \in Nat /\ Cap \in Nat /\ (used <= Cap => used + left <= Cap)
  BY AccountingAssumption
<1>2. Min({Quantity, left}) \in {Quantity, left} /\ Min({Quantity, left}) <= left
  BY <1>1, MinOfTwo
<1>3. Grant(used) = Min({Quantity, left})
  BY DEF Grant
<1> HIDE DEF left
<1> QED
  BY <1>1, <1>2, <1>3

(* The attempt that claims next, and the one whose total is mirrored, are  *)
(* attempts of the run.                                                    *)
LEMMA RowIsRow == ASSUME TypeOK, TxInOrder, NEW r \in Runs, Claiming(r)
                  PROVE  Row(r) \in Rows
<1>1. Len(tx[r].claims) + 1 \in 1..Len(Attempts[r])
  BY AccountingAssumption DEF Claiming, TypeOK, TxInOrder
<1> QED
  BY <1>1, AccountingAssumption DEF Row, Rows

LEMMA MirroredIsRow == ASSUME TypeOK, TxInOrder, NEW r \in Runs, pc[r] = "mirror"
                       PROVE  Mirrored(r) \in Rows
<1>1. Len(tx[r].claims) \in 1..Len(Attempts[r])
  BY AccountingAssumption DEF TypeOK, TxInOrder
<1> QED
  BY <1>1, AccountingAssumption DEF Mirrored, Rows

LEMMA NextIsBudget == ASSUME AdmitInOrder, NEW r \in Runs, pc[r] = "admit"
                      PROVE  \/ known[r] = {} /\ NextBudget(r) = "subject"
                             \/ known[r] = {"subject"} /\ NextBudget(r) = "project"
<1>1. Cardinality({}) = 0 /\ Cardinality({"subject"}) = 1
  BY FS_EmptySet, FS_Singleton
<1>2. known[r] \in {{}, {"subject"}}
  BY Zenon DEF AdmitInOrder
<1>3. Order[1] = "subject" /\ Order[2] = "project"
  BY DEF Order
<1>4. CASE known[r] = {}
  BY <1>1, <1>3, <1>4 DEF NextBudget
<1>5. CASE known[r] = {"subject"}
  BY <1>1, <1>3, <1>5 DEF NextBudget
<1> QED
  BY <1>2, <1>4, <1>5

(* What the writes of a transaction do.                                    *)
TxRecord == [locks : SUBSET Rows, draft : [Rows -> Nat], claims : Seq(Nat), told : Nat]

LEMMA TxFields ==
    ASSUME NEW t \in TxRecord
    PROVE  /\ \A T \in Nat, C \in Seq(Nat) : [t EXCEPT !.told = T, !.claims = C] \in TxRecord
           /\ \A C \in Seq(Nat) : [t EXCEPT !.claims = C] \in TxRecord
  BY DEF TxRecord

LEMMA ClaimsGrow == ASSUME NEW c \in Seq(Nat), NEW n \in Nat
                    PROVE  Append(c, n) \in Seq(Nat) /\ Len(Append(c, n)) = Len(c) + 1
  OBVIOUS

LEMMA TakeEffect ==
    ASSUME TypeOK, TxInOrder, NEW r \in Runs, Claiming(r), Take(r)
    PROVE  LET grant == Grant(free[Row(r)] + tx[r].draft[Row(r)]) IN
           /\ tx' \in [Runs -> TxRecord]
           /\ \A s \in Runs : s # r => tx'[s] = tx[s]
           /\ tx'[r].locks = tx[r].locks \cup {Row(r)}
           /\ tx'[r].draft = [tx[r].draft EXCEPT ![Row(r)] = @ + grant]
           /\ tx'[r].claims = Append(tx[r].claims, grant)
<1> DEFINE grant == Grant(free[Row(r)] + tx[r].draft[Row(r)])
           row   == Row(r)
           t     == tx[r]
<1>1. row \in Rows /\ tx \in [Runs -> TxRecord]
  BY RowIsRow DEF TypeOK, TxRecord
<1>2. t \in TxRecord /\ free[row] + t.draft[row] \in Nat
  BY <1>1 DEF TypeOK, TxRecord
<1>3. grant \in Nat
  BY <1>2, GrantFits
<1>4. tx' = [tx EXCEPT ![r].locks = @ \cup {row}, ![r].draft[row] = @ + grant, ![r].claims = Append(@, grant)]
  BY DEF Take
<1> HIDE DEF grant, row
<1>5. tx' = [tx EXCEPT ![r] = [t EXCEPT !.locks = @ \cup {row}, !.draft[row] = @ + grant, !.claims = Append(@, grant)]]
  BY <1>1, <1>2, <1>4 DEF TxRecord
<1>6. tx'[r] = [t EXCEPT !.locks = @ \cup {row}, !.draft[row] = @ + grant, !.claims = Append(@, grant)]
  BY <1>1, <1>5
<1>7. /\ tx'[r].locks = t.locks \cup {row}
      /\ tx'[r].draft = [t.draft EXCEPT ![row] = @ + grant]
      /\ tx'[r].claims = Append(t.claims, grant)
  BY <1>2, <1>6 DEF TxRecord
<1>8. Append(t.claims, grant) \in Seq(Nat)
  BY <1>2, <1>3, ClaimsGrow DEF TxRecord
<1>9. [t.draft EXCEPT ![row] = @ + grant] \in [Rows -> Nat] /\ t.locks \cup {row} \in SUBSET Rows
  BY <1>1, <1>2, <1>3 DEF TxRecord
<1>10. tx'[r] = [t EXCEPT !.locks = t.locks \cup {row}, !.draft = [t.draft EXCEPT ![row] = @ + grant],
                          !.claims = Append(t.claims, grant)]
  BY <1>2, <1>6 DEF TxRecord
<1>11. tx'[r] \in TxRecord
  <2> DEFINE L == t.locks \cup {row}
             D == [t.draft EXCEPT ![row] = @ + grant]
             C == Append(t.claims, grant)
  <2>1. L \in SUBSET Rows /\ D \in [Rows -> Nat] /\ C \in Seq(Nat)
    BY <1>8, <1>9
  <2>2. tx'[r] = [t EXCEPT !.locks = L, !.draft = D, !.claims = C]
    BY <1>10
  <2> HIDE DEF L, D, C
  <2> HIDE DEF t
  <2> QED
    BY <1>2, <2>1, <2>2 DEF TxRecord
<1> QED
  BY <1>1, <1>5, <1>7, <1>11 DEF grant, row

LEMMA StoreEffect ==
    ASSUME TypeOK, TxInOrder, NEW r \in Runs, Claiming(r), StoreClaim(r)
    PROVE  LET total == InStore(r) + Grant(InStore(r)) IN
           /\ InStore(r) \in Nat /\ total \in Nat
           /\ store' = [store EXCEPT ![Row(r)] = total]
           /\ tx' = [tx EXCEPT ![r] = [tx[r] EXCEPT !.told = total, !.claims = Append(tx[r].claims, Grant(InStore(r)))]]
           /\ tx' \in [Runs -> TxRecord]
<1>1. Row(r) \in Rows
  BY RowIsRow
<1>2. tx[r] \in TxRecord /\ store[Row(r)] \in Nat /\ free[Row(r)] \in Nat /\ tx[r].draft[Row(r)] \in Nat
  BY <1>1 DEF TypeOK, TxRecord
<1>3. InStore(r) \in Nat
  BY <1>2, InStoreIs
<1>4. Grant(InStore(r)) \in Nat
  BY <1>3, GrantFits
<1>5. tx' = [tx EXCEPT ![r] = [tx[r] EXCEPT !.told = InStore(r) + Grant(InStore(r)),
                                            !.claims = Append(tx[r].claims, Grant(InStore(r)))]]
  BY <1>2 DEF StoreClaim, TypeOK, TxRecord
<1>6. Append(tx[r].claims, Grant(InStore(r))) \in Seq(Nat)
  BY <1>2, <1>4, ClaimsGrow DEF TxRecord
<1>7. [tx[r] EXCEPT !.told = InStore(r) + Grant(InStore(r)), !.claims = Append(tx[r].claims, Grant(InStore(r)))] \in TxRecord
  <2>1. tx[r] \in TxRecord /\ InStore(r) + Grant(InStore(r)) \in Nat
    BY <1>2, <1>3, <1>4
  <2> QED
    BY <2>1, <1>6, TxFields, Zenon
<1> QED
  BY <1>3, <1>4, <1>5, <1>7 DEF StoreClaim, TypeOK, TxRecord

LEMMA SilentEffect ==
    ASSUME TypeOK, TxInOrder, NEW r \in Runs, StoreSilent(r)
    PROVE  /\ InStore(r) \in Nat
           /\ \E total \in {store[Row(r)], InStore(r) + Grant(InStore(r))} : store' = [store EXCEPT ![Row(r)] = total]
           /\ store' \in [Rows -> Nat]
           /\ tx' = [tx EXCEPT ![r] = [tx[r] EXCEPT !.claims = Append(tx[r].claims, 0)]]
           /\ tx' \in [Runs -> TxRecord]
<1>1. Claiming(r) /\ Row(r) \in Rows
  BY RowIsRow DEF StoreSilent
<1>2. tx[r] \in TxRecord /\ store[Row(r)] \in Nat /\ free[Row(r)] \in Nat /\ tx[r].draft[Row(r)] \in Nat
  BY <1>1 DEF TypeOK, TxRecord
<1>3. InStore(r) \in Nat
  BY <1>2, InStoreIs
<1>4. Grant(InStore(r)) \in Nat
  BY <1>3, GrantFits
<1>5. tx' = [tx EXCEPT ![r] = [tx[r] EXCEPT !.claims = Append(tx[r].claims, 0)]]
  BY <1>2 DEF StoreSilent, TypeOK, TxRecord
<1>6. [tx[r] EXCEPT !.claims = Append(tx[r].claims, 0)] \in TxRecord
  <2>1. Append(tx[r].claims, 0) \in Seq(Nat)
    BY <1>2, ClaimsGrow DEF TxRecord
  <2> QED
    BY <1>2, <2>1, TxFields, Zenon
<1>7. PICK total \in {store[Row(r)], InStore(r) + Grant(InStore(r))} : store' = [store EXCEPT ![Row(r)] = total]
  BY DEF StoreSilent
<1>8. store' \in [Rows -> Nat]
  BY <1>1, <1>2, <1>3, <1>4, <1>7 DEF TypeOK
<1>9. tx' \in [Runs -> TxRecord]
  BY <1>5, <1>6 DEF TypeOK, TxRecord
<1> QED
  BY <1>3, <1>5, <1>7, <1>8, <1>9

LEMMA MirrorEffect ==
    ASSUME TypeOK, TxInOrder, NEW r \in Runs, Mirror(r)
    PROVE  /\ tx' \in [Runs -> TxRecord]
           /\ \A s \in Runs : s # r => tx'[s] = tx[s]
           /\ tx'[r].locks = tx[r].locks \cup {Mirrored(r)}
           /\ tx'[r].draft = [tx[r].draft EXCEPT ![Mirrored(r)] = Max({@, tx[r].told})]
           /\ tx'[r].claims = tx[r].claims
<1> DEFINE row == Mirrored(r)
           t   == tx[r]
           top == Max({t.draft[row], t.told})
<1>1. row \in Rows /\ tx \in [Runs -> TxRecord]
  BY MirroredIsRow DEF Mirror, TypeOK, TxRecord
<1>2. t \in TxRecord /\ t.draft[row] \in Nat /\ t.told \in Nat
  BY <1>1 DEF TxRecord
<1>3. top \in Nat
  BY <1>2, MaxOfTwo
<1>4. tx' = [tx EXCEPT ![r].locks = @ \cup {row}, ![r].draft[row] = Max({@, t.told}), ![r].told = 0]
  BY DEF Mirror
<1> HIDE DEF row
<1>5. tx' = [tx EXCEPT ![r] = [t EXCEPT !.locks = @ \cup {row}, !.draft[row] = Max({@, t.told}), !.told = 0]]
  BY <1>1, <1>2, <1>4 DEF TxRecord
<1>6. tx'[r] = [t EXCEPT !.locks = @ \cup {row}, !.draft[row] = Max({@, t.told}), !.told = 0]
  BY <1>1, <1>5
<1>7. /\ tx'[r].locks = t.locks \cup {row}
      /\ tx'[r].draft = [t.draft EXCEPT ![row] = Max({@, t.told})]
      /\ tx'[r].claims = t.claims
  BY <1>2, <1>6 DEF TxRecord
<1>8. [t.draft EXCEPT ![row] = top] \in [Rows -> Nat] /\ t.locks \cup {row} \in SUBSET Rows
  BY <1>1, <1>2, <1>3 DEF TxRecord
<1>9. tx'[r] = [t EXCEPT !.locks = t.locks \cup {row}, !.draft = [t.draft EXCEPT ![row] = top], !.told = 0]
  BY <1>2, <1>6 DEF TxRecord
<1>10. tx'[r] \in TxRecord
  <2> DEFINE L == t.locks \cup {row}
             D == [t.draft EXCEPT ![row] = top]
  <2>1. L \in SUBSET Rows /\ D \in [Rows -> Nat] /\ 0 \in Nat
    BY <1>8
  <2>2. tx'[r] = [t EXCEPT !.locks = L, !.draft = D, !.told = 0]
    BY <1>9
  <2> HIDE DEF L, D
  <2> HIDE DEF t
  <2> QED
    BY <1>2, <2>1, <2>2 DEF TxRecord
<1> QED
  BY <1>1, <1>5, <1>7, <1>10 DEF row

(* What a return of holds does: those that Valkey took in time become `as`,*)
(* those that are still held are lost, and the run knows none.             *)
LEMMA ReturnEffect ==
    ASSUME TypeOK, NEW r \in Runs, NEW as \in {"freed", "spent"},
           NEW holds \in [Budgets -> {"none", "held", "spent", "freed", "expired"}], Return(r, holds, as)
    PROVE  /\ gov' \in [Runs -> [Budgets -> {"none", "held", "spent", "freed", "expired"}]]
           /\ known' = [known EXCEPT ![r] = {}] /\ known' \in [Runs -> SUBSET Budgets]
           /\ lost' \in [Runs -> SUBSET Budgets]
           /\ \A b \in Budgets : /\ gov'[r][b] = holds[b] \/ (gov'[r][b] = as /\ b \in known[r])
                                 /\ gov'[r][b] = "held" => b \in lost'[r]
           /\ \A s \in Runs : s # r => gov'[s] = gov[s] /\ lost'[s] = lost[s]
<1>1. PICK done \in SUBSET known[r] :
          /\ gov' = [gov EXCEPT ![r] = [b \in Budgets |-> IF b \in done THEN as ELSE holds[b]]]
          /\ lost' = [lost EXCEPT ![r] = @ \cup {b \in Budgets : b \notin done /\ holds[b] = "held"}]
          /\ known' = [known EXCEPT ![r] = {}]
  BY DEF Return, InTime
<1> QED
  BY <1>1 DEF TypeOK

(* However the work of a run ends.                                         *)
LEMMA WorksAnyhow ==
    ASSUME NEW r \in Runs, Answer(r) \/ Break(r) \/ Cancel(r)
    PROVE  \E tokens \in 0..Len(Attempts[r]), next \in {"account", "close"}, c \in BOOLEAN :
               Works(r, tokens, [caught |-> c, next |-> next])
<1>1. CASE Answer(r)
  <2>1. PICK tokens \in 1..Len(Attempts[r]) : Works(r, tokens, [caught |-> FALSE, next |-> "account"])
    BY <1>1, Zenon DEF Answer
  <2>2. tokens \in 0..Len(Attempts[r]) /\ FALSE \in BOOLEAN /\ "account" \in {"account", "close"}
    BY AccountingAssumption
  <2> QED
    BY <2>1, <2>2, Zenon
<1>2. CASE Break(r)
  BY <1>2, Zenon DEF Break
<1>3. CASE Cancel(r)
  BY <1>3, Zenon DEF Cancel
<1> QED
  BY <1>1, <1>2, <1>3

---------------------------------------------------------------------------------
(* Types.                                                                  *)

LEMMA InitBooks == Init => BooksInv
<1> SUFFICES ASSUME Init PROVE BooksInv
  OBVIOUS
<1>1. TypeOK
  <2>1. Unused \in [requests : Nat, tokens : Nat] /\ NoTx \in TxRecord
    BY DEF Unused, NoTx, NoDraft, TxRecord
  <2>2. gov \in [Runs -> [Budgets -> {"none", "held", "spent", "freed", "expired"}]]
    BY DEF Init
  <2>3. tx \in [Runs -> TxRecord]
    BY <2>1 DEF Init
  <2>4. readings \in [Runs -> Seq(Nat)] /\ accounted \in [Runs -> 0..2] /\ died \in BOOLEAN
    <3>1. <<>> \in Seq(Nat) /\ 0 \in 0..2
      OBVIOUS
    <3> QED
      BY <3>1 DEF Init
  <2>5. free \in [Rows -> Nat] /\ store \in [Rows -> Nat] /\ made \in [Runs -> Nat]
    BY DEF Init
  <2>6. known \in [Runs -> SUBSET Budgets] /\ lost \in [Runs -> SUBSET Budgets] /\ caught \in [Runs -> BOOLEAN]
    BY DEF Init
  <2> QED
    BY <2>1, <2>2, <2>3, <2>4, <2>5, <2>6 DEF Init, TypeOK, TxRecord
<1>2. /\ \A r \in Runs : pc[r] = "new" /\ accounted[r] = 0 /\ made[r] = 0 /\ known[r] = {} /\ tx[r] = NoTx
      /\ \A r \in Runs, b \in Budgets : gov[r][b] = "none"
      /\ \A row \in Rows : free[row] = 0 /\ store[row] = 0 /\ NoDraft[row] = 0
  BY DEF Init, NoDraft
<1>3. TxInOrder
  <2>1. NoTx.claims = <<>> /\ \A r \in Runs : Len(Attempts[r]) \in Nat
    BY AccountingAssumption DEF NoTx
  <2> QED
    BY <1>2, <2>1 DEF TxInOrder, InTx
<1>4. AdmitInOrder /\ HeldIsKnown /\ AccountedLate /\ AtMostTwice /\ SpentOrFreed /\ CountsWithRoom
  BY <1>2 DEF AdmitInOrder, HeldIsKnown, AccountedLate, AtMostTwice, SpentOrFreed, CountsWithRoom, InTx, Finished
<1>5. RowsAreLocked /\ StoreIsAhead
  BY <1>2, AccountingAssumption DEF RowsAreLocked, StoreIsAhead, NoTx
<1> QED
  BY <1>1, <1>3, <1>4, <1>5 DEF BooksInv

(* One step per action; the transaction is the one with structure.         *)
LEMMA StepType == BooksInv /\ [Next]_vars => TypeOK'
<1> SUFFICES ASSUME BooksInv, [Next]_vars PROVE TypeOK'
  OBVIOUS
<1>t. TypeOK /\ TxInOrder /\ AdmitInOrder /\ AtMostTwice
  BY DEF BooksInv
<1> USE DEF still, tables, valkey, Go
<1>u. /\ Unused \in [requests : Nat, tokens : Nat]
      /\ NoTx \in [locks : SUBSET Rows, draft : [Rows -> Nat], claims : Seq(Nat), told : Nat]
  BY DEF Unused, NoTx, NoDraft
<1>1. ASSUME NEW r \in Runs, AdmitHold(r) PROVE TypeOK'
  <2>1. NextBudget(r) \in Budgets
    BY <1>1, <1>t, NextIsBudget DEF AdmitHold, Budgets
  <2> QED
    BY <1>1, <1>t, <2>1 DEF AdmitHold, TypeOK
<1>2. ASSUME NEW r \in Runs, AdmitRefused(r) PROVE TypeOK'
  BY <1>2, <1>t, ReturnEffect DEF AdmitRefused, TypeOK, Finished
<1>3. ASSUME NEW r \in Runs, AdmitTimesOut(r) PROVE TypeOK'
  BY <1>3, <1>t, ReturnEffect DEF AdmitTimesOut, TypeOK, Finished
<1>4. ASSUME NEW r \in Runs, NEW b \in Budgets, Expire(r, b) PROVE TypeOK'
  BY <1>4, <1>t DEF Expire, TypeOK
<1>5. ASSUME NEW r \in Runs, Create(r) PROVE TypeOK'
  BY <1>5, <1>t DEF Create, TypeOK
<1>6. ASSUME NEW r \in Runs, QuotaRead(r) PROVE TypeOK'
  <2>1. CASE Full(count)
    <3>1. Return(r, gov[r], "freed") /\ Go(r, "refused") /\ UNCHANGED <<seen, still, tables, store, made, caught, tx>>
      BY <1>6, <2>1, Zenon DEF QuotaRead
    <3> QED
      BY <3>1, <1>t, ReturnEffect DEF TypeOK, Finished
  <2>2. CASE ~Full(count)
    BY <1>6, <2>2, <1>t DEF QuotaRead, TypeOK
  <2> QED
    BY <2>1, <2>2
<1>7. ASSUME NEW r \in Runs, QuotaCount(r) PROVE TypeOK'
  <2>1. count' \in [requests : Nat, tokens : Nat]
    <3>1. count' = [count EXCEPT !.requests = @ + 1] /\ count \in [requests : Nat, tokens : Nat]
      BY <1>7, <1>t, Zenon DEF QuotaCount, TypeOK
    <3> QED
      BY <3>1
  <2> QED
    BY <1>7, <1>t, <1>u, <2>1 DEF QuotaCount, TypeOK
<1>8. ASSUME NEW r \in Runs, CreateFails(r) PROVE TypeOK'
  BY <1>8, <1>t, <1>u, ReturnEffect DEF CreateFails, TypeOK, Finished
<1>9. ASSUME NEW r \in Runs, Answer(r) \/ Break(r) \/ Cancel(r) PROVE TypeOK'
  <2>1. PICK tokens \in 0..Len(Attempts[r]), next \in {"account", "close"}, c \in BOOLEAN :
            Works(r, tokens, [caught |-> c, next |-> next])
    BY <1>9, WorksAnyhow
  <2> QED
    BY <2>1, <1>t, AccountingAssumption DEF Works, TypeOK
<1>10. ASSUME NEW r \in Runs, AccountBegin(r) PROVE TypeOK'
  BY <1>10, <1>t DEF AccountBegin, TypeOK
<1>11. ASSUME NEW r \in Runs, Claim(r) PROVE TypeOK'
  BY <1>11, <1>t, TakeEffect DEF Claim, TypeOK, TxRecord
<1>12. ASSUME NEW r \in Runs, StoreClaim(r) PROVE TypeOK'
  <2>1. Claiming(r) /\ Row(r) \in Rows
    BY <1>12, <1>t, RowIsRow DEF StoreClaim
  <2>2. tx' \in [Runs -> TxRecord] /\ store' \in [Rows -> Nat]
    BY <1>12, <1>t, <2>1, StoreEffect DEF TypeOK
  <2> QED
    BY <1>12, <1>t, <2>2 DEF StoreClaim, TypeOK, TxRecord
<1>13. ASSUME NEW r \in Runs, StoreSilent(r) PROVE TypeOK'
  <2>1. tx' \in [Runs -> TxRecord] /\ store' \in [Rows -> Nat]
    BY <1>13, <1>t, SilentEffect
  <2> QED
    BY <1>13, <1>t, <2>1 DEF StoreSilent, TypeOK, TxRecord
<1>14. ASSUME NEW r \in Runs, Mirror(r) PROVE TypeOK'
  BY <1>14, <1>t, MirrorEffect DEF Mirror, TypeOK, TxRecord
<1>15. ASSUME NEW r \in Runs, Commit(r) PROVE TypeOK'
  <2>1. count' \in [requests : Nat, tokens : Nat]
    <3>1. made[r] * Quantity \in Nat
      BY <1>t, AccountingAssumption DEF TypeOK
    <3>2. count \in [requests : Nat, tokens : Nat]
      BY <1>t DEF TypeOK
    <3>3. count' = count \/ count' = [count EXCEPT !.tokens = @ + made[r] * Quantity]
      BY <1>15, Zenon DEF Commit
    <3> DEFINE k == made[r] * Quantity
    <3> HIDE DEF k
    <3>4. count' = count \/ count' = [count EXCEPT !.tokens = @ + k]
      BY <3>3, Zenon DEF k
    <3> QED
      BY <3>1, <3>2, <3>4 DEF k
  <2>2. free' \in [Rows -> Nat]
    <3>1. \A row \in Rows : free[row] \in Nat /\ tx[r].draft[row] \in Nat
      BY <1>t DEF TypeOK
    <3>2. \A row \in Rows : Max({free[row], tx[r].draft[row]}) \in Nat
      <4> TAKE row \in Rows
      <4>1. free[row] \in Nat /\ tx[r].draft[row] \in Nat
        BY <3>1
      <4>2. Max({free[row], tx[r].draft[row]}) \in {free[row], tx[r].draft[row]}
        BY <4>1, MaxOfTwo
      <4> QED
        BY <4>1, <4>2
    <3> QED
      BY <1>15, <3>1, <3>2 DEF Commit
  <2>3. readings' \in [Runs -> Seq(Nat)]
    BY <1>15, <1>t DEF Commit, TypeOK
  <2>4. accounted' \in [Runs -> 0..2]
    <3>1. accounted' = [accounted EXCEPT ![r] = @ + 1] /\ pc[r] = "claim"
      BY <1>15, Zenon DEF Commit
    <3>2. accounted \in [Runs -> 0..2]
      BY <1>t DEF TypeOK
    <3>3. accounted[r] <= (IF caught[r] THEN 1 ELSE 0)
      BY <1>t, <3>1, Zenon DEF AtMostTwice, InTx
    <3>4. accounted[r] <= 1
      BY <3>2, <3>3
    <3> QED
      BY <3>1, <3>2, <3>4
  <2>5. tx' \in [Runs -> TxRecord]
    BY <1>15, <1>t, <1>u DEF Commit, TypeOK, TxRecord
  <2> QED
    BY <1>15, <1>t, <2>1, <2>2, <2>3, <2>4, <2>5 DEF Commit, TypeOK, TxRecord
<1>16. ASSUME NEW r \in Runs, Rollback(r) PROVE TypeOK'
  BY <1>16, <1>t, <1>u DEF Rollback, Catch, TypeOK
<1>17. ASSUME NEW r \in Runs, Settle(r) PROVE TypeOK'
  BY <1>17, <1>t, ReturnEffect DEF Settle, TypeOK
<1>18. ASSUME NEW r \in Runs, PostFails(r) PROVE TypeOK'
  BY <1>18, <1>t DEF PostFails, Catch, TypeOK
<1>19. ASSUME NEW r \in Runs, Close(r) PROVE TypeOK'
  BY <1>19, <1>t, ReturnEffect DEF Close, TypeOK, Finished
<1>20. CASE Die
  BY <1>20, <1>t, <1>u DEF Die, TypeOK, Finished
<1>21. CASE UNCHANGED vars
  BY <1>21, <1>t DEF vars, TypeOK
<1> QED
  BY <1>1, <1>2, <1>3, <1>4, <1>5, <1>6, <1>7, <1>8, <1>9, <1>10, <1>11, <1>12, <1>13, <1>14, <1>15, <1>16,
     <1>17, <1>18, <1>19, <1>20, <1>21 DEF Next, Step

---------------------------------------------------------------------------------
(* The allowance.                                                          *)

TxInv == TxInOrder /\ RowsAreLocked /\ StoreIsAhead

LEMMA Tiers == TypeOK => tiers \in BOOLEAN
  BY AccountingAssumption DEF TypeOK, tiers

(* A step of a run that is in no transaction disturbs none.                *)
LEMMA Elsewhere ==
    ASSUME TypeOK, TxInv, TypeOK', NEW r \in Runs, ~InTx(r), NEW step, step # "mirror", pc' = [pc EXCEPT ![r] = step],
           NEW n \in 0..Len(Attempts[r]), made' = [made EXCEPT ![r] = n], UNCHANGED <<world, free, store, tx>>
    PROVE  TxInv'
<1>1. TxInOrder'
  <2> SUFFICES ASSUME NEW s \in Runs
               PROVE  /\ made'[s] <= Len(Attempts[s]) /\ Len(tx[s].claims) <= made'[s]
                      /\ ~InTx(s)' => tx[s] = NoTx
                      /\ pc'[s] = "mirror" => tiers /\ Len(tx[s].claims) > 0
    BY DEF TxInOrder, tiers
  <2>1. CASE s = r
    <3>1. tx[r] = NoTx /\ Len(NoTx.claims) = 0
      BY DEF TxInv, TxInOrder, NoTx
    <3>2. made'[r] = n /\ pc'[r] = step
      BY DEF TypeOK
    <3> QED
      BY <2>1, <3>1, <3>2, AccountingAssumption
  <2>2. CASE s # r
    BY <2>2 DEF TxInv, TxInOrder, TypeOK, InTx
  <2> QED
    BY <2>1, <2>2
<1>2. RowsAreLocked'
  BY DEF TxInv, RowsAreLocked, tiers
<1>3. StoreIsAhead'
  <2>1. \A s \in Runs : pc'[s] = "mirror" => pc[s] = "mirror" /\ Mirrored(s)' = Mirrored(s)
    BY DEF TypeOK, Mirrored
  <2> QED
    BY <2>1, Zenon DEF TxInv, StoreIsAhead, tiers
<1> QED
  BY <1>1, <1>2, <1>3 DEF TxInv

LEMMA ClaimKeeps == ASSUME TypeOK, TxInv, NEW r \in Runs, Claim(r) PROVE TxInv'
<1> DEFINE row == Row(r)
           grant == Grant(free[row] + tx[r].draft[row])
<1>1. /\ Claiming(r) /\ Take(r) /\ Holders(r) = {} /\ ~tiers /\ pc[r] = "claim"
      /\ UNCHANGED <<world, free, store, pc, made>>
  BY DEF Claim, Claiming, still, tables
<1>2. row \in Rows /\ tx \in [Runs -> TxRecord] /\ free \in [Rows -> Nat]
  BY <1>1, RowIsRow DEF TypeOK, TxInv, TxRecord
<1>3. /\ tx' \in [Runs -> TxRecord]
      /\ \A s \in Runs : s # r => tx'[s] = tx[s]
      /\ tx'[r].locks = tx[r].locks \cup {row}
      /\ tx'[r].draft = [tx[r].draft EXCEPT ![row] = @ + grant]
      /\ tx'[r].claims = Append(tx[r].claims, grant)
  BY <1>1, TakeEffect DEF TxInv
<1>4. free[row] + tx[r].draft[row] \in Nat
  BY <1>2 DEF TxRecord
<1>5. grant \in Nat /\ (free[row] + tx[r].draft[row] <= Cap => free[row] + tx[r].draft[row] + grant <= Cap)
  BY <1>4, GrantFits
<1>6. \A s \in Runs : s # r => row \notin tx[s].locks
  BY <1>1 DEF Holders
<1> HIDE DEF grant, row
<1>7. TxInOrder'
  <2>1. Len(tx'[r].claims) = Len(tx[r].claims) + 1 /\ Len(tx[r].claims) \in Nat
    BY <1>2, <1>3, <1>5, ClaimsGrow DEF TxRecord
  <2>2. Len(tx[r].claims) < made[r] /\ made[r] \in Nat
    BY <1>1 DEF Claiming, TypeOK
  <2> QED
    BY <1>1, <1>3, <2>1, <2>2 DEF TxInv, TxInOrder, InTx, tiers
<1>8. RowsAreLocked'
  <2>0. /\ \A s \in Runs, q \in Rows : tx[s].draft[q] > 0 => q \in tx[s].locks
        /\ \A s, t \in Runs : s # t => tx[s].locks \cap tx[t].locks = {}
        /\ \A s \in Runs, q \in Rows : free[q] + tx[s].draft[q] <= Cap
        /\ \A q \in Rows : free[q] <= Cap
    BY <1>1 DEF TxInv, RowsAreLocked
  <2>d. \A q \in Rows : tx'[r].draft[q] = IF q = row THEN tx[r].draft[row] + grant ELSE tx[r].draft[q]
    BY <1>2, <1>3 DEF TxRecord
  <2>n. \A s \in Runs, q \in Rows : tx[s].draft[q] \in Nat
    BY <1>2 DEF TxRecord
  <2>1. \A s \in Runs, q \in Rows : tx'[s].draft[q] > 0 => q \in tx'[s].locks
    <3> TAKE s \in Runs, q \in Rows
    <3>1. CASE s = r
      BY <3>1, <2>0, <2>d, <1>3
    <3>2. CASE s # r
      BY <3>2, <2>0, <1>3
    <3> QED
      BY <3>1, <3>2
  <2>2. \A s, t \in Runs : s # t => tx'[s].locks \cap tx'[t].locks = {}
    BY <2>0, <1>3, <1>6
  <2>3. \A s \in Runs, q \in Rows : free[q] + tx'[s].draft[q] <= Cap
    <3> TAKE s \in Runs, q \in Rows
    <3>1. CASE s = r /\ q = row
      BY <3>1, <2>0, <2>d, <2>n, <1>2, <1>5, AccountingAssumption
    <3>2. CASE s = r /\ q # row
      BY <3>2, <2>0, <2>d
    <3>3. CASE s # r
      BY <3>3, <2>0, <1>3
    <3> QED
      BY <3>1, <3>2, <3>3
  <2> QED
    BY <1>1, <2>0, <2>1, <2>2, <2>3 DEF RowsAreLocked
<1>9. StoreIsAhead'
  BY <1>1 DEF StoreIsAhead, tiers
<1> QED
  BY <1>7, <1>8, <1>9 DEF TxInv

(* With the tiers what the store says of a row is its counter.             *)
LEMMA StoreLeads == ASSUME TypeOK, TxInv, NEW r \in Runs, Claiming(r), tiers
                    PROVE  /\ InStore(r) = store[Row(r)] /\ store[Row(r)] \in Nat
                           /\ InStore(r) + Grant(InStore(r)) <= Cap /\ Grant(InStore(r)) \in Nat
<1>1. Row(r) \in Rows
  BY RowIsRow DEF TxInv
<1>2. store[Row(r)] \in Nat /\ free[Row(r)] \in Nat /\ tx[r].draft[Row(r)] \in Nat
  BY <1>1 DEF TypeOK
<1>3. store[Row(r)] <= Cap /\ free[Row(r)] <= store[Row(r)] /\ tx[r].draft[Row(r)] <= store[Row(r)]
  BY <1>1 DEF TxInv, StoreIsAhead
<1>4. /\ InStore(r) \in {store[Row(r)], free[Row(r)], tx[r].draft[Row(r)]}
      /\ InStore(r) >= store[Row(r)]
  BY <1>2, InStoreIs
<1>5. InStore(r) = store[Row(r)]
  BY <1>2, <1>3, <1>4
<1> QED
  BY <1>2, <1>3, <1>5, GrantFits

(* ... and the store only grows, up to what the card allows.               *)
LEMMA StoreGrows ==
    ASSUME TypeOK, TxInv, tiers, NEW row \in Rows, NEW total \in Nat, store[row] <= total, total <= Cap,
           store' = [store EXCEPT ![row] = total]
    PROVE  \A q \in Rows : store'[q] \in Nat /\ store[q] <= store'[q] /\ store'[q] <= Cap
<1>1. \A q \in Rows : store[q] \in Nat /\ store[q] <= Cap
  BY DEF TypeOK, TxInv, StoreIsAhead
<1> QED
  BY <1>1 DEF TypeOK

LEMMA StoreClaimKeeps == ASSUME TypeOK, TxInv, NEW r \in Runs, StoreClaim(r) PROVE TxInv'
<1> DEFINE row == Row(r)
           total == InStore(r) + Grant(InStore(r))
           claims == Append(tx[r].claims, Grant(InStore(r)))
<1>1. /\ Claiming(r) /\ tiers /\ pc[r] = "claim" /\ pc' = [pc EXCEPT ![r] = "mirror"]
      /\ UNCHANGED <<world, free, made>>
  BY DEF StoreClaim, Claiming, still, tables, Go
<1>2. row \in Rows /\ tx \in [Runs -> TxRecord]
  BY <1>1, RowIsRow DEF TypeOK, TxInv, TxRecord
<1>3. /\ store' = [store EXCEPT ![row] = total]
      /\ tx' = [tx EXCEPT ![r] = [tx[r] EXCEPT !.told = total, !.claims = claims]]
  BY <1>1, StoreEffect DEF TxInv
<1>4. total \in Nat /\ store[row] <= total /\ total <= Cap /\ Grant(InStore(r)) \in Nat
  BY <1>1, StoreLeads
<1>5. claims \in Seq(Nat) /\ Len(claims) = Len(tx[r].claims) + 1 /\ Len(tx[r].claims) \in Nat
  BY <1>2, <1>4, ClaimsGrow DEF TxRecord
<1>m. SubjectOf[r] = row[1] /\ row = <<SubjectOf[r], Attempts[r][Len(tx[r].claims) + 1]>>
  BY DEF Row
<1> HIDE DEF row, total, claims
<1>6. /\ tx'[r].draft = tx[r].draft /\ tx'[r].locks = tx[r].locks
      /\ tx'[r].told = total /\ tx'[r].claims = claims
      /\ \A s \in Runs : s # r => tx'[s] = tx[s]
  BY <1>2, <1>3 DEF TxRecord
<1>7. pc'[r] = "mirror" /\ \A s \in Runs : s # r => pc'[s] = pc[s]
  BY <1>1 DEF TypeOK
<1>8. TxInOrder'
  <2>1. Len(tx[r].claims) < made[r] /\ made[r] \in Nat
    BY <1>1 DEF Claiming, TypeOK
  <2> QED
    BY <1>1, <1>5, <1>6, <1>7, <2>1 DEF TxInv, TxInOrder, InTx, tiers
<1>9. RowsAreLocked'
  BY <1>1 DEF RowsAreLocked, tiers
<1>10. StoreIsAhead'
  <2>1. \A q \in Rows : store'[q] \in Nat /\ store[q] <= store'[q] /\ store'[q] <= Cap
    BY <1>1, <1>2, <1>3, <1>4, StoreGrows
  <2>2. \A q \in Rows : store[q] \in Nat /\ free[q] \in Nat /\ free[q] <= store[q] /\
                       \A s \in Runs : tx[s].draft[q] \in Nat /\ tx[s].told \in Nat /\ tx[s].draft[q] <= store[q]
    BY <1>1 DEF TypeOK, TxInv, StoreIsAhead
  <2>3. Mirrored(r)' = row
    BY <1>5, <1>6, <1>m DEF Mirrored
  <2>4. \A s \in Runs : s # r => Mirrored(s)' = Mirrored(s)
    BY <1>6 DEF Mirrored
  <2>5. store'[row] = total
    BY <1>2, <1>3 DEF TypeOK
  <2>6. \A s \in Runs, q \in Rows : s # r /\ pc[s] = "mirror" /\ Mirrored(s) = q => tx[s].told <= store[q]
    BY <1>1 DEF TxInv, StoreIsAhead
  <2>7. \A s \in Runs, q \in Rows : pc'[s] = "mirror" /\ Mirrored(s)' = q => tx'[s].told <= store'[q]
    <3> SUFFICES ASSUME NEW s \in Runs, NEW q \in Rows, pc'[s] = "mirror", Mirrored(s)' = q
                 PROVE  tx'[s].told <= store'[q]
      OBVIOUS
    <3>1. CASE s = r
      BY <3>1, <1>4, <1>6, <2>3, <2>5
    <3>2. CASE s # r
      <4>1. tx[s].told <= store[q] /\ tx'[s].told = tx[s].told
        BY <3>2, <1>6, <1>7, <2>4, <2>6
      <4> QED
        BY <4>1, <2>1, <2>2
    <3> QED
      BY <3>1, <3>2
  <2>8. \A s \in Runs, q \in Rows : tx'[s].draft[q] <= store'[q]
    <3>1. \A s \in Runs, q \in Rows : tx'[s].draft[q] = tx[s].draft[q]
      BY <1>6
    <3> QED
      BY <3>1, <2>1, <2>2
  <2>9. \A q \in Rows : free'[q] <= store'[q]
    BY <1>1, <2>1, <2>2
  <2> QED
    BY <2>1, <2>7, <2>8, <2>9, Zenon DEF StoreIsAhead
<1> QED
  BY <1>8, <1>9, <1>10 DEF TxInv

LEMMA StoreSilentKeeps == ASSUME TypeOK, TxInv, NEW r \in Runs, StoreSilent(r) PROVE TxInv'
<1> DEFINE row == Row(r)
           claims == Append(tx[r].claims, 0)
<1>1. /\ Claiming(r) /\ tiers /\ pc[r] = "claim" /\ UNCHANGED <<world, free, made, pc>>
  BY DEF StoreSilent, Claiming, still, tables
<1>2. row \in Rows /\ tx \in [Runs -> TxRecord]
  BY <1>1, RowIsRow DEF TypeOK, TxInv, TxRecord
<1>3. PICK total \in {store[row], InStore(r) + Grant(InStore(r))} : store' = [store EXCEPT ![row] = total]
  BY SilentEffect DEF TxInv
<1>4. tx' = [tx EXCEPT ![r] = [tx[r] EXCEPT !.claims = claims]]
  BY SilentEffect DEF TxInv
<1>5. total \in Nat /\ store[row] <= total /\ total <= Cap
  <2>1. store[row] <= Cap
    BY <1>1, <1>2 DEF TxInv, StoreIsAhead
  <2> QED
    BY <1>1, <1>3, <2>1, StoreLeads
<1>6. Len(claims) = Len(tx[r].claims) + 1 /\ Len(tx[r].claims) \in Nat
  BY <1>2, ClaimsGrow DEF TxRecord
<1> HIDE DEF row, claims
<1>7. /\ tx'[r].draft = tx[r].draft /\ tx'[r].locks = tx[r].locks
      /\ tx'[r].told = tx[r].told /\ tx'[r].claims = claims
      /\ \A s \in Runs : s # r => tx'[s] = tx[s]
  BY <1>2, <1>4 DEF TxRecord
<1>8. TxInOrder'
  <2>1. Len(tx[r].claims) < made[r] /\ made[r] \in Nat
    BY <1>1 DEF Claiming, TypeOK
  <2> QED
    BY <1>1, <1>6, <1>7, <2>1 DEF TxInv, TxInOrder, InTx, tiers
<1>9. RowsAreLocked'
  BY <1>1 DEF RowsAreLocked, tiers
<1>10. StoreIsAhead'
  <2>1. \A q \in Rows : store'[q] \in Nat /\ store[q] <= store'[q] /\ store'[q] <= Cap
    BY <1>1, <1>2, <1>3, <1>5, StoreGrows
  <2>2. \A q \in Rows : store[q] \in Nat /\ free[q] \in Nat /\ free[q] <= store[q] /\
                       \A s \in Runs : tx[s].draft[q] \in Nat /\ tx[s].told \in Nat /\ tx[s].draft[q] <= store[q]
    BY <1>1 DEF TypeOK, TxInv, StoreIsAhead
  <2>3. \A s \in Runs, q \in Rows : tx'[s].draft[q] = tx[s].draft[q]
    BY <1>7
  <2>4. \A s \in Runs : pc'[s] = "mirror" => pc[s] = "mirror" /\ Mirrored(s)' = Mirrored(s) /\ tx'[s].told = tx[s].told
    BY <1>1, <1>7 DEF Mirrored
  <2>5. \A s \in Runs, q \in Rows : pc[s] = "mirror" /\ Mirrored(s) = q => tx[s].told <= store[q]
    BY <1>1 DEF TxInv, StoreIsAhead
  <2>6. \A s \in Runs, q \in Rows : pc'[s] = "mirror" /\ Mirrored(s)' = q => tx'[s].told <= store'[q]
    <3> SUFFICES ASSUME NEW s \in Runs, NEW q \in Rows, pc'[s] = "mirror", Mirrored(s)' = q
                 PROVE  tx'[s].told <= store'[q]
      OBVIOUS
    <3>1. tx[s].told <= store[q] /\ tx'[s].told = tx[s].told
      BY <2>4, <2>5
    <3> QED
      BY <3>1, <2>1, <2>2
  <2>7. \A s \in Runs, q \in Rows : tx'[s].draft[q] <= store'[q]
    BY <2>1, <2>2, <2>3
  <2>8. \A q \in Rows : free'[q] <= store'[q]
    BY <1>1, <2>1, <2>2
  <2> QED
    BY <2>1, <2>6, <2>7, <2>8, Zenon DEF StoreIsAhead
<1> QED
  BY <1>8, <1>9, <1>10 DEF TxInv

LEMMA MirrorKeeps == ASSUME TypeOK, TxInv, NEW r \in Runs, Mirror(r) PROVE TxInv'
<1> DEFINE row == Mirrored(r)
           top == Max({tx[r].draft[row], tx[r].told})
<1>1. pc[r] = "mirror" /\ pc' = [pc EXCEPT ![r] = "claim"] /\ MirrorOf(r) = {} /\ UNCHANGED <<world, free, made, store>>
  BY DEF Mirror, still, tables, Go
<1>2. row \in Rows /\ tx \in [Runs -> TxRecord]
  BY <1>1, MirroredIsRow DEF TypeOK, TxInv, TxRecord
<1>3. /\ \A s \in Runs : s # r => tx'[s] = tx[s]
      /\ tx'[r].locks = tx[r].locks \cup {row}
      /\ tx'[r].draft = [tx[r].draft EXCEPT ![row] = Max({@, tx[r].told})]
      /\ tx'[r].claims = tx[r].claims
  BY MirrorEffect DEF TxInv
<1>4. tx[r].draft[row] \in Nat /\ tx[r].told \in Nat
  BY <1>2 DEF TxRecord
<1>5. top \in {tx[r].draft[row], tx[r].told} /\ top \in Nat
  BY <1>4, MaxOfTwo
<1>6. \A q \in Rows : tx'[r].draft[q] = IF q = row THEN top ELSE tx[r].draft[q]
  BY <1>2, <1>3 DEF TxRecord
<1> HIDE DEF row, top
<1>7. pc'[r] = "claim" /\ \A s \in Runs : s # r => pc'[s] = pc[s]
  BY <1>1 DEF TypeOK
<1>t. tiers
  BY <1>1 DEF TxInv, TxInOrder
<1>8. TxInOrder'
  BY <1>1, <1>3, <1>7 DEF TxInv, TxInOrder, InTx, tiers
<1>9. RowsAreLocked'
  BY <1>t, <1>1 DEF RowsAreLocked, tiers
<1>10. StoreIsAhead'
  <2>1. /\ \A q \in Rows : store[q] <= Cap /\ free[q] <= store[q]
        /\ \A s \in Runs, q \in Rows : tx[s].draft[q] <= store[q]
        /\ \A s \in Runs, q \in Rows : pc[s] = "mirror" /\ Mirrored(s) = q => tx[s].told <= store[q]
    BY <1>t DEF TxInv, StoreIsAhead
  <2>2. tx[r].told <= store[row]
    BY <1>1, <1>2, <2>1 DEF row
  <2>3. \A s \in Runs, q \in Rows : tx'[s].draft[q] <= store[q]
    BY <1>2, <1>3, <1>5, <1>6, <2>1, <2>2
  <2>4. \A s \in Runs : pc'[s] = "mirror" => s # r /\ pc[s] = "mirror" /\ Mirrored(s)' = Mirrored(s) /\ tx'[s] = tx[s]
    BY <1>3, <1>7 DEF Mirrored
  <2> QED
    BY <1>1, <2>1, <2>3, <2>4, Zenon DEF StoreIsAhead
<1> QED
  BY <1>8, <1>9, <1>10 DEF TxInv

LEMMA CommitKeeps == ASSUME TypeOK, TxInv, NEW r \in Runs, Commit(r) PROVE TxInv'
<1>1. /\ pc[r] = "claim" /\ pc' = [pc EXCEPT ![r] = "settle"] /\ tx' = [tx EXCEPT ![r] = NoTx]
      /\ UNCHANGED <<world, store, made>>
  BY DEF Commit, still, Go
<1>2. \A q \in Rows : free'[q] = IF tiers THEN Max({free[q], tx[r].draft[q]}) ELSE free[q] + tx[r].draft[q]
  BY DEF Commit
<1>3. /\ tx'[r] = NoTx /\ pc'[r] = "settle"
      /\ \A s \in Runs : s # r => tx'[s] = tx[s] /\ pc'[s] = pc[s]
  BY <1>1 DEF TypeOK
<1>4. NoTx.locks = {} /\ Len(NoTx.claims) = 0 /\ \A q \in Rows : NoTx.draft[q] = 0
  BY DEF NoTx, NoDraft
<1>5. \A q \in Rows : free[q] \in Nat /\ store[q] \in Nat /\ \A s \in Runs : tx[s].draft[q] \in Nat
  BY DEF TypeOK
<1>6. TxInOrder'
  BY <1>1, <1>3, <1>4 DEF TxInv, TxInOrder, InTx, tiers, TypeOK
<1>7. RowsAreLocked'
  <2> SUFFICES ASSUME ~tiers PROVE RowsAreLocked'
    BY <1>1 DEF RowsAreLocked, tiers
  <2>1. /\ \A s \in Runs, q \in Rows : tx[s].draft[q] > 0 => q \in tx[s].locks
        /\ \A s, t \in Runs : s # t => tx[s].locks \cap tx[t].locks = {}
        /\ \A s \in Runs, q \in Rows : free[q] + tx[s].draft[q] <= Cap
    BY DEF TxInv, RowsAreLocked
  <2>2. \A q \in Rows : free'[q] = free[q] + tx[r].draft[q] /\ free'[q] <= Cap
    BY <1>2, <2>1
  <2>3. \A s \in Runs, q \in Rows : tx'[s].draft[q] > 0 => q \in tx'[s].locks
    BY <1>3, <1>4, <2>1
  <2>4. \A s, t \in Runs : s # t => tx'[s].locks \cap tx'[t].locks = {}
    BY <1>3, <1>4, <2>1
  <2>5. \A s \in Runs, q \in Rows : free'[q] + tx'[s].draft[q] <= Cap
    <3> TAKE s \in Runs, q \in Rows
    <3>1. CASE s = r
      BY <3>1, <1>3, <1>4, <1>5, <2>2
    <3>2. CASE s # r /\ tx[r].draft[q] = 0
      BY <3>2, <1>3, <1>5, <2>1, <2>2
    <3>3. CASE s # r /\ tx[r].draft[q] > 0
      <4>1. q \in tx[r].locks /\ q \notin tx[s].locks
        BY <3>3, <2>1
      <4>2. tx[s].draft[q] = 0
        BY <4>1, <1>5, <2>1
      <4> QED
        BY <4>2, <3>3, <1>3, <1>5, <2>2
    <3> QED
      BY <3>1, <3>2, <3>3, <1>5
  <2> QED
    BY <2>2, <2>3, <2>4, <2>5 DEF RowsAreLocked
<1>8. StoreIsAhead'
  <2> SUFFICES ASSUME tiers PROVE StoreIsAhead'
    BY <1>1 DEF StoreIsAhead, tiers
  <2>1. /\ \A q \in Rows : store[q] <= Cap /\ free[q] <= store[q]
        /\ \A s \in Runs, q \in Rows : tx[s].draft[q] <= store[q]
        /\ \A s \in Runs, q \in Rows : pc[s] = "mirror" /\ Mirrored(s) = q => tx[s].told <= store[q]
    BY DEF TxInv, StoreIsAhead
  <2>2. \A q \in Rows : free'[q] <= store[q]
    <3> TAKE q \in Rows
    <3>1. free'[q] \in {free[q], tx[r].draft[q]}
      BY <1>2, <1>5, MaxOfTwo
    <3> QED
      BY <3>1, <2>1
  <2>3. \A s \in Runs, q \in Rows : tx'[s].draft[q] <= store[q]
    BY <1>3, <1>4, <1>5, <2>1
  <2>4. \A s \in Runs : pc'[s] = "mirror" => pc[s] = "mirror" /\ Mirrored(s)' = Mirrored(s) /\ tx'[s] = tx[s]
    BY <1>3 DEF Mirrored
  <2> QED
    BY <1>1, <2>1, <2>2, <2>3, <2>4, Zenon DEF StoreIsAhead
<1> QED
  BY <1>6, <1>7, <1>8 DEF TxInv

(* Transactions that roll back, one or all of them, write nothing.         *)
LEMMA RolledBack ==
    ASSUME TypeOK, TxInv, NEW R \in SUBSET Runs, UNCHANGED <<world, free, store, made>>,
           \A s \in R : tx'[s] = NoTx /\ pc'[s] # "mirror",
           \A s \in Runs \ R : tx'[s] = tx[s] /\ pc'[s] = pc[s]
    PROVE  TxInv'
<1>1. NoTx.locks = {} /\ Len(NoTx.claims) = 0 /\ \A q \in Rows : NoTx.draft[q] = 0
  BY DEF NoTx, NoDraft
<1>2. \A q \in Rows : free[q] \in Nat /\ store[q] \in Nat
  BY DEF TypeOK
<1>3. TxInOrder'
  BY <1>1 DEF TxInv, TxInOrder, InTx, tiers, TypeOK
<1>4. RowsAreLocked'
  <2> SUFFICES ASSUME ~tiers PROVE RowsAreLocked'
    BY DEF RowsAreLocked, tiers
  <2>1. /\ \A s \in Runs, q \in Rows : tx[s].draft[q] > 0 => q \in tx[s].locks
        /\ \A s, t \in Runs : s # t => tx[s].locks \cap tx[t].locks = {}
        /\ \A s \in Runs, q \in Rows : free[q] + tx[s].draft[q] <= Cap
        /\ \A q \in Rows : free[q] <= Cap
    BY DEF TxInv, RowsAreLocked
  <2>2. \A s \in Runs, q \in Rows : tx'[s].draft[q] > 0 => q \in tx'[s].locks
    BY <1>1, <2>1
  <2>3. \A s, t \in Runs : s # t => tx'[s].locks \cap tx'[t].locks = {}
    BY <1>1, <2>1
  <2>4. \A s \in Runs, q \in Rows : free[q] + tx'[s].draft[q] <= Cap
    BY <1>1, <1>2, <2>1
  <2> QED
    BY <2>1, <2>2, <2>3, <2>4 DEF RowsAreLocked
<1>5. StoreIsAhead'
  <2> SUFFICES ASSUME tiers PROVE StoreIsAhead'
    BY DEF StoreIsAhead, tiers
  <2>1. /\ \A q \in Rows : store[q] <= Cap /\ free[q] <= store[q]
        /\ \A s \in Runs, q \in Rows : tx[s].draft[q] <= store[q]
        /\ \A s \in Runs, q \in Rows : pc[s] = "mirror" /\ Mirrored(s) = q => tx[s].told <= store[q]
    BY DEF TxInv, StoreIsAhead
  <2>2. \A s \in Runs, q \in Rows : tx'[s].draft[q] <= store[q]
    BY <1>1, <1>2, <2>1
  <2>3. \A s \in Runs : pc'[s] = "mirror" => pc[s] = "mirror" /\ Mirrored(s)' = Mirrored(s) /\ tx'[s] = tx[s]
    BY DEF Mirrored
  <2> QED
    BY <2>1, <2>2, <2>3, Zenon DEF StoreIsAhead
<1> QED
  BY <1>3, <1>4, <1>5 DEF TxInv

LEMMA StepTx == BooksInv /\ TypeOK' /\ [Next]_vars => TxInv'
<1> SUFFICES ASSUME BooksInv, TypeOK', [Next]_vars PROVE TxInv'
  OBVIOUS
<1>t. TypeOK /\ TxInv
  BY DEF BooksInv, TxInv
<1>n. \A r \in Runs : made[r] \in 0..Len(Attempts[r]) /\ made = [made EXCEPT ![r] = made[r]] /\ Len(Attempts[r]) \in Nat
  BY <1>t, AccountingAssumption DEF TypeOK, TxInv, TxInOrder
<1>e. ASSUME NEW r \in Runs, ~InTx(r), NEW step, step # "mirror", Go(r, step), UNCHANGED <<world, free, store, tx, made>>
      PROVE  TxInv'
  BY <1>e, <1>t, <1>n, Elsewhere DEF Go
<1> USE DEF still, tables, valkey
<1>1. ASSUME NEW r \in Runs, AdmitHold(r) PROVE TxInv'
  <2>1. PICK step \in {"reserve", "admit"} : Go(r, step)
    BY <1>1, Zenon DEF AdmitHold
  <2> QED
    BY <1>1, <2>1, <1>e DEF AdmitHold, InTx
<1>2. ASSUME NEW r \in Runs, AdmitRefused(r) PROVE TxInv'
  BY <1>2, <1>e DEF AdmitRefused, InTx
<1>3. ASSUME NEW r \in Runs, AdmitTimesOut(r) PROVE TxInv'
  <2>1. PICK step \in {"reserve", "refused"} : Go(r, step)
    BY <1>3, Zenon DEF AdmitTimesOut
  <2> QED
    BY <1>3, <2>1, <1>e DEF AdmitTimesOut, InTx
<1>4. ASSUME NEW r \in Runs, NEW b \in Budgets, Expire(r, b) PROVE TxInv'
  <2>1. UNCHANGED <<world, free, store, made>> /\ \A s \in Runs : tx'[s] = tx[s] /\ pc'[s] = pc[s]
    BY <1>4 DEF Expire
  <2>2. /\ {} \in SUBSET Runs /\ \A s \in {} : tx'[s] = NoTx /\ pc'[s] # "mirror"
        /\ \A s \in Runs \ {} : tx'[s] = tx[s] /\ pc'[s] = pc[s]
    BY <2>1
  <2> QED
    BY <2>1, <2>2, <1>t, RolledBack
<1>5. ASSUME NEW r \in Runs, Create(r) PROVE TxInv'
  <2>1. PICK step \in {"work", "admit", "reserve"} : Go(r, step)
    BY <1>5, Zenon DEF Create
  <2> QED
    BY <1>5, <2>1, <1>e DEF Create, InTx
<1>6. ASSUME NEW r \in Runs, QuotaRead(r) PROVE TxInv'
  <2>1. PICK step \in {"refused", "count"} : Go(r, step)
    BY <1>6, Zenon DEF QuotaRead
  <2>2. pc[r] = "reserve" /\ UNCHANGED <<world, free, store, tx, made>>
    BY <1>6 DEF QuotaRead
  <2> QED
    BY <2>1, <2>2, <1>e DEF InTx
<1>7. ASSUME NEW r \in Runs, QuotaCount(r) PROVE TxInv'
  BY <1>7, <1>e DEF QuotaCount, InTx
<1>8. ASSUME NEW r \in Runs, CreateFails(r) PROVE TxInv'
  BY <1>8, <1>e DEF CreateFails, InTx
<1>9. ASSUME NEW r \in Runs, Answer(r) \/ Break(r) \/ Cancel(r) PROVE TxInv'
  <2>1. PICK tokens \in 0..Len(Attempts[r]), next \in {"account", "close"}, c \in BOOLEAN :
            Works(r, tokens, [caught |-> c, next |-> next])
    BY <1>9, WorksAnyhow
  <2> QED
    BY <2>1, <1>t, Elsewhere DEF Works, Go, InTx
<1>10. ASSUME NEW r \in Runs, AccountBegin(r) PROVE TxInv'
  BY <1>10, <1>e DEF AccountBegin, InTx
<1>11. ASSUME NEW r \in Runs, Claim(r) PROVE TxInv'
  BY <1>11, <1>t, ClaimKeeps
<1>12. ASSUME NEW r \in Runs, StoreClaim(r) PROVE TxInv'
  BY <1>12, <1>t, StoreClaimKeeps
<1>13. ASSUME NEW r \in Runs, StoreSilent(r) PROVE TxInv'
  BY <1>13, <1>t, StoreSilentKeeps
<1>14. ASSUME NEW r \in Runs, Mirror(r) PROVE TxInv'
  BY <1>14, <1>t, MirrorKeeps
<1>15. ASSUME NEW r \in Runs, Commit(r) PROVE TxInv'
  BY <1>15, <1>t, CommitKeeps
<1>16. ASSUME NEW r \in Runs, Rollback(r) PROVE TxInv'
  <2>1. PICK step \in {"close", "account"} : Go(r, step)
    BY <1>16, Zenon DEF Rollback, Catch
  <2>2. UNCHANGED <<world, free, store, made>> /\ tx' = [tx EXCEPT ![r] = NoTx]
    BY <1>16 DEF Rollback
  <2>3. /\ {r} \in SUBSET Runs /\ \A s \in {r} : tx'[s] = NoTx /\ pc'[s] # "mirror"
        /\ \A s \in Runs \ {r} : tx'[s] = tx[s] /\ pc'[s] = pc[s]
    BY <1>t, <2>1, <2>2 DEF TypeOK, Go
  <2> QED
    BY <1>t, <2>2, <2>3, RolledBack
<1>17. ASSUME NEW r \in Runs, Settle(r) PROVE TxInv'
  <2>1. PICK step \in {"close", "post"} : Go(r, step)
    BY <1>17, Zenon DEF Settle
  <2> QED
    BY <1>17, <2>1, <1>e DEF Settle, InTx
<1>18. ASSUME NEW r \in Runs, PostFails(r) PROVE TxInv'
  <2>1. PICK step \in {"close", "account"} : Go(r, step)
    BY <1>18, Zenon DEF PostFails, Catch
  <2> QED
    BY <1>18, <2>1, <1>e DEF PostFails, InTx
<1>19. ASSUME NEW r \in Runs, Close(r) PROVE TxInv'
  BY <1>19, <1>e DEF Close, InTx
<1>20. CASE Die
  <2>1. UNCHANGED <<world, free, store, made>> /\ \A s \in Runs : tx'[s] = NoTx /\ pc'[s] # "mirror"
    BY <1>20, <1>t DEF Die, TypeOK
  <2>2. Runs \in SUBSET Runs /\ \A s \in Runs \ Runs : tx'[s] = tx[s] /\ pc'[s] = pc[s]
    OBVIOUS
  <2> QED
    BY <1>t, <2>1, <2>2, RolledBack
<1>21. CASE UNCHANGED vars
  <2>1. UNCHANGED <<world, free, store, made>> /\ \A s \in Runs : tx'[s] = tx[s] /\ pc'[s] = pc[s]
    BY <1>21 DEF vars
  <2>2. /\ {} \in SUBSET Runs /\ \A s \in {} : tx'[s] = NoTx /\ pc'[s] # "mirror"
        /\ \A s \in Runs \ {} : tx'[s] = tx[s] /\ pc'[s] = pc[s]
    BY <2>1
  <2> QED
    BY <2>1, <2>2, <1>t, RolledBack
<1> QED
  BY <1>1, <1>2, <1>3, <1>4, <1>5, <1>6, <1>7, <1>8, <1>9, <1>10, <1>11, <1>12, <1>13, <1>14, <1>15, <1>16,
     <1>17, <1>18, <1>19, <1>20, <1>21 DEF Next, Step

---------------------------------------------------------------------------------
(* The holds, and what reserve() read: a step changes those of its run.    *)

HoldInv == AdmitInOrder /\ HeldIsKnown /\ AccountedLate /\ AtMostTwice /\ SpentOrFreed /\ CountsWithRoom

HoldsOf(r) ==
    /\ pc[r] = "new" => known[r] = {}
    /\ pc[r] = "admit" => known[r] \in {{}, {"subject"}}
    /\ \A b \in Budgets : gov[r][b] = "held" => b \in known[r] \cup lost[r]
    /\ pc[r] \in Finished \/ (accounted[r] > 0 /\ pc[r] # "settle") => known[r] = {}
    /\ accounted[r] > 0 => pc[r] \in Late
    /\ pc[r] = "settle" => accounted[r] > 0
    /\ InTx(r) \/ pc[r] = "account" => accounted[r] <= (IF caught[r] THEN 1 ELSE 0)
    /\ pc[r] = "settle" => accounted[r] <= (IF caught[r] THEN 2 ELSE 1)
    /\ pc[r] = "post" => accounted[r] <= 1
    /\ \A b \in Budgets : /\ gov[r][b] = "spent" => accounted[r] > 0 /\ made[r] > 0
                          /\ gov[r][b] = "freed" => \/ accounted[r] = 0 /\ pc[r] \in Finished
                                                    \/ made[r] = 0 /\ pc[r] \in Late
                                                    \/ r \in Free \cap SilentFor
    /\ pc[r] = "count" => ~Full(seen[r])

LEMMA HoldsAreHoldsOf == HoldInv <=> \A r \in Runs : HoldsOf(r)
  BY Zenon DEF HoldInv, HoldsOf, AdmitInOrder, HeldIsKnown, AccountedLate, AtMostTwice, SpentOrFreed, CountsWithRoom

LEMMA OneRun ==
    ASSUME HoldInv, NEW r \in Runs, world' = world,
           \A s \in Runs : s # r => /\ pc'[s] = pc[s] /\ gov'[s] = gov[s] /\ known'[s] = known[s] /\ lost'[s] = lost[s]
                                    /\ accounted'[s] = accounted[s] /\ caught'[s] = caught[s] /\ made'[s] = made[s]
                                    /\ seen'[s] = seen[s],
           HoldsOf(r)'
    PROVE  HoldInv'
<1>1. \A s \in Runs : HoldsOf(s)
  BY HoldsAreHoldsOf
<1>2. \A s \in Runs : s # r => HoldsOf(s)'
  BY <1>1 DEF HoldsOf, InTx, SilentFor
<1>3. \A s \in Runs : HoldsOf(s)'
  BY <1>2
<1>4. HoldInv' <=> \A s \in Runs : HoldsOf(s)'
  BY Zenon DEF HoldInv, HoldsOf, AdmitInOrder, HeldIsKnown, AccountedLate, AtMostTwice, SpentOrFreed, CountsWithRoom
<1> QED
  BY <1>3, <1>4

(* A step that is of no run's holds.                                       *)
LEMMA Moves ==
    ASSUME TypeOK, HoldInv, NEW r \in Runs, world' = world, NEW step, Go(r, step),
           UNCHANGED <<gov, known, lost, accounted>>,
           \A s \in Runs : s # r => caught'[s] = caught[s] /\ made'[s] = made[s] /\ seen'[s] = seen[s],
           HoldsOf(r)'
    PROVE  HoldInv'
<1>1. \A s \in Runs : s # r => pc'[s] = pc[s]
  BY DEF TypeOK, Go
<1> QED
  BY <1>1, OneRun

(* A return of the holds of a run.                                         *)
WhyFreed(r, step) == \/ accounted[r] = 0 /\ step \in Finished
                     \/ made[r] = 0 /\ step \in Late
                     \/ r \in Free \cap SilentFor

LEMMA Returns ==
    ASSUME TypeOK, HoldInv, NEW r \in Runs, NEW as \in {"freed", "spent"},
           NEW holds \in [Budgets -> {"none", "held", "spent", "freed", "expired"}],
           \A b \in Budgets : holds[b] = gov[r][b] \/ holds[b] = "held",
           Return(r, holds, as), NEW step, Go(r, step), UNCHANGED <<world, accounted, made>>,
           \A s \in Runs : s # r => caught'[s] = caught[s] /\ seen'[s] = seen[s],
           step \notin {"new", "admit", "settle", "claim", "mirror", "account", "count"},
           accounted[r] > 0 => step \in Late,
           pc[r] \in Late => step \in Late,
           pc[r] \notin Finished,
           step = "post" => accounted[r] <= 1,
           as = "spent" /\ known[r] # {} => accounted[r] > 0 /\ made[r] > 0,
           as = "freed" /\ known[r] # {} => WhyFreed(r, step)
    PROVE  HoldInv'
<1>1. /\ known' = [known EXCEPT ![r] = {}]
      /\ \A b \in Budgets : /\ gov'[r][b] = holds[b] \/ (gov'[r][b] = as /\ b \in known[r])
                            /\ gov'[r][b] = "held" => b \in lost'[r]
      /\ \A s \in Runs : s # r => gov'[s] = gov[s] /\ lost'[s] = lost[s]
  <2>1. PICK done \in SUBSET known[r] :
            /\ gov' = [gov EXCEPT ![r] = [b \in Budgets |-> IF b \in done THEN as ELSE holds[b]]]
            /\ lost' = [lost EXCEPT ![r] = @ \cup {b \in Budgets : b \notin done /\ holds[b] = "held"}]
            /\ known' = [known EXCEPT ![r] = {}]
    BY DEF Return, InTime
  <2>2. /\ gov'[r] = [b \in Budgets |-> IF b \in done THEN as ELSE holds[b]]
        /\ lost'[r] = lost[r] \cup {b \in Budgets : b \notin done /\ holds[b] = "held"}
        /\ \A s \in Runs : s # r => gov'[s] = gov[s] /\ lost'[s] = lost[s]
    BY <2>1 DEF TypeOK
  <2>3. ASSUME NEW b \in Budgets
        PROVE  /\ gov'[r][b] = holds[b] \/ (gov'[r][b] = as /\ b \in known[r])
               /\ gov'[r][b] = "held" => b \in lost'[r]
    <3>1. CASE b \in done
      BY <2>2, <3>1
    <3>2. CASE b \notin done
      BY <2>2, <3>2
    <3> QED
      BY <3>1, <3>2
  <2> QED
    BY <2>1, <2>2, <2>3, Zenon
<1>2. /\ pc'[r] = step /\ known'[r] = {}
      /\ \A s \in Runs : s # r => pc'[s] = pc[s] /\ known'[s] = known[s]
  BY <1>1 DEF TypeOK, Go
<1>3. HoldsOf(r)
  BY HoldsAreHoldsOf
<1>4. \A b \in Budgets : gov'[r][b] = "spent" => accounted[r] > 0 /\ made[r] > 0
  BY <1>1, <1>3 DEF HoldsOf
<1>5. \A b \in Budgets : gov'[r][b] = "freed" => WhyFreed(r, step)
  <2> SUFFICES ASSUME NEW b \in Budgets, gov'[r][b] = "freed" PROVE WhyFreed(r, step)
    OBVIOUS
  <2>1. CASE as = "freed" /\ b \in known[r]
    BY <2>1
  <2>2. CASE gov'[r][b] = holds[b]
    <3>1. gov[r][b] = "freed"
      BY <2>2
    <3>2. (made[r] = 0 /\ pc[r] \in Late) \/ r \in Free \cap SilentFor
      BY <3>1, <1>3 DEF HoldsOf
    <3> QED
      BY <3>2 DEF WhyFreed
  <2> QED
    BY <1>1, <2>1, <2>2
<1>6. HoldsOf(r)'
  BY <1>1, <1>2, <1>4, <1>5 DEF HoldsOf, InTx, SilentFor, WhyFreed
<1> QED
  BY <1>1, <1>2, <1>6, OneRun

LEMMA StepHolds == BooksInv /\ TypeOK' /\ [Next]_vars => HoldInv'
<1> SUFFICES ASSUME BooksInv, TypeOK', [Next]_vars PROVE HoldInv'
  OBVIOUS
<1>t. TypeOK /\ HoldInv /\ AdmitInOrder
  BY DEF BooksInv, HoldInv
<1>h. \A r \in Runs : HoldsOf(r)
  BY <1>t, HoldsAreHoldsOf
<1>w. \A r \in Runs : /\ gov[r] \in [Budgets -> {"none", "held", "spent", "freed", "expired"}]
                      /\ accounted[r] \in 0..2 /\ made[r] \in Nat /\ caught[r] \in BOOLEAN /\ known[r] \in SUBSET Budgets
  BY <1>t DEF TypeOK
<1> USE DEF still, tables, valkey
<1>1. ASSUME NEW r \in Runs, AdmitHold(r) PROVE HoldInv'
  <2> DEFINE b == NextBudget(r)
  <2>1. \/ known[r] = {} /\ b = "subject"
        \/ known[r] = {"subject"} /\ b = "project"
    <3>1. pc[r] = "admit"
      BY <1>1 DEF AdmitHold
    <3> QED
      BY <3>1, <1>t, NextIsBudget
  <2>2. /\ pc[r] = "admit" /\ Go(r, IF b = "project" THEN "reserve" ELSE "admit")
        /\ gov' = [gov EXCEPT ![r][b] = "held"] /\ known' = [known EXCEPT ![r] = @ \cup {b}]
        /\ UNCHANGED <<world, lost, seen, made, caught, accounted>>
    BY <1>1 DEF AdmitHold
  <2> HIDE DEF b
  <2>3. /\ pc'[r] = (IF b = "project" THEN "reserve" ELSE "admit") /\ known'[r] = known[r] \cup {b}
        /\ gov'[r] = [gov[r] EXCEPT ![b] = "held"]
        /\ \A s \in Runs : s # r => pc'[s] = pc[s] /\ gov'[s] = gov[s] /\ known'[s] = known[s]
    BY <2>2, <1>t DEF TypeOK, Go
  <2>4. HoldsOf(r)
    BY <1>h
  <2>5. accounted[r] = 0
    BY <2>2, <2>4, <1>w DEF HoldsOf, Late
  <2>6. \A c \in Budgets : gov'[r][c] = IF c = b THEN "held" ELSE gov[r][c]
    BY <2>1, <2>3, <1>w DEF Budgets
  <2>7. HoldsOf(r)'
    BY <2>1, <2>2, <2>3, <2>4, <2>5, <2>6 DEF HoldsOf, InTx, SilentFor, Finished, Late
  <2> QED
    BY <1>t, <2>2, <2>3, <2>7, OneRun
<1>2. ASSUME NEW r \in Runs, AdmitRefused(r) PROVE HoldInv'
  <2>1. accounted[r] = 0
    BY <1>2, <1>h, <1>w DEF AdmitRefused, HoldsOf, Late
  <2> QED
    BY <1>2, <1>t, <1>w, <2>1, Returns DEF AdmitRefused, Finished, Late, WhyFreed
<1>3. ASSUME NEW r \in Runs, AdmitTimesOut(r) PROVE HoldInv'
  <2>1. accounted[r] = 0
    BY <1>3, <1>h, <1>w DEF AdmitTimesOut, HoldsOf, Late
  <2>2. PICK after \in {gov[r]} \cup {[gov[r] EXCEPT ![NextBudget(r)] = "held"]} : Return(r, after, "freed")
    BY <1>3, Zenon DEF AdmitTimesOut
  <2>3. NextBudget(r) \in Budgets
    BY <1>3, <1>t, NextIsBudget DEF AdmitTimesOut, Budgets
  <2>4. after \in [Budgets -> {"none", "held", "spent", "freed", "expired"}]
    BY <2>2, <2>3, <1>w
  <2>5. \A c \in Budgets : after[c] = gov[r][c] \/ after[c] = "held"
    BY <2>2, <2>3, <1>w
  <2>6. PICK step \in {"reserve", "refused"} : Go(r, step) /\ (step = "reserve" => r \in Free)
    BY <1>3, Zenon DEF AdmitTimesOut
  <2>7. WhyFreed(r, step)
    BY <1>3, <2>1, <2>6 DEF AdmitTimesOut, WhyFreed, Finished
  <2>8. pc[r] = "admit" /\ UNCHANGED <<world, seen, made, caught, accounted>>
    BY <1>3 DEF AdmitTimesOut
  <2> QED
    BY <1>t, <2>1, <2>2, <2>4, <2>5, <2>6, <2>7, <2>8, Returns DEF Finished, Late
<1>4. ASSUME NEW r \in Runs, NEW b \in Budgets, Expire(r, b) PROVE HoldInv'
  <2>1. /\ gov' = [gov EXCEPT ![r][b] = "expired"]
        /\ UNCHANGED <<world, known, lost, pc, seen, made, caught, accounted>>
    BY <1>4 DEF Expire
  <2>2. /\ \A c \in Budgets : gov'[r][c] = IF c = b THEN "expired" ELSE gov[r][c]
        /\ \A s \in Runs : s # r => gov'[s] = gov[s]
    BY <2>1, <1>t DEF TypeOK
  <2>3. HoldsOf(r)
    BY <1>h
  <2>4. HoldsOf(r)'
    BY <2>1, <2>2, <2>3 DEF HoldsOf, InTx, SilentFor
  <2> QED
    BY <1>t, <2>1, <2>2, <2>4, OneRun
<1>5. ASSUME NEW r \in Runs, Create(r) PROVE HoldInv'
  <2>1. PICK step \in {"work", "admit", "reserve"} : Go(r, step)
    BY <1>5, Zenon DEF Create
  <2>2. pc[r] = "new" /\ UNCHANGED <<world, gov, known, lost, accounted, caught, made, seen>>
    BY <1>5 DEF Create
  <2>3. pc'[r] = step /\ HoldsOf(r)
    BY <1>t, <1>h, <2>1 DEF TypeOK, Go
  <2>4. HoldsOf(r)'
    BY <2>1, <2>2, <2>3, <1>w DEF HoldsOf, InTx, SilentFor, Late, Finished
  <2> QED
    BY <1>t, <2>1, <2>2, <2>4, Moves
<1>6. ASSUME NEW r \in Runs, QuotaRead(r) PROVE HoldInv'
  <2>1. pc[r] = "reserve" /\ UNCHANGED <<world, made, caught, accounted>> /\ accounted[r] = 0
    BY <1>6, <1>h, <1>w DEF QuotaRead, HoldsOf, Late
  <2>2. CASE Full(count)
    <3>1. Return(r, gov[r], "freed") /\ Go(r, "refused") /\ UNCHANGED seen
      BY <1>6, <2>2, Zenon DEF QuotaRead
    <3> QED
      BY <1>t, <1>w, <2>1, <3>1, Returns DEF Finished, Late, WhyFreed
  <2>3. CASE ~Full(count)
    <3>1. seen' = [seen EXCEPT ![r] = count] /\ Go(r, "count") /\ UNCHANGED <<gov, known, lost>>
      BY <1>6, <2>3, Zenon DEF QuotaRead
    <3>2. /\ seen'[r] = count /\ pc'[r] = "count" /\ HoldsOf(r)
          /\ \A s \in Runs : s # r => seen'[s] = seen[s]
      BY <1>t, <1>h, <3>1 DEF TypeOK, Go
    <3>3. ~Full(seen'[r])
      BY <2>3, <3>2
    <3>4. HoldsOf(r)'
      BY <2>1, <3>1, <3>2, <3>3 DEF HoldsOf, InTx, SilentFor, Late, Finished, Full
    <3> QED
      BY <1>t, <2>1, <3>1, <3>2, <3>4, Moves
  <2> QED
    BY <2>2, <2>3
<1>7. ASSUME NEW r \in Runs, QuotaCount(r) PROVE HoldInv'
  <2>1. /\ pc[r] = "count" /\ Go(r, "work") /\ seen' = [seen EXCEPT ![r] = Unused]
        /\ UNCHANGED <<world, gov, known, lost, accounted, caught, made>>
    BY <1>7 DEF QuotaCount
  <2>2. pc'[r] = "work" /\ HoldsOf(r) /\ \A s \in Runs : s # r => seen'[s] = seen[s]
    BY <1>t, <1>h, <2>1 DEF TypeOK, Go
  <2>3. HoldsOf(r)'
    BY <2>1, <2>2, <1>w DEF HoldsOf, InTx, SilentFor, Late, Finished
  <2> QED
    BY <1>t, <2>1, <2>2, <2>3, Moves
<1>8. ASSUME NEW r \in Runs, CreateFails(r) PROVE HoldInv'
  <2>1. /\ pc[r] \in {"reserve", "count", "work"} /\ UNCHANGED <<world, made, caught, accounted>> /\ accounted[r] = 0
        /\ Return(r, gov[r], "freed") /\ Go(r, "refused")
    BY <1>8, <1>h, <1>w DEF CreateFails, HoldsOf, Late
  <2>2. \A s \in Runs : s # r => seen'[s] = seen[s]
    BY <1>8, <1>t DEF CreateFails, TypeOK
  <2> QED
    BY <1>t, <1>w, <2>1, <2>2, Returns DEF Finished, Late, WhyFreed
<1>9. ASSUME NEW r \in Runs, Answer(r) \/ Break(r) \/ Cancel(r) PROVE HoldInv'
  <2>1. PICK tokens \in 0..Len(Attempts[r]), next \in {"account", "close"}, c \in BOOLEAN :
            Works(r, tokens, [caught |-> c, next |-> next])
    BY <1>9, WorksAnyhow
  <2>2. /\ pc[r] = "work" /\ Go(r, next) /\ made' = [made EXCEPT ![r] = tokens] /\ caught' = [caught EXCEPT ![r] = c]
        /\ UNCHANGED <<world, gov, known, lost, accounted, seen>>
    BY <2>1 DEF Works
  <2>3. /\ pc'[r] = next /\ HoldsOf(r)
        /\ \A s \in Runs : s # r => caught'[s] = caught[s] /\ made'[s] = made[s] /\ seen'[s] = seen[s]
    BY <1>t, <1>h, <2>2 DEF TypeOK, Go
  <2>4. accounted[r] = 0
    BY <2>2, <2>3, <1>w DEF HoldsOf, Late
  <2>5. \A b \in Budgets : gov[r][b] # "spent" /\ (gov[r][b] = "freed" => r \in Free \cap SilentFor)
    BY <2>2, <2>3, <2>4 DEF HoldsOf, Late, Finished
  <2>6. HoldsOf(r)'
    BY <2>2, <2>3, <2>4, <2>5 DEF HoldsOf, InTx, SilentFor, Late, Finished
  <2> QED
    BY <1>t, <2>2, <2>3, <2>6, Moves
<1>10. ASSUME NEW r \in Runs, AccountBegin(r) PROVE HoldInv'
  <2>1. /\ pc[r] = "account" /\ Go(r, "claim")
        /\ UNCHANGED <<world, gov, known, lost, accounted, caught, made, seen>>
    BY <1>10 DEF AccountBegin
  <2>2. pc'[r] = "claim" /\ HoldsOf(r)
    BY <1>t, <1>h, <2>1 DEF TypeOK, Go
  <2>3. HoldsOf(r)'
    BY <2>1, <2>2 DEF HoldsOf, InTx, SilentFor, Late, Finished
  <2> QED
    BY <1>t, <2>1, <2>3, Moves
<1>s. ASSUME UNCHANGED <<world, gov, known, lost, accounted, caught, made, seen, pc>> PROVE HoldInv'
  <2>1. \A r \in Runs : HoldsOf(r)'
    BY <1>h, <1>s DEF HoldsOf, InTx, SilentFor
  <2>2. HoldInv' <=> \A r \in Runs : HoldsOf(r)'
    BY Zenon DEF HoldInv, HoldsOf, AdmitInOrder, HeldIsKnown, AccountedLate, AtMostTwice, SpentOrFreed, CountsWithRoom
  <2> QED
    BY <2>1, <2>2
<1>11. ASSUME NEW r \in Runs, Claim(r) PROVE HoldInv'
  BY <1>11, <1>s DEF Claim
<1>12. ASSUME NEW r \in Runs, StoreClaim(r) PROVE HoldInv'
  <2>1. /\ pc[r] = "claim" /\ Go(r, "mirror")
        /\ UNCHANGED <<world, gov, known, lost, accounted, caught, made, seen>>
    BY <1>12 DEF StoreClaim, Claiming
  <2>2. pc'[r] = "mirror" /\ HoldsOf(r)
    BY <1>t, <1>h, <2>1 DEF TypeOK, Go
  <2>3. HoldsOf(r)'
    BY <2>1, <2>2 DEF HoldsOf, InTx, SilentFor, Late, Finished
  <2> QED
    BY <1>t, <2>1, <2>3, Moves
<1>13. ASSUME NEW r \in Runs, StoreSilent(r) PROVE HoldInv'
  BY <1>13, <1>s DEF StoreSilent
<1>14. ASSUME NEW r \in Runs, Mirror(r) PROVE HoldInv'
  <2>1. /\ pc[r] = "mirror" /\ Go(r, "claim")
        /\ UNCHANGED <<world, gov, known, lost, accounted, caught, made, seen>>
    BY <1>14 DEF Mirror
  <2>2. pc'[r] = "claim" /\ HoldsOf(r)
    BY <1>t, <1>h, <2>1 DEF TypeOK, Go
  <2>3. HoldsOf(r)'
    BY <2>1, <2>2 DEF HoldsOf, InTx, SilentFor, Late, Finished
  <2> QED
    BY <1>t, <2>1, <2>3, Moves
<1>15. ASSUME NEW r \in Runs, Commit(r) PROVE HoldInv'
  <2>1. /\ pc[r] = "claim" /\ Go(r, "settle") /\ accounted' = [accounted EXCEPT ![r] = @ + 1]
        /\ UNCHANGED <<world, gov, known, lost, caught, made, seen>>
    BY <1>15 DEF Commit
  <2>2. /\ pc'[r] = "settle" /\ HoldsOf(r) /\ accounted'[r] = accounted[r] + 1
        /\ \A s \in Runs : s # r => pc'[s] = pc[s] /\ accounted'[s] = accounted[s]
    BY <1>t, <1>h, <2>1 DEF TypeOK, Go
  <2>3. accounted[r] <= (IF caught[r] THEN 1 ELSE 0)
    BY <2>1, <2>2, Zenon DEF HoldsOf, InTx
  <2>4. accounted'[r] <= (IF caught[r] THEN 2 ELSE 1) /\ accounted'[r] > 0
    BY <2>2, <2>3, <1>w
  <2>5. HoldsOf(r)'
    BY <2>1, <2>2, <2>4 DEF HoldsOf, InTx, SilentFor, Late, Finished
  <2> QED
    BY <1>t, <2>1, <2>2, <2>5, OneRun
<1>c. ASSUME NEW r \in Runs, HoldsOf(r), pc[r] \in {"account", "claim", "mirror", "post"}, Catch(r), accounted[r] <= 1,
             UNCHANGED <<world, gov, known, lost, accounted, made, seen>>
      PROVE  HoldInv'
  <2>1. PICK step \in {"close", "account"} : Go(r, step)
    BY <1>c, Zenon DEF Catch
  <2>2. /\ pc'[r] = step /\ caught'[r] = TRUE
        /\ \A s \in Runs : s # r => caught'[s] = caught[s]
    BY <1>c, <1>t, <2>1 DEF TypeOK, Go, Catch
  <2>3. HoldsOf(r)'
    BY <1>c, <2>1, <2>2 DEF HoldsOf, InTx, SilentFor, Late, Finished
  <2> QED
    BY <1>c, <1>t, <2>1, <2>2, <2>3, Moves
<1>16. ASSUME NEW r \in Runs, Rollback(r) PROVE HoldInv'
  <2>1. /\ pc[r] \in {"account", "claim", "mirror"} /\ Catch(r)
        /\ UNCHANGED <<world, gov, known, lost, accounted, made, seen>>
    BY <1>16 DEF Rollback, RollsBack, InTx
  <2>2. accounted[r] <= (IF caught[r] THEN 1 ELSE 0)
    BY <1>h, <2>1 DEF HoldsOf, InTx
  <2>3. accounted[r] <= 1
    BY <2>2, <1>w
  <2> QED
    BY <1>h, <1>c, <2>1, <2>3
<1>17. ASSUME NEW r \in Runs, Settle(r) PROVE HoldInv'
  <2>1. /\ pc[r] = "settle" /\ Go(r, IF caught[r] THEN "close" ELSE "post")
        /\ Return(r, gov[r], IF made[r] > 0 THEN "spent" ELSE "freed")
        /\ UNCHANGED <<world, made, caught, accounted, seen>>
    BY <1>17 DEF Settle
  <2>2. accounted[r] > 0 /\ accounted[r] <= (IF caught[r] THEN 2 ELSE 1)
    BY <1>h, <2>1 DEF HoldsOf
  <2> DEFINE as   == IF made[r] > 0 THEN "spent" ELSE "freed"
             step == IF caught[r] THEN "close" ELSE "post"
  <2>3. step \in {"close", "post"} /\ (step = "post" => accounted[r] <= 1)
    BY <2>2, <1>w
  <2>4. as \in {"freed", "spent"} /\ (as = "spent" => made[r] > 0) /\ (as = "freed" => made[r] = 0)
    BY <1>w
  <2>5. Go(r, step) /\ Return(r, gov[r], as)
    BY <2>1
  <2> HIDE DEF as, step
  <2> QED
    BY <1>t, <1>w, <2>1, <2>2, <2>3, <2>4, <2>5, Returns DEF Finished, Late, WhyFreed
<1>18. ASSUME NEW r \in Runs, PostFails(r) PROVE HoldInv'
  <2>1. /\ pc[r] = "post" /\ Catch(r)
        /\ UNCHANGED <<world, gov, known, lost, accounted, made, seen>>
    BY <1>18 DEF PostFails
  <2> QED
    BY <1>h, <1>c, <2>1 DEF HoldsOf
<1>19. ASSUME NEW r \in Runs, Close(r) PROVE HoldInv'
  <2>1. /\ pc[r] \in {"post", "close"} /\ Go(r, "over") /\ Return(r, gov[r], "freed")
        /\ UNCHANGED <<world, made, accounted, seen>>
    BY <1>19 DEF Close
  <2>2. \A s \in Runs : s # r => caught'[s] = caught[s] /\ seen'[s] = seen[s]
    BY <1>19, <1>t DEF Close, TypeOK
  <2>3. known[r] # {} => accounted[r] = 0
    BY <1>h, <1>w, <2>1 DEF HoldsOf
  <2> QED
    BY <1>t, <1>w, <2>1, <2>2, <2>3, Returns DEF Finished, Late, WhyFreed
<1>20. CASE Die
  <2>1. /\ UNCHANGED <<world, accounted, gov, made>>
        /\ \A r \in Runs : /\ known'[r] = {} /\ lost'[r] = {b \in Budgets : gov[r][b] = "held"}
                           /\ pc'[r] = IF pc[r] \in {"new", "refused"} THEN pc[r] ELSE "over"
    BY <1>20 DEF Die
  <2>2. \A r \in Runs : HoldsOf(r)'
    <3> TAKE r \in Runs
    <3>1. HoldsOf(r)
      BY <1>h
    <3>2. /\ pc'[r] \in {"new", "refused", "over"} /\ (pc[r] \in Finished => pc'[r] \in Finished)
          /\ (pc[r] \in Late => pc'[r] \in Late) /\ (pc'[r] = "new" => pc[r] = "new")
      BY <2>1 DEF Finished, Late
    <3> QED
      BY <2>1, <3>1, <3>2 DEF HoldsOf, InTx, SilentFor
  <2>3. HoldInv' <=> \A r \in Runs : HoldsOf(r)'
    BY Zenon DEF HoldInv, HoldsOf, AdmitInOrder, HeldIsKnown, AccountedLate, AtMostTwice, SpentOrFreed, CountsWithRoom
  <2> QED
    BY <2>2, <2>3
<1>21. CASE UNCHANGED vars
  BY <1>21, <1>s DEF vars
<1> QED
  BY <1>1, <1>2, <1>3, <1>4, <1>5, <1>6, <1>7, <1>8, <1>9, <1>10, <1>11, <1>12, <1>13, <1>14, <1>15, <1>16,
     <1>17, <1>18, <1>19, <1>20, <1>21 DEF Next, Step

---------------------------------------------------------------------------------
(* The theorems.                                                           *)

LEMMA StepBooks == BooksInv /\ [Next]_vars => BooksInv'
<1> SUFFICES ASSUME BooksInv, [Next]_vars PROVE BooksInv'
  OBVIOUS
<1>1. TypeOK'
  BY StepType
<1>2. TxInv' /\ HoldInv'
  BY <1>1, StepTx, StepHolds
<1> QED
  BY <1>1, <1>2 DEF BooksInv, TxInv, HoldInv

(* The inductive invariant of the accounting: which statement each run of  *)
(* account() is at, the locks it holds, and what is committed and drafted  *)
(* of every allowance and every tier hold.                                 *)
THEOREM BooksAlways == Spec => []BooksInv
  BY InitBooks, StepBooks, PTL DEF Spec

(* Every variable keeps its type; above all no run is accounted more than  *)
(* twice, however often it is caught.                                      *)
THEOREM TypeCorrect == Spec => []TypeOK
<1>1. BooksInv => TypeOK
  BY DEF BooksInv
<1> QED
  BY <1>1, BooksAlways, PTL

(* free-allowance.js: concurrent claims never exceed the allowance of the  *)
(* card in total, and what PostgreSQL keeps is never ahead of the counter  *)
(* that claims are made from.                                              *)
THEOREM AllowanceNeverPassed == Spec => []AllowanceCapped
<1>1. BooksInv => AllowanceCapped
  <2> SUFFICES ASSUME BooksInv, NEW row \in Rows PROVE free[row] <= Used(row) /\ Used(row) <= Cap
    BY DEF AllowanceCapped
  <2>1. free[row] \in Nat
    BY DEF BooksInv, TypeOK
  <2>2. CASE tiers
    BY <2>1, <2>2 DEF BooksInv, StoreIsAhead, Used
  <2>3. CASE ~tiers
    BY <2>1, <2>3 DEF BooksInv, RowsAreLocked, Used
  <2> QED
    BY <2>2, <2>3
<1> QED
  BY <1>1, BooksAlways, PTL

(* No tier hold is left behind: of a run that is over each was settled,    *)
(* given back, or is left to expire because nobody could reach it.         *)
THEOREM HoldsResolve == Spec => []HoldsResolved
<1>1. BooksInv => HoldsResolved
  <2> SUFFICES ASSUME BooksInv, NEW r \in Runs, NEW b \in Budgets, pc[r] \in Finished
               PROVE  CASE gov[r][b] = "held"  -> b \in lost[r]
                        [] gov[r][b] = "spent" -> accounted[r] > 0 /\ made[r] > 0
                        [] gov[r][b] = "freed" -> accounted[r] = 0 \/ made[r] = 0 \/ r \in Free \cap SilentFor
                        [] OTHER               -> TRUE
    BY DEF HoldsResolved
  <2>1. known[r] = {} /\ (gov[r][b] = "held" => b \in known[r] \cup lost[r])
    BY DEF BooksInv, HeldIsKnown
  <2>2. gov[r][b] = "spent" => accounted[r] > 0 /\ made[r] > 0
    BY DEF BooksInv, SpentOrFreed
  <2>3. gov[r][b] = "freed" => accounted[r] = 0 \/ made[r] = 0 \/ r \in Free \cap SilentFor
    BY DEF BooksInv, SpentOrFreed
  <2> QED
    BY <2>1, <2>2, <2>3
<1> QED
  BY <1>1, BooksAlways, PTL

(* reserve() refuses every run that could have known that the window is    *)
(* full: what passes it read the window before another one counted.        *)
THEOREM QuotaHolds == Spec => QuotaOnlyRaced
<1>1. BooksInv /\ [Next]_vars =>
          [count'.requests > count.requests /\ Full(count) =>
              \E r \in Runs : pc[r] = "count" /\ pc'[r] = "work" /\ seen[r] # count]_vars
  <2> SUFFICES ASSUME BooksInv, Next, count'.requests > count.requests, Full(count)
               PROVE  \E r \in Runs : pc[r] = "count" /\ pc'[r] = "work" /\ seen[r] # count
    BY Zenon
  <2>1. count \in [requests : Nat, tokens : Nat] /\ pc \in [Runs -> Steps]
    BY DEF BooksInv, TypeOK, Steps
  <2>2. ~(count'.requests = count.requests)
    BY <2>1
  <2>3. \E r \in Runs : QuotaCount(r)
    <3>1. ASSUME NEW r \in Runs, Commit(r) PROVE count'.requests = count.requests
      <4>1. count' = count \/ count' = [count EXCEPT !.tokens = @ + made[r] * Quantity]
        BY <3>1, Zenon DEF Commit
      <4> QED
        BY <4>1, <2>1
    <3>2. ASSUME NEW r \in Runs, Step(r), ~QuotaCount(r), ~Commit(r) PROVE count' = count
      BY <3>2, Zenon DEF Step, AdmitHold, AdmitRefused, AdmitTimesOut, QuotaRead, Answer, Break, Cancel, Works, AccountBegin,
         Claim, StoreClaim, StoreSilent, Mirror, Rollback, Settle, PostFails, Close, tables
    <3>3. ASSUME NEW r \in Runs, Create(r) \/ CreateFails(r) \/ \E b \in Budgets : Expire(r, b) PROVE count' = count
      BY <3>3 DEF Create, CreateFails, Expire, tables
    <3>4. Die => count' = count
      BY DEF Die, tables
    <3> QED
      BY <2>2, <3>1, <3>2, <3>3, <3>4, Zenon DEF Next
  <2>4. PICK r \in Runs : QuotaCount(r)
    BY <2>3
  <2>5. pc[r] = "count" /\ pc'[r] = "work"
    BY <2>1, <2>4 DEF QuotaCount, Go
  <2>6. ~Full(seen[r])
    BY <2>5, Zenon DEF BooksInv, CountsWithRoom
  <2> QED
    BY <2>5, <2>6, Zenon
<1> QED
  BY <1>1, BooksAlways, PTL DEF Spec, QuotaOnlyRaced

---------------------------------------------------------------------------------
(* The readings: what they name was claimed.  The tokens of one allowance  *)
(* in a list of claims of a run.                                           *)
OfRow(c, r, row)  == {i \in 1..Len(c) : <<SubjectOf[r], Attempts[r][i]>> = row}
SumOf(c, r, row)  == Total(c, OfRow(c, r, row))
Open(r, row)      == SumOf(tx[r].claims, r, row)

(* With the tiers the store counted a claim when it was made, without them *)
(* PostgreSQL counts it when the transaction commits.                      *)
Weight(r, row)    == SumOf(readings[r], r, row) + IF tiers THEN Open(r, row) ELSE 0
Weights(row)      == [r \in Runs |-> Weight(r, row)]
ReadingsClaimed   == /\ \A row \in Rows : Total(Weights(row), Runs) <= Used(row)
                     /\ ~tiers => \A r \in Runs, row \in Rows : Open(r, row) <= tx[r].draft[row]

LEMMA SumNat == \A r, row : \A c \in Seq(Nat) : SumOf(c, r, row) \in Nat /\ IsFiniteSet(OfRow(c, r, row))
<1> TAKE r, row
<1> TAKE c \in Seq(Nat)
<1>1. IsFiniteSet(1..Len(c)) /\ OfRow(c, r, row) \in SUBSET (1..Len(c))
  BY FS_Interval DEF OfRow
<1>2. IsFiniteSet(OfRow(c, r, row)) /\ \A i \in OfRow(c, r, row) : c[i] \in Nat
  BY <1>1, FS_Subset
<1> DEFINE S == OfRow(c, r, row)
<1> HIDE DEF S
<1>3. IsFiniteSet(S) /\ \A i \in S : c[i] \in Nat
  BY <1>2 DEF S
<1>4. Total(c, S) \in Nat
  BY <1>3, TotalNat
<1> QED
  BY <1>2, <1>4 DEF SumOf, S

LEMMA SumEmpty == \A r, row : SumOf(<< >>, r, row) = 0
BY TotalEmpty DEF SumOf, OfRow

LEMMA SumAppend == \A r, row : \A c \in Seq(Nat), n \in Nat :
    SumOf(Append(c, n), r, row) = SumOf(c, r, row) + IF <<SubjectOf[r], Attempts[r][Len(c) + 1]>> = row THEN n ELSE 0
<1> TAKE r, row
<1> TAKE c \in Seq(Nat), n \in Nat
<1> DEFINE d == Append(c, n)
           S == OfRow(c, r, row)
           y == Len(c) + 1
<1>1. d \in Seq(Nat) /\ Len(d) = y /\ d[y] = n /\ \A i \in 1..Len(c) : d[i] = c[i]
  OBVIOUS
<1>2. OfRow(d, r, row) = IF <<SubjectOf[r], Attempts[r][y]>> = row THEN S \cup {y} ELSE S
  <2> HIDE DEF d
  <2> QED
    BY <1>1 DEF OfRow
<1>3. IsFiniteSet(S) /\ (\A i \in S : d[i] = c[i]) /\ y \notin S /\ \A i \in S \cup {y} : d[i] \in Nat
  <2>1. IsFiniteSet(S) /\ S \subseteq 1..Len(c) /\ Len(c) \in Nat
    <3>1. IsFiniteSet(OfRow(c, r, row))
      BY SumNat
    <3> QED
      BY <3>1 DEF OfRow
  <2>2. \A i \in 1..Len(c) : d[i] = c[i] /\ c[i] \in Nat
    BY <1>1
  <2> HIDE DEF d, S
  <2> QED
    BY <1>1, <2>1, <2>2
<1> HIDE DEF d, S, y
<1>4. Total(d, S) = Total(c, S) /\ Total(d, S) \in Nat
  BY <1>3, TotalSame, TotalNat
<1>5. Total(d, S \cup {y}) = d[y] + Total(d, S)
  BY <1>3, TotalAdds
<1> QED
  BY <1>1, <1>2, <1>4, <1>5 DEF SumOf, d, S, y

LEMMA WeightNat == ASSUME TypeOK PROVE \A r \in Runs, row \in Rows : Weight(r, row) \in Nat /\ Open(r, row) \in Nat
<1> TAKE r \in Runs, row \in Rows
<1>1. readings[r] \in Seq(Nat) /\ tx[r].claims \in Seq(Nat)
  BY DEF TypeOK
<1> QED
  BY <1>1, SumNat DEF Weight, Open

LEMMA WeightNatNext == ASSUME TypeOK' PROVE \A r \in Runs, row \in Rows : Weight(r, row)' \in Nat /\ Open(r, row)' \in Nat
<1> TAKE r \in Runs, row \in Rows
<1>1. readings'[r] \in Seq(Nat) /\ tx'[r].claims \in Seq(Nat)
  BY DEF TypeOK
<1> QED
  BY <1>1, SumNat DEF Weight, Open

(* A step after which no run weighs more, and no row counts less.          *)
LEMMA LightSteps ==
    ASSUME TypeOK, TypeOK', ReadingsClaimed, world' = world,
           \A row \in Rows : Used(row) <= Used(row)',
           \A r \in Runs, row \in Rows : Weight(r, row)' <= Weight(r, row),
           ~tiers => \A r \in Runs, row \in Rows : Open(r, row)' <= tx'[r].draft[row]
    PROVE  ReadingsClaimed'
<1> SUFFICES ASSUME NEW row \in Rows PROVE Total(Weights(row)', Runs) <= Used(row)'
  BY DEF ReadingsClaimed, tiers
<1>1. PICK old, new : old = Weights(row) /\ new = Weights(row)'
  OBVIOUS
<1>2. \A r \in Runs : new[r] \in Nat /\ old[r] \in Nat /\ new[r] <= old[r]
  BY <1>1, WeightNat, WeightNatNext DEF Weights
<1>3. IsFiniteSet(Runs)
  BY AccountingAssumption
<1>4. Total(new, Runs) <= Total(old, Runs) /\ Total(new, Runs) \in Nat /\ Total(old, Runs) \in Nat
  BY <1>2, <1>3, TotalAtMost, TotalNat
<1>5. Total(old, Runs) <= Used(row) /\ Used(row) <= Used(row)' /\ Used(row) \in Nat /\ Used(row)' \in Nat
  BY <1>1 DEF ReadingsClaimed, TypeOK, Used
<1> QED
  BY <1>1, <1>4, <1>5

(* A step of one run that counts as much more as the run weighs more.      *)
LEMMA CountedSteps ==
    ASSUME TypeOK, TypeOK', ReadingsClaimed, world' = world, NEW r \in Runs,
           \A s \in Runs \ {r} : tx'[s] = tx[s] /\ readings'[s] = readings[s],
           \A row \in Rows : Weight(r, row)' + Used(row) <= Weight(r, row) + Used(row)',
           ~tiers => \A row \in Rows : Open(r, row)' <= tx'[r].draft[row]
    PROVE  ReadingsClaimed'
<1>0. ~tiers => \A s \in Runs, row \in Rows : Open(s, row)' <= tx'[s].draft[row]
  BY DEF ReadingsClaimed, Open
<1> SUFFICES ASSUME NEW row \in Rows PROVE Total(Weights(row)', Runs) <= Used(row)'
  BY <1>0 DEF ReadingsClaimed, tiers
<1>1. PICK old, new : old = Weights(row) /\ new = Weights(row)'
  OBVIOUS
<1>2. \A s \in Runs : old[s] \in Nat /\ new[s] \in Nat
  BY <1>1, WeightNat, WeightNatNext DEF Weights
<1>3. \A s \in Runs \ {r} : old[s] = new[s]
  BY <1>1 DEF Weights, Weight, Open, tiers
<1>4. IsFiniteSet(Runs)
  BY AccountingAssumption
<1>5. /\ Total(new, Runs) + old[r] = Total(old, Runs) + new[r]
      /\ Total(new, Runs) \in Nat /\ Total(old, Runs) \in Nat
  <2>1. \A s \in Runs : old[s] \in Nat /\ new[s] \in Nat
    BY <1>2
  <2>2. Runs \in SUBSET Runs /\ r \in Runs
    OBVIOUS
  <2>3. Total(new, Runs) \in Nat /\ Total(old, Runs) \in Nat
    BY <1>2, <1>4, <2>2, TotalNat
  <2>4. Total(new, Runs) + old[r] = Total(old, Runs) + new[r]
    <3>1. Total(new, Runs) = new[r] + Total(new, Runs \ {r})
      BY <1>2, <1>4, TotalTakes
    <3>2. Total(old, Runs) = old[r] + Total(old, Runs \ {r})
      BY <1>2, <1>4, TotalTakes
    <3>3. Total(new, Runs \ {r}) = Total(old, Runs \ {r})
      BY <1>3, <1>4, FS_Subset, TotalSame
    <3>4. Total(old, Runs \ {r}) \in Nat
      BY <1>2, <1>4, TotalNat
    <3> QED
      BY <1>2, <3>1, <3>2, <3>3, <3>4
  <2> QED
    BY <2>3, <2>4
<1>6. old[r] = Weight(r, row) /\ new[r] = Weight(r, row)' /\ old[r] \in Nat /\ new[r] \in Nat
  BY <1>1, <1>2 DEF Weights
<1>7. Total(old, Runs) <= Used(row) /\ Used(row) \in Nat /\ Used(row)' \in Nat
  BY <1>1 DEF ReadingsClaimed, TypeOK, Used
<1>8. new[r] + Used(row) <= old[r] + Used(row)'
  BY <1>6
<1> QED
  BY <1>1, <1>5, <1>6, <1>7, <1>8

(* A step that leaves the claims, the readings and both counters alone.    *)
LEMMA QuietSteps ==
    ASSUME TypeOK, TypeOK', ReadingsClaimed, UNCHANGED <<world, free, store, readings, tx>>
    PROVE  ReadingsClaimed'
<1>1. \A r \in Runs, row \in Rows : Weight(r, row)' = Weight(r, row) /\ Open(r, row)' = Open(r, row)
  BY DEF Weight, Open, tiers
<1>2. \A row \in Rows : Used(row)' = Used(row) /\ Used(row) \in Nat
  BY DEF Used, tiers, TypeOK
<1>3. ~tiers => \A r \in Runs, row \in Rows : Open(r, row)' <= tx'[r].draft[row]
  BY <1>1 DEF ReadingsClaimed
<1> QED
  BY <1>1, <1>2, <1>3, WeightNat, LightSteps

(* Transactions that roll back give up what they claimed.                  *)
LEMMA RollbackReads ==
    ASSUME TypeOK, TypeOK', ReadingsClaimed, UNCHANGED <<world, free, store, readings>>,
           \A r \in Runs : tx'[r] \in {tx[r], NoTx}
    PROVE  ReadingsClaimed'
<1>1. NoTx.claims = << >> /\ \A row \in Rows : NoTx.draft[row] = 0
  BY DEF NoTx, NoDraft
<1>2. \A r \in Runs, row \in Rows : (Open(r, row)' = Open(r, row) /\ tx'[r] = tx[r]) \/ (Open(r, row)' = 0 /\ tx'[r] = NoTx)
  BY <1>1, SumEmpty DEF Open
<1>3. \A r \in Runs, row \in Rows : Weight(r, row)' <= Weight(r, row)
  <2> TAKE r \in Runs, row \in Rows
  <2>1. SumOf(readings[r], r, row) \in Nat /\ Open(r, row) \in Nat
    BY SumNat, WeightNat DEF TypeOK
  <2> QED
    BY <1>2, <2>1 DEF Weight, tiers
<1>4. \A row \in Rows : Used(row)' = Used(row) /\ Used(row) \in Nat
  BY DEF Used, tiers, TypeOK
<1>5. ~tiers => \A r \in Runs, row \in Rows : Open(r, row)' <= tx'[r].draft[row]
  <2> SUFFICES ASSUME ~tiers, NEW r \in Runs, NEW row \in Rows PROVE Open(r, row)' <= tx'[r].draft[row]
    OBVIOUS
  <2>1. CASE Open(r, row)' = Open(r, row) /\ tx'[r] = tx[r]
    BY <2>1 DEF ReadingsClaimed
  <2>2. CASE Open(r, row)' = 0 /\ tx'[r] = NoTx
    BY <1>1, <2>2
  <2> QED
    BY <1>2, <2>1, <2>2
<1> QED
  BY <1>3, <1>4, <1>5, LightSteps

LEMMA ClaimReads ==
    ASSUME TypeOK, TypeOK', TxInv, ReadingsClaimed, NEW r \in Runs, Claim(r)
    PROVE  ReadingsClaimed'
<1> DEFINE grant == Grant(free[Row(r)] + tx[r].draft[Row(r)])
<1>1. ~tiers /\ Claiming(r) /\ Take(r) /\ UNCHANGED <<world, free, store, readings>>
  BY DEF Claim, still, tables
<1>2. Row(r) \in Rows
  BY <1>1, RowIsRow DEF TxInv
<1>3. /\ \A s \in Runs : s # r => tx'[s] = tx[s]
      /\ tx'[r].draft = [tx[r].draft EXCEPT ![Row(r)] = @ + grant]
      /\ tx'[r].claims = Append(tx[r].claims, grant)
  BY <1>1, TakeEffect DEF TxInv
<1>4. grant \in Nat
  <2>1. free[Row(r)] \in Nat /\ tx[r].draft[Row(r)] \in Nat
    BY <1>2 DEF TypeOK
  <2> QED
    BY <2>1, GrantFits
<1> HIDE DEF grant
<1>5. \A row \in Rows : /\ Open(r, row)' = Open(r, row) + (IF Row(r) = row THEN grant ELSE 0)
                        /\ tx'[r].draft[row] = tx[r].draft[row] + (IF Row(r) = row THEN grant ELSE 0)
                        /\ tx[r].draft[row] \in Nat /\ Open(r, row) <= tx[r].draft[row] /\ Open(r, row) \in Nat
  <2> TAKE row \in Rows
  <2>1. tx[r].claims \in Seq(Nat) /\ tx[r].draft \in [Rows -> Nat]
    BY DEF TypeOK
  <2>2. Open(r, row)' = Open(r, row) + (IF Row(r) = row THEN grant ELSE 0)
    BY <1>3, <1>4, <2>1, SumAppend DEF Open, Row
  <2> QED
    BY <1>1, <1>3, <1>4, <2>1, <2>2, WeightNat DEF ReadingsClaimed
<1>6. \A row \in Rows : Open(r, row)' <= tx'[r].draft[row]
  BY <1>4, <1>5
<1>7. \A row \in Rows : Weight(r, row)' = Weight(r, row) /\ Used(row)' = Used(row) /\ Weight(r, row) \in Nat /\ Used(row) \in Nat
  BY <1>1, WeightNat DEF Weight, Used, tiers, TypeOK
<1>8. \A row \in Rows : Weight(r, row)' + Used(row) <= Weight(r, row) + Used(row)'
  BY <1>7
<1>9. world' = world /\ \A s \in Runs \ {r} : tx'[s] = tx[s] /\ readings'[s] = readings[s]
  BY <1>1, <1>3
<1> QED
  BY <1>6, <1>8, <1>9, CountedSteps

LEMMA StoreReads ==
    ASSUME TypeOK, TypeOK', TxInv, ReadingsClaimed, NEW r \in Runs, StoreClaim(r) \/ StoreSilent(r)
    PROVE  ReadingsClaimed'
<1>1. tiers /\ Claiming(r) /\ UNCHANGED <<world, free, readings>>
  BY DEF StoreClaim, StoreSilent, still, tables
<1>2. /\ Row(r) \in Rows /\ InStore(r) = store[Row(r)] /\ store[Row(r)] \in Nat /\ Grant(InStore(r)) \in Nat
  BY <1>1, RowIsRow, StoreLeads DEF TxInv
<1>3. \E n, m \in {0, Grant(InStore(r))} :
          /\ n <= m /\ store' = [store EXCEPT ![Row(r)] = @ + m] /\ (\A s \in Runs \ {r} : tx'[s] = tx[s])
          /\ tx'[r].claims = Append(tx[r].claims, n)
  <2>0. tx[r] \in TxRecord /\ tx \in [Runs -> TxRecord] /\ store \in [Rows -> Nat]
    BY DEF TypeOK, TxRecord
  <2>1. CASE StoreClaim(r)
    <3>1. /\ store' = [store EXCEPT ![Row(r)] = InStore(r) + Grant(InStore(r))]
          /\ tx' = [tx EXCEPT ![r] = [tx[r] EXCEPT !.told = InStore(r) + Grant(InStore(r)),
                                                   !.claims = Append(tx[r].claims, Grant(InStore(r)))]]
      BY <1>1, <2>1, StoreEffect DEF TxInv
    <3>2. tx'[r].claims = Append(tx[r].claims, Grant(InStore(r))) /\ \A s \in Runs \ {r} : tx'[s] = tx[s]
      BY <2>0, <3>1 DEF TxRecord
    <3>3. store' = [store EXCEPT ![Row(r)] = @ + Grant(InStore(r))]
      BY <1>2, <2>0, <3>1
    <3> QED
      BY <1>2, <3>2, <3>3
  <2>2. CASE StoreSilent(r)
    <3>1. /\ tx' = [tx EXCEPT ![r] = [tx[r] EXCEPT !.claims = Append(tx[r].claims, 0)]]
          /\ \E total \in {store[Row(r)], InStore(r) + Grant(InStore(r))} : store' = [store EXCEPT ![Row(r)] = total]
      BY <2>2, SilentEffect DEF TxInv
    <3>2. tx'[r].claims = Append(tx[r].claims, 0) /\ \A s \in Runs \ {r} : tx'[s] = tx[s]
      BY <2>0, <3>1 DEF TxRecord
    <3>3. \E m \in {0, Grant(InStore(r))} : store' = [store EXCEPT ![Row(r)] = @ + m]
      <4>1. PICK total \in {store[Row(r)], InStore(r) + Grant(InStore(r))} : store' = [store EXCEPT ![Row(r)] = total]
        BY <3>1
      <4>2. CASE total = store[Row(r)]
        <5>1. total = store[Row(r)] + 0
          BY <1>2, <4>2
        <5> QED
          BY <4>1, <5>1
      <4>3. CASE total = InStore(r) + Grant(InStore(r))
        <5>1. total = store[Row(r)] + Grant(InStore(r))
          BY <1>2, <4>3
        <5> QED
          BY <4>1, <5>1
      <4> QED
        BY <4>1, <4>2, <4>3
    <3>4. 0 <= 0 /\ 0 <= Grant(InStore(r))
      BY <1>2
    <3> QED
      BY <3>2, <3>3, <3>4
  <2> QED
    BY <2>1, <2>2, Zenon
<1>4. PICK n \in Nat, m \in Nat :
          /\ n <= m /\ store' = [store EXCEPT ![Row(r)] = @ + m] /\ (\A s \in Runs \ {r} : tx'[s] = tx[s])
          /\ tx'[r].claims = Append(tx[r].claims, n)
  BY <1>2, <1>3
<1>5. \A row \in Rows : Weight(r, row)' + Used(row) <= Weight(r, row) + Used(row)'
  <2> TAKE row \in Rows
  <2>1. tx[r].claims \in Seq(Nat) /\ SumOf(readings[r], r, row) \in Nat /\ Open(r, row) \in Nat
    BY SumNat, WeightNat DEF TypeOK
  <2>2. Open(r, row)' = Open(r, row) + (IF Row(r) = row THEN n ELSE 0)
    <3>1. SumOf(Append(tx[r].claims, n), r, row)
              = SumOf(tx[r].claims, r, row) + (IF <<SubjectOf[r], Attempts[r][Len(tx[r].claims) + 1]>> = row THEN n ELSE 0)
      BY <2>1, SumAppend
    <3> QED
      BY <1>4, <3>1 DEF Open, Row
  <2>3. Used(row)' = Used(row) + (IF Row(r) = row THEN m ELSE 0) /\ Used(row) \in Nat
    <3>1. store \in [Rows -> Nat]
      BY DEF TypeOK
    <3>2. store'[row] = store[row] + (IF Row(r) = row THEN m ELSE 0) /\ store[row] \in Nat
      BY <1>2, <1>4, <3>1
    <3>3. Used(row) = store[row] /\ Used(row)' = store'[row]
      BY <1>1 DEF Used, tiers
    <3> QED
      BY <3>2, <3>3
  <2>4. /\ Weight(r, row) = SumOf(readings[r], r, row) + Open(r, row)
        /\ Weight(r, row)' = SumOf(readings[r], r, row) + Open(r, row)'
    BY <1>1 DEF Weight, tiers
  <2> QED
    BY <1>4, <2>1, <2>2, <2>3, <2>4
<1> QED
  BY <1>1, <1>4, <1>5, CountedSteps

LEMMA MirrorReads ==
    ASSUME TypeOK, TypeOK', TxInv, ReadingsClaimed, NEW r \in Runs, Mirror(r)
    PROVE  ReadingsClaimed'
<1>1. tiers /\ UNCHANGED <<world, free, store, readings>>
  BY DEF Mirror, still, tables, TxInv, TxInOrder
<1>2. tx'[r].claims = tx[r].claims /\ \A s \in Runs : s # r => tx'[s] = tx[s]
  BY MirrorEffect DEF TxInv
<1>3. \A s \in Runs, row \in Rows : Weight(s, row)' = Weight(s, row) /\ Weight(s, row) \in Nat
  BY <1>1, <1>2, WeightNat DEF Weight, Open, tiers
<1>4. \A row \in Rows : Used(row)' = Used(row) /\ Used(row) \in Nat
  BY <1>1 DEF Used, tiers, TypeOK
<1> QED
  BY <1>1, <1>3, <1>4, LightSteps

(* The claims become the readings; without the tiers they are counted now. *)
LEMMA CommitReads ==
    ASSUME TypeOK, TypeOK', TxInv, ReadingsClaimed, NEW r \in Runs, Commit(r)
    PROVE  ReadingsClaimed'
<1>1. /\ world' = world /\ store' = store /\ tx' = [tx EXCEPT ![r] = NoTx]
      /\ readings' = [readings EXCEPT ![r] = IF @ = << >> THEN tx[r].claims ELSE @]
      /\ free' = [row \in Rows |-> IF tiers THEN Max({free[row], tx[r].draft[row]}) ELSE free[row] + tx[r].draft[row]]
  BY DEF Commit, still
<1>2. NoTx.claims = << >> /\ \A row \in Rows : NoTx.draft[row] = 0
  BY DEF NoTx, NoDraft
<1>3. /\ tx'[r] = NoTx /\ readings'[r] = (IF readings[r] = << >> THEN tx[r].claims ELSE readings[r])
      /\ \A s \in Runs \ {r} : tx'[s] = tx[s] /\ readings'[s] = readings[s]
  BY <1>1 DEF TypeOK
<1>4. \A row \in Rows : Weight(r, row)' + Used(row) <= Weight(r, row) + Used(row)'
  <2> TAKE row \in Rows
  <2>1. SumOf(readings[r], r, row) \in Nat /\ Open(r, row) \in Nat
    BY SumNat, WeightNat DEF TypeOK
  <2>2. Open(r, row)' = 0
    BY <1>2, <1>3, SumEmpty DEF Open
  <2>3. SumOf(readings[r], r, row)' \in {SumOf(readings[r], r, row), Open(r, row)}
    BY <1>3 DEF Open
  <2>4. SumOf(readings[r], r, row)' <= SumOf(readings[r], r, row) + Open(r, row) /\ SumOf(readings[r], r, row)' \in Nat
    BY <2>1, <2>3
  <2>5. CASE tiers
    <3>1. Used(row)' = Used(row) /\ Used(row) \in Nat
      BY <1>1, <2>5 DEF Used, tiers, TypeOK
    <3>2. /\ Weight(r, row) = SumOf(readings[r], r, row) + Open(r, row)
          /\ Weight(r, row)' = SumOf(readings[r], r, row)'
      BY <1>1, <2>2, <2>4, <2>5 DEF Weight, tiers
    <3> QED
      BY <2>1, <2>4, <3>1, <3>2
  <2>6. CASE ~tiers
    <3>1. Used(row)' = Used(row) + tx[r].draft[row] /\ Used(row) \in Nat /\ tx[r].draft[row] \in Nat
      BY <1>1, <2>6 DEF Used, tiers, TypeOK
    <3>2. Weight(r, row) = SumOf(readings[r], r, row) /\ Weight(r, row)' = SumOf(readings[r], r, row)'
      BY <1>1, <2>1, <2>4, <2>6 DEF Weight, tiers
    <3>3. Open(r, row) <= tx[r].draft[row]
      BY <2>6 DEF ReadingsClaimed
    <3> QED
      BY <2>1, <2>4, <3>1, <3>2, <3>3
  <2> QED
    BY <2>5, <2>6
<1>5. \A row \in Rows : Open(r, row)' <= tx'[r].draft[row]
  BY <1>2, <1>3, SumEmpty DEF Open
<1> QED
  BY <1>1, <1>3, <1>4, <1>5, CountedSteps

LEMMA StepReads == BooksInv /\ ReadingsClaimed /\ TypeOK' /\ [Next]_vars => ReadingsClaimed'
<1> SUFFICES ASSUME BooksInv, ReadingsClaimed, TypeOK', [Next]_vars PROVE ReadingsClaimed'
  OBVIOUS
<1>0. TypeOK /\ TxInv
  BY DEF BooksInv, TxInv
<1>1. ASSUME NEW r \in Runs,
             \/ AdmitHold(r) \/ AdmitRefused(r) \/ AdmitTimesOut(r) \/ QuotaRead(r) \/ QuotaCount(r)
             \/ Answer(r) \/ Break(r) \/ Cancel(r) \/ AccountBegin(r) \/ Settle(r) \/ PostFails(r) \/ Close(r)
             \/ Create(r) \/ CreateFails(r) \/ \E b \in Budgets : Expire(r, b)
      PROVE  ReadingsClaimed'
  <2>1. CASE Answer(r) \/ Break(r) \/ Cancel(r)
    <3>1. UNCHANGED <<world, free, store, readings, tx>>
      BY <2>1, WorksAnyhow DEF Works, still, tables
    <3> QED
      BY <1>0, <3>1, QuietSteps
  <2>2. CASE ~(Answer(r) \/ Break(r) \/ Cancel(r))
    <3>1. UNCHANGED <<world, free, store, readings, tx>>
      BY <1>1, <2>2 DEF AdmitHold, AdmitRefused, AdmitTimesOut, QuotaRead, QuotaCount, AccountBegin, Settle, PostFails, Close,
                        Create, CreateFails, Expire, still, tables
    <3> QED
      BY <1>0, <3>1, QuietSteps
  <2> QED
    BY <2>1, <2>2
<1>2. ASSUME NEW r \in Runs, Claim(r) \/ StoreClaim(r) \/ StoreSilent(r) \/ Mirror(r) \/ Commit(r) PROVE ReadingsClaimed'
  BY <1>0, <1>2, ClaimReads, StoreReads, MirrorReads, CommitReads
<1>3. ASSUME NEW r \in Runs, Rollback(r) PROVE ReadingsClaimed'
  <2>1. UNCHANGED <<world, free, store, readings>> /\ \A s \in Runs : tx'[s] \in {tx[s], NoTx}
    BY <1>0, <1>3 DEF Rollback, still, tables, TypeOK
  <2> QED
    BY <1>0, <2>1, RollbackReads
<1>4. CASE Die
  <2>1. UNCHANGED <<world, free, store, readings>> /\ \A s \in Runs : tx'[s] \in {tx[s], NoTx}
    BY <1>4 DEF Die, tables
  <2> QED
    BY <1>0, <2>1, RollbackReads
<1>5. CASE UNCHANGED vars
  BY <1>0, <1>5, QuietSteps DEF vars
<1> QED
  BY <1>1, <1>2, <1>3, <1>4, <1>5 DEF Next, Step

LEMMA InitReads == Init => ReadingsClaimed
<1> SUFFICES ASSUME Init PROVE ReadingsClaimed
  OBVIOUS
<1>1. TypeOK
  BY InitBooks DEF BooksInv
<1>2. \A r \in Runs, row \in Rows : Open(r, row) = 0 /\ Weight(r, row) = 0 /\ tx[r].draft[row] \in Nat
  BY <1>1, SumEmpty DEF Init, NoTx, Open, Weight, TypeOK
<1>3. ASSUME NEW row \in Rows PROVE Total(Weights(row), Runs) <= Used(row)
  <2>1. PICK g, none : g = Weights(row) /\ none = [r \in Runs |-> 0]
    OBVIOUS
  <2>2. \A r \in Runs : g[r] = 0
    BY <1>2, <2>1 DEF Weights
  <2>3. Total(g, Runs) = 0
    BY <2>2, AccountingAssumption, TotalOfNone
  <2> QED
    BY <1>1, <2>1, <2>3 DEF Used, TypeOK
<1> QED
  BY <1>2, <1>3 DEF ReadingsClaimed, TypeOK

LEMMA ReadingsAdd == TypeOK => \A row \in Rows : \A r \in Runs :
    MapThenSumSet(LAMBDA i : readings[r][i], OnRow(r, row)) = SumOf(readings[r], r, row)
<1> SUFFICES ASSUME TypeOK, NEW row \in Rows, NEW r \in Runs
             PROVE  MapThenSumSet(LAMBDA i : readings[r][i], OnRow(r, row)) = SumOf(readings[r], r, row)
  OBVIOUS
<1> DEFINE S == OnRow(r, row)
           step(it) == [s \in SUBSET S |-> IF s = {} THEN 0 ELSE LET x == CHOOSE x \in s : TRUE IN readings[r][x] + it[s \ {x}]]
           iter == CHOOSE it : it = step(it)
<1>1. readings[r] \in Seq(Nat) /\ S = OfRow(readings[r], r, row)
  BY DEF TypeOK, OnRow, OfRow
<1>2. IsFiniteSet(S)
  BY <1>1, SumNat
<1>3. MapThenSumSet(LAMBDA i : readings[r][i], S) = iter[S]
  BY DEF MapThenSumSet, MapThenFoldSet
<1>4. PICK g : g = readings[r]
  OBVIOUS
<1>5. PICK k : Adds(k, g, S)
  <2> HIDE DEF S
  <2> QED
    BY <1>2, SomethingAdds
<1> DEFINE h == [s \in SUBSET S |-> k[s]]
<1>6. h = step(h)
  <2>1. \A s \in SUBSET S : h[s] = step(h)[s]
    BY <1>4, <1>5 DEF Adds, One
  <2> QED
    BY <2>1
<1>7. iter = step(iter)
  <2> HIDE DEF step, h
  <2> QED
    BY <1>6
<1>8. Adds(iter, g, S)
  <2>1. \A s \in SUBSET S : iter[s] = step(iter)[s]
    BY <1>7
  <2> HIDE DEF iter
  <2> QED
    BY <1>4, <2>1 DEF Adds, One
<1>9. iter[S] = Total(g, S)
  <2> HIDE DEF iter, S
  <2> QED
    BY <1>2, <1>8, TotalIs
<1> QED
  BY <1>1, <1>3, <1>4, <1>9 DEF SumOf

LEMMA GrantedIs ==
    ASSUME TypeOK, NEW row \in Rows
    PROVE  Granted(row) = Total([r \in Runs |-> SumOf(readings[r], r, row)], Runs)
<1> DEFINE of(r) == MapThenSumSet(LAMBDA i : readings[r][i], OnRow(r, row))
           step(it) == [s \in SUBSET Runs |-> IF s = {} THEN 0 ELSE LET x == CHOOSE x \in s : TRUE IN of(x) + it[s \ {x}]]
           iter == CHOOSE it : it = step(it)
<1>1. IsFiniteSet(Runs)
  BY AccountingAssumption
<1>2. Granted(row) = iter[Runs]
  BY DEF Granted, MapThenSumSet, MapThenFoldSet
<1>3. PICK g : g = [r \in Runs |-> SumOf(readings[r], r, row)]
  OBVIOUS
<1>4. \A r \in Runs : g[r] = of(r)
  BY <1>3, ReadingsAdd
<1>5. PICK k : Adds(k, g, Runs)
  BY <1>1, SomethingAdds
<1> DEFINE h == [s \in SUBSET Runs |-> k[s]]
<1> HIDE DEF of
<1>6. h = step(h)
  <2>1. \A s \in SUBSET Runs : h[s] = step(h)[s]
    BY <1>4, <1>5 DEF Adds, One
  <2> QED
    BY <2>1
<1>7. iter = step(iter)
  <2> HIDE DEF step, h
  <2> QED
    BY <1>6
<1>8. Adds(iter, g, Runs)
  <2>1. \A s \in SUBSET Runs : iter[s] = step(iter)[s]
    BY <1>7
  <2> HIDE DEF iter
  <2> QED
    BY <1>4, <2>1 DEF Adds, One
<1>9. iter[Runs] = Total(g, Runs)
  <2> HIDE DEF iter
  <2> QED
    BY <1>1, <1>8, TotalIs
<1> QED
  BY <1>2, <1>3, <1>9

(* The readings of all the runs, however often a run is accounted and      *)
(* whatever is rolled back or answered too late, name no free token that   *)
(* was not counted against its allowance; which is never passed.           *)
THEOREM ReadingsAreCounted == Spec => []AllowanceHolds
<1>1. BooksInv /\ ReadingsClaimed => \A row \in Rows : Granted(row) <= Used(row)
  <2> SUFFICES ASSUME BooksInv, ReadingsClaimed, NEW row \in Rows PROVE Granted(row) <= Used(row)
    OBVIOUS
  <2>1. TypeOK
    BY DEF BooksInv
  <2>2. PICK read, all : read = [r \in Runs |-> SumOf(readings[r], r, row)] /\ all = Weights(row)
    OBVIOUS
  <2>3. \A r \in Runs : read[r] \in Nat /\ all[r] \in Nat /\ read[r] <= all[r]
    <3> TAKE r \in Runs
    <3>1. SumOf(readings[r], r, row) \in Nat /\ Open(r, row) \in Nat
      BY <2>1, SumNat, WeightNat DEF TypeOK
    <3> QED
      BY <2>2, <3>1 DEF Weights, Weight
  <2>4. IsFiniteSet(Runs)
    BY AccountingAssumption
  <2>5. Total(read, Runs) <= Total(all, Runs) /\ Total(read, Runs) \in Nat /\ Total(all, Runs) \in Nat
    BY <2>3, <2>4, TotalAtMost, TotalNat
  <2>6. Total(all, Runs) <= Used(row) /\ Used(row) \in Nat
    BY <2>1, <2>2 DEF ReadingsClaimed, Used, TypeOK
  <2> QED
    BY <2>1, <2>2, <2>5, <2>6, GrantedIs
<1>2. Init /\ BooksInv => ReadingsClaimed
  BY InitReads
<1>3. BooksInv /\ BooksInv' /\ ReadingsClaimed /\ [Next]_vars => ReadingsClaimed'
  BY StepReads DEF BooksInv
<1> QED
  BY <1>1, <1>2, <1>3, BooksAlways, AllowanceNeverPassed, PTL DEF Spec, AllowanceHolds

---------------------------------------------------------------------------------
(* Somebody goes on.                                                       *)

(* Where everybody points at somebody, some of them point at each other.   *)
LEMMA SomeCycle ==
    ASSUME NEW W, IsFiniteSet(W), W # {}, NEW E, \A s \in W : \E t \in W : <<s, t>> \in E
    PROVE  \E C \in SUBSET W : C # {} /\ \A s \in C : (\E t \in C : <<s, t>> \in E) /\ (\E t \in C : <<t, s>> \in E)
<1> DEFINE Points(C) == \A s \in C : \E t \in C : <<s, t>> \in E
           Found     == \E C \in SUBSET W : C # {} /\ Points(C) /\ \A s \in C : \E t \in C : <<t, s>> \in E
           G         == {C \in SUBSET W : C # {} /\ Points(C) => Found}
<1>1. ASSUME NEW C \in SUBSET W, \A x \in C : C \ {x} \in G, C # {}, Points(C) PROVE Found
  <2>1. CASE \A s \in C : \E t \in C : <<t, s>> \in E
    BY <1>1, <2>1
  <2>2. ASSUME NEW s \in C, \A t \in C : <<t, s>> \notin E PROVE Found
    <3>1. \A t \in C : \E u \in C \ {s} : <<t, u>> \in E
      BY <1>1, <2>2
    <3>2. C \ {s} # {} /\ Points(C \ {s})
      BY <2>2, <3>1
    <3>3. C \ {s} \in G
      BY <1>1, <2>2
    <3> QED
      BY <3>2, <3>3
  <2> QED
    BY <2>1, <2>2
<1>2. \A C \in SUBSET W : (\A x \in C : C \ {x} \in G) => C \in G
  BY <1>1
<1>3. \A C \in SUBSET W : C \in G
  <2> HIDE DEF G
  <2> QED
    BY <1>2, OnSubsets
<1>4. Found
  BY <1>3
<1> QED
  BY <1>4

(* Only transactions hold locks, so a wait that does not end by itself     *)
(* leads from transaction to transaction, and back.                        *)
LEMMA WaitersPoint ==
    ASSUME BooksInv, NEW r \in Runs, InTx(r) \/ pc[r] = "account", ~GoesOn(r)
    PROVE  \E s \in WaitsFor(r) : s \in Runs /\ InTx(s)
<1>1. \A s \in Runs : tx[s].locks # {} => InTx(s)
  BY DEF BooksInv, TxInOrder, NoTx
<1>2. CASE pc[r] = "account"
  <2>1. ~CounterFree(r)
    BY <1>2 DEF GoesOn
  <2>2. CountsWith(r) # {}
    BY <2>1 DEF CounterFree
  <2>3. WaitsFor(r) = CountsWith(r)
    <3>1. ~Claiming(r) /\ pc[r] # "mirror"
      BY <1>2 DEF Claiming
    <3> QED
      BY <1>2, <3>1 DEF WaitsFor
  <2> QED
    BY <2>2, <2>3 DEF CountsWith
<1>3. CASE Claiming(r) /\ ~tiers
  <2>1. pc[r] = "claim" /\ Holders(r) # {}
    BY <1>3 DEF GoesOn, Claiming
  <2>2. WaitsFor(r) = Holders(r)
    BY <1>3, <2>1 DEF WaitsFor
  <2> QED
    BY <1>1, <2>1, <2>2 DEF Holders
<1>4. CASE pc[r] = "mirror"
  <2>1. MirrorOf(r) # {} /\ WaitsFor(r) = MirrorOf(r)
    BY <1>4 DEF GoesOn, WaitsFor, Claiming
  <2> QED
    BY <1>1, <2>1 DEF MirrorOf
<1>5. CASE pc[r] = "claim" /\ ~(Claiming(r) /\ ~tiers)
  <2>1. Len(tx[r].claims) <= made[r] /\ Len(tx[r].claims) \in Nat /\ made[r] \in Nat
    BY DEF BooksInv, TypeOK, TxInOrder
  <2> QED
    BY <1>5, <2>1 DEF GoesOn, Claiming
<1> QED
  BY <1>2, <1>3, <1>4, <1>5 DEF InTx

(* index.js and free-allowance.js: the locks of the window, of the         *)
(* allowance rows and the totals of the store never bring the accounting   *)
(* to a halt, however many runs account together: while a run is under     *)
(* way, one of them waits for nobody, or is in a deadlock that PostgreSQL  *)
(* ends.                                                                   *)
THEOREM NobodyIsStuck ==
    Spec => []((\E r \in Runs : pc[r] \notin {"new"} \cup Finished) => \E r \in Runs : GoesOn(r))
<1>1. BooksInv => ((\E r \in Runs : pc[r] \notin {"new"} \cup Finished) => \E r \in Runs : GoesOn(r))
  <2> SUFFICES ASSUME BooksInv, NEW q \in Runs, pc[q] \notin {"new"} \cup Finished, \A r \in Runs : ~GoesOn(r) PROVE FALSE
    OBVIOUS
  <2> DEFINE W == {r \in Runs : InTx(r) \/ pc[r] = "account"}
             E == {p \in Runs \X Runs : p[2] \in WaitsFor(p[1])}
  <2>1. \A s \in W : \E t \in W : <<s, t>> \in E
    BY WaitersPoint
  <2>2. W # {}
    <3>1. pc[q] \in Steps
      BY DEF BooksInv, TypeOK, Steps
    <3>2. CASE pc[q] = "count"
      BY <3>2 DEF GoesOn, CounterFree, CountsWith
    <3> QED
      BY <3>1, <3>2 DEF Steps, GoesOn, InTx
  <2>3. IsFiniteSet(W)
    BY AccountingAssumption, FS_Subset
  <2>4. PICK C \in SUBSET W : C # {} /\ \A s \in C : (\E t \in C : <<s, t>> \in E) /\ (\E t \in C : <<t, s>> \in E)
    <3> HIDE DEF W, E
    <3> QED
      BY <2>1, <2>2, <2>3, SomeCycle
  <2>5. PICK s \in C : TRUE
    BY <2>4
  <2>6. \A t \in C : WaitsFor(t) \cap C # {} /\ \E u \in C : t \in WaitsFor(u)
    BY <2>4
  <2>7. s \in Runs /\ Deadlocked(s)
    BY <2>5, <2>6 DEF Deadlocked
  <2> QED
    BY <2>5, <2>7 DEF GoesOn
<1> QED
  BY <1>1, BooksAlways, PTL

==================================================================================
