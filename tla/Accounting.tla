------------------------------- MODULE Accounting -------------------------------
(***************************************************************************)
(* What a run is counted for besides money: the tier budgets that hold an  *)
(* estimate before it starts (server/govern.js), the quota windows that    *)
(* count it (server/quota.js), and the accounting that follows: the tokens *)
(* in the windows, the free allowance of its subject                       *)
(* (server/free-allowance.js), one reading per attempt                     *)
(* (server/usage-samples.js).  Runs of server/runs.js interleave at every  *)
(* await; the transactions of PostgreSQL are READ COMMITTED with row       *)
(* locks, the counters in Valkey change one command at a time.             *)
(*                                                                         *)
(* One quota on requests and tokens stands for all, one unit for ai-token  *)
(* and ai-usd, and one kind of token for the three: the code treats each   *)
(* in the same loop.                                                       *)
(***************************************************************************)
EXTENDS Naturals, Sequences, FiniteSets, FiniteSetsExt, SequencesExt

CONSTANTS Runs,
          Own,           \* runs on a person's own keys that fell back to the network: no hold, no reservation
          Subjects, Providers,
          SubjectOf,     \* [Runs -> Subjects]: subjectOf(ctx)
          Attempts,      \* [Runs -> Seq(Providers)]: the provider of each attempt that may use tokens
          Free,          \* the runs whose budgets are all on the free tier
          Limit,         \* [Budgets -> Nat]: the holds a budget has room for
          MaxRequests, MaxTokens,   \* the quota of the window
          Quantity,      \* the tokens of an attempt
          Cap,           \* free_allowance of a rate card
          Worlds         \* AI_GOVERN_TIERS, with what may fail under it (bound): the runs for which
                         \* Valkey may not answer in time, those for which the database may fail,
                         \* and whether the process may die, once

Order   == <<"subject", "project">>
Budgets == {"subject", "project"}
Rows    == Subjects \X Providers

ASSUME AccountingAssumption ==
    /\ IsFiniteSet(Runs) /\ Own \subseteq Runs /\ Free \subseteq Runs
    /\ SubjectOf \in [Runs -> Subjects] /\ Attempts \in [Runs -> Seq(Providers)]
    /\ Worlds \subseteq [tiers : BOOLEAN, silent : SUBSET Runs, faults : SUBSET Runs, dies : BOOLEAN]
    /\ Limit \in [Budgets -> Nat]
    /\ MaxRequests \in Nat /\ MaxTokens \in Nat \ {0} /\ Quantity \in Nat \ {0} /\ Cap \in Nat

VARIABLES world,      \* the one of Worlds this is
          count,      \* usage_counters: requests and tokens of the window
          free,       \* free_allowance_usage.free_used, committed
          store,      \* the free-allowance counters in Valkey
          gov,        \* the tier hold of each run on each budget, in Valkey
          known,      \* hold.ids: the holds a run knows of
          lost,       \* history: the holds whose command got no answer, or whose process died
          pc,         \* where a run is
          seen,       \* what reserve() read of the window
          made,       \* the attempts of it that used tokens
          caught,     \* whether it is in the catch of execute()
          tx,         \* its accounting transaction: the allowance rows it locked, what it will write
                      \* there, the free tokens it claimed, the total the store told it last
          readings,   \* the free tokens on the reading of each of its attempts
          accounted,  \* history: how often its accounting committed
          died        \* the process died

vars   == <<world, count, free, store, gov, known, lost, pc, seen, made, caught, tx, readings, accounted, died>>
valkey == <<gov, known, lost>>
tables == <<count, free, readings, accounted>>
still  == <<world, died>>

tiers     == world.tiers
SilentFor == world.silent
FaultOn   == world.faults
MayDie    == world.dies

Unused   == [requests |-> 0, tokens |-> 0]
NoDraft  == [row \in Rows |-> 0]
NoTx     == [locks |-> {}, draft |-> NoDraft, claims |-> <<>>, told |-> 0]
Finished == {"over", "refused"}

Init ==
    /\ world \in Worlds /\ died = FALSE
    /\ count = Unused
    /\ free = [row \in Rows |-> 0] /\ store = [row \in Rows |-> 0]
    /\ gov = [r \in Runs |-> [b \in Budgets |-> "none"]]
    /\ known = [r \in Runs |-> {}] /\ lost = [r \in Runs |-> {}]
    /\ pc = [r \in Runs |-> "new"] /\ seen = [r \in Runs |-> Unused]
    /\ made = [r \in Runs |-> 0] /\ caught = [r \in Runs |-> FALSE]
    /\ tx = [r \in Runs |-> NoTx]
    /\ readings = [r \in Runs |-> <<>>] /\ accounted = [r \in Runs |-> 0]

Go(r, step) == pc' = [pc EXCEPT ![r] = step]

---------------------------------------------------------------------------------
(* The tier budgets.                                                       *)

(* The commands of a loop over hold.ids that Valkey answered in time.      *)
InTime(r) == IF r \in SilentFor THEN SUBSET known[r] ELSE {known[r]}

(* release() and settle() name each hold once, with or without an answer.  *)
Return(r, holds, as) ==
    \E done \in InTime(r) :
        /\ gov' = [gov EXCEPT ![r] = [b \in Budgets |-> IF b \in done THEN as ELSE holds[b]]]
        /\ lost' = [lost EXCEPT ![r] = @ \cup {b \in Budgets : b \notin done /\ holds[b] = "held"}]
        /\ known' = [known EXCEPT ![r] = {}]

(* The holds that count against the budget b of run r.                     *)
Taken(r, b) == {s \in Runs : /\ gov[s][b] \in {"held", "spent"}
                             /\ b = "project" \/ SubjectOf[s] = SubjectOf[r]}
Room(r, b)  == Cardinality(Taken(r, b)) < Limit[b]

(* admit() takes the budgets in order.                                     *)
NextBudget(r) == Order[Cardinality(known[r]) + 1]

AdmitHold(r) ==
    /\ pc[r] = "admit"
    /\ LET b == NextBudget(r) IN
       /\ Room(r, b)
       /\ gov' = [gov EXCEPT ![r][b] = "held"] /\ known' = [known EXCEPT ![r] = @ \cup {b}]
       /\ Go(r, IF b = "project" THEN "reserve" ELSE "admit")
    /\ UNCHANGED <<still, tables, store, lost, seen, made, caught, tx>>

(* Mutant: the refusal of one budget keeps what the other one holds.       *)
AdmitRefused_KeepsHold(r) ==
    /\ pc[r] = "admit" /\ ~Room(r, NextBudget(r))
    /\ known' = [known EXCEPT ![r] = {}]
    /\ Go(r, "refused")
    /\ UNCHANGED <<still, tables, store, gov, lost, seen, made, caught, tx>>

(* A budget without room refuses the run, and what was held goes back.     *)
AdmitRefused(r) ==
    /\ pc[r] = "admit" /\ ~Room(r, NextBudget(r))
    /\ Return(r, gov[r], "freed")
    /\ Go(r, "refused")
    /\ UNCHANGED <<still, tables, store, seen, made, caught, tx>>

(* No answer in time, whether the hold was taken or not: what is known     *)
(* goes back; an all-free run goes on without a hold, any other is refused.*)
AdmitTimesOut(r) ==
    /\ r \in SilentFor /\ pc[r] = "admit"
    /\ LET b == NextBudget(r) IN
       \E after \in {gov[r]} \cup (IF Room(r, b) THEN {[gov[r] EXCEPT ![b] = "held"]} ELSE {}) :
           Return(r, after, "freed")
    /\ Go(r, IF r \in Free THEN "reserve" ELSE "refused")
    /\ UNCHANGED <<still, tables, store, seen, made, caught, tx>>

(* A hold that nobody knows of any more expires.                           *)
Expire(r, b) ==
    /\ gov[r][b] = "held" /\ b \in lost[r]
    /\ gov' = [gov EXCEPT ![r][b] = "expired"]
    /\ UNCHANGED <<still, tables, store, known, lost, pc, seen, made, caught, tx>>

---------------------------------------------------------------------------------
(* The quota windows, and the row of the run.                              *)

(* create() is past its own checks.                                        *)
Create(r) ==
    /\ pc[r] = "new"
    /\ Go(r, IF r \in Own THEN "work" ELSE IF tiers THEN "admit" ELSE "reserve")
    /\ UNCHANGED <<still, tables, store, valkey, seen, made, caught, tx>>

Full(used) == used.requests + 1 > MaxRequests \/ used.tokens >= MaxTokens

(* Mutant: the window is full one request too late.                        *)
QuotaRead_OneMore(r) ==
    /\ pc[r] = "reserve"
    /\ IF count.requests > MaxRequests \/ count.tokens >= MaxTokens
       THEN Return(r, gov[r], "freed") /\ Go(r, "refused") /\ UNCHANGED seen
       ELSE /\ seen' = [seen EXCEPT ![r] = count]
            /\ Go(r, "count") /\ UNCHANGED valkey
    /\ UNCHANGED <<still, tables, store, made, caught, tx>>

(* reserveTx() reads the counter of the window; a full one refuses, and    *)
(* the tier hold goes back.                                                *)
QuotaRead(r) ==
    /\ pc[r] = "reserve"
    /\ IF Full(count)
       THEN Return(r, gov[r], "freed") /\ Go(r, "refused") /\ UNCHANGED seen
       ELSE /\ seen' = [seen EXCEPT ![r] = count]
            /\ Go(r, "count") /\ UNCHANGED valkey
    /\ UNCHANGED <<still, tables, store, made, caught, tx>>

(* The accounting of a run that was counted holds the row of its window.   *)
InTx(r)        == pc[r] \in {"claim", "mirror"}
CountsWith(r)  == IF r \in Own THEN {} ELSE {s \in Runs \ (Own \cup {r}) : InTx(s)}
CounterFree(r) == CountsWith(r) = {}

(* ... and bumps it, once its row is free, whatever it says by then.        *)
QuotaCount(r) ==
    /\ pc[r] = "count" /\ CounterFree(r)
    /\ count' = [count EXCEPT !.requests = @ + 1]
    /\ seen' = [seen EXCEPT ![r] = Unused]
    /\ Go(r, "work")
    /\ UNCHANGED <<still, store, valkey, free, readings, accounted, made, caught, tx>>

(* The reservation or the INSERT fails: the tier hold goes back.           *)
CreateFails(r) ==
    /\ r \in FaultOn /\ pc[r] \in {"reserve", "count", "work"}
    /\ Return(r, gov[r], "freed")
    /\ Go(r, "refused") /\ seen' = [seen EXCEPT ![r] = Unused]
    /\ UNCHANGED <<still, tables, store, made, caught, tx>>

---------------------------------------------------------------------------------
(* The run works: how many of its attempts used tokens, and how it ended.  *)

Works(r, tokens, ends) ==
    /\ pc[r] = "work"
    /\ made' = [made EXCEPT ![r] = tokens]
    /\ caught' = [caught EXCEPT ![r] = ends.caught]
    /\ Go(r, ends.next)
    /\ UNCHANGED <<still, tables, store, valkey, seen, tx>>

(* An answer whose row is committed goes to the accounting.                *)
Answer(r) == \E tokens \in 1..Len(Attempts[r]) : Works(r, tokens, [caught |-> FALSE, next |-> "account"])

(* A run that failed after an attempt accounts in the catch of execute(),  *)
(* if it reserved anything; one that tried none, or without a reservation, *)
(* does not.                                                               *)
Break(r) == \E tokens \in 0..Len(Attempts[r]), next \in {"account", "close"} :
    /\ r \in Own => next = "close"
    /\ tokens > 0 /\ r \notin Own => next = "account"
    /\ Works(r, tokens, [caught |-> TRUE, next |-> next])

(* A cancel before execute() read the row, or while it finished: it returns*)
(* without any accounting.                                                 *)
Cancel(r) == \E tokens \in 0..Len(Attempts[r]) : Works(r, tokens, [caught |-> FALSE, next |-> "close"])

---------------------------------------------------------------------------------
(* account(): one transaction, then the hold.                              *)

(* The counter of the window is bumped first, and stays locked.            *)
AccountBegin(r) ==
    /\ pc[r] = "account" /\ CounterFree(r)
    /\ Go(r, "claim")
    /\ UNCHANGED <<still, tables, store, valkey, seen, made, caught, tx>>

(* The next attempt and the allowance it claims from.                      *)
Claiming(r)  == pc[r] = "claim" /\ Len(tx[r].claims) < made[r]
Row(r)       == <<SubjectOf[r], Attempts[r][Len(tx[r].claims) + 1]>>
Holders(r)   == {s \in Runs \ {r} : Row(r) \in tx[s].locks}
Grant(used)  == Min({Quantity, IF used < Cap THEN Cap - used ELSE 0})

Take(r) ==
    LET grant == Grant(free[Row(r)] + tx[r].draft[Row(r)]) IN
    tx' = [tx EXCEPT ![r].locks = @ \cup {Row(r)}, ![r].draft[Row(r)] = @ + grant,
                     ![r].claims = Append(@, grant)]

(* Mutant: the claim reads the row without locking it.                     *)
Claim_NoLock(r) ==
    /\ ~tiers /\ Claiming(r)
    /\ Take(r)
    /\ UNCHANGED <<still, tables, store, valkey, pc, seen, made, caught>>

(* Without the tiers: SELECT ... FOR UPDATE, then the UPDATE.              *)
Claim(r) ==
    /\ ~tiers /\ Claiming(r) /\ Holders(r) = {}
    /\ Take(r)
    /\ UNCHANGED <<still, tables, store, valkey, pc, seen, made, caught>>

(* With the tiers: one atomic step in Valkey, whose floor is what the      *)
(* transaction sees in PostgreSQL ...                                      *)
InStore(r)   == LET row == Row(r) IN Max({store[row], free[row], tx[r].draft[row]})

StoreClaim(r) ==
    /\ tiers /\ Claiming(r)
    /\ LET grant == Grant(InStore(r)) IN
       /\ store' = [store EXCEPT ![Row(r)] = InStore(r) + grant]
       /\ tx' = [tx EXCEPT ![r].told = InStore(r) + grant, ![r].claims = Append(@, grant)]
    /\ Go(r, "mirror")
    /\ UNCHANGED <<still, tables, valkey, seen, made, caught>>

(* ... that may answer too late, done or not: nothing is free then.        *)
StoreSilent(r) ==
    /\ r \in SilentFor /\ tiers /\ Claiming(r)
    /\ \E total \in {store[Row(r)], InStore(r) + Grant(InStore(r))} : store' = [store EXCEPT ![Row(r)] = total]
    /\ tx' = [tx EXCEPT ![r].claims = Append(@, 0)]
    /\ UNCHANGED <<still, tables, valkey, pc, seen, made, caught>>

(* The total the store told is kept in PostgreSQL, never lowered.          *)
Mirrored(r)  == <<SubjectOf[r], Attempts[r][Len(tx[r].claims)]>>
MirrorOf(r)  == {s \in Runs \ {r} : Mirrored(r) \in tx[s].locks}

Mirror(r) ==
    /\ pc[r] = "mirror" /\ MirrorOf(r) = {}
    /\ tx' = [tx EXCEPT ![r].locks = @ \cup {Mirrored(r)}, ![r].draft[Mirrored(r)] = Max({@, tx[r].told}), ![r].told = 0]
    /\ Go(r, "claim")
    /\ UNCHANGED <<still, tables, store, valkey, seen, made, caught>>

(* The tokens of the run, its claims and its readings, one per attempt: a  *)
(* reading that is there already stays as it is.                           *)
Commit(r) ==
    /\ pc[r] = "claim" /\ Len(tx[r].claims) = made[r]
    /\ count' = IF r \in Own THEN count ELSE [count EXCEPT !.tokens = @ + made[r] * Quantity]
    /\ free' = [row \in Rows |-> IF tiers THEN Max({free[row], tx[r].draft[row]}) ELSE free[row] + tx[r].draft[row]]
    /\ readings' = [readings EXCEPT ![r] = IF @ = <<>> THEN tx[r].claims ELSE @]
    /\ accounted' = [accounted EXCEPT ![r] = @ + 1]
    /\ tx' = [tx EXCEPT ![r] = NoTx]
    /\ Go(r, "settle")
    /\ UNCHANGED <<still, store, valkey, seen, made, caught>>

(* Whom a transaction waits for.                                           *)
WaitsFor(r) == CASE pc[r] = "account" -> CountsWith(r)
                 [] Claiming(r) /\ ~tiers -> Holders(r)
                 [] pc[r] = "mirror" -> MirrorOf(r)
                 [] OTHER -> {}
Deadlocked(r) == \E cycle \in SUBSET Runs :
    /\ r \in cycle
    /\ \A s \in cycle : WaitsFor(s) \cap cycle # {} /\ \E t \in cycle : s \in WaitsFor(t)

(* Where execute() goes on from an error of the accounting or of a         *)
(* statement behind it.                                                    *)
Catch(r) ==
    /\ caught' = [caught EXCEPT ![r] = TRUE]
    /\ Go(r, IF caught[r] \/ r \in Own THEN "close" ELSE "account")

RollsBack(r) == (InTx(r) \/ pc[r] = "account") /\ (r \in FaultOn \/ Deadlocked(r))

(* Mutant: the connection goes back to the pool inside its transaction.    *)
Rollback_KeepsLocks(r) ==
    /\ RollsBack(r) /\ Catch(r)
    /\ tx' = [tx EXCEPT ![r] = [NoTx EXCEPT !.locks = tx[r].locks]]
    /\ UNCHANGED <<still, tables, store, valkey, seen, made>>

(* A statement fails, or PostgreSQL ends a deadlock.  What the store gave  *)
(* is not taken back.                                                      *)
Rollback(r) ==
    /\ RollsBack(r) /\ Catch(r)
    /\ tx' = [tx EXCEPT ![r] = NoTx]
    /\ UNCHANGED <<still, tables, store, valkey, seen, made>>

(* Mutant: a catch that accounted is caught again.                         *)
Settle_AlwaysPosts(r) ==
    /\ pc[r] = "settle"
    /\ Return(r, gov[r], IF made[r] > 0 THEN "spent" ELSE "freed")
    /\ Go(r, "post") /\ caught' = [caught EXCEPT ![r] = FALSE]
    /\ UNCHANGED <<still, tables, store, seen, made, tx>>

(* The hold becomes what was used; nothing used leaves nothing counted.    *)
Settle(r) ==
    /\ pc[r] = "settle"
    /\ Return(r, gov[r], IF made[r] > 0 THEN "spent" ELSE "freed")
    /\ Go(r, IF caught[r] THEN "close" ELSE "post")
    /\ UNCHANGED <<still, tables, store, seen, made, caught, tx>>

(* The record, the receipt, the budget or the cache fails: the catch       *)
(* accounts the run again.                                                 *)
PostFails(r) ==
    /\ pc[r] = "post" /\ r \in FaultOn
    /\ Catch(r)
    /\ UNCHANGED <<still, tables, store, valkey, seen, made, tx>>

(* Else the finally around execute(): a hold that was not settled goes back.    *)
Close(r) ==
    /\ pc[r] \in {"post", "close"}
    /\ Return(r, gov[r], "freed")
    /\ Go(r, "over") /\ caught' = [caught EXCEPT ![r] = FALSE]
    /\ UNCHANGED <<still, tables, store, seen, made, tx>>

---------------------------------------------------------------------------------
(* The environment.                                                        *)

(* The process dies: transactions roll back, nobody knows of a hold, and   *)
(* what was under way ends at the next boot.                               *)
Die ==
    /\ MayDie /\ ~died /\ died' = TRUE
    /\ tx' = [r \in Runs |-> NoTx] /\ known' = [r \in Runs |-> {}]
    /\ lost' = [r \in Runs |-> {b \in Budgets : gov[r][b] = "held"}]
    /\ pc' = [r \in Runs |-> IF pc[r] \in {"new", "refused"} THEN pc[r] ELSE "over"]
    /\ seen' = [r \in Runs |-> Unused] /\ caught' = [r \in Runs |-> FALSE]
    /\ UNCHANGED <<world, tables, store, gov, made>>

Step(r) ==
    \/ AdmitHold(r) \/ AdmitRefused(r) \/ AdmitTimesOut(r)
    \/ QuotaRead(r) \/ QuotaCount(r)
    \/ Answer(r) \/ Break(r) \/ Cancel(r)
    \/ AccountBegin(r) \/ Claim(r) \/ StoreClaim(r) \/ StoreSilent(r) \/ Mirror(r) \/ Commit(r)
    \/ Rollback(r) \/ Settle(r) \/ PostFails(r) \/ Close(r)

Next ==
    \/ \E r \in Runs : Step(r) \/ Create(r) \/ CreateFails(r) \/ \E b \in Budgets : Expire(r, b)
    \/ Die

Spec == Init /\ [][Next]_vars

---------------------------------------------------------------------------------
(* Properties.                                                             *)

TypeOK ==
    /\ world \in Worlds /\ died \in BOOLEAN
    /\ count \in [requests : Nat, tokens : Nat]
    /\ free \in [Rows -> Nat] /\ store \in [Rows -> Nat]
    /\ gov \in [Runs -> [Budgets -> {"none", "held", "spent", "freed", "expired"}]]
    /\ known \in [Runs -> SUBSET Budgets] /\ lost \in [Runs -> SUBSET Budgets]
    /\ pc \in [Runs -> {"new", "admit", "reserve", "count", "work", "account", "claim",
                        "mirror", "settle", "post", "close"} \cup Finished]
    /\ seen \in [Runs -> [requests : Nat, tokens : Nat]]
    /\ made \in [Runs -> Nat] /\ caught \in [Runs -> BOOLEAN]
    /\ tx \in [Runs -> [locks : SUBSET Rows, draft : [Rows -> Nat], claims : Seq(Nat), told : Nat]]
    /\ readings \in [Runs -> Seq(Nat)]
    /\ accounted \in [Runs -> 0..2]

(* The free tokens that the readings of all runs name of one allowance.    *)
OnRow(r, row) == {i \in 1..Len(readings[r]) : <<SubjectOf[r], Attempts[r][i]>> = row}
Granted(row)  == MapThenSumSet(LAMBDA r : MapThenSumSet(LAMBDA i : readings[r][i], OnRow(r, row)), Runs)
Used(row)     == IF tiers THEN store[row] ELSE free[row]

(* free-allowance.js: concurrent claims never exceed the card's allowance  *)
(* in total, whatever is rolled back, answered late or accounted twice ... *)
AllowanceCapped == \A row \in Rows : free[row] <= Used(row) /\ Used(row) <= Cap
(* ... and no reading names a free token that was not claimed.             *)
AllowanceHolds  == AllowanceCapped /\ \A row \in Rows : Granted(row) <= Used(row)

(* When a run is over, each of its tier holds was settled because its      *)
(* tokens are accounted, or given back because none are, or is left to     *)
(* expire because Valkey or the process was gone.  (A free run may go on   *)
(* with no hold when Valkey did not answer.)                               *)
HoldsResolved == \A r \in Runs, b \in Budgets : pc[r] \in Finished =>
    CASE gov[r][b] = "held"  -> b \in lost[r]
      [] gov[r][b] = "spent" -> accounted[r] > 0 /\ made[r] > 0
      [] gov[r][b] = "freed" -> accounted[r] = 0 \/ made[r] = 0 \/ r \in Free \cap SilentFor
      [] OTHER               -> TRUE

(* A window is passed only by a run that read it before another one        *)
(* counted: reserve() refuses every run that could have known.             *)
QuotaOnlyRaced == [][
    count'.requests > count.requests /\ Full(count) =>
        \E r \in Runs : pc[r] = "count" /\ pc'[r] = "work" /\ seen[r] # count]_vars

(* The guards of what a run does by itself, with a database that answers:  *)
(* it waits for no lock, or PostgreSQL ends the deadlock it is in.         *)
GoesOn(r) ==
    \/ pc[r] \in {"admit", "reserve", "work", "settle", "post", "close"}
    \/ pc[r] \in {"count", "account"} /\ CounterFree(r)
    \/ Claiming(r) /\ (tiers \/ Holders(r) = {})
    \/ pc[r] = "mirror" /\ MirrorOf(r) = {}
    \/ pc[r] = "claim" /\ Len(tx[r].claims) = made[r]
    \/ (InTx(r) \/ pc[r] = "account") /\ Deadlocked(r)

(* While a run is not over one of them can go on, whatever they wait for,  *)
(* and without a failure that ends a wait: every wait is for a lock of an  *)
(* accounting that goes on, or of a cycle that PostgreSQL breaks.  A run   *)
(* takes finitely many steps, so all of them come to an end.               *)
SomeRunGoesOn ==
    (\E r \in Runs : pc[r] \notin {"new"} \cup Finished) => \E r \in Runs : GoesOn(r) /\ ENABLED Step(r)
=================================================================================
