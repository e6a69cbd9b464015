------------------------------ MODULE RunLifecycle ------------------------------
(***************************************************************************)
(* What server/runs.js promises its callers about one run, with no queue,  *)
(* no worker and no process in sight: the row appears once, its status     *)
(* only moves forward, it ends exactly once, and the outbox holds exactly  *)
(* the events of the statuses it went through.  An idempotency key of a    *)
(* caller names at most one run.  RunQueue implements it.                  *)
(***************************************************************************)
EXTENDS Sequences

CONSTANTS Requests,      \* the create calls a caller may make; each would be one run
          NoKey,         \* "no idempotency key"
          KeyOf          \* the (caller, idempotency key) of each create call, or NoKey

VARIABLES row,           \* runs.status of each request's run, "absent" before its INSERT
          outbox         \* the ai.run.* events queued for it, in order

vars == <<row, outbox>>

Open     == {"queued", "running"}
Terminal == {"succeeded", "failed", "cancelled", "cached"}
Status   == {"absent"} \cup Open \cup Terminal

(* The statuses that are announced: running and cancelled have no event.   *)
Announced == {"queued", "cached", "succeeded", "failed"}

(* The unique index on (requester, idempotency_key).                       *)
KeyTaken(r) == \E s \in Requests : s # r /\ row[s] # "absent" /\ KeyOf[s] = KeyOf[r] /\ KeyOf[r] # NoKey

(* A change of status commits together with the event it owes.             *)
MoveAll(S, status) ==
    /\ row' = [r \in Requests |-> IF r \in S THEN status ELSE row[r]]
    /\ outbox' = [r \in Requests |-> IF r \in S /\ status \in Announced
                                     THEN Append(outbox[r], status) ELSE outbox[r]]

Init == /\ row = [r \in Requests |-> "absent"]
        /\ outbox = [r \in Requests |-> <<>>]

Appear(r) == /\ row[r] = "absent"
             /\ ~KeyTaken(r)
             /\ \E status \in {"queued", "cached"} : MoveAll({r}, status)

Start(r)  == row[r] = "queued" /\ MoveAll({r}, "running")

Finish(r) == \/ row[r] = "running" /\ MoveAll({r}, "succeeded")
             \/ row[r] \in Open /\ \E status \in {"failed", "cancelled"} : MoveAll({r}, status)

(* A restart fails every run the previous process left open, in one transaction. *)
Recover   == MoveAll({r \in Requests : row[r] \in Open}, "failed")

Next == \/ \E r \in Requests : Appear(r) \/ Start(r) \/ Finish(r)
        \/ Recover

Spec == Init /\ [][Next]_vars

=================================================================================
