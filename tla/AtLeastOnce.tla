------------------------------- MODULE AtLeastOnce -------------------------------
(***************************************************************************)
(* What a sender that keeps its messages in a table promises: a message    *)
(* that was accepted is sent until its receiver took it, or is given up or *)
(* withdrawn, and what is over stays over.  A message may be sent, and     *)
(* taken, more than once while it is open; it is never reported as         *)
(* delivered without its receiver having taken it.                         *)
(***************************************************************************)
CONSTANT Messages

VARIABLES stage,  \* of each message: how far its sender says it is
          taken   \* the messages their receiver took
promised == <<stage, taken>>

Stages == {"none", "open", "delivered", "over"}

Init == stage = [m \in Messages |-> "none"] /\ taken = {}

Move(m, from, to) == stage[m] = from /\ stage' = [stage EXCEPT ![m] = to] /\ UNCHANGED taken

Accept(m)   == Move(m, "none", "open")
Take(m)     == stage[m] # "none" /\ taken' = taken \cup {m} /\ UNCHANGED stage
Deliver(m)  == m \in taken /\ Move(m, "open", "delivered")
GiveUp(m)   == Move(m, "open", "over")
(* The receiver is withdrawn, and every message to it.                     *)
Withdraw(M) == stage' = [m \in Messages |-> IF m \in M THEN "over" ELSE stage[m]] /\ UNCHANGED taken

Next == \/ \E m \in Messages : Accept(m) \/ Take(m) \/ Deliver(m) \/ GiveUp(m)
        \/ \E M \in SUBSET Messages : Withdraw(M)
Spec == Init /\ [][Next]_promised
==================================================================================
