------------------------------- MODULE RunQueueMC -------------------------------
(***************************************************************************)
(* Small instances of RunQueue: one slot, one waiting place.               *)
(***************************************************************************)
EXTENDS RunQueue

CONSTANTS r1, r2, r3, alice, bob, k

MCCallerOf == [r \in Requests |-> IF r = r3 THEN bob ELSE alice]
(* r1 and r2 are the same call made twice.                                 *)
MCKeyOf    == [r \in Requests |-> IF r \in {r1, r2} THEN k ELSE NoKey]
MCNoKeys   == [r \in Requests |-> NoKey]
(* r3's caller has earned queue priority.                                  *)
MCPriority == [r \in Requests |-> IF r = r3 THEN 1 ELSE 0]
=================================================================================
