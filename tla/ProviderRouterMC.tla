---------------------------- MODULE ProviderRouterMC ----------------------------
(***************************************************************************)
(* Small instances of ProviderRouter.                                      *)
(***************************************************************************)
EXTENDS ProviderRouter

CONSTANTS q1, q2, paid, other, local

(* Nobody has a key, one key each, or two keys for q1 alone.               *)
MCNoKeys  == [r \in Requests |-> 0]
MCOneKey  == [r \in Requests |-> 1]
MCKeys    == [r \in Requests |-> IF r = q1 THEN 2 ELSE 0]

(* A new table, or one where each provider has failed once.                *)
MCNew     == {Closed}
MCFailed  == {[Closed EXCEPT !.failures = 1]}
=================================================================================
