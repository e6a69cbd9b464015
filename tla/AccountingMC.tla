------------------------------ MODULE AccountingMC ------------------------------
(***************************************************************************)
(* Small instances of Accounting.                                          *)
(***************************************************************************)
EXTENDS Accounting

CONSTANTS r1, r2, own, ann, bob, p, q

(* Two runs of one person, one of them on that person's own keys, and one  *)
(* of another person.                                                      *)
MCSubjectOf == [r \in Runs |-> IF r = r2 THEN bob ELSE ann]
(* The two runs of one person try two providers in opposite order.         *)
MCAttempts  == [r \in Runs |-> IF r = own THEN <<q, p>> ELSE IF r = r1 THEN <<p, q>> ELSE <<p>>]
(* Room for two holds of a person, for one of the project.                 *)
MCLimit     == [b \in Budgets |-> IF b = "project" THEN 1 ELSE 2]
(* Silence alone, the other failures together, and the tiers switched off. *)
World(t, s, f, d) == [tiers |-> t, silent |-> s, faults |-> f, dies |-> d]
MCWorlds    == {World(TRUE, {r2}, {}, FALSE), World(TRUE, {own}, {r1}, TRUE), World(FALSE, {}, {r1}, TRUE)}
=================================================================================
