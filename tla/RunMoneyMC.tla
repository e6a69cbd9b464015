------------------------------- MODULE RunMoneyMC -------------------------------
(***************************************************************************)
(* Small instances of RunMoney: a cheap and a dear managed offer, and one  *)
(* that spends no Balance.                                                 *)
(***************************************************************************)
EXTENDS RunMoney

CONSTANTS cheap, dear, free

MCBase  == [o \in Offers |-> IF o = dear THEN 2 ELSE 1]
MCWorst == [o \in Offers |-> IF o = dear THEN 4 ELSE 2]
=================================================================================
