--------------------------------- MODULE FreeUse ---------------------------------
(***************************************************************************)
(* Free use of one device on one day (server/abuse/index.js, pow.js): a    *)
(* run nobody pays for is admitted on its account's allowance, or on the   *)
(* one allowance of the device once more than three accounts used it, and  *)
(* its tokens are counted when it has ended; a run without an account      *)
(* needs a solved challenge.  Every step is one statement between awaits.  *)
(* Rate and velocity may refuse any run; a run's tokens are one unit.      *)
(***************************************************************************)
EXTENDS Integers, FiniteSets, FiniteSetsExt

CONSTANTS UseRuns,        \* the runs of people with an account
          PersonOfRun,    \* [UseRuns -> people]
          AllowanceOf,    \* [people -> Nat]: the units of the account's tier
          AccountsAlone,  \* the accounts a device may have with an allowance of their own
          Solvers,        \* the runs without an account
          Challenges

People == {PersonOfRun[r] : r \in UseRuns}

ASSUME UseConstants ==
    /\ IsFiniteSet(UseRuns) /\ UseRuns # {}
    /\ AllowanceOf \in [People -> Nat] /\ AccountsAlone \in Nat

VARIABLES onDevice,    \* abuse_devices: of each account seen on the device its tier's units, once they are known
          daily,       \* abuse_daily_usage: the units of each account, and of the device
          useRuns,     \* of each run with an account: its step, the key it counts on, its cap
          challenges,  \* abuse_pow: issued or used
          solvers,     \* of each run without an account: its step and its challenge
          crossed      \* history: the runs that read what their key used while another one was under way on it
useVars == <<onDevice, daily, useRuns, challenges, solvers, crossed>>

NotSeen   == -2
SeenOnly  == -1
ItsDevice == "the device"

UseInit ==
    /\ onDevice = [p \in People |-> NotSeen]
    /\ daily = [k \in People \cup {ItsDevice} |-> 0]
    /\ useRuns = [r \in UseRuns |-> [step |-> "idle"]]
    /\ challenges = [c \in Challenges |-> "not issued"]
    /\ solvers = [s \in Solvers |-> [step |-> "idle"]]
    /\ crossed = {}

UseAt(r, step) == useRuns[r].step = step
UseTo(r, step) == useRuns' = [useRuns EXCEPT ![r].step = step]
UseOver(r)     == useRuns' = [useRuns EXCEPT ![r] = [step |-> "over"]]
(* Those admitted on a key's allowance that are not counted yet.           *)
UnderWay(key)  == {r \in UseRuns : /\ useRuns[r].step \in {"velocity", "running"}
                                   /\ useRuns[r].key = key /\ ~useRuns[r].exempt}

---------------------------------------------------------------------------------
(* admit() of a person's run.                                              *)

(* The device learns of the account, for a paid run too.                   *)
Touch(r) ==
    /\ UseAt(r, "idle")
    /\ onDevice' = [onDevice EXCEPT ![PersonOfRun[r]] = IF @ = NotSeen THEN SeenOnly ELSE @]
    /\ \/ UseTo(r, "tier")
       \/ UseOver(r)
    /\ UNCHANGED <<daily, challenges, solvers, crossed>>

(* The tier is known after Network and the community answered.             *)
TouchTier(r) ==
    /\ UseAt(r, "tier")
    /\ onDevice' = [onDevice EXCEPT ![PersonOfRun[r]] = AllowanceOf[PersonOfRun[r]]]
    /\ UseTo(r, "count")
    /\ UNCHANGED <<daily, challenges, solvers, crossed>>

Accounts == {p \in People : onDevice[p] # NotSeen}
Tiers    == {onDevice[p] : p \in {q \in People : onDevice[q] > SeenOnly}}

(* Mutant: one account too many keeps its own.                             *)
Shared_OneMore == Cardinality(Accounts) > AccountsAlone + 1

Shared == Cardinality(Accounts) > AccountsAlone

(* accountsOn(): the key and the cap; a run that may use its person's own  *)
(* key is not held by the allowance.                                       *)
CountAccounts(r) ==
    /\ UseAt(r, "count")
    /\ \E step \in {"rate", "running"} :
        useRuns' = [useRuns EXCEPT ![r] =
            [step |-> step, exempt |-> step = "running",
             key |-> IF Shared THEN ItsDevice ELSE PersonOfRun[r],
             cap |-> IF Shared THEN Min({AllowanceOf[PersonOfRun[r]]} \cup Tiers) ELSE AllowanceOf[PersonOfRun[r]]]]
    /\ UNCHANGED <<onDevice, daily, challenges, solvers, crossed>>

(* Refused by the rate, or what the key used today is read.                *)
ReadUsed(r) ==
    /\ UseAt(r, "rate")
    /\ \/ UseOver(r) /\ UNCHANGED crossed
       \/ /\ daily[useRuns[r].key] >= useRuns[r].cap
          /\ UseOver(r) /\ UNCHANGED crossed
       \/ /\ daily[useRuns[r].key] < useRuns[r].cap
          /\ UseTo(r, "velocity")
          /\ crossed' = IF UnderWay(useRuns[r].key) # {} THEN crossed \cup {r} ELSE crossed
    /\ UNCHANGED <<onDevice, daily, challenges, solvers>>

ReadVelocity(r) ==
    /\ UseAt(r, "velocity")
    /\ UseTo(r, "running") \/ UseOver(r)
    /\ UNCHANGED <<onDevice, daily, challenges, solvers, crossed>>

(* record(), of the key the run was admitted on, when the run answered on  *)
(* the service's key; nothing is counted of another one, or when the       *)
(* statement fails.                                                        *)
RecordUse(r) ==
    /\ UseAt(r, "running")
    /\ \/ daily' = [daily EXCEPT ![useRuns[r].key] = @ + 1] /\ UseTo(r, "counted")
       \/ UNCHANGED daily /\ UseOver(r)
    /\ UNCHANGED <<onDevice, challenges, solvers, crossed>>

---------------------------------------------------------------------------------
(* A run without an account.                                               *)

(* issue().                                                                *)
IssueChallenge(c) ==
    /\ challenges[c] = "not issued"
    /\ challenges' = [challenges EXCEPT ![c] = "issued"]
    /\ UNCHANGED <<onDevice, daily, useRuns, solvers, crossed>>

(* verify() reads the row of the challenge the run brings.                 *)
ReadChallenge(s) ==
    /\ solvers[s].step = "idle"
    /\ \E c \in Challenges :
        /\ challenges[c] # "not issued"
        /\ solvers' = [solvers EXCEPT ![s] =
               [step |-> IF challenges[c] = "issued" THEN "take" ELSE "refused", challenge |-> c]]
    /\ UNCHANGED <<onDevice, daily, useRuns, challenges, crossed>>

(* The UPDATE of an unused, unexpired row; the device may be another one.  *)
TakeChallenge(s) ==
    LET c == solvers[s].challenge IN
    /\ solvers[s].step = "take"
    /\ \/ /\ challenges[c] = "issued"
          /\ challenges' = [challenges EXCEPT ![c] = "used"]
          /\ \E step \in {"admitted", "refused"} : solvers' = [solvers EXCEPT ![s].step = step]
       \/ /\ solvers' = [solvers EXCEPT ![s].step = "refused"]
          /\ UNCHANGED challenges
    /\ UNCHANGED <<onDevice, daily, useRuns, crossed>>

AccountsNext == \E r \in UseRuns :
    Touch(r) \/ TouchTier(r) \/ CountAccounts(r) \/ ReadUsed(r) \/ ReadVelocity(r) \/ RecordUse(r)
SolversNext ==
    \/ \E c \in Challenges : IssueChallenge(c)
    \/ \E s \in Solvers : ReadChallenge(s) \/ TakeChallenge(s)
UseNext == AccountsNext \/ SolversNext
UseSpec == UseInit /\ [][UseNext]_useVars

---------------------------------------------------------------------------------
(* Properties.                                                             *)

UseTypeOK ==
    /\ \A p \in People : onDevice[p] \in {NotSeen, SeenOnly, AllowanceOf[p]}
    /\ \A k \in DOMAIN daily : daily[k] \in 0..Cardinality(UseRuns)
    /\ \A c \in Challenges : challenges[c] \in {"not issued", "issued", "used"}

CountedUse == {r \in UseRuns : useRuns[r].step = "counted"}
MostUnits  == Max({AllowanceOf[p] : p \in People})

(* However many accounts one device opens, a day's free runs on it use no  *)
(* more than the allowances of three of them and one that the rest share,  *)
(* but for the runs that were under way together and those that may use a  *)
(* key of their own.                                                       *)
DeviceIsBounded ==
    Cardinality({r \in CountedUse : ~useRuns[r].exempt /\ r \notin crossed}) <= (AccountsAlone + 1) * MostUnits

(* One solved challenge admits one run, when two bring it together too.    *)
SolvedOnce == \A s, t \in Solvers :
    (s # t /\ solvers[s].step = "admitted" /\ solvers[t].step = "admitted")
        => solvers[s].challenge # solvers[t].challenge

(* What the free tier gives away is metered.                               *)
FreeIsMetered == DeviceIsBounded /\ SolvedOnce
==================================================================================
