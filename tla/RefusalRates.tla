------------------------------ MODULE RefusalRates -------------------------------
(***************************************************************************)
(* The weekly measuring of refusal rates (server/refusal/job.js), by       *)
(* several processes of the service that share one row                     *)
(* (server/refusal/state.js): when the last run ended, and who holds the   *)
(* claim and until when.  The claim is never renewed, so a run that takes  *)
(* longer than it loses it.  Statements of state.js that fail are caught   *)
(* where they are made.                                                    *)
(***************************************************************************)
CONSTANT Measurers     \* the processes

NoMeasurer == "nobody"

ASSUME RefusalConstants == NoMeasurer \notin Measurers

VARIABLES weekOver,    \* no run ended within the last interval
          claimedBy,   \* refusal_state.claimed_by
          claimStands, \* claimed_until lies ahead
          measurer,    \* of each process: its step in tick()
          outlived     \* history: the processes whose claim ran out while they measured
refusalVars == <<weekOver, claimedBy, claimStands, measurer, outlived>>

RefusalInit ==
    /\ weekOver = TRUE
    /\ claimedBy = NoMeasurer /\ claimStands = FALSE
    /\ measurer = [p \in Measurers |-> "idle"]
    /\ outlived = {}

MeasurerMoves(p, from, to) == measurer[p] = from /\ measurer' = [measurer EXCEPT ![p] = to]
Forgets(p)                 == outlived' = outlived \ {p}

(* due(): a row that cannot be read counts as a job that never ran.        *)
Ticks(p) ==
    /\ MeasurerMoves(p, "idle", "due")
    /\ UNCHANGED <<weekOver, claimedBy, claimStands, outlived>>
FindDue(p)    == weekOver /\ Ticks(p)
FindUnread(p) == ~weekOver /\ Ticks(p)

(* claim(): one statement, whose answer may be lost; the process then does *)
(* not measure, and its claim stands until it runs out.                    *)
Free == claimedBy = NoMeasurer \/ ~claimStands
TakeClaim(p) ==
    /\ Free
    /\ MeasurerMoves(p, "due", "measuring") \/ MeasurerMoves(p, "due", "idle")
    /\ claimedBy' = p /\ claimStands' = TRUE
    /\ Forgets(p)
    /\ UNCHANGED weekOver

ClaimRefused(p) ==
    /\ MeasurerMoves(p, "due", "idle")
    /\ UNCHANGED <<weekOver, claimedBy, claimStands, outlived>>

(* The offers are asked one after the other.  A run that measured one, or  *)
(* had none to measure, is to be marked; one that no offer answered, or    *)
(* whose statement failed, is not.                                         *)
MeasureOffers(p) ==
    /\ MeasurerMoves(p, "measuring", "measured") \/ MeasurerMoves(p, "measuring", "stopped")
    /\ UNCHANGED <<weekOver, claimedBy, claimStands, outlived>>

(* release(), unless its statement fails; markRun() comes after it.        *)
AfterRelease(p) ==
    \/ MeasurerMoves(p, "measured", "over")
    \/ MeasurerMoves(p, "stopped", "idle")
GivesBack(p, held) ==
    /\ AfterRelease(p)
    /\ \/ held /\ claimedBy' = NoMeasurer /\ claimStands' = FALSE
       \/ UNCHANGED <<claimedBy, claimStands>>
    /\ Forgets(p)
    /\ UNCHANGED weekOver
(* Mutant: whoever holds the claim by now.                                 *)
ReleaseClaim_Any(p) == GivesBack(p, TRUE)
ReleaseClaim(p)     == GivesBack(p, claimedBy = p)

MarkRun(p) ==
    /\ MeasurerMoves(p, "over", "idle")
    /\ weekOver' \in {FALSE, weekOver}
    /\ UNCHANGED <<claimedBy, claimStands, outlived>>

(* The process is deployed again, or dies; its claim stays.                *)
MeasurerDies(p) ==
    /\ measurer[p] # "idle"
    /\ measurer' = [measurer EXCEPT ![p] = "idle"]
    /\ Forgets(p)
    /\ UNCHANGED <<weekOver, claimedBy, claimStands>>

IntervalPasses ==
    /\ ~weekOver /\ weekOver' = TRUE
    /\ UNCHANGED <<claimedBy, claimStands, measurer, outlived>>

ClaimRunsOut ==
    /\ claimStands /\ claimStands' = FALSE
    /\ outlived' = outlived \cup {p \in Measurers : p = claimedBy /\ measurer[p] = "measuring"}
    /\ UNCHANGED <<weekOver, claimedBy, measurer>>

MeasurerActs(p) ==
    \/ FindDue(p) \/ FindUnread(p) \/ TakeClaim(p) \/ ClaimRefused(p)
    \/ MeasureOffers(p) \/ ReleaseClaim(p) \/ MarkRun(p) \/ MeasurerDies(p)
RefusalNext == IntervalPasses \/ ClaimRunsOut \/ \E p \in Measurers : MeasurerActs(p)
RefusalSpec == RefusalInit /\ [][RefusalNext]_refusalVars

(* job.js:19-20, several workers run this service and only one of them     *)
(* measures the offers at a time: of two processes that measure together   *)
(* one has outlived its claim, and when it ends it does not give away the  *)
(* claim of the other.                                                     *)
OneMeasurer ==
    \A p, q \in Measurers :
        p # q /\ measurer[p] = "measuring" /\ measurer[q] = "measuring" => {p, q} \cap outlived # {}
==================================================================================
