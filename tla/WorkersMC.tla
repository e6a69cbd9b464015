-------------------------------- MODULE WorkersMC --------------------------------
(***************************************************************************)
(* Small instances of the two timers that keep a promise to the outside:   *)
(* the deliveries of webhooks and the reconciler of rented GPUs, and of    *)
(* the weekly job that several processes may not run together.  They share *)
(* nothing, so one run checks one after the other: `part` says which, and  *)
(* the others stay as they began.                                          *)
(***************************************************************************)
EXTENDS Webhooks, GpuRentals, RefusalRates

CONSTANTS w1,      \* the process of both timers
          Parts    \* the parts a run checks
VARIABLE part
workersVars == <<part, webhookVars, gpuVars, refusalVars>>

MCSubscribersOf == [e \in WebhookEvents |-> Receivers]

Deliveries == part = "webhooks" /\ WebhookNext /\ UNCHANGED <<part, gpuVars, refusalVars>>
Rentals    == part = "gpu" /\ GpuNext /\ UNCHANGED <<part, webhookVars, refusalVars>>
Refusals   == part = "refusals" /\ RefusalNext /\ UNCHANGED <<part, webhookVars, gpuVars>>

WorkersInit == part \in Parts /\ WebhookInit /\ GpuInit /\ RefusalInit
WorkersNext == Deliveries \/ Rentals \/ Refusals

(* The fairness of WebhookSpec and of GpuSpec, for the part at hand: every *)
(* worker goes on, and so does the time of the webhooks.                   *)
WorkerGoesOn(w) ==
    \/ part = "webhooks" /\ w \in Senders /\ SenderSteps(w) /\ UNCHANGED <<part, gpuVars, refusalVars>>
    \/ part = "gpu" /\ w \in Reconcilers /\ PassSteps(w) /\ UNCHANGED <<part, webhookVars, refusalVars>>
WorkersFairness ==
    /\ \A w \in Senders \cup Reconcilers : WF_workersVars(WorkerGoesOn(w))
    /\ WF_workersVars(part = "webhooks" /\ TimePasses /\ UNCHANGED <<part, gpuVars, refusalVars>>)
WorkersSpec == WorkersInit /\ [][WorkersNext]_workersVars /\ WorkersFairness
==================================================================================
