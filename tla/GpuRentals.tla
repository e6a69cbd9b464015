-------------------------------- MODULE GpuRentals -------------------------------
(***************************************************************************)
(* The rented GPUs (server/gpu/provisioner.js) and a person's own endpoint *)
(* on one of them (server/gpu/endpoints.js).  A reconciler starts what is  *)
(* asked for, checks, gives back and sweeps once a minute; the marketplace *)
(* and Billing may fail or lose an answer, owners change their mind while  *)
(* a pass is under way, and the process may die between two calls.         *)
(***************************************************************************)
EXTENDS Naturals, FiniteSets, FiniteSetsExt

CONSTANTS GpuModels,     \* the shared models, which become offers for the router
          OwnEndpoints,  \* the private endpoints of persons
          Reconcilers,   \* the passes that may overlap
          MaxRents,      \* bound of the model: rows of gpu_instances
          HourPrices,    \* what the cheapest offer that fits may cost an hour
          MonthlyCap,
          MaxHours,      \* max_runtime_minutes
          StaleAfter,    \* STALE_ROW_MS, in the unit of time of the model
          MaxGpuFaults   \* bound of the model: failing calls, dying instances and processes

ASSUME GpuConstants ==
    /\ MaxRents \in Nat /\ MonthlyCap \in Nat /\ MaxHours \in Nat /\ StaleAfter \in Nat /\ MaxGpuFaults \in Nat
    /\ HourPrices \subseteq Nat \ {0}

HealthFailures == 2
Customers == GpuModels \cup OwnEndpoints
Rents     == 1..MaxRents
Nobody    == "nobody"

VARIABLES rents,     \* gpu_instances: whose, status, whether the marketplace id is known, price, reservation, age, charges
          up,        \* the marketplace: the instances that run and are paid for, by their label
          requests,  \* gpu_requests that are not done: [model, action]
          recent,    \* the models a run used within the idle minutes
          endpoints, \* own_endpoints: status, whether a hold id is written, the rent, whether it is settled
          holds,     \* Billing: the hold of each endpoint
          passing,   \* of each reconciler: where its pass is, what it read, what it launches
          gpuFaults
gpuVars == <<rents, up, requests, recent, endpoints, holds, passing, gpuFaults>>

NoRent == [of |-> Nobody, status |-> "none", linked |-> FALSE, hourly |-> 0, reserved |-> 0,
           age |-> 0, charged |-> 0, health |-> 0, used |-> FALSE]
NoEndpoint == [status |-> "none", held |-> FALSE, rent |-> 0, settled |-> FALSE]
Away == [phase |-> "idle", step |-> "next", todo |-> {}, seen |-> NoEndpoint, cur |-> Nobody, rent |-> 0,
         hourly |-> 0, reserved |-> 0, why |-> "none"]

GpuInit ==
    /\ rents = [i \in Rents |-> NoRent] /\ up = {}
    /\ requests = {} /\ recent = {}
    /\ endpoints = [e \in OwnEndpoints |-> NoEndpoint]
    /\ holds = [e \in OwnEndpoints |-> "none"]
    /\ passing = [w \in Reconcilers |-> Away]
    /\ gpuFaults = 0

---------------------------------------------------------------------------------
(* The tables.                                                             *)

Live        == {"starting", "running"}
LiveRents   == {i \in Rents : rents[i].status \in Live}
RentOf(c)   == {i \in LiveRents : rents[i].of = c}
(* moneySummary(): what is on the ledger and what is reserved.             *)
Settled     == MapThenSumSet(LAMBDA i : rents[i].charged, Rents)
Reserved    == MapThenSumSet(LAMBDA i : rents[i].reserved, LiveRents)
(* charge(): the hours since the last charge.                              *)
Charge(r)   == [r EXCEPT !.charged = r.hourly * r.age]

Faulty   == gpuFaults < MaxGpuFaults /\ gpuFaults' = gpuFaults + 1
Faultless == UNCHANGED gpuFaults
Go(w, step) == passing' = [passing EXCEPT ![w].step = step]
(* On to what the pass does next in its phase.                             *)
Done(w)     == passing' = [passing EXCEPT ![w].step = "next", ![w].cur = Nobody, ![w].rent = 0, ![w].why = "none",
                                          ![w].hourly = 0, ![w].reserved = 0, ![w].seen = NoEndpoint]

---------------------------------------------------------------------------------
(* Owners, users and time.                                                 *)

(* The owner asks for a model to start or stop.                            *)
RequestModel(m, action) ==
    /\ [model |-> m, action |-> action] \notin requests
    /\ requests' = requests \cup {[model |-> m, action |-> action]}
    /\ UNCHANGED <<rents, up, recent, endpoints, holds, passing, gpuFaults>>

(* endpoints.js create(): a request row.                                   *)
CreateEndpoint(e) ==
    /\ endpoints[e].status = "none"
    /\ endpoints' = [endpoints EXCEPT ![e].status = "requested"]
    /\ UNCHANGED <<rents, up, requests, recent, holds, passing, gpuFaults>>

(* endpoints.js stop(): one that was never started ends here, with its     *)
(* hold; any other is left to the reconciler.                              *)
StopEndpoint(e) ==
    /\ endpoints[e].status \in {"requested", "starting", "running"}
    /\ IF endpoints[e].status = "requested" /\ endpoints[e].rent = 0
       THEN /\ holds' = IF endpoints[e].held THEN [holds EXCEPT ![e] = "released"] ELSE holds
            /\ endpoints' = [endpoints EXCEPT ![e].status = "stopped", ![e].settled = endpoints[e].held]
       ELSE endpoints' = [endpoints EXCEPT ![e].status = "stopping"] /\ UNCHANGED holds
    /\ UNCHANGED <<rents, up, requests, recent, passing, gpuFaults>>

(* noteUse(): a request reached the GPU.                                   *)
UseRent(i) ==
    /\ rents[i].status = "running" /\ ~rents[i].used
    /\ rents' = [rents EXCEPT ![i].used = TRUE]
    /\ recent' = recent \cup ({rents[i].of} \cap GpuModels)
    /\ UNCHANGED <<up, requests, endpoints, holds, passing, gpuFaults>>

(* Bound of the model: time stops when a rent is a unit past its reservation.*)
GpuTimePasses ==
    /\ \A w \in Reconcilers : passing[w].phase = "idle"
    /\ LiveRents \cup up # {} /\ \A i \in LiveRents \cup up : rents[i].age <= MaxHours
    /\ rents' = [i \in Rents |-> IF i \in LiveRents \cup up THEN [rents[i] EXCEPT !.age = @ + 1, !.used = FALSE] ELSE rents[i]]
    /\ recent' = {}
    /\ UNCHANGED <<up, requests, endpoints, holds, passing, gpuFaults>>

InstanceDies(i) ==
    /\ i \in up /\ Faulty
    /\ up' = up \ {i}
    /\ UNCHANGED <<rents, requests, recent, endpoints, holds, passing>>

ReconcilerDies(w) ==
    /\ passing[w].phase # "idle" /\ Faulty
    /\ passing' = [passing EXCEPT ![w] = Away]
    /\ UNCHANGED <<rents, up, requests, recent, endpoints, holds>>

---------------------------------------------------------------------------------
(* The pass: endpoints.tick(), then the sweep, the requests, the live      *)
(* instances and the wanted models of provisioner.tick().                  *)

Enter(w, phase, todo) == passing' = [passing EXCEPT ![w] = [Away EXCEPT !.phase = phase, !.todo = todo]]
At(w, phase, step)    == passing[w].phase = phase /\ passing[w].step = step
(* One of what the phase read; `with` is what it is worked on with.        *)
Take(w, x, with) == passing' = [passing EXCEPT ![w] = [with EXCEPT !.todo = @ \ {x}]]

BeginPass(w) ==
    /\ passing[w].phase = "idle"
    /\ Enter(w, "endpoints", {[id |-> e, row |-> endpoints[e]] : e \in {f \in OwnEndpoints : endpoints[f].status # "none"}})
    /\ UNCHANGED <<rents, up, requests, recent, endpoints, holds, gpuFaults>>

NextPhase(w) ==
    /\ passing[w].step = "next" /\ passing[w].todo = {}
    /\ passing[w].phase # "idle"
    /\ CASE passing[w].phase = "endpoints" -> Enter(w, "sweep", up)
         [] passing[w].phase = "sweep"     -> Enter(w, "stale", {i \in Rents : rents[i].status = "starting" /\ ~rents[i].linked
                                                                               /\ rents[i].age > StaleAfter})
         [] passing[w].phase = "stale"     -> Enter(w, "requests", requests)
         [] passing[w].phase = "requests"  -> Enter(w, "instances", LiveRents)
         [] passing[w].phase = "instances" -> Enter(w, "wanted", GpuModels)
         [] passing[w].phase = "wanted"    -> Enter(w, "idle", {})
    /\ UNCHANGED <<rents, up, requests, recent, endpoints, holds, gpuFaults>>

(* By the row that was read when the pass began: start it, give it back,   *)
(* or settle it because its rent is over.                                  *)
NextEndpoint(w) ==
    /\ At(w, "endpoints", "next")
    /\ \E x \in passing[w].todo :
        LET work(step) == [passing[w] EXCEPT !.cur = x.id, !.seen = x.row, !.step = step] IN
        Take(w, x, CASE x.row.status = "requested" -> work("launch")
                     [] x.row.status = "stopping"  -> work("liveFor")
                     [] x.row.rent # 0 /\ ~x.row.settled /\ x.row.status # "stopping"
                        /\ rents[x.row.rent].status \in {"destroyed", "refused"} -> work("afterDestroy")
                     [] OTHER -> passing[w])
    /\ UNCHANGED <<rents, up, requests, recent, endpoints, holds, gpuFaults>>

(* Mutant: only an instance without a row is an orphan.                    *)
SweepInstance_Rowless(w) ==
    /\ At(w, "sweep", "next")
    /\ \E i \in passing[w].todo :
        /\ Take(w, i, passing[w])
        /\ rents' = [rents EXCEPT ![i].linked = TRUE] /\ UNCHANGED up /\ Faultless
    /\ UNCHANGED <<requests, recent, endpoints, holds>>

(* sweepOrphans(): an instance of a live row is linked to it; any other    *)
(* that carries our label is charged and given back.                       *)
SweepInstance(w) ==
    /\ At(w, "sweep", "next")
    /\ \E i \in passing[w].todo :
        /\ Take(w, i, passing[w])
        /\ IF i \in LiveRents
           THEN rents' = [rents EXCEPT ![i].linked = TRUE] /\ UNCHANGED up /\ Faultless
           ELSE \/ /\ rents' = [rents EXCEPT ![i] = [Charge(@) EXCEPT !.status = "destroyed"]]
                   /\ up' = up \ {i} /\ Faultless
                \/ rents' = [rents EXCEPT ![i] = Charge(@)] /\ UNCHANGED up /\ Faulty
    /\ UNCHANGED <<requests, recent, endpoints, holds>>

(* A row whose rental never came back.                                     *)
AbandonStale(w) ==
    /\ At(w, "stale", "next")
    /\ \E i \in passing[w].todo :
        /\ Take(w, i, passing[w])
        /\ rents' = [rents EXCEPT ![i].status = "refused"]
    /\ UNCHANGED <<up, requests, recent, endpoints, holds, gpuFaults>>

NextRequest(w) ==
    /\ At(w, "requests", "next")
    /\ \E q \in passing[w].todo :
        /\ Take(w, q, IF q.action = "launch" THEN [passing[w] EXCEPT !.cur = q.model, !.step = "launch"]
                      ELSE IF RentOf(q.model) = {} THEN passing[w]
                      ELSE [passing[w] EXCEPT !.cur = q.model, !.rent = CHOOSE i \in RentOf(q.model) : TRUE,
                                                !.step = "destroy", !.why = "stopped"])
        /\ requests' = IF q.action = "stop" /\ RentOf(q.model) = {} THEN requests \ {q} ELSE requests
    /\ UNCHANGED <<rents, up, recent, endpoints, holds, gpuFaults>>

NextWanted(w) ==
    /\ At(w, "wanted", "next")
    /\ \E m \in passing[w].todo :
        Take(w, m, IF RentOf(m) = {} /\ (m \in recent \/ [model |-> m, action |-> "launch"] \in requests)
                   THEN [passing[w] EXCEPT !.cur = m, !.step = "launch"] ELSE passing[w])
    /\ UNCHANGED <<rents, up, requests, recent, endpoints, holds, gpuFaults>>

---------------------------------------------------------------------------------
(* launchSpec(): look for a live rent, find the cheapest offer, check the  *)
(* cap, hold the person's money, write the row, rent, write the id.        *)

LaunchCheck(w) ==
    /\ passing[w].step = "launch"
    /\ IF RentOf(passing[w].cur) # {}
       THEN passing' = [passing EXCEPT ![w].step = "launched", ![w].rent = CHOOSE i \in RentOf(passing[w].cur) : TRUE]
       ELSE Go(w, "price")
    /\ UNCHANGED <<rents, up, requests, recent, endpoints, holds, gpuFaults>>

Hours(hourly) == Min({MaxHours, (MonthlyCap - (Settled + Reserved)) \div hourly})

(* Mutant: what live rents have reserved is not counted.                   *)
LaunchPrice_Unreserved(w) ==
    /\ passing[w].step = "price"
    /\ \E hourly \in HourPrices :
        IF Settled >= MonthlyCap \/ (MonthlyCap - Settled) \div hourly < 1 THEN Go(w, "refused")
        ELSE passing' = [passing EXCEPT ![w].step = IF passing[w].cur \in OwnEndpoints THEN "hold" ELSE "insert",
                                        ![w].hourly = hourly,
                                        ![w].reserved = hourly * Min({MaxHours, (MonthlyCap - Settled) \div hourly})]
    /\ UNCHANGED <<rents, up, requests, recent, endpoints, holds, gpuFaults>>

LaunchPrice(w) ==
    /\ passing[w].step = "price"
    /\ \/ Go(w, "refused")
       \/ /\ \E i \in Rents : rents[i] = NoRent   \* bound of the model
          /\ \E hourly \in HourPrices :
            IF Settled + Reserved >= MonthlyCap \/ Hours(hourly) < 1 THEN Go(w, "refused")
            ELSE passing' = [passing EXCEPT ![w].step = IF passing[w].cur \in OwnEndpoints THEN "hold" ELSE "insert",
                                            ![w].hourly = hourly, ![w].reserved = hourly * Hours(hourly)]
    /\ UNCHANGED <<rents, up, requests, recent, endpoints, holds, gpuFaults>>

(* takeHold(): Billing holds it and the row says so; or Billing refuses, or*)
(* its answer is lost.                                                     *)
TakeHold(w) ==
    /\ passing[w].step = "hold"
    /\ LET e == passing[w].cur IN
       \/ /\ holds' = [holds EXCEPT ![e] = "held"] /\ endpoints' = [endpoints EXCEPT ![e].held = TRUE]
          /\ Go(w, "insert") /\ Faultless
       \/ /\ holds' \in {holds, [holds EXCEPT ![e] = "held"]} /\ UNCHANGED endpoints
          /\ Go(w, "refused") /\ Faulty
    /\ UNCHANGED <<rents, up, requests, recent>>

InsertRent(w) ==
    /\ passing[w].step = "insert"
    /\ \E i \in Rents :
        /\ rents[i] = NoRent /\ \A j \in 1..(i - 1) : rents[j] # NoRent
        /\ rents' = [rents EXCEPT ![i] = [NoRent EXCEPT !.of = passing[w].cur, !.status = "starting",
                                                       !.hourly = passing[w].hourly, !.reserved = passing[w].reserved]]
        /\ passing' = [passing EXCEPT ![w].step = "create", ![w].rent = i]
    /\ UNCHANGED <<up, requests, recent, endpoints, holds, gpuFaults>>

(* createInstance(): rented, or not; or rented with the answer lost, which *)
(* makes the row refused all the same.                                     *)
CreateInstance(w) ==
    /\ passing[w].step = "create"
    /\ LET i == passing[w].rent IN
       \/ up' = up \cup {i} /\ Go(w, "link") /\ Faultless /\ UNCHANGED rents
       \/ /\ up' \in {up, up \cup {i}}
          /\ rents' = [rents EXCEPT ![i].status = "refused"]
          /\ Go(w, "refused") /\ Faulty
    /\ UNCHANGED <<requests, recent, endpoints, holds>>

LinkRent(w) ==
    /\ passing[w].step = "link"
    /\ rents' = [rents EXCEPT ![passing[w].rent].linked = TRUE]
    /\ Go(w, "launched")
    /\ UNCHANGED <<up, requests, recent, endpoints, holds, gpuFaults>>

(* A request is done whatever came of it, when it is worked off.           *)
RequestDone(w, action) ==
    requests' = requests \ (IF passing[w].phase = "requests" THEN {[model |-> passing[w].cur, action |-> action]} ELSE {})

(* What start() of an endpoint writes then; a shared model has nothing to. *)
Launched(w) ==
    /\ passing[w].step = "launched"
    /\ endpoints' = IF passing[w].cur \in OwnEndpoints
                    THEN [endpoints EXCEPT ![passing[w].cur].status = "starting", ![passing[w].cur].rent = passing[w].rent]
                    ELSE endpoints
    /\ RequestDone(w, "launch") /\ Done(w)
    /\ UNCHANGED <<rents, up, recent, holds, gpuFaults>>

(* A start that failed releases the hold of the row it was given.          *)
LaunchRefused(w) ==
    /\ passing[w].step = "refused"
    /\ LET e == passing[w].cur
           releases == e \in OwnEndpoints /\ passing[w].seen.held /\ ~passing[w].seen.settled IN
       /\ endpoints' = IF e \in OwnEndpoints
                       THEN [endpoints EXCEPT ![e].status = "refused", ![e].settled = @ \/ releases] ELSE endpoints
       /\ holds' = IF releases THEN [holds EXCEPT ![e] = "released"] ELSE holds
    /\ RequestDone(w, "launch") /\ Done(w)
    /\ UNCHANGED <<rents, up, recent, gpuFaults>>

---------------------------------------------------------------------------------
(* reconcileInstance(): the charge, the reservation, the idle timer, the   *)
(* health; a rent whose reservation ran out or that died is given back.    *)

Destroying(w, i, why) == [passing[w] EXCEPT !.rent = i, !.step = "destroy", !.why = why]

NextInstance(w) ==
    /\ At(w, "instances", "next")
    /\ \E i \in passing[w].todo :
        LET r == rents[i]
            ends(why) == Take(w, i, Destroying(w, i, why)) /\ rents' = [rents EXCEPT ![i] = Charge(@)]
            stays(row) == Take(w, i, passing[w]) /\ rents' = [rents EXCEPT ![i] = Charge(row)]
            readies == stays([r EXCEPT !.status = "running", !.health = 0, !.used = TRUE]) IN
        CASE r.age >= r.reserved \div r.hourly -> ends("over") /\ UNCHANGED endpoints
          [] r.age < r.reserved \div r.hourly /\ r.status = "running" /\ ~r.used /\ r.age > 0 ->
                (ends("idle") \/ stays(r)) /\ UNCHANGED endpoints
          [] r.age < r.reserved \div r.hourly /\ r.status = "starting" /\ ~r.linked -> stays(r) /\ UNCHANGED endpoints
          [] OTHER ->
                \/ /\ i \in up
                   /\ IF r.status = "running" THEN stays([r EXCEPT !.health = 0]) /\ UNCHANGED endpoints
                      ELSE /\ readies
                           /\ endpoints' = IF r.of \in OwnEndpoints /\ endpoints[r.of].status \in {"starting", "requested"}
                                           THEN [endpoints EXCEPT ![r.of].status = "running"] ELSE endpoints
                \/ /\ i \notin up /\ r.health + 1 < HealthFailures /\ r.status = "running"
                   /\ stays([r EXCEPT !.health = @ + 1]) /\ UNCHANGED endpoints
                \/ /\ i \notin up /\ (r.status = "starting" \/ r.health + 1 >= HealthFailures)
                   /\ ends("died") /\ UNCHANGED endpoints
    /\ UNCHANGED <<up, requests, recent, holds, gpuFaults>>

(* destroy(): the marketplace first; a failure leaves the row for the next *)
(* pass.  An instance whose id is not known is left to the sweep.          *)
DestroyRemote(w) ==
    /\ passing[w].step = "destroy"
    /\ \/ /\ up' = IF rents[passing[w].rent].linked THEN up \ {passing[w].rent} ELSE up
          /\ Go(w, "destroyed") /\ Faultless
       \/ /\ rents[passing[w].rent].linked /\ Faulty
          /\ IF passing[w].phase = "endpoints" THEN Go(w, "stillLive") ELSE Done(w)
          /\ UNCHANGED up
    /\ RequestDone(w, "stop")
    /\ UNCHANGED <<rents, recent, endpoints, holds>>

(* Then the charge and the row; a shared model that died is asked for again.*)
DestroyRow(w) ==
    /\ passing[w].step = "destroyed"
    /\ LET i == passing[w].rent IN
       /\ rents' = [rents EXCEPT ![i] = [Charge(@) EXCEPT !.status = "destroyed"]]
       /\ requests' = IF passing[w].why = "died" /\ rents[i].of \in GpuModels
                      THEN requests \cup {[model |-> rents[i].of, action |-> "launch"]} ELSE requests
       /\ IF rents[i].of \in OwnEndpoints
          THEN passing' = [passing EXCEPT ![w].step = "afterDestroy", ![w].cur = rents[i].of] ELSE Done(w)
    /\ UNCHANGED <<up, recent, endpoints, holds, gpuFaults>>

(* settle(): what it cost, or the hold goes back; a settle that Billing    *)
(* does not take is queued.                                                *)
Settle(row, e) ==
    IF row.settled THEN UNCHANGED holds /\ endpoints' = [endpoints EXCEPT ![e] = row]
    ELSE /\ holds' = IF ~row.held THEN holds
                     ELSE [holds EXCEPT ![e] = IF row.rent # 0 /\ rents[row.rent].charged > 0 THEN "settled" ELSE "released"]
         /\ endpoints' = [endpoints EXCEPT ![e] = [row EXCEPT !.settled = TRUE]]

(* afterDestroy(): the endpoint says why it is over, and is settled.       *)
AfterDestroy(w) ==
    /\ passing[w].step = "afterDestroy"
    /\ LET e == passing[w].cur IN
       Settle([endpoints[e] EXCEPT !.status = IF passing[w].why = "died" THEN "error" ELSE "stopped"], e)
    /\ IF passing[w].phase = "endpoints" /\ passing[w].seen.status = "stopping" THEN Go(w, "stillLive") ELSE Done(w)
    /\ UNCHANGED <<rents, up, requests, recent, gpuFaults>>

(* tick() of a stopping endpoint: its live rent is given back, and when    *)
(* there is none any more it is stopped and settled.                       *)
LiveFor(w) ==
    /\ At(w, "endpoints", "liveFor")
    /\ IF RentOf(passing[w].cur) = {} THEN Go(w, "stillLive")
       ELSE passing' = [passing EXCEPT ![w] = Destroying(w, CHOOSE i \in RentOf(passing[w].cur) : TRUE, "stopped")]
    /\ UNCHANGED <<rents, up, requests, recent, endpoints, holds, gpuFaults>>

StillLive(w) ==
    /\ At(w, "endpoints", "stillLive")
    /\ LET e == passing[w].cur IN
       IF RentOf(e) # {} THEN UNCHANGED <<endpoints, holds>> ELSE Settle([endpoints[e] EXCEPT !.status = "stopped"], e)
    /\ Done(w)
    /\ UNCHANGED <<rents, up, requests, recent, gpuFaults>>

---------------------------------------------------------------------------------
PassSteps(w) ==
    \/ BeginPass(w) \/ NextPhase(w) \/ NextEndpoint(w) \/ SweepInstance(w) \/ AbandonStale(w)
    \/ NextRequest(w) \/ NextInstance(w) \/ NextWanted(w)
    \/ LaunchCheck(w) \/ LaunchPrice(w) \/ TakeHold(w) \/ InsertRent(w) \/ CreateInstance(w) \/ LinkRent(w)
    \/ Launched(w) \/ LaunchRefused(w)
    \/ DestroyRemote(w) \/ DestroyRow(w) \/ AfterDestroy(w) \/ LiveFor(w) \/ StillLive(w)

GpuNext ==
    \/ \E w \in Reconcilers : PassSteps(w) \/ ReconcilerDies(w)
    \/ \E m \in GpuModels, action \in {"launch", "stop"} : RequestModel(m, action)
    \/ \E e \in OwnEndpoints : CreateEndpoint(e) \/ StopEndpoint(e)
    \/ \E i \in Rents : UseRent(i) \/ InstanceDies(i)
    \/ GpuTimePasses

(* A timer starts a pass a minute, and a restarted process has it again.   *)
GpuSpec == GpuInit /\ [][GpuNext]_gpuVars /\ \A w \in Reconcilers : WF_gpuVars(PassSteps(w))

---------------------------------------------------------------------------------
(* Properties.                                                             *)

GpuTypeOK ==
    /\ \A i \in Rents : /\ rents[i].of \in Customers \cup {Nobody}
                        /\ rents[i].status \in Live \cup {"none", "refused", "destroyed"}
                        /\ rents[i].age \in 0..(MaxHours + 1) /\ rents[i].health \in 0..HealthFailures
                        /\ rents[i].reserved <= MonthlyCap
    /\ up \subseteq Rents /\ recent \subseteq GpuModels
    /\ \A e \in OwnEndpoints : /\ endpoints[e].status \in Live \cup {"none", "requested", "stopping", "stopped", "refused", "error"}
                               /\ holds[e] \in {"none", "held", "released", "settled"}

(* provisioner.js, rule 2, of one reconciler: whatever fails, is destroyed *)
(* or rented again, the reservations and what ended rents cost stay within *)
(* the cap, but for what a rent cost beyond its own reservation and for an *)
(* instance the marketplace never told the id of.                          *)
CapHeld ==
    MapThenSumSet(LAMBDA i : IF i \in LiveRents THEN rents[i].reserved ELSE Min({rents[i].charged, rents[i].reserved}),
                  {i \in Rents : i \in LiveRents \/ rents[i].linked}) <= MonthlyCap

(* endpoints.js: the hold is taken before the marketplace is called, so no *)
(* rent of a person that is still to be paid for is without its hold.      *)
RentIsHeld == \A i \in LiveRents : rents[i].of \in OwnEndpoints /\ i \in up => holds[rents[i].of] = "held"

(* provisioner.js says an instance we paid for is never an orphan for long:*)
(* once no live row owns it, some pass gives it back.                      *)
OrphansGoBack == \A i \in Rents : (i \in up /\ i \notin LiveRents) ~> i \notin up
==================================================================================
