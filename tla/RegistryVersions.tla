----------------------------- MODULE RegistryVersions ----------------------------
(***************************************************************************)
(* The versioned records of the registry (server/registry.js): routes,     *)
(* templates and workflows, append-only per key.  The seed of a boot       *)
(* (server/workflows/seed.js) follows the code; once the service listens,  *)
(* administrators add versions, each from the version it read, and change  *)
(* the status of versions.  What a text says is a value for each field.    *)
(***************************************************************************)
EXTENDS Naturals, Sequences, SequencesExt, Functions

CONSTANTS RegistryKeys,
          RouteKeys,      \* those that are routes: the rest are templates and workflows
          Fields, Values, \* what a version says
          Editors,        \* the requests of administrators
          FirstCode,      \* [RegistryKeys -> a text]: what the first code defines
          MaxVersions,    \* bound of the model: administrators change the first so many versions of a key
          MaxDeploys      \* bound of the model: changes of the code

Definitions == [Fields -> Values]

ASSUME RegistryConstants ==
    /\ RouteKeys \subseteq RegistryKeys /\ FirstCode \in [RegistryKeys -> Definitions]
    /\ MaxVersions \in Nat \ {0} /\ MaxDeploys \in Nat

(* The code no longer defines the key: what is stored is archived.         *)
Retired     == <<"retired">>

VARIABLES versions, \* of each key: the rows in the order of their version
          code,     \* of each key: what the code defines
          process,  \* the process: down, seeding before it listens, serving
          toSeed,   \* the keys this boot has not seeded
          edits,    \* of each request: its step, key, what it will insert and as which version
          deploys   \* history: changes of the code
registryVars == <<versions, code, process, toSeed, edits, deploys>>

NoEdit == [step |-> "idle"]
Version(text, status, by) == [text |-> text, status |-> status, by |-> by]

RegistryInit ==
    /\ versions = [k \in RegistryKeys |-> << >>]
    /\ code = FirstCode /\ deploys = 0
    /\ process = "down" /\ toSeed = {}
    /\ edits = [e \in Editors |-> NoEdit]

---------------------------------------------------------------------------------
(* The code changes while the process is down; a boot seeds every key.     *)

Deploy(k) ==
    /\ process = "down" /\ deploys < MaxDeploys
    /\ \E new \in Definitions \cup (IF k \in RouteKeys THEN {} ELSE {Retired}) :
        new # code[k] /\ code' = [code EXCEPT ![k] = new]
    /\ deploys' = deploys + 1
    /\ UNCHANGED <<versions, process, toSeed, edits>>

Boot ==
    /\ process = "down"
    /\ process' = "seeding" /\ toSeed' = RegistryKeys
    /\ UNCHANGED <<versions, code, edits, deploys>>

(* A failing statement of the seed ends the boot; a request that was under *)
(* way when the process died is over.                                      *)
ProcessDies ==
    /\ process # "down"
    /\ process' = "down" /\ toSeed' = {}
    /\ edits' = [e \in Editors |-> NoEdit]
    /\ UNCHANGED <<versions, code, deploys>>

Archived(rows) == [n \in DOMAIN rows |-> [rows[n] EXCEPT !.status = "off"]]

(* Mutant: the author of the newest version is not looked at.              *)
SeedAdds_AnyAuthor(k) ==
    \/ versions[k] = << >>
    \/ Last(versions[k]).text # code[k] \/ Last(versions[k]).status # "active"

(* seedVersioned(): missing, or of the seed and not what the code says.    *)
SeedAdds(k) ==
    \/ versions[k] = << >>
    \/ /\ Last(versions[k]).by = "seed"
       /\ Last(versions[k]).text # code[k] \/ Last(versions[k]).status # "active"

Seed(k) ==
    /\ process = "seeding" /\ k \in toSeed
    /\ toSeed' = toSeed \ {k}
    /\ versions' = [versions EXCEPT ![k] =
           IF code[k] = Retired THEN Archived(@)
           ELSE IF SeedAdds(k) THEN Append(@, Version(code[k], "active", "seed")) ELSE @]
    /\ UNCHANGED <<code, process, edits, deploys>>

Listen ==
    /\ process = "seeding" /\ toSeed = {}
    /\ process' = "serving"
    /\ UNCHANGED <<versions, code, toSeed, edits, deploys>>

---------------------------------------------------------------------------------
(* An administrator adds a version: the newest is read, and the fields the *)
(* request names replace its own; the number is read next, then the row is *)
(* inserted, which its primary key refuses when the number is taken.       *)

EditReads(e) ==
    /\ process = "serving" /\ edits[e].step = "idle"
    /\ \E k \in RegistryKeys, named \in SUBSET Fields, value \in Values, status \in {"active", "off"} :
        /\ versions[k] # << >> /\ named # {} /\ Len(versions[k]) < MaxVersions
        /\ edits' = [edits EXCEPT ![e] = [step |-> "number", key |-> k, number |-> 0, status |-> status,
                         text |-> [f \in Fields |-> IF f \in named THEN value ELSE Last(versions[k]).text[f]]]]
    /\ UNCHANGED <<versions, code, process, toSeed, deploys>>

EditNumbers(e) ==
    /\ edits[e].step = "number"
    /\ edits' = [edits EXCEPT ![e].step = "insert", ![e].number = Len(versions[edits[e].key]) + 1]
    /\ UNCHANGED <<versions, code, process, toSeed, deploys>>

(* Mutant: a number that is taken is written over.                         *)
Stored_Overwrites(rows, n, row) == IF n > Len(rows) THEN Append(rows, row) ELSE [rows EXCEPT ![n] = row]

(* The INSERT of one version; what is stored stays.                        *)
Stored(rows, n, row) == IF n > Len(rows) THEN Append(rows, row) ELSE rows

EditInserts(e) ==
    /\ edits[e].step = "insert"
    /\ versions' = [versions EXCEPT ![edits[e].key] =
           Stored(@, edits[e].number, Version(edits[e].text, edits[e].status, "admin"))]
    /\ edits' = [edits EXCEPT ![e] = NoEdit]
    /\ UNCHANGED <<code, process, toSeed, deploys>>

(* setStatus() of one version.                                             *)
SetStatus(k, n) ==
    /\ process = "serving" /\ n \in DOMAIN versions[k]
    /\ \E status \in {"active", "off"} : versions' = [versions EXCEPT ![k][n].status = status]
    /\ UNCHANGED <<code, process, toSeed, edits, deploys>>

RegistryNext ==
    \/ \E k \in RegistryKeys : Deploy(k) \/ Seed(k) \/ (\E n \in 1..MaxVersions : SetStatus(k, n))
    \/ Boot \/ ProcessDies \/ Listen
    \/ \E e \in Editors : EditReads(e) \/ EditNumbers(e) \/ EditInserts(e)
RegistrySpec == RegistryInit /\ [][RegistryNext]_registryVars

---------------------------------------------------------------------------------
(* Properties.                                                             *)

RegistryTypeOK ==
    /\ \A k \in RegistryKeys : \A n \in DOMAIN versions[k] :
        versions[k][n] \in [text : Definitions, status : {"active", "off"}, by : {"seed", "admin"}]
    /\ process \in {"down", "seeding", "serving"} /\ toSeed \subseteq RegistryKeys
    /\ deploys \in 0..MaxDeploys

Says(row) == [text |-> row.text, by |-> row.by]

(* What a run was traced to stays readable: no version changes its text or *)
(* its author, whoever races, and none goes.  And an administrator's       *)
(* version is never followed by one of the seed, whatever the code became. *)
HistoryHolds == [][\A k \in RegistryKeys :
    /\ Len(versions[k]) <= Len(versions'[k])
    /\ \A n \in DOMAIN versions[k] : Says(versions'[k][n]) = Says(versions[k][n])
    /\ (Len(versions[k]) < Len(versions'[k]) /\ Last(versions'[k]).by = "seed")
         => \A n \in DOMAIN versions[k] : versions[k][n].by = "seed"]_registryVars

(* registry.js:399-401: the seed adds a version "when the code changed it".*)
SeededOnChange == [][\A k \in RegistryKeys :
    (process = "seeding" /\ versions[k] # << >> /\ Last(versions[k]).text = code[k])
         => Len(versions'[k]) = Len(versions[k])]_registryVars
==================================================================================
