------------------------------- MODULE Credentials -------------------------------
(***************************************************************************)
(* One person's provider key (server/credentials.js, server/key-grants.js):*)
(* a service's own row for that person, the person's row under the owner   *)
(* self, and the grant that lets the service use it.  Runs of the service  *)
(* look for the key when they are admitted and again when they start,      *)
(* while puts, deletes and the person's changes of mind go on.  Keys are   *)
(* numbers; the seal of a row is only its format.                          *)
(***************************************************************************)
EXTENDS Naturals

CONSTANTS KeyRuns,    \* the runs of the service
          Keys,       \* the keys there are: numbers from 1
          FirstRows   \* the rows there may be at the start: [owners -> row]

NoKeyValue == 0
Owners     == {"service", "self"}
NoRow      == [key |-> NoKeyValue, seal |-> "none"]
KeyRow     == [key : Keys \cup {NoKeyValue}, seal : {"none", "v1", "v2"}]

ASSUME CredentialConstants == FirstRows \subseteq [Owners -> KeyRow]

NotPutting == [owner |-> "none", key |-> NoKeyValue]

VARIABLES credentialRows,  \* subject_credentials, of each owner
          granted,         \* ai_key_grants: whether the service may use the person's key
          putting,         \* a PUT without a key between its read and its write
          keyRuns,         \* of each run: its step, the key and format it read, whose row it was
          latestKey,       \* history: the last key somebody brought, or none after a delete
          consented,       \* history: the runs during whose look-up the grant stood
          raced            \* history: the owners whose row a PUT without a key wrote over a change of it,
                           \* and the runs that met a new row of the service between their two reads
credentialVars == <<credentialRows, granted, putting, keyRuns, latestKey, consented, raced>>

NoRun == [step |-> "idle", key |-> NoKeyValue, seal |-> "none", of |-> "none"]

CredentialInit ==
    /\ credentialRows \in FirstRows
    /\ granted \in BOOLEAN
    /\ putting = NotPutting
    /\ keyRuns = [r \in KeyRuns |-> NoRun]
    /\ latestKey = [o \in Owners |-> credentialRows[o].key]
    /\ consented = {} /\ raced = {}

Holds(o)       == credentialRows[o].seal # "none"
RunAt(r, step) == keyRuns[r].step = step
RunTo(r, step) == keyRuns' = [keyRuns EXCEPT ![r].step = step]
LookingUp      == {r \in KeyRuns : keyRuns[r].step \in {"resolve", "ask", "allowed", "self"}}

---------------------------------------------------------------------------------
(* put() and putSelf() with a key; one without reads the row, opens it and *)
(* writes what it read.                                                    *)

PutKey(o, k) ==
    /\ credentialRows' = [credentialRows EXCEPT ![o] = [key |-> k, seal |-> "v2"]]
    /\ latestKey' = [latestKey EXCEPT ![o] = k]
    /\ UNCHANGED <<granted, putting, keyRuns, consented, raced>>

KeylessPutReads(o) ==
    /\ putting = NotPutting /\ Holds(o)
    /\ putting' = [owner |-> o, key |-> credentialRows[o].key]
    /\ UNCHANGED <<credentialRows, granted, keyRuns, latestKey, consented, raced>>

KeylessPutWrites ==
    /\ putting # NotPutting
    /\ credentialRows' = [credentialRows EXCEPT ![putting.owner] = [key |-> putting.key, seal |-> "v2"]]
    /\ putting' = NotPutting
    /\ raced' = IF latestKey[putting.owner] = putting.key THEN raced ELSE raced \cup {putting.owner}
    /\ UNCHANGED <<granted, keyRuns, latestKey, consented>>

(* remove(), removeSelf().                                                 *)
DeleteKey(o) ==
    /\ Holds(o)
    /\ credentialRows' = [credentialRows EXCEPT ![o] = NoRow]
    /\ latestKey' = [latestKey EXCEPT ![o] = NoKeyValue]
    /\ UNCHANGED <<granted, putting, keyRuns, consented, raced>>

(* key-grants.js allow(), remove().                                        *)
Grant ==
    /\ ~granted /\ granted' = TRUE
    /\ consented' = consented \cup LookingUp
    /\ UNCHANGED <<credentialRows, putting, keyRuns, latestKey, raced>>

Withdraw ==
    /\ granted /\ granted' = FALSE
    /\ UNCHANGED <<credentialRows, putting, keyRuns, latestKey, consented, raced>>

---------------------------------------------------------------------------------
(* A run.  admit() at its creation: a row of the service, or the person's  *)
(* key and their grant.                                                    *)

Admissible == Holds("service") \/ (Holds("self") /\ granted)

AdmitKeyRun(r) ==
    /\ RunAt(r, "idle")
    /\ RunTo(r, IF Admissible THEN "queued" ELSE "ended")
    /\ UNCHANGED <<credentialRows, granted, putting, latestKey, consented, raced>>

(* forRun() when it starts: the service's own row, ...                     *)
LookForRow(r) ==
    /\ RunAt(r, "queued")
    /\ IF Holds("service")
       THEN /\ keyRuns' = [keyRuns EXCEPT ![r] = [step |-> "open", key |-> credentialRows["service"].key,
                                                  seal |-> credentialRows["service"].seal, of |-> "service"]]
            /\ UNCHANGED consented
       ELSE RunTo(r, "resolve") /\ consented' = IF granted THEN consented \cup {r} ELSE consented
    /\ UNCHANGED <<credentialRows, granted, putting, latestKey, raced>>

(* ... which resolveForRun() reads a second time: a row that is there by   *)
(* now sends the run to the person's key without a look at the grants.     *)
ResolveRow(r) ==
    /\ RunAt(r, "resolve")
    /\ RunTo(r, IF Holds("service") THEN "self" ELSE "ask")
    /\ raced' = IF Holds("service") THEN raced \cup {r} ELSE raced
    /\ UNCHANGED <<credentialRows, granted, putting, latestKey, consented>>

FindSelf(r) ==
    /\ RunAt(r, "ask")
    /\ RunTo(r, IF Holds("self") THEN "allowed" ELSE "ended")
    /\ UNCHANGED <<credentialRows, granted, putting, latestKey, consented, raced>>

(* Mutant: the grant was looked at when the run was admitted.              *)
AskGrant_Admitted(r) ==
    /\ RunAt(r, "allowed")
    /\ RunTo(r, "self")
    /\ UNCHANGED <<credentialRows, granted, putting, latestKey, consented, raced>>

AskGrant(r) ==
    /\ RunAt(r, "allowed")
    /\ RunTo(r, IF granted THEN "self" ELSE "ended")
    /\ UNCHANGED <<credentialRows, granted, putting, latestKey, consented, raced>>

(* selfForRun() reads the person's row again.                              *)
TakeSelf(r) ==
    /\ RunAt(r, "self")
    /\ keyRuns' = [keyRuns EXCEPT ![r] =
           IF Holds("self") THEN [step |-> "open", key |-> credentialRows["self"].key, seal |-> credentialRows["self"].seal, of |-> "self"]
           ELSE [NoRun EXCEPT !.step = "ended"]]
    /\ UNCHANGED <<credentialRows, granted, putting, latestKey, consented, raced>>

(* openRow(): a row of the old format is sealed again as it is read.       *)
(* Mutant: whatever the row has become.                                    *)
OpenRow_Blind(r) ==
    /\ RunAt(r, "open")
    /\ RunTo(r, "call")
    /\ credentialRows' = IF keyRuns[r].seal = "v1" /\ Holds(keyRuns[r].of)
                         THEN [credentialRows EXCEPT ![keyRuns[r].of] = [key |-> keyRuns[r].key, seal |-> "v2"]]
                         ELSE credentialRows
    /\ UNCHANGED <<granted, putting, latestKey, consented, raced>>

OpenRow(r) ==
    /\ RunAt(r, "open")
    /\ RunTo(r, "call")
    /\ credentialRows' = IF keyRuns[r].seal = "v1" /\ credentialRows[keyRuns[r].of].seal = "v1"
                         THEN [credentialRows EXCEPT ![keyRuns[r].of] = [key |-> keyRuns[r].key, seal |-> "v2"]]
                         ELSE credentialRows
    /\ UNCHANGED <<granted, putting, latestKey, consented, raced>>

EndKeyRun(r) ==
    /\ RunAt(r, "call")
    /\ keyRuns' = [keyRuns EXCEPT ![r] = [NoRun EXCEPT !.step = "ended"]]
    /\ UNCHANGED <<credentialRows, granted, putting, latestKey, consented, raced>>

CredentialNext ==
    \/ \E o \in Owners : (\E k \in Keys : PutKey(o, k)) \/ KeylessPutReads(o) \/ DeleteKey(o)
    \/ KeylessPutWrites \/ Grant \/ Withdraw
    \/ \E r \in KeyRuns : \/ AdmitKeyRun(r) \/ LookForRow(r) \/ ResolveRow(r) \/ FindSelf(r)
                          \/ AskGrant(r) \/ TakeSelf(r) \/ OpenRow(r) \/ EndKeyRun(r)

CredentialSpec == CredentialInit /\ [][CredentialNext]_credentialVars

---------------------------------------------------------------------------------
(* Properties.                                                             *)

CredentialTypeOK ==
    /\ credentialRows \in [Owners -> KeyRow]
    /\ \A r \in KeyRuns : keyRuns[r].key \in Keys \cup {NoKeyValue} /\ keyRuns[r].of \in Owners \cup {"none"}

(* credentials.js of openRow(): the runs that seal old rows again, each    *)
(* with the key it read, never put back a key that was replaced or         *)
(* deleted meanwhile; only a PUT without a key can, once it has read one.  *)
KeyIsLatest == \A o \in Owners : credentialRows[o].key = latestKey[o] \/ o \in raced

(* key-grants.js, removing a grant takes effect at once: a run that waited *)
(* in the queue opens the person's key only if the grant stood while it    *)
(* looked for the key, or if the service's own row came up between its two *)
(* reads.                                                                  *)
OpensSelf(r)    == keyRuns[r].step \in {"open", "call"} /\ keyRuns[r].of = "self"
UsedWithConsent == \A r \in KeyRuns : OpensSelf(r) => r \in consented \cup raced
==================================================================================
