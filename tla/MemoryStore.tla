-------------------------------- MODULE MemoryStore ------------------------------
(***************************************************************************)
(* A person's memory (server/memory/index.js, server/memory/jobs.js): the  *)
(* notes of one owner and scope, with the vector of each one's meaning.    *)
(* What says the same thing becomes one note with two sources, what        *)
(* disagrees is marked until the person settles it, and a profile is       *)
(* written of the active notes.  The requests of the person and the job in *)
(* the background each read the scope, compare what they read and write    *)
(* pair by pair.                                                           *)
(***************************************************************************)
EXTENDS Naturals, FiniteSets, Sequences, SequencesExt

CONSTANTS Notes,        \* the ids there may be: numbers, the later the larger
          Texts,
          SameMeaning,  \* the pairs of texts whose vectors are at least 0.92 alike
          Disagree,     \* those between 0.75 and 0.92 that a model says contradict each other
          MaxChanges    \* bound of the model: the writes of the person

ASSUME MemoryConstants == Notes \subseteq Nat /\ IsFiniteSet(Notes) /\ MaxChanges \in Nat

NoNote == 0
NoText == "no text"

VARIABLES notes,    \* memory_items: text, status, merged_into, conflict_with, updated_at, the text its vector is of
          profile,  \* memory_profiles: the notes and texts it was built from, whether it is an hour old
          request,  \* what follows a write of the person: its step, the notes to embed, what it read and compared
          job,      \* the same of the background job
          memoryNow,\* a clock for updated_at
          removed,  \* history: the notes and texts the person removed or edited away
          slipped   \* history: those that went while a profile was being summarised
memoryVars == <<notes, profile, request, job, memoryNow, removed, slipped>>

NoRecord   == [text |-> NoText, status |-> "none", into |-> NoNote, with |-> NoNote, at |-> 0, vec |-> NoText]
NoProfile == [of |-> {}, old |-> FALSE, built |-> FALSE]
Quiet     == [step |-> "idle", embed |-> {}, list |-> << >>, i |-> 0, j |-> 0, gone |-> {}]

MemoryInit ==
    /\ notes = [n \in Notes |-> NoRecord] /\ profile = NoProfile
    /\ request = Quiet /\ job = Quiet
    /\ memoryNow = 1 /\ removed = {} /\ slipped = {}

Active == {n \in Notes : notes[n].status = "active"}
TextsOf(set) == {<<n, notes[n].text>> : n \in set}

---------------------------------------------------------------------------------
(* The person.  Every write is one transaction; a new or edited text is    *)
(* embedded after it, and its scope reconciled.                            *)

MayWrite == request.step = "idle" /\ memoryNow <= MaxChanges
Tick     == memoryNow' = memoryNow + 1
Stamped(r) == [r EXCEPT !.at = memoryNow]
Forget(set) == /\ removed' = removed \cup TextsOf(set)
               /\ slipped' = IF job.step = "summary" THEN slipped \cup TextsOf(set) ELSE slipped
DropProfile == profile' = NoProfile

(* batch(): a text the scope has already is seen again; an id is new.      *)
ImportNote(n, t) ==
    /\ MayWrite /\ Tick
    /\ LET same == {m \in Notes : notes[m].status # "none" /\ notes[m].text = t} IN
       IF same # {}
       THEN \E m \in same : notes' = [notes EXCEPT ![m] = Stamped(@)] /\ UNCHANGED request
       ELSE /\ notes[n].status = "none" /\ \A r \in removed : r[1] # n
            /\ notes' = [notes EXCEPT ![n] = [NoRecord EXCEPT !.text = t, !.status = "active", !.at = memoryNow]]
            /\ request' = [Quiet EXCEPT !.step = "embed", !.embed = {n}]
    /\ UNCHANGED <<profile, job, removed, slipped>>

(* patch() of a text: the vector stays what it was until it is embedded.   *)
(* The model's person does not go back to a text they edited away.         *)
EditNote(n, t) ==
    /\ MayWrite /\ Tick
    /\ notes[n].status # "none" /\ notes[n].text # t /\ <<n, t>> \notin removed
    /\ notes' = [notes EXCEPT ![n] = Stamped([@ EXCEPT !.text = t])]
    /\ Forget({n}) /\ DropProfile
    /\ request' = [Quiet EXCEPT !.step = "embed", !.embed = {n}]
    /\ UNCHANGED job

(* patch() of a status.                                                    *)
MarkNote(n, status) ==
    /\ MayWrite /\ Tick
    /\ notes[n].status \notin {"none", status}
    /\ notes' = [notes EXCEPT ![n] = Stamped([@ EXCEPT !.status = status])]
    /\ DropProfile
    /\ UNCHANGED <<request, job, removed, slipped>>

(* Mutant: the profile is left for its hour.                               *)
RemoveNote_KeepsProfile(n) ==
    /\ MayWrite /\ Tick
    /\ notes[n].status # "none"
    /\ notes' = [notes EXCEPT ![n] = NoRecord]
    /\ Forget({n})
    /\ UNCHANGED <<profile, request, job>>

RemoveNote(n) ==
    /\ MayWrite /\ Tick
    /\ notes[n].status # "none"
    /\ notes' = [notes EXCEPT ![n] = NoRecord]
    /\ Forget({n}) /\ DropProfile
    /\ UNCHANGED <<request, job>>

Swallowed(n) == {m \in Notes : notes[m].status = "archived" /\ notes[m].into = n}

(* split(): what the note swallowed is active again.                       *)
SplitNote(n) ==
    /\ MayWrite /\ Tick
    /\ notes[n].status # "none" /\ Swallowed(n) # {}
    /\ notes' = [m \in Notes |-> IF m \in Swallowed(n) THEN Stamped([notes[m] EXCEPT !.status = "active", !.into = NoNote])
                                 ELSE IF m = n THEN Stamped(notes[m]) ELSE notes[m]]
    /\ DropProfile
    /\ UNCHANGED <<request, job, removed, slipped>>

(* settle(): of two notes in conflict one is kept.                         *)
SettleNotes(n, keep) ==
    /\ MayWrite /\ Tick
    /\ n # keep /\ notes[n].status # "none" /\ notes[keep].status # "none"
    /\ notes[n].with = keep \/ notes[keep].with = n
    /\ notes' = [notes EXCEPT ![keep] = Stamped([@ EXCEPT !.status = "active", !.with = NoNote]),
                              ![n] = Stamped([@ EXCEPT !.status = "archived", !.with = keep])]
    /\ DropProfile
    /\ UNCHANGED <<request, job, removed, slipped>>

---------------------------------------------------------------------------------
(* Embedding and reconciling, of the request (after a write) and the job.  *)

(* The vectors come back, or do not; each is stored on its note, whose     *)
(* text may have changed since it was read.                                *)
RequestEmbeds ==
    /\ request.step = "embed"
    /\ \/ /\ notes' = [n \in Notes |-> IF n \in request.embed /\ notes[n].status # "none"
                                       THEN [notes[n] EXCEPT !.vec = notes[n].text] ELSE notes[n]]
          /\ request' = [request EXCEPT !.step = "read", !.embed = {}]
       \/ request' = Quiet /\ UNCHANGED notes
    /\ UNCHANGED <<profile, job, memoryNow, removed, slipped>>

(* jobs.js runOnce(): embedMissing() looks for notes without a vector.     *)
JobBegins ==
    /\ job.step = "idle"
    /\ job' = [Quiet EXCEPT !.step = "embed", !.embed = TextsOf({n \in Active : notes[n].vec = NoText})]
    /\ UNCHANGED <<notes, profile, request, memoryNow, removed, slipped>>

JobEmbeds ==
    /\ job.step = "embed"
    /\ \/ /\ notes' = [n \in Notes |-> IF \E t \in Texts : <<n, t>> \in job.embed /\ notes[n].status # "none"
                                       THEN [notes[n] EXCEPT !.vec = CHOOSE t \in Texts : <<n, t>> \in job.embed] ELSE notes[n]]
          /\ job' = [job EXCEPT !.step = "read", !.embed = {}]
       \/ job.embed # {} /\ job' = Quiet /\ UNCHANGED notes
    /\ UNCHANGED <<profile, request, memoryNow, removed, slipped>>

(* scopeItems(): the active notes with a vector, newest first; notes of    *)
(* one instant in any order.                                               *)
Seen(n) == [id |-> n, vec |-> notes[n].vec, at |-> notes[n].at]
Snapshots == {list \in SetToSeqs({Seen(n) : n \in {m \in Active : notes[m].vec # NoText}}) :
                 \A k \in 1..(Len(list) - 1) : list[k].at >= list[k + 1].at}

Alike(a, b) == a.vec = b.vec \/ <<a.vec, b.vec>> \in SameMeaning
(* The import spends no judgement; the job does.                           *)
Clash(who, a, b) == who = "job" /\ <<a.vec, b.vec>> \in Disagree

(* The pairs reconcileScope() still comes to, in its order.                *)
PairsLeft(who, w) ==
    {p \in (DOMAIN w.list) \X (DOMAIN w.list) :
        /\ p[1] < p[2] /\ w.list[p[2]].id \notin w.gone
        /\ (p[1] > w.i /\ w.list[p[1]].id \notin w.gone) \/ (p[1] = w.i /\ p[2] > w.j)
        /\ Alike(w.list[p[1]], w.list[p[2]]) \/ Clash(who, w.list[p[1]], w.list[p[2]])}
NextPair(who, w) == CHOOSE p \in PairsLeft(who, w) :
    \A o \in PairsLeft(who, w) : p[1] < o[1] \/ (p[1] = o[1] /\ p[2] <= o[2])

(* mergePair(): the newer one wins, by what was read.                      *)
Merged(winner, loser) ==
    [notes EXCEPT ![winner] = IF @.status = "none" THEN @ ELSE Stamped(@),
                  ![loser]  = IF @.status = "none" THEN @ ELSE Stamped([@ EXCEPT !.status = "archived", !.into = winner])]

(* markConflict(): neither reaches an agent.                               *)
Conflicting(a, b) ==
    [n \in Notes |-> IF n \notin {a, b} \/ notes[n].status = "none" THEN notes[n]
                     ELSE Stamped([notes[n] EXCEPT !.status = "conflict", !.with = IF n = a THEN b ELSE a])]

(* The model call may say no or be over the run's cap, or end the job.     *)
ReconcilePair(who, w, next(_)) ==
    LET p == NextPair(who, w)
        a == w.list[p[1]]
        b == w.list[p[2]]
        aWins == a.at > b.at \/ (a.at = b.at /\ a.id > b.id) IN
    IF Alike(a, b)
    THEN /\ notes' = Merged(IF aWins THEN a.id ELSE b.id, IF aWins THEN b.id ELSE a.id)
         /\ next([w EXCEPT !.i = p[1], !.j = p[2], !.gone = @ \cup {IF aWins THEN b.id ELSE a.id}])
    ELSE \/ /\ notes' = Conflicting(a.id, b.id)
            /\ next([w EXCEPT !.i = p[1], !.j = p[2], !.gone = @ \cup {a.id, b.id}])
         \/ next([w EXCEPT !.i = p[1], !.j = p[2]]) /\ UNCHANGED notes
         \/ next(Quiet) /\ UNCHANGED notes

RequestReads ==
    /\ request.step = "read"
    /\ \E list \in Snapshots : request' = [request EXCEPT !.step = "pairs", !.list = list]
    /\ UNCHANGED <<notes, profile, job, memoryNow, removed, slipped>>

RequestPair ==
    /\ request.step = "pairs"
    /\ IF PairsLeft("request", request) = {} THEN request' = Quiet /\ UNCHANGED notes
       ELSE ReconcilePair("request", request, LAMBDA w : request' = w)
    /\ UNCHANGED <<profile, job, memoryNow, removed, slipped>>

JobReads ==
    /\ job.step = "read"
    /\ \E list \in Snapshots : job' = [job EXCEPT !.step = "pairs", !.list = list]
    /\ UNCHANGED <<notes, profile, request, memoryNow, removed, slipped>>

JobPair ==
    /\ job.step = "pairs"
    /\ IF PairsLeft("job", job) = {} THEN job' = [Quiet EXCEPT !.step = "profile"] /\ UNCHANGED notes
       ELSE ReconcilePair("job", job, LAMBDA w : job' = w)
    /\ UNCHANGED <<profile, request, memoryNow, removed, slipped>>

---------------------------------------------------------------------------------
(* profileFor(): kept for an hour, and as long as its notes are the same;  *)
(* written after the summary came back.                                    *)

ProfileReads ==
    /\ job.step = "profile"
    /\ job' = IF profile.built /\ (~profile.old \/ profile.of = TextsOf(Active)) THEN Quiet
              ELSE [Quiet EXCEPT !.step = "summary", !.embed = TextsOf(Active)]
    /\ UNCHANGED <<notes, profile, request, memoryNow, removed, slipped>>

ProfileWrites ==
    /\ job.step = "summary"
    /\ \/ profile' = [of |-> job.embed, old |-> FALSE, built |-> TRUE]
       \/ UNCHANGED profile
    /\ job' = Quiet
    /\ UNCHANGED <<notes, request, memoryNow, removed, slipped>>

ProfileAges ==
    /\ profile.built /\ ~profile.old
    /\ profile' = [profile EXCEPT !.old = TRUE]
    /\ UNCHANGED <<notes, request, job, memoryNow, removed, slipped>>

MemoryNext ==
    \/ \E n \in Notes, t \in Texts : ImportNote(n, t) \/ EditNote(n, t)
    \/ \E n \in Notes : \/ \E status \in {"active", "archived"} : MarkNote(n, status)
                        \/ RemoveNote(n) \/ SplitNote(n)
                        \/ \E keep \in Notes : SettleNotes(n, keep)
    \/ RequestEmbeds \/ RequestReads \/ RequestPair
    \/ JobBegins \/ JobEmbeds \/ JobReads \/ JobPair
    \/ ProfileReads \/ ProfileWrites \/ ProfileAges

MemorySpec == MemoryInit /\ [][MemoryNext]_memoryVars

---------------------------------------------------------------------------------
(* Properties.                                                             *)

MemoryTypeOK ==
    /\ notes \in [Notes -> [text : Texts \cup {NoText}, status : {"none", "active", "archived", "conflict"},
                            into : Notes \cup {NoNote}, with : Notes \cup {NoNote}, at : 0..(MaxChanges + 1), vec : Texts \cup {NoText}]]
    /\ profile.of \subseteq Notes \X Texts
    /\ memoryNow \in 1..(MaxChanges + 1) /\ removed \subseteq Notes \X Texts

(* index.js, where patch() drops the profile: what the person removed or   *)
(* edited away is in no profile that anybody reads afterwards, unless it   *)
(* went while that profile was being summarised.                           *)
ProfileForgets == profile.of \cap removed \subseteq slipped

==================================================================================
