-------------------------------- MODULE PriceBook --------------------------------
(***************************************************************************)
(* The living price book (server/pricebook/): one of several workers reads *)
(* the listings once a week, applies the small changes of a model's row    *)
(* and logs them, and leaves the others waiting for the owner, who decides *)
(* on the console.  Both write the whole row they read.  One model's row   *)
(* is followed; a statement may fail and a process may die anywhere.       *)
(***************************************************************************)
EXTENDS Naturals, FiniteSets

CONSTANTS BookWorkers,
          PriceFields,    \* store.js FIELDS
          Listings,       \* what the provider may publish: [PriceFields -> Nat]
          FirstListing,   \* the one the row was priced from
          Threshold,      \* in percent
          ChangeIds,      \* bound of the model: changes that wait, or are being decided, at one time
          MaxBookFaults   \* bound of the model: failing statements, unreadable listings, dying processes

ASSUME BookConstants == {FirstListing} \cup Listings \subseteq [PriceFields -> Nat]

VARIABLES live,       \* models: the price of each field
          waiting,    \* price_changes: the rows that are pending
          book,       \* price_book_state: is it due, whose is the claim, has it run out
          bookRuns,   \* of each worker: its step, the row and the listing it read, what is left to do
          deciding,   \* the owner's decision under way
          told,       \* history: what the newest applied or approved row of the log says of each field
          stale,      \* history: the fields somebody wrote or left unlogged without knowing of another write
          cut,        \* history: the fields whose logging a failure cut off
          bookFaults
bookVars == <<live, waiting, book, bookRuns, deciding, told, stale, cut, bookFaults>>

NoWorker == "nobody"
NoField  == "none"
NoMove   == [field |-> NoField, next |-> 0]
OffWork  == [step |-> "idle", row |-> FirstListing, small |-> {}, big |-> {}, at |-> NoMove]
NoChange == [id |-> 0, field |-> NoField, next |-> 0]
Undecided == [step |-> "idle", change |-> NoChange, row |-> FirstListing, approve |-> FALSE]

BookInit ==
    /\ live = FirstListing /\ told = FirstListing
    /\ waiting = {} /\ book = [due |-> TRUE, holder |-> NoWorker, lapsed |-> FALSE]
    /\ bookRuns = [w \in BookWorkers |-> OffWork]
    /\ deciding = Undecided
    /\ stale = {} /\ cut = {} /\ bookFaults = 0

---------------------------------------------------------------------------------
BookAt(w, step) == bookRuns[w].step = step
Written(w, step) == bookRuns' = [bookRuns EXCEPT ![w].step = step, ![w].row = FirstListing]
BookTo(w, step) == bookRuns' = [bookRuns EXCEPT ![w].step = step]
BookFault == bookFaults < MaxBookFaults /\ bookFaults' = bookFaults + 1

(* priceProvider(): a change of no more than the threshold is small.       *)
Small(old, next) == 100 * (IF next > old THEN next - old ELSE old - next) <= Threshold * old
FieldsOf(moves) == {m.field : m \in moves}
(* What was written to the row and is not in the log yet.                  *)
Unlogged == {f \in PriceFields :
    \/ \E w \in BookWorkers : BookAt(w, "log") /\ \E m \in bookRuns[w].small : m.field = f
    \/ deciding.step \in {"get", "update"} /\ deciding.approve /\ deciding.change.field = f}

(* writeRow(): the whole row as it was read, with the new prices.          *)
WriteRow(row, moves) ==
    /\ live' = [f \in PriceFields |-> IF f \in FieldsOf(moves) THEN (CHOOSE m \in moves : m.field = f).next ELSE row[f]]
    /\ stale' = stale \cup {f \in PriceFields : live[f] # row[f]} \cup (FieldsOf(moves) \cap Unlogged)

---------------------------------------------------------------------------------
(* The workers.  tick() goes on only when the book is due; the console may *)
(* start a run at any time.                                                *)
TickDue(w) ==
    /\ BookAt(w, "idle") /\ book.due
    /\ BookTo(w, "claim")
    /\ UNCHANGED <<live, waiting, book, deciding, told, stale, cut, bookFaults>>

ForceRun(w) ==
    /\ BookAt(w, "idle") /\ ~book.due
    /\ BookTo(w, "claim")
    /\ UNCHANGED <<live, waiting, book, deciding, told, stale, cut, bookFaults>>

ClaimBook(w) ==
    /\ BookAt(w, "claim")
    /\ IF book.holder = NoWorker \/ book.lapsed
       THEN book' = [book EXCEPT !.holder = w, !.lapsed = FALSE] /\ BookTo(w, "read")
       ELSE BookTo(w, "idle") /\ UNCHANGED book
    /\ UNCHANGED <<live, waiting, deciding, told, stale, cut, bookFaults>>

(* The listing, then the rows; a listing nobody can read leaves the prices *)
(* alone and the book due.                                                 *)
ReadBook(w) ==
    /\ BookAt(w, "read")
    /\ \/ \E listing \in Listings :
            LET moved  == {[field |-> f, next |-> listing[f]] : f \in {g \in PriceFields : listing[g] # live[g]}}
                small  == {m \in moved : Small(live[m.field], m.next)}
                writes == moved = {} \/ small # {} IN
            /\ bookRuns' = [bookRuns EXCEPT ![w] =
                    [OffWork EXCEPT !.step = IF writes THEN "write" ELSE "log", !.row = IF writes THEN live ELSE @,
                                    !.small = small, !.big = moved \ small]]
            /\ UNCHANGED bookFaults
       \/ BookTo(w, "give up") /\ BookFault
    /\ UNCHANGED <<live, waiting, book, deciding, told, stale, cut>>

(* Mutant: the threshold is not looked at.                                 *)
WriteSmall_All(w) ==
    /\ BookAt(w, "write")
    /\ WriteRow(bookRuns[w].row, bookRuns[w].small \cup bookRuns[w].big)
    /\ Written(w, "log")
    /\ UNCHANGED <<waiting, book, deciding, told, cut, bookFaults>>

WriteSmall(w) ==
    /\ BookAt(w, "write")
    /\ WriteRow(bookRuns[w].row, bookRuns[w].small)
    /\ Written(w, "log")
    /\ UNCHANGED <<waiting, book, deciding, told, cut, bookFaults>>

(* store.record() of the changes that were applied, one by one.            *)
LogSmall(w) ==
    /\ BookAt(w, "log")
    /\ \E m \in bookRuns[w].small :
        /\ told' = [told EXCEPT ![m.field] = m.next]
        /\ bookRuns' = [bookRuns EXCEPT ![w].small = @ \ {m}]
    /\ UNCHANGED <<live, waiting, book, deciding, stale, cut, bookFaults>>

(* A newer reading replaces the ones that wait, then waits itself.         *)
Supersede(w) ==
    /\ BookAt(w, "log") /\ bookRuns[w].small = {}
    /\ \E m \in bookRuns[w].big :
        /\ waiting' = {c \in waiting : c.field # m.field}
        /\ bookRuns' = [bookRuns EXCEPT ![w].step = "pend", ![w].big = @ \ {m}, ![w].at = m]
    /\ UNCHANGED <<live, book, deciding, told, stale, cut, bookFaults>>

LogBig(w) ==
    /\ BookAt(w, "pend")
    /\ \E id \in ChangeIds :
        /\ id # deciding.change.id /\ \A c \in waiting : c.id # id
        /\ \A i \in ChangeIds : i < id => i = deciding.change.id \/ \E c \in waiting : c.id = i
        /\ waiting' = waiting \cup {[id |-> id, field |-> bookRuns[w].at.field, next |-> bookRuns[w].at.next]}
    /\ bookRuns' = [bookRuns EXCEPT ![w].step = "log", ![w].at = NoMove]
    /\ UNCHANGED <<live, book, deciding, told, stale, cut, bookFaults>>

(* A statement of the run fails: it ends early, and its claim goes back.   *)
RunFails(w) ==
    /\ BookFault /\ bookRuns' = [bookRuns EXCEPT ![w] = [OffWork EXCEPT !.step = "give up"]]
    (* writeRow() may fail in its audit, when the row is written.          *)
    /\ \/ /\ BookAt(w, "write")
          /\ WriteRow(bookRuns[w].row, bookRuns[w].small)
          /\ cut' = cut \cup FieldsOf(bookRuns[w].small)
       \/ BookAt(w, "write") /\ UNCHANGED <<live, stale, cut>>
       \/ /\ BookAt(w, "log") \/ BookAt(w, "pend")
          /\ cut' = cut \cup FieldsOf(bookRuns[w].small) /\ UNCHANGED <<live, stale>>
    /\ UNCHANGED <<waiting, book, deciding, told>>

(* The claim goes back first, then the run is marked.                      *)
ReleaseBook(w) ==
    /\ BookAt(w, "give up") \/ (BookAt(w, "log") /\ bookRuns[w].small \cup bookRuns[w].big = {})
    /\ book' = IF book.holder = w THEN [book EXCEPT !.holder = NoWorker, !.lapsed = FALSE] ELSE book
    /\ bookRuns' = [bookRuns EXCEPT ![w] = [OffWork EXCEPT !.step = IF BookAt(w, "give up") THEN "idle" ELSE "mark"]]
    /\ UNCHANGED <<live, waiting, deciding, told, stale, cut, bookFaults>>

MarkRun(w) ==
    /\ BookAt(w, "mark")
    /\ book' = [book EXCEPT !.due = FALSE]
    /\ BookTo(w, "idle")
    /\ UNCHANGED <<live, waiting, deciding, told, stale, cut, bookFaults>>

BookDies(w) ==
    /\ ~BookAt(w, "idle") /\ BookFault
    /\ bookRuns' = [bookRuns EXCEPT ![w] = OffWork]
    /\ cut' = IF BookAt(w, "log") THEN cut \cup FieldsOf(bookRuns[w].small) ELSE cut
    /\ UNCHANGED <<live, waiting, book, deciding, told, stale>>

(* The time limits of a run are far below those of its claim: only that of *)
(* a worker that died runs out.                                            *)
ClaimRunsOut ==
    /\ book.holder # NoWorker /\ ~book.lapsed
    /\ \A step \in {"read", "write", "log", "pend", "give up"} : ~BookAt(book.holder, step)
    /\ book' = [book EXCEPT !.lapsed = TRUE]
    /\ UNCHANGED <<live, waiting, bookRuns, deciding, told, stale, cut, bookFaults>>

WeekPasses ==
    /\ ~book.due
    /\ book' = [book EXCEPT !.due = TRUE]
    /\ UNCHANGED <<live, waiting, bookRuns, deciding, told, stale, cut, bookFaults>>

---------------------------------------------------------------------------------
(* decide(): the change as it is read, the model's row, the write, and the *)
(* change once more before it is marked.                                   *)
OwnerTo(step) == deciding' = [deciding EXCEPT !.step = step]

OwnerDecides(change, approve) ==
    /\ deciding.step = "idle"
    /\ deciding' = [Undecided EXCEPT !.step = IF approve THEN "row" ELSE "get", !.change = change, !.approve = approve]
    /\ UNCHANGED <<live, waiting, book, bookRuns, told, stale, cut, bookFaults>>

OwnerReadsRow ==
    /\ deciding.step = "row"
    /\ deciding' = [deciding EXCEPT !.step = "write", !.row = live]
    /\ UNCHANGED <<live, waiting, book, bookRuns, told, stale, cut, bookFaults>>

OwnerWrites ==
    /\ deciding.step = "write"
    /\ WriteRow(deciding.row, {deciding.change})
    /\ deciding' = [deciding EXCEPT !.step = "get", !.row = FirstListing]
    /\ UNCHANGED <<waiting, book, bookRuns, told, cut, bookFaults>>

(* One that was superseded meanwhile is left as it is, its price written.  *)
OwnerGets ==
    /\ deciding.step = "get"
    /\ IF deciding.change \in waiting THEN OwnerTo("update") /\ UNCHANGED stale
       ELSE /\ deciding' = Undecided
            /\ stale' = IF deciding.approve THEN stale \cup {deciding.change.field} ELSE stale
    /\ UNCHANGED <<live, waiting, book, bookRuns, told, cut, bookFaults>>

(* By the id, whatever the row says by now.                                *)
OwnerMarks ==
    /\ deciding.step = "update"
    /\ waiting' = waiting \ {deciding.change}
    /\ told' = IF deciding.approve THEN [told EXCEPT ![deciding.change.field] = deciding.change.next] ELSE told
    /\ deciding' = Undecided
    /\ UNCHANGED <<live, book, bookRuns, stale, cut, bookFaults>>

OwnerFails ==
    /\ deciding.step \in {"write", "get", "update"} /\ BookFault
    /\ cut' = IF deciding.approve /\ deciding.step # "write" THEN cut \cup {deciding.change.field} ELSE cut
    /\ deciding' = Undecided
    /\ UNCHANGED <<live, waiting, book, bookRuns, told, stale>>

---------------------------------------------------------------------------------
BookSteps(w) ==
    \/ TickDue(w) \/ ClaimBook(w) \/ ReadBook(w) \/ WriteSmall(w) \/ LogSmall(w)
    \/ Supersede(w) \/ LogBig(w) \/ ReleaseBook(w) \/ MarkRun(w)

BookNext ==
    \/ \E w \in BookWorkers : BookSteps(w) \/ ForceRun(w) \/ RunFails(w) \/ BookDies(w)
    \/ ClaimRunsOut \/ WeekPasses
    \/ \E change \in waiting, approve \in BOOLEAN : OwnerDecides(change, approve)
    \/ OwnerReadsRow \/ OwnerWrites \/ OwnerGets \/ OwnerMarks \/ OwnerFails

BookSpec == BookInit /\ [][BookNext]_bookVars

---------------------------------------------------------------------------------
(* Properties.                                                             *)

BookTypeOK ==
    /\ live \in [PriceFields -> Nat] /\ told \in [PriceFields -> Nat]
    /\ waiting \subseteq [id : ChangeIds, field : PriceFields, next : Nat]
    /\ book.holder \in BookWorkers \cup {NoWorker}
    /\ \A w \in BookWorkers : bookRuns[w].small \cap bookRuns[w].big = {}
    /\ stale \cup cut \subseteq PriceFields

(* job.js, a live price never changes silently: the newest change of the   *)
(* log that is live says what the row charges, unless the log is about to, *)
(* a failure cut it off, or somebody wrote a row that had changed since.   *)
NeverSilent == \A f \in PriceFields : live[f] # told[f] => f \in Unlogged \cup stale \cup cut
==================================================================================
