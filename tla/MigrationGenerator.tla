------------------------- MODULE MigrationGenerator -------------------------
(***************************************************************************)
(* generateClickHouseMigrations: the forward-only migration generator of   *)
(* the TypeScript kit.  A call reads the journal and the file list, writes *)
(* one numbered file per object the journal does not name, and writes the  *)
(* journal back once, after the last file.  Each file operation is a step, *)
(* a write two: it opens and empties the file, and fills it.  Nothing      *)
(* locks the directory, so others see a file between the two, and a call   *)
(* can stop between any two steps, in the middle of a write too.           *)
(***************************************************************************)
EXTENDS Naturals, Sequences, FiniteSets, FiniteSetsExt, SequencesExt

CONSTANTS Generators,   \* the processes that call the generator
          Tables, Views,
          Reads,        \* Reads[v]: the tables view v reads or writes
          Calls,        \* the <<tables, views>> arguments callers pass
          LastNumber,   \* the highest number /^(\d{4})_/ matches: 9999
          MaxCalls,     \* bound on the calls
          MaxByHand,    \* bound on the hand-authored files
          MaxFaults     \* bound on the crashes and exceptions

Objects == Tables \cup Views
ByHand  == "by hand"   \* a hand-authored file creates no object of the schema

ASSUME ObjectsAssumption == Tables \cap Views = {} /\ ByHand \notin Objects
ASSUME ReadsAssumption == Reads \in [Views -> SUBSET Tables]
(* A caller lists no object twice and passes the tables its views need.    *)
ASSUME CallsAssumption ==
    \A c \in Calls :
        /\ c \in Seq(Tables) \X Seq(Views)
        /\ IsInjective(c[1]) /\ IsInjective(c[2])
        /\ \A v \in ToSet(c[2]) : Reads[v] \subseteq ToSet(c[1])
ASSUME BoundsAssumption ==
    {LastNumber, MaxCalls, MaxByHand, MaxFaults} \subseteq Nat

VARIABLES
    \* the migrations directory
    files,    \* the migration files, by name (number and object)
    torn,     \* the files whose text is not whole: being written, or left so
    journal,  \* the entries of _journal.json, in order
    unread,   \* whether _journal.json is cut off too (JSON.parse throws)
    \* each process's call
    pc,       \* where the call is
    queue,    \* the objects it has still to visit
    entries,  \* its copy of the journal
    number,   \* the number of the next file it writes
    skipped, created,  \* its GenerateResult
    calls, byHand, faults, \* what has been used of the bounds
    overlapped \* whether two calls have ever been under way at once

disk == <<files, torn, journal, unread>>
call == <<queue, entries, number, skipped, created>>
used == <<calls, byHand, faults, overlapped>>
vars == <<disk, pc, call, used>>

File    == [num : Nat \ {0}, obj : Objects \cup {ByHand}]
Busy    == {"load", "list", "emit", "write", "save"}
Resting == {"idle", "ok", "err"}
Name(n, o) == [num |-> n, obj |-> o]
FilesOf(o) == {f \in files : f.obj = o}
Captured(log) == {log[i].obj : i \in DOMAIN log}

Init ==
    /\ files = {} /\ torn = {}
    /\ journal = << >> /\ unread = FALSE
    /\ pc = [g \in Generators |-> "idle"]
    /\ queue = [g \in Generators |-> << >>]
    /\ entries = [g \in Generators |-> << >>]
    /\ number = [g \in Generators |-> 1]
    /\ skipped = [g \in Generators |-> {}]
    /\ created = [g \in Generators |-> << >>]
    /\ calls = 0 /\ byHand = 0 /\ faults = 0 /\ overlapped = FALSE
-----------------------------------------------------------------------------
(* One call.                                                               *)

Goto(g, where) == pc' = [pc EXCEPT ![g] = where]

ViewsFirst(c) == c[2] \o c[1]   \* mutant: the two loops are swapped
EmitOrder(c)  == c[1] \o c[2]

Begin(g, c) ==
    /\ calls < MaxCalls
    /\ pc[g] \in Resting
    /\ calls' = calls + 1
    /\ overlapped' = (overlapped \/ \E h \in Generators : pc[h] \in Busy)
    /\ queue' = [queue EXCEPT ![g] = EmitOrder(c)]
    /\ entries' = [entries EXCEPT ![g] = << >>]
    /\ number' = [number EXCEPT ![g] = 1]
    /\ skipped' = [skipped EXCEPT ![g] = {}]
    /\ created' = [created EXCEPT ![g] = << >>]
    /\ Goto(g, "load")
    /\ UNCHANGED <<disk, byHand, faults>>

LoadJournal(g) ==
    /\ pc[g] = "load"
    /\ ~unread
    /\ entries' = [entries EXCEPT ![g] = journal]
    /\ Goto(g, "list")
    /\ UNCHANGED <<disk, queue, number, skipped, created, used>>

LoadFails(g) ==
    /\ pc[g] = "load"
    /\ unread
    /\ Goto(g, "err")
    /\ UNCHANGED <<disk, call, used>>

LastMigrationNumber ==                    \* mutant: the last one is taken again
    Max({f.num : f \in {h \in files : h.num <= LastNumber}} \cup {0})
NumberByCount == Cardinality(files) + 1   \* mutant: files are counted
NextMigrationNumber ==
    Max({f.num : f \in {h \in files : h.num <= LastNumber}} \cup {0}) + 1

ListFiles(g) ==
    /\ pc[g] = "list"
    /\ number' = [number EXCEPT ![g] = NextMigrationNumber]
    /\ Goto(g, "emit")
    /\ UNCHANGED <<disk, queue, entries, skipped, created, used>>

(* The dedup set: the journal's names and those this call has added.       *)
AddedNow(g) == Captured(created[g])   \* mutant: the journal is left out
CapturedSet(g) == Captured(entries[g])

Skip(g) ==
    /\ pc[g] = "emit"
    /\ queue[g] # << >>
    /\ Head(queue[g]) \in CapturedSet(g)
    /\ skipped' = [skipped EXCEPT ![g] = @ \cup {Head(queue[g])}]
    /\ queue' = [queue EXCEPT ![g] = Tail(@)]
    /\ UNCHANGED <<disk, pc, entries, number, created, used>>

EmittedUnder(g, f) ==   \* mutant: the entry names the number before
    /\ entries' = [entries EXCEPT ![g] = Append(@, Name(f.num - 1, f.obj))]
    /\ created' = [created EXCEPT ![g] = Append(@, f)]
EmitForgotten(g, f) ==  \* mutant: the entry is not pushed
    /\ created' = [created EXCEPT ![g] = Append(@, f)]
    /\ UNCHANGED entries
Emitted(g, f) ==
    /\ entries' = [entries EXCEPT ![g] = Append(@, f)]
    /\ created' = [created EXCEPT ![g] = Append(@, f)]

NextFile(g) == Name(number[g], Head(queue[g]))

(* The two halves of a write.  Calls that write one file write one text.   *)
OpenFile(g) ==
    /\ pc[g] = "emit"
    /\ queue[g] # << >>
    /\ Head(queue[g]) \notin CapturedSet(g)
    /\ files' = files \cup {NextFile(g)}
    /\ torn' = torn \cup {NextFile(g)}
    /\ Goto(g, "write")
    /\ UNCHANGED <<journal, unread, call, used>>

Emit(g) ==
    /\ pc[g] = "write"
    /\ torn' = torn \ {NextFile(g)}
    /\ Emitted(g, NextFile(g))
    /\ number' = [number EXCEPT ![g] = @ + 1]
    /\ queue' = [queue EXCEPT ![g] = Tail(@)]
    /\ Goto(g, "emit")
    /\ UNCHANGED <<files, journal, unread, skipped, used>>

(* The journal is written only when the call created a file.               *)
OpenJournal(g) ==
    /\ pc[g] = "emit"
    /\ queue[g] = << >>
    /\ created[g] # << >>
    /\ journal' = << >>
    /\ unread' = TRUE
    /\ Goto(g, "save")
    /\ UNCHANGED <<files, torn, call, used>>

(* What another call wrote in between, if it is longer, shows behind.      *)
Save(g) ==
    /\ pc[g] = "save"
    /\ \/ journal' = entries[g] /\ unread' = FALSE
       \/ journal # << >> /\ journal' = << >> /\ unread' = TRUE
    /\ Goto(g, "ok")
    /\ UNCHANGED <<files, torn, call, used>>

NothingToSave(g) ==
    /\ pc[g] = "emit"
    /\ queue[g] = << >>
    /\ created[g] = << >>
    /\ Goto(g, "ok")
    /\ UNCHANGED <<disk, call, used>>

Step(g) ==
    \/ LoadJournal(g) \/ LoadFails(g) \/ ListFiles(g)
    \/ Skip(g) \/ OpenFile(g) \/ Emit(g)
    \/ OpenJournal(g) \/ Save(g) \/ NothingToSave(g)
-----------------------------------------------------------------------------
(* Faults and the developer.                                               *)

(* The DDL of an object cannot be rendered (its column count is refused),  *)
(* a file operation throws, or the process dies: between two operations or *)
(* inside a write, which leaves the file cut off.                          *)
Throw(g) ==
    /\ pc[g] \in Busy
    /\ faults < MaxFaults
    /\ faults' = faults + 1
    /\ Goto(g, "err")
    /\ UNCHANGED <<disk, call, calls, byHand, overlapped>>

(* A developer adds a migration by hand between calls, under a free number *)
(* that is at most one past the next.                                      *)
WriteByHand(n) ==
    /\ byHand < MaxByHand
    /\ n <= NextMigrationNumber + 1
    /\ \A g \in Generators : pc[g] \in Resting
    /\ \A f \in files : f.num # n
    /\ byHand' = byHand + 1
    /\ files' = files \cup {Name(n, ByHand)}
    /\ UNCHANGED <<torn, journal, unread, pc, call, calls, faults, overlapped>>

(* Someone deletes the cut-off journal, which makes every call fail: the   *)
(* next call starts from an empty one, and what earlier calls returned no  *)
(* longer counts.                                                          *)
DiscardJournal ==
    /\ unread
    /\ \A g \in Generators : pc[g] \in Resting
    /\ unread' = FALSE
    /\ pc' = [g \in Generators |-> "idle"]
    /\ UNCHANGED <<files, torn, journal, call, used>>

Next ==
    \/ \E g \in Generators :
           \/ \E c \in Calls : Begin(g, c)
           \/ Step(g) \/ Throw(g)
    \/ \E n \in 1..LastNumber : WriteByHand(n)
    \/ DiscardJournal

Spec == Init /\ [][Next]_vars
-----------------------------------------------------------------------------
(* Type correctness of every variable of the model. *)
TypeOK ==
    /\ files \subseteq File /\ torn \subseteq files
    /\ journal \in Seq(File) /\ unread \in BOOLEAN
    /\ pc \in [Generators -> Busy \cup Resting]
    /\ queue \in [Generators -> Seq(Objects)]
    /\ entries \in [Generators -> Seq(File)]
    /\ number \in [Generators -> Nat \ {0}]
    /\ skipped \in [Generators -> SUBSET Objects]
    /\ created \in [Generators -> Seq(File)]
    /\ {calls, byHand, faults} \subseteq Nat /\ overlapped \in BOOLEAN

(* A journal entry names a file that is there, even when calls of several  *)
(* processes interleave: the journal is written after the files.           *)
JournalledFilesExist == ToSet(journal) \subseteq files

(* The journal names an object once, though any of several interleaved     *)
(* calls may have written it last.                                         *)
JournalNamesEachOnce ==
    \A i, j \in DOMAIN journal : journal[i].obj = journal[j].obj => i = j

(* The rest holds as long as no two calls have overlapped.                 *)

(* The file a journal entry names is whole: a write cut off midway is never *)
(* journalled, the object is emitted again under a later number.           *)
JournalledFilesWhole == ~overlapped => ToSet(journal) \cap torn = {}

(* The next number is above every number of the directory, so a file is    *)
(* never overwritten and sorts after all that were there before it.        *)
NumberIsFresh ==
    ~overlapped =>
        \A g \in Generators : pc[g] = "emit" => \A f \in files : f.num < number[g]

(* A view's file, whichever call wrote it and however earlier calls ended, *)
(* has a whole, lower-numbered file for each table the view depends on.    *)
DependenciesFirst ==
    ~overlapped =>
        \A f \in files : f.obj \in Views =>
            \A t \in Reads[f.obj] : \E h \in FilesOf(t) \ torn : h.num < f.num

(* A call that returned left every object it was given in the journal, and *)
(* later calls keep it there until a write of the journal is cut off.      *)
OkMeansCaptured ==
    ~overlapped /\ ~unread =>
        \A g \in Generators : pc[g] = "ok" =>
            skipped[g] \cup Captured(created[g]) \subseteq Captured(journal)

(* An object gets a second file only because a call stopped before it      *)
(* saved the journal: one more file per fault at most.                     *)
DuplicatesPaidFor ==
    ~overlapped => \A o \in Objects : Cardinality(FilesOf(o)) <= 1 + faults
=============================================================================
