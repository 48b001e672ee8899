------------------------- MODULE MigrationPipeline -------------------------
(***************************************************************************)
(* The generator and the runner over one migrations directory: a process   *)
(* generates files, call after call, while a runner applies what is there. *)
(* Nothing keeps them apart.  A file is in the directory from the moment   *)
(* the generator opens it, so a pass may list it, read it and execute what *)
(* it holds by then before its text is whole; and one that a crash cut off *)
(* is listed, executed and recorded like any other.                        *)
(*                                                                         *)
(* There is one process of each, so a file is never written twice.         *)
(***************************************************************************)
EXTENDS MigrationGenerator

CONSTANTS Runner, RunnerKit,
          Alphabet,         \* Alphabet[o]: the place of o's name among the names
          MaxRunnerFaults,  \* bound on the failed passes
          MaxMisreads       \* bound on the files read in the middle of their write

ASSUME AloneAssumption == (\E g \in Generators : Generators = {g}) /\ MaxByHand = 0
ASSUME RunnerAssumption ==
    RunnerKit \in {"rust", "ts"} /\ {MaxRunnerFaults, MaxMisreads} \subseteq Nat
ASSUME AlphabetAssumption ==
    /\ IsFiniteSet(Objects) /\ Objects # {} /\ LastNumber > 0
    /\ Alphabet \in [Objects -> 0..Cardinality(Objects) - 1]
    /\ IsInjective(Alphabet)

(* What the statement splitter finds in a file: the whole CREATE, nothing  *)
(* yet, a CREATE without its last clauses, or a text the server refuses.   *)
Cuts == {"whole", "empty", "short", "broken"}
Published == [num : 1..LastNumber, obj : Objects] \X Cuts

(* The server's objects, and one that no file creates.                     *)
Nowhere == "nowhere"
Needed(o) == IF o \in Views THEN Reads[o] ELSE {}

(* mutant: no IF NOT EXISTS *)
CreatePlain(o) == [needs |-> Needed(o), makes |-> {o}, again |-> FALSE]
Create(o) == [needs |-> Needed(o), makes |-> {o}, again |-> TRUE]

Contents ==
    [f \in Published |->
        CASE f[2] = "empty"  -> << >>
          [] f[2] = "broken" -> <<[needs |-> {Nowhere}, makes |-> {}, again |-> TRUE]>>
          [] OTHER           -> <<Create(f[1].obj)>>]

(* Filenames sort by their four digits first, then by the object's name.   *)
CutOrder == [whole |-> 0, empty |-> 1, short |-> 2, broken |-> 3]
Sorted ==
    [f \in Published |->
        4 * (f[1].num * Cardinality(Objects) + Alphabet[f[1].obj]) + CutOrder[f[2]]]

VARIABLES
    fate,     \* fate[f]: what f holds once it is closed, or left by a crash
    text,     \* what the file being written holds by now, else "empty"
    tracked, rows, executed, objects, orphans,                  \* the server
    rpc, discovered, seen, rskipped, applied, file, stmt, rfaults, \* the pass
    misread   \* the files a pass has read as a text they did not keep

generating == <<vars, fate, text>>
running == <<tracked, rows, executed, objects, orphans,
             rpc, discovered, seen, rskipped, applied, file, stmt, rfaults>>
pipeline == <<generating, running, misread>>

(* To the runner a file is its name and the text it keeps.  The text is    *)
(* settled when the write ends; fate tells it when the write begins.       *)
Listed(f) == <<f, fate[f]>>

Run == INSTANCE MigrationRunner WITH
           Runners <- {Runner}, Kit <- [r \in {Runner} |-> RunnerKit],
           Files <- Published, Objects <- Objects \cup {Nowhere},
           Statements <- Contents, Rank <- [kit \in {"rust", "ts"} |-> Sorted],
           AppendOnly <- TRUE, LostReplies <- FALSE, MaxFaults <- MaxRunnerFaults,
           dir <- {Listed(f) : f \in files},
           pc <- rpc, skipped <- rskipped, faults <- rfaults

PipelineInit ==
    /\ Init /\ fate = << >> /\ text = "empty"
    /\ Run!Init /\ misread = {}
-----------------------------------------------------------------------------
(* The generator.                                                          *)

(* The file is there, empty.  It will be whole, or what a crash leaves.    *)
Publish(g) ==
    /\ OpenFile(g)
    /\ \E c \in Cuts :
           /\ c = "whole" \/ faults < MaxFaults
           /\ fate' = [f \in files' |-> IF f = NextFile(g) THEN c ELSE fate[f]]
    /\ text' = "empty"

(* More of its text reaches the file.                                      *)
WriteOn(g) ==
    /\ pc[g] = "write" /\ text # "whole"
    /\ fate[NextFile(g)] # "empty"
    /\ \E c \in Cuts \ {"empty"} :
           /\ c = "whole" => fate[NextFile(g)] = "whole"
           /\ text' = c
    /\ UNCHANGED <<vars, fate>>

EndsWrite(g) == Emit(g) /\ fate[NextFile(g)] = "whole"
Dies(g) == Throw(g) /\ (pc[g] = "write" => fate[NextFile(g)] # "whole")

Elsewhere(g) ==
    \/ \E c \in Calls : Begin(g, c)
    \/ LoadJournal(g) \/ LoadFails(g) \/ ListFiles(g) \/ Skip(g)
    \/ OpenJournal(g) \/ Save(g) \/ NothingToSave(g)

Generate(g) ==
    /\ \/ Publish(g) \/ WriteOn(g)
       \/ (EndsWrite(g) \/ Dies(g) \/ Elsewhere(g)) /\ text' = "empty" /\ UNCHANGED fate
    /\ UNCHANGED <<running, misread>>

Repair == UNCHANGED <<fate, text, running, misread>> /\ DiscardJournal
-----------------------------------------------------------------------------
(* The runner.                                                             *)

(* A file is being written, and holds by now not what it will keep.        *)
Unfinished(f) ==
    /\ \E g \in Generators : pc[g] = "write" /\ f = NextFile(g)
    /\ text # fate[f]

(* The pass comes to such a file and reads what it holds.                  *)
ComesTo(f) ==
    /\ rpc[Runner] = "visit"
    /\ Run!IsNext(Runner, Listed(f)) /\ ~Run!AlreadyApplied(Runner, Listed(f))
    /\ Unfinished(f)

OpenUnfinished(f) ==
    /\ ComesTo(f)
    /\ Cardinality(misread \cup {f}) <= MaxMisreads
    /\ file' = [file EXCEPT ![Runner] = <<f, text>>]
    /\ stmt' = [stmt EXCEPT ![Runner] = 1]
    /\ Run!Goto(Runner, "exec")
    /\ misread' = misread \cup {f}
    /\ UNCHANGED <<tracked, rows, executed, objects, orphans,
                   discovered, seen, rskipped, applied, rfaults>>

(* What it read has run, and it records the file's name.                   *)
Misread == file[Runner] # Listed(file[Runner][1])
EndsMisread == rpc[Runner] = "exec" /\ Misread /\ Run!AllExecuted(Runner)

RecordMisread ==
    /\ EndsMisread
    /\ Run!InsertRow(Listed(file[Runner][1]))
    /\ applied' = [applied EXCEPT ![Runner] = @ \cup {Listed(file[Runner][1])}]
    /\ Run!Goto(Runner, "visit")
    /\ UNCHANGED <<orphans, discovered, seen, rskipped, file, stmt, rfaults, misread>>

(* All other steps are the runner's own.                                   *)
Proceed ==
    /\ ~EndsMisread /\ \A f \in files : ~ComesTo(f)
    /\ Run!Step(Runner)
    /\ UNCHANGED misread

Apply ==
    /\ UNCHANGED generating
    /\ (\E f \in files : OpenUnfinished(f)) \/ RecordMisread \/ Proceed

ApplyFails == UNCHANGED <<generating, misread>> /\ Run!Abort(Runner)

PipelineNext ==
    \/ \E g \in Generators : Generate(g)
    \/ Repair \/ Apply \/ ApplyFails

(* Passes are driven to their end and followed by further ones; nobody is  *)
(* obliged to generate anything.                                           *)
PipelineSpec ==
    PipelineInit /\ [][PipelineNext]_pipeline /\ WF_pipeline(Apply)
-----------------------------------------------------------------------------
(* Files whose text a crash leaves as one the server refuses.              *)
Broken == {f \in files : fate[f] = "broken"}

(* The generator keeps the runner's assumption that new files sort last:   *)
(* together they are the runner over an append-only directory, so all that *)
(* is proved of it holds of them, until a pass reads a file in the middle  *)
(* of its write.                                                           *)
ImplementsRunner ==
    Run!Init /\ [][misread' # {} \/ [Run!Next]_(Run!vars)]_pipeline

(* The server refuses a generated statement only if its text was read cut  *)
(* off or a file of a table it needs was read in the middle of its write:  *)
(* any other object a statement needs exists by the time it is sent,       *)
(* however calls and passes failed and took turns.                         *)
RefusedOnlyBroken ==
    rpc[Runner] = "exec" /\ stmt[Runner] <= Len(Contents[file[Runner]]) =>
        \/ file[Runner][2] = "broken"
        \/ \E h \in misread : h.obj \in Needed(file[Runner][1].obj)
        \/ Run!CanRun(Contents[file[Runner]][stmt[Runner]])

(* A cut-off file may be recorded although it created nothing, yet no      *)
(* object is lost by that: a pass that returned Ok leaves on the server    *)
(* every object whose journalled file it listed, except those whose file a *)
(* pass read in the middle of its write.                                   *)
OkCreatesJournalled ==
    rpc[Runner] = "ok" =>
        \A f \in ToSet(journal) :
            Listed(f) \in discovered[Runner] => f.obj \in objects \/ f \in misread

(* A journalled object is created in the end, unless a broken file stands  *)
(* in the directory or a pass has read a file in the middle of its write.  *)
JournalledIsCreated ==
    \A o \in Objects :
        o \in Captured(journal) ~> o \in objects \/ Broken # {} \/ misread # {}
=============================================================================
