-------------------------- MODULE MigrationRunner --------------------------
(***************************************************************************)
(* The forward-only migration runner of both kits, run_migrations (Rust)   *)
(* and runClickHouseMigrations (TypeScript), as processes that share one   *)
(* migrations directory and one ClickHouse server.                         *)
(*                                                                         *)
(* A pass creates the bookkeeping table, lists the directory, reads the    *)
(* applied filenames ONCE, then visits the listed files in order: a file   *)
(* of that snapshot is skipped, any other is executed statement by         *)
(* statement and recorded by a separate INSERT.  Every server call is an   *)
(* await, so each is a step of its own.  A pass can end early anywhere,    *)
(* and a command whose reply never came may still reach the server later.  *)
(***************************************************************************)
EXTENDS Naturals, Sequences, FiniteSets

CONSTANTS Runners,      \* the processes that run passes, one pass at a time each
          Kit,          \* Kit[r]: which implementation runner r is
          Files,        \* the migration files that may ever be published
          Objects,      \* the tables and views the files create, read or write
          Statements,   \* Statements[f]: what the splitter returns for file f
          Rank,         \* Rank[kit][f]: the place of f in that kit's file order
          AppendOnly,   \* whether a new file always sorts after the ones present
          LostReplies,  \* whether a command may outlive the pass that sent it
          MaxFaults     \* bound on the crashes, errors and lost replies

Kits == {"rust", "ts"}

(* A statement is known by the objects it needs and makes, and by whether  *)
(* it may run when what it makes exists (IF NOT EXISTS).                   *)
Statement == [needs : SUBSET Objects, makes : SUBSET Objects, again : BOOLEAN]

ASSUME KitAssumption == Kit \in [Runners -> Kits]
ASSUME FilesAssumption == Files # {}
ASSUME StatementsAssumption == Statements \in [Files -> Seq(Statement)]
ASSUME RankAssumption ==
    /\ Rank \in [Kits -> [Files -> Nat]]
    /\ \A kit \in Kits, f, g \in Files : Rank[kit][f] = Rank[kit][g] => f = g
ASSUME BoundsAssumption ==
    AppendOnly \in BOOLEAN /\ LostReplies \in BOOLEAN /\ MaxFaults \in Nat

VARIABLES
    \* the migrations directory and the server
    dir,        \* the *.sql files present
    tracked,    \* whether _ch_migrations exists
    rows,       \* rows[f]: how many _ch_migrations rows name f (a MergeTree keeps all)
    executed,   \* executed[<<f, k>>]: how often statement k of f has taken effect
    objects,    \* the tables that exist
    orphans,    \* commands given up by their runner that may still reach the server
    \* each runner's pass
    pc,         \* where the pass is
    discovered, \* the files it listed
    seen,       \* the filenames it read from _ch_migrations
    skipped, applied,  \* the rest of its MigrationRunResult
    file, stmt, \* the file it is applying and the next statement of it
    faults      \* how many faults have happened

server == <<tracked, rows, executed, objects>>
pass   == <<discovered, seen, skipped, applied, file, stmt>>
vars   == <<dir, server, orphans, pc, pass, faults>>

Running  == {"ensure", "discover", "fetch", "visit", "exec"}
Resting  == {"idle", "ok", "err"}
Last(f)  == Len(Statements[f])
StmtIds  == UNION {{f} \X (1..Last(f)) : f \in Files}
Recorded == {f \in Files : rows[f] > 0}
AnyFile  == CHOOSE f \in Files : TRUE   \* file[r] when r applies none
Command  == [id : Nat, file : Files, stmt : Nat \ {0}]

Init ==
    /\ dir = {}
    /\ tracked = FALSE
    /\ rows = [f \in Files |-> 0]
    /\ executed = [s \in StmtIds |-> 0]
    /\ objects = {}
    /\ orphans = {}
    /\ pc = [r \in Runners |-> "idle"]
    /\ discovered = [r \in Runners |-> {}]
    /\ seen = [r \in Runners |-> {}]
    /\ skipped = [r \in Runners |-> {}]
    /\ applied = [r \in Runners |-> {}]
    /\ file = [r \in Runners |-> AnyFile]
    /\ stmt = [r \in Runners |-> 1]
    /\ faults = 0
-----------------------------------------------------------------------------
(* The server, as the runner uses it.                                      *)

CanRun(s) ==
    /\ s.needs \subseteq objects
    /\ s.again \/ s.makes \cap objects = {}

RunStatement(f, k) ==
    /\ CanRun(Statements[f][k])
    /\ objects' = objects \cup Statements[f][k].makes
    /\ executed' = [executed EXCEPT ![<<f, k>>] = @ + 1]
    /\ UNCHANGED <<tracked, rows>>

NoInsert(f) == UNCHANGED server   \* mutant: the INSERT is not sent
InsertRow(f) ==
    /\ rows' = [rows EXCEPT ![f] = @ + 1]
    /\ UNCHANGED <<tracked, executed, objects>>
-----------------------------------------------------------------------------
(* One pass.  Both kits share these steps and differ in the order of the   *)
(* first three and in how they sort the files.                             *)

Goto(r, where) == pc' = [pc EXCEPT ![r] = where]

(* A pass keeps nothing of an earlier one, and a failed one returns nothing. *)
Forget(r) ==
    /\ discovered' = [discovered EXCEPT ![r] = {}]
    /\ seen' = [seen EXCEPT ![r] = {}]
    /\ skipped' = [skipped EXCEPT ![r] = {}]
    /\ applied' = [applied EXCEPT ![r] = {}]
    /\ file' = [file EXCEPT ![r] = AnyFile]
    /\ stmt' = [stmt EXCEPT ![r] = 1]

(* The caller starts a pass, the first one or the next one.                *)
Start(r) ==
    /\ pc[r] \in Resting
    /\ Goto(r, "ensure")
    /\ Forget(r)
    /\ UNCHANGED <<dir, server, orphans, faults>>

EnsureTable(r, next) ==
    /\ pc[r] = "ensure"
    /\ tracked' = TRUE
    /\ Goto(r, next)
    /\ UNCHANGED <<dir, rows, executed, objects, orphans, pass, faults>>

Discover(r, next) ==
    /\ pc[r] = "discover"
    /\ discovered' = [discovered EXCEPT ![r] = dir]
    /\ Goto(r, next)
    /\ UNCHANGED <<dir, server, orphans, seen, skipped, applied, file, stmt, faults>>

(* The filenames the server returns.                                       *)
NoFilenames == {}        \* mutant: the answer is dropped
ListedFilenames == dir   \* mutant: the directory is taken for the answer
AppliedFilenames == Recorded

FetchApplied(r, next) ==
    /\ pc[r] = "fetch"
    /\ tracked
    /\ seen' = [seen EXCEPT ![r] = AppliedFilenames]
    /\ Goto(r, next)
    /\ UNCHANGED <<dir, server, orphans, discovered, skipped, applied, file, stmt, faults>>

(* The loop over the sorted list: the next file is the least one in the    *)
(* kit's order that the pass has neither skipped nor applied.              *)
Pending(r) == discovered[r] \ (skipped[r] \cup applied[r])

AnyPending(r, f) == f \in Pending(r)   \* mutant: the list is not sorted
IsNext(r, f) ==
    /\ f \in Pending(r)
    /\ \A g \in Pending(r) : Rank[Kit[r]][f] <= Rank[Kit[r]][g]

AlreadyApplied(r, f) == f \in seen[r]

Skip(r, f) ==
    /\ pc[r] = "visit"
    /\ IsNext(r, f)
    /\ AlreadyApplied(r, f)
    /\ skipped' = [skipped EXCEPT ![r] = @ \cup {f}]
    /\ UNCHANGED <<dir, server, orphans, pc, discovered, seen, applied, file, stmt, faults>>

(* mutant: statements are numbered from 0 *)
OpenAtZero(r, f) ==
    /\ pc[r] = "visit" /\ IsNext(r, f) /\ ~AlreadyApplied(r, f)
    /\ file' = [file EXCEPT ![r] = f]
    /\ stmt' = [stmt EXCEPT ![r] = 0]
    /\ Goto(r, "exec")
    /\ UNCHANGED <<dir, server, orphans, discovered, seen, skipped, applied, faults>>
Open(r, f) ==
    /\ pc[r] = "visit"
    /\ IsNext(r, f)
    /\ ~AlreadyApplied(r, f)
    /\ file' = [file EXCEPT ![r] = f]
    /\ stmt' = [stmt EXCEPT ![r] = 1]
    /\ Goto(r, "exec")
    /\ UNCHANGED <<dir, server, orphans, discovered, seen, skipped, applied, faults>>

LastReached(r) == stmt[r] >= Last(file[r])   \* mutant: the last one is dropped
AllExecuted(r) == stmt[r] > Last(file[r])

Execute(r) ==
    /\ pc[r] = "exec"
    /\ ~AllExecuted(r)
    /\ RunStatement(file[r], stmt[r])
    /\ stmt' = [stmt EXCEPT ![r] = @ + 1]
    /\ UNCHANGED <<dir, orphans, pc, discovered, seen, skipped, applied, file, faults>>

(* mutants: the error is swallowed, the next statement or file goes on *)
NextStatement(r) ==
    /\ stmt' = [stmt EXCEPT ![r] = @ + 1]
    /\ UNCHANGED <<pc, discovered, seen, skipped, applied, file>>
NextFile(r) ==
    /\ skipped' = [skipped EXCEPT ![r] = @ \cup {file[r]}]
    /\ Goto(r, "visit")
    /\ UNCHANGED <<discovered, seen, applied, file, stmt>>
Fail(r) ==
    /\ Goto(r, "err")
    /\ Forget(r)

(* The server refuses the statement and the error ends the pass.           *)
Rejected(r) ==
    /\ pc[r] = "exec"
    /\ ~AllExecuted(r)
    /\ ~CanRun(Statements[file[r]][stmt[r]])
    /\ Fail(r)
    /\ UNCHANGED <<dir, server, orphans, faults>>

Record(r) ==
    /\ pc[r] = "exec"
    /\ AllExecuted(r)
    /\ InsertRow(file[r])
    /\ applied' = [applied EXCEPT ![r] = @ \cup {file[r]}]
    /\ Goto(r, "visit")
    /\ UNCHANGED <<dir, orphans, discovered, seen, skipped, file, stmt, faults>>

Finish(r) ==
    /\ pc[r] = "visit"
    /\ Pending(r) = {}
    /\ Goto(r, "ok")
    /\ UNCHANGED <<dir, server, orphans, pass, faults>>

ApplyFiles(r) ==
    \/ \E f \in Files : Skip(r, f) \/ Open(r, f)
    \/ Execute(r) \/ Rejected(r) \/ Record(r) \/ Finish(r)

RustPass(r) ==
    /\ Kit[r] = "rust"
    /\ \/ EnsureTable(r, "discover")
       \/ Discover(r, "fetch")
       \/ FetchApplied(r, "visit")
       \/ ApplyFiles(r)

TsPass(r) ==
    /\ Kit[r] = "ts"
    /\ \/ EnsureTable(r, "fetch")
       \/ FetchApplied(r, "discover")
       \/ Discover(r, "visit")
       \/ ApplyFiles(r)
-----------------------------------------------------------------------------
(* The environment.                                                        *)

(* A pass ends with nothing outstanding: the process dies, the directory   *)
(* or a file cannot be read, or the client fails before it sends.          *)
Abort(r) ==
    /\ faults < MaxFaults
    /\ pc[r] \in Running
    /\ faults' = faults + 1
    /\ Fail(r)
    /\ UNCHANGED <<dir, server, orphans>>

(* A pass ends with its command on the way: the client times out, or the   *)
(* process dies before the reply.  A stmt past the last is the INSERT.     *)
GiveUp(r) ==
    /\ LostReplies
    /\ faults < MaxFaults
    /\ pc[r] = "exec"
    /\ faults' = faults + 1
    /\ orphans' = orphans \cup {[id |-> faults, file |-> file[r], stmt |-> stmt[r]]}
    /\ Fail(r)
    /\ UNCHANGED <<dir, server>>

(* An orphaned command reaches the server after all.                       *)
Land(c) ==
    /\ orphans' = orphans \ {c}
    /\ IF c.stmt <= Last(c.file) THEN RunStatement(c.file, c.stmt)
                                 ELSE InsertRow(c.file)
    /\ UNCHANGED <<dir, pc, pass, faults>>

(* An orphaned command never arrives, or the server refuses it.            *)
Lose(c) ==
    /\ orphans' = orphans \ {c}
    /\ UNCHANGED <<dir, server, pc, pass, faults>>

(* A deployment adds a file.                                               *)
Publish(f) ==
    /\ f \notin dir
    /\ AppendOnly => \A g \in dir : Rank["rust"][g] < Rank["rust"][f]
    /\ dir' = dir \cup {f}
    /\ UNCHANGED <<server, orphans, pc, pass, faults>>

Step(r) == Start(r) \/ RustPass(r) \/ TsPass(r)

Next ==
    \/ \E r \in Runners : Step(r) \/ Abort(r) \/ GiveUp(r)
    \/ \E c \in orphans : Land(c) \/ Lose(c)
    \/ \E f \in Files : Publish(f)

Spec == Init /\ [][Next]_vars

(* The async runtime drives a pass to its end, and a pass that ended is    *)
(* followed by the next one: both kits leave the retry to the next run.    *)
FairSpec == Spec /\ \A r \in Runners : WF_vars(Step(r))
-----------------------------------------------------------------------------
(* Type correctness of every variable of the model. *)
TypeOK ==
    /\ dir \subseteq Files
    /\ tracked \in BOOLEAN
    /\ rows \in [Files -> Nat]
    /\ executed \in [StmtIds -> Nat]
    /\ objects \subseteq Objects
    /\ orphans \subseteq Command
    /\ pc \in [Runners -> Running \cup Resting]
    /\ discovered \in [Runners -> SUBSET Files]
    /\ seen \in [Runners -> SUBSET Files]
    /\ skipped \in [Runners -> SUBSET Files]
    /\ applied \in [Runners -> SUBSET Files]
    /\ file \in [Runners -> Files]
    /\ stmt \in [Runners -> Nat \ {0}]
    /\ faults \in Nat

(* A filename is in _ch_migrations only when every statement of the file   *)
(* has taken effect, whichever passes ran them and whichever command       *)
(* arrived late: the runner records a file after its statements.           *)
RecordedMeansRun ==
    \A f \in Recorded : \A k \in 1..Last(f) : executed[<<f, k>>] > 0

(* Within a file no statement takes effect for the first time before the   *)
(* ones above it have, across passes that stopped midway and resumed.      *)
StatementsInOrder ==
    \A f \in Files : \A k \in 1..Last(f) :
        executed[<<f, k>>] > 0 => \A j \in 1..k : executed[<<f, j>>] > 0

(* While a pass applies a file, every file it listed before that one in    *)
(* its own order is recorded: an error or a crash never lets the loop go   *)
(* past an unapplied file.                                                 *)
PassOrder ==
    \A r \in Runners : pc[r] = "exec" =>
        \A g \in discovered[r] :
            Rank[Kit[r]][g] < Rank[Kit[r]][file[r]] => g \in Recorded

(* A pass that returns Ok tells the truth: each listed file was skipped or *)
(* applied, not both, and every one of them is recorded.                   *)
OkMeansRecorded ==
    \A r \in Runners : pc[r] = "ok" =>
        /\ skipped[r] \cup applied[r] = discovered[r]
        /\ skipped[r] \cap applied[r] = {}
        /\ discovered[r] \subseteq Recorded

(* Files take effect in lexical (byte) order, as both kits' documentation  *)
(* says: once a statement of f has run, every file of the directory that   *)
(* sorts before f is recorded.                                             *)
LexicalOrder ==
    \A f \in dir : \A k \in 1..Last(f) :
        executed[<<f, k>>] > 0 =>
            \A g \in dir : Rank["rust"][g] < Rank["rust"][f] => g \in Recorded

(* A statement runs again only for a reason: its executions number at most *)
(* one per runner and one more per fault, when the server rejects none.    *)
RerunsPaidFor ==
    \A s \in StmtIds : executed[s] <= Cardinality(Runners) + faults

(* Files already present in _ch_migrations are skipped: once a file is     *)
(* recorded no step executes a statement of it or records it again.        *)
NoReapply ==
    [][\A f \in Recorded :
           /\ \A k \in 1..Last(f) : executed'[<<f, k>>] = executed[<<f, k>>]
           /\ rows'[f] = rows[f]]_vars

(* Every published file is eventually recorded, through any finite number  *)
(* of crashes, failed calls and lost replies.                              *)
EventuallyRecorded == \A f \in Files : f \in dir ~> f \in Recorded

(* The runner implements the abstract migration log.                       *)
Log == INSTANCE MigrationLog WITH
           Size     <- [f \in Files |-> Last(f)],
           Position <- Rank["rust"],
           ran      <- {s \in StmtIds : executed[s] > 0},
           done     <- Recorded

(* Every behaviour of the runners is one of the abstract log: the promise  *)
(* of MigrationLog holds whatever the interleaving and the faults.         *)
ImplementsLog == Log!Spec
=============================================================================
