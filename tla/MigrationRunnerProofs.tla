----------------------- MODULE MigrationRunnerProofs -----------------------
(***************************************************************************)
(* The safety of MigrationRunner for every set of runners, files and       *)
(* statements and every bound on the faults.  Everything rests on one      *)
(* inductive invariant: it says of each command that may still reach the   *)
(* server (the next one of a pass, or an orphan) that all the statements   *)
(* above it have taken effect.                                             *)
(***************************************************************************)
EXTENDS MigrationRunner, FiniteSetTheorems, TLAPS

(* Statement s has taken effect; those of f above statement k all have.    *)
HasRun(s)   == executed[s] > 0
Ready(f, k) == \A j \in 1..Last(f) : j < k => HasRun(<<f, j>>)

(* Only published files ever run.                                          *)
OnlyPublished == \A f \in Files : \A k \in 1..Last(f) : HasRun(<<f, k>>) => f \in dir

OrphanInv == \A c \in orphans : c.file \in dir /\ Ready(c.file, c.stmt)

(* One runner's pass.  A pass skips what it saw recorded and applies only  *)
(* what it did not see, which keeps the two lists apart.                   *)
ResultInv(r) ==
    /\ pc[r] \in {"idle", "ensure", "discover", "fetch"} => skipped[r] = {} /\ applied[r] = {}
    /\ seen[r] \subseteq Recorded
    /\ discovered[r] \subseteq dir
    /\ skipped[r] \subseteq seen[r] \cap discovered[r]
    /\ applied[r] \subseteq Recorded \cap discovered[r]
    /\ applied[r] \cap seen[r] = {}
    /\ pc[r] = "ok" => skipped[r] \cup applied[r] = discovered[r]

ExecInv(r) ==
    pc[r] = "exec" =>
        /\ file[r] \in discovered[r]
        /\ file[r] \notin seen[r]
        /\ Ready(file[r], stmt[r])
        /\ \A g \in discovered[r] :
               Rank[Kit[r]][g] < Rank[Kit[r]][file[r]] => g \in Recorded

PassInv == \A r \in Runners : ResultInv(r) /\ ExecInv(r)

IInv ==
    /\ TypeOK
    /\ RecordedMeansRun
    /\ StatementsInOrder
    /\ OnlyPublished
    /\ OrphanInv
    /\ PassInv

(* What a step does to the server: a statement whose predecessors have run *)
(* takes effect, a file all of whose statements have run is recorded, or   *)
(* neither.                                                                *)
Outstanding(f) ==
    \/ \E r \in Runners : pc[r] = "exec" /\ file[r] = f
    \/ \E c \in orphans : c.file = f
Executes(f, k) ==
    /\ Outstanding(f)
    /\ f \in dir /\ dir' = dir
    /\ Ready(f, k)
    /\ RunStatement(f, k)
Records(f) ==
    /\ Outstanding(f)
    /\ f \in dir /\ dir' = dir
    /\ Ready(f, Last(f) + 1)
    /\ InsertRow(f)
ServerStep ==
    \/ UNCHANGED <<executed, rows, objects>> /\ tracked' \in BOOLEAN
    \/ \E f \in Files : \E k \in 1..Last(f) : Executes(f, k)
    \/ \E f \in Files : Records(f)
-----------------------------------------------------------------------------
LEMMA LastType == \A f \in Files : Last(f) \in Nat
BY StatementsAssumption DEF Last

LEMMA StatementType ==
    ASSUME NEW f \in Files, NEW k \in 1..Last(f)
    PROVE  Statements[f][k] \in Statement
BY StatementsAssumption DEF Last

LEMMA RankType == \A r \in Runners, f \in Files : Rank[Kit[r]][f] \in Nat
BY KitAssumption, RankAssumption

LEMMA AnyFileType == AnyFile \in Files
BY FilesAssumption DEF AnyFile

LEMMA StmtIdsIntro ==
    ASSUME NEW f \in Files, NEW k \in 1..Last(f)
    PROVE  <<f, k>> \in StmtIds
BY DEF StmtIds

LEMMA StmtIdsElim ==
    ASSUME NEW s \in StmtIds
    PROVE  \E f \in Files : \E k \in 1..Last(f) : s = <<f, k>>
BY DEF StmtIds
-----------------------------------------------------------------------------
(* What a statement and an INSERT do to the server.                        *)

LEMMA RunStatementEffect ==
    ASSUME TypeOK, NEW f \in Files, NEW k \in 1..Last(f), RunStatement(f, k)
    PROVE  /\ executed' \in [StmtIds -> Nat]
           /\ objects' \subseteq Objects
           /\ rows' = rows /\ tracked' = tracked
           /\ HasRun(<<f, k>>)'
           /\ \A s \in StmtIds : HasRun(s) => HasRun(s)'
           /\ \A s \in StmtIds : HasRun(s)' => HasRun(s) \/ s = <<f, k>>
<1>1. <<f, k>> \in StmtIds
  BY StmtIdsIntro
<1>2. executed \in [StmtIds -> Nat] /\ objects \subseteq Objects
  BY DEF TypeOK
<1>3. executed' = [executed EXCEPT ![<<f, k>>] = @ + 1]
  BY DEF RunStatement
<1>4. executed' = [s \in StmtIds |-> IF s = <<f, k>> THEN executed[s] + 1 ELSE executed[s]]
  BY <1>2, <1>3
<1>5. objects' \subseteq Objects
  BY <1>2, StatementType DEF RunStatement, Statement
<1>6. rows' = rows /\ tracked' = tracked
  BY DEF RunStatement
<1> QED
  BY <1>1, <1>2, <1>4, <1>5, <1>6 DEF HasRun

LEMMA InsertRowEffect ==
    ASSUME TypeOK, NEW f \in Files, InsertRow(f)
    PROVE  /\ rows' \in [Files -> Nat]
           /\ executed' = executed /\ objects' = objects /\ tracked' = tracked
           /\ Recorded' = Recorded \cup {f}
BY DEF TypeOK, InsertRow, Recorded
-----------------------------------------------------------------------------
(* Type correctness.                                                       *)

LEMMA TypeInit == Init => TypeOK
<1> SUFFICES ASSUME Init PROVE TypeOK
  OBVIOUS
<1>1. /\ rows \in [Files -> Nat]
      /\ executed \in [StmtIds -> Nat]
      /\ file \in [Runners -> Files]
      /\ stmt \in [Runners -> Nat \ {0}]
      /\ pc \in [Runners -> Running \cup Resting]
  BY AnyFileType DEF Init, Resting
<1> QED
  BY <1>1 DEF Init, TypeOK

LEMMA TypeServer ==
    ASSUME TypeOK, ServerStep
    PROVE  /\ tracked' \in BOOLEAN
           /\ rows' \in [Files -> Nat]
           /\ executed' \in [StmtIds -> Nat]
           /\ objects' \subseteq Objects
<1>1. CASE UNCHANGED <<executed, rows, objects>> /\ tracked' \in BOOLEAN
  BY <1>1 DEF TypeOK
<1>2. CASE \E f \in Files : \E k \in 1..Last(f) : Executes(f, k)
  BY <1>2, RunStatementEffect DEF Executes, TypeOK
<1>3. CASE \E f \in Files : Records(f)
  BY <1>3, InsertRowEffect DEF Records, TypeOK
<1> QED
  BY <1>1, <1>2, <1>3 DEF ServerStep

LEMMA TypeForget ==
    ASSUME TypeOK, NEW r \in Runners, Forget(r)
    PROVE  /\ discovered' \in [Runners -> SUBSET Files]
           /\ seen' \in [Runners -> SUBSET Files]
           /\ skipped' \in [Runners -> SUBSET Files]
           /\ applied' \in [Runners -> SUBSET Files]
           /\ file' \in [Runners -> Files]
           /\ stmt' \in [Runners -> Nat \ {0}]
BY AnyFileType DEF TypeOK, Forget

(* The parts of a step that TypeServer does not speak of.                  *)
LEMMA TypeStep ==
    ASSUME TypeOK, [Next]_vars, ServerStep
    PROVE  TypeOK'
<1> USE DEF TypeOK, Goto, Running, Resting
<1>0. /\ tracked' \in BOOLEAN
      /\ rows' \in [Files -> Nat]
      /\ executed' \in [StmtIds -> Nat]
      /\ objects' \subseteq Objects
  BY TypeServer
<1>1. ASSUME NEW r \in Runners, Start(r)
      PROVE  TypeOK'
  BY <1>0, <1>1, TypeForget DEF Start
<1>2. ASSUME NEW r \in Runners, NEW next \in Running, EnsureTable(r, next)
      PROVE  TypeOK'
  BY <1>0, <1>2 DEF EnsureTable, pass
<1>3. ASSUME NEW r \in Runners, NEW next \in Running, Discover(r, next)
      PROVE  TypeOK'
  BY <1>0, <1>3 DEF Discover
<1>4. ASSUME NEW r \in Runners, NEW next \in Running, FetchApplied(r, next)
      PROVE  TypeOK'
  BY <1>0, <1>4 DEF FetchApplied, AppliedFilenames, Recorded
<1>5. ASSUME NEW r \in Runners, NEW f \in Files, Skip(r, f) \/ Open(r, f)
      PROVE  TypeOK'
  BY <1>0, <1>5 DEF Skip, Open
<1>6. ASSUME NEW r \in Runners, Execute(r)
      PROVE  TypeOK'
  <2>1. stmt' \in [Runners -> Nat \ {0}]
    BY <1>6 DEF Execute
  <2> QED
    BY <1>0, <1>6, <2>1 DEF Execute
<1>7. ASSUME NEW r \in Runners, Rejected(r)
      PROVE  TypeOK'
  BY <1>0, <1>7, TypeForget DEF Rejected, Fail
<1>8. ASSUME NEW r \in Runners, Record(r)
      PROVE  TypeOK'
  BY <1>0, <1>8 DEF Record
<1>9. ASSUME NEW r \in Runners, Finish(r)
      PROVE  TypeOK'
  BY <1>0, <1>9 DEF Finish, pass
<1>10. ASSUME NEW r \in Runners, Abort(r)
       PROVE  TypeOK'
  BY <1>0, <1>10, TypeForget DEF Abort, Fail
<1>11. ASSUME NEW r \in Runners, GiveUp(r)
       PROVE  TypeOK'
  BY <1>0, <1>11, TypeForget DEF GiveUp, Fail, Command
<1>12. ASSUME NEW c \in orphans, Land(c) \/ Lose(c)
       PROVE  TypeOK'
  BY <1>0, <1>12 DEF Land, Lose, pass
<1>13. ASSUME NEW f \in Files, Publish(f)
       PROVE  TypeOK'
  BY <1>0, <1>13 DEF Publish, pass
<1>14. CASE UNCHANGED vars
  BY <1>14 DEF vars, server, pass
<1> QED
  BY <1>1, <1>2, <1>3, <1>4, <1>5, <1>6, <1>7, <1>8, <1>9, <1>10, <1>11, <1>12,
     <1>13, <1>14 DEF Next, Step, RustPass, TsPass, ApplyFiles
-----------------------------------------------------------------------------
(* The only ways a step touches the server.                                *)

LEMMA NextIsServerStep ==
    ASSUME TypeOK, OrphanInv, PassInv, [Next]_vars
    PROVE  ServerStep
<1>1. ASSUME NEW r \in Runners, Execute(r)
      PROVE  \E f \in Files : \E k \in 1..Last(f) : Executes(f, k)
  <2>1. /\ file[r] \in Files
        /\ stmt[r] \in 1..Last(file[r])
    BY <1>1, LastType DEF Execute, AllExecuted, TypeOK
  <2>2. Executes(file[r], stmt[r])
    BY <1>1 DEF Execute, PassInv, ExecInv, ResultInv, Executes, Outstanding
  <2> QED
    BY <2>1, <2>2
<1>2. ASSUME NEW r \in Runners, Record(r)
      PROVE  \E f \in Files : Records(f)
  <2>1. /\ file[r] \in Files
        /\ stmt[r] \in Nat
        /\ stmt[r] > Last(file[r])
    BY <1>2 DEF Record, AllExecuted, TypeOK
  <2>2. /\ Ready(file[r], Last(file[r]) + 1) /\ Outstanding(file[r])
        /\ file[r] \in dir /\ dir' = dir
    BY <1>2, <2>1, LastType DEF Record, PassInv, ExecInv, ResultInv, Ready, Outstanding
  <2> QED
    BY <1>2, <2>1, <2>2 DEF Record, Records
<1>3. ASSUME NEW c \in orphans, Land(c)
      PROVE  ServerStep
  <2>1. c.file \in Files /\ c.stmt \in Nat \ {0}
    BY DEF TypeOK, Command
  <2>2. /\ c.file \in dir /\ dir' = dir
        /\ Ready(c.file, c.stmt) /\ Outstanding(c.file)
    BY <1>3 DEF OrphanInv, Land, Outstanding
  <2>3. CASE c.stmt <= Last(c.file)
    BY <1>3, <2>1, <2>2, <2>3, LastType DEF Land, Executes, ServerStep
  <2>4. CASE ~(c.stmt <= Last(c.file))
    <3>1. Ready(c.file, Last(c.file) + 1)
      BY <2>1, <2>2, <2>4, LastType DEF Ready
    <3> QED
      BY <1>3, <2>1, <2>2, <2>4, <3>1 DEF Land, Records, ServerStep
  <2> QED
    BY <2>3, <2>4
<1>4. ASSUME NEW r \in Runners,
             \/ Start(r) \/ \E next \in Running : EnsureTable(r, next)
             \/ \E next \in Running : Discover(r, next) \/ FetchApplied(r, next)
             \/ \E f \in Files : Skip(r, f) \/ Open(r, f)
             \/ Rejected(r) \/ Finish(r) \/ Abort(r) \/ GiveUp(r)
      PROVE  UNCHANGED <<executed, rows, objects>> /\ tracked' \in BOOLEAN
  BY <1>4 DEF Start, EnsureTable, Discover, FetchApplied, Skip, Open, Rejected,
     Finish, Abort, GiveUp, server, TypeOK
<1>5. ASSUME NEW c \in orphans, Lose(c)
      PROVE  UNCHANGED <<executed, rows, objects>> /\ tracked' \in BOOLEAN
  BY <1>5 DEF Lose, server, TypeOK
<1>6. ASSUME NEW f \in Files, Publish(f)
      PROVE  UNCHANGED <<executed, rows, objects>> /\ tracked' \in BOOLEAN
  BY <1>6 DEF Publish, server, TypeOK
<1>7. CASE UNCHANGED vars
  BY <1>7 DEF vars, server, TypeOK, ServerStep
<1> QED
  BY <1>1, <1>2, <1>3, <1>4, <1>5, <1>6, <1>7
     DEF ServerStep, Next, Step, RustPass, TsPass, ApplyFiles, Running

(* Nothing that has run or is recorded is ever undone.                     *)
LEMMA Monotone ==
    ASSUME TypeOK, ServerStep
    PROVE  /\ Recorded \subseteq Recorded'
           /\ \A s \in StmtIds : HasRun(s) => HasRun(s)'
           /\ \A f \in Files, k \in Nat : Ready(f, k) => Ready(f, k)'
<1>1. /\ Recorded \subseteq Recorded'
      /\ \A s \in StmtIds : HasRun(s) => HasRun(s)'
  <2>1. CASE UNCHANGED <<executed, rows, objects>>
    BY <2>1 DEF Recorded, HasRun
  <2>2. CASE \E f \in Files : \E k \in 1..Last(f) : Executes(f, k)
    BY <2>2, RunStatementEffect DEF Executes, Recorded
  <2>3. CASE \E f \in Files : Records(f)
    BY <2>3, InsertRowEffect DEF Records, HasRun
  <2> QED
    BY <2>1, <2>2, <2>3 DEF ServerStep
<1> QED
  BY <1>1, StmtIdsIntro DEF Ready, Last
-----------------------------------------------------------------------------
(* The conjuncts of the invariant that speak of the server.                *)

LEMMA DirGrows == [Next]_vars => dir \subseteq dir'
BY DEF Next, Step, RustPass, TsPass, ApplyFiles, Start, EnsureTable, Discover,
   FetchApplied, Skip, Open, Execute, Rejected, Record, Finish, Abort, GiveUp,
   Land, Lose, Publish, vars

LEMMA ServerInvStep ==
    ASSUME TypeOK, RecordedMeansRun, StatementsInOrder, OnlyPublished,
           ServerStep, dir \subseteq dir'
    PROVE  RecordedMeansRun' /\ StatementsInOrder' /\ OnlyPublished'
<1>1. CASE UNCHANGED <<executed, rows, objects>>
  BY <1>1 DEF RecordedMeansRun, StatementsInOrder, OnlyPublished, Recorded, HasRun
<1>2. ASSUME NEW f \in Files, NEW k \in 1..Last(f), Executes(f, k)
      PROVE  RecordedMeansRun' /\ StatementsInOrder' /\ OnlyPublished'
  <2>1. /\ Recorded' = Recorded
        /\ HasRun(<<f, k>>)'
        /\ \A s \in StmtIds : HasRun(s) => HasRun(s)'
        /\ \A s \in StmtIds : HasRun(s)' => HasRun(s) \/ s = <<f, k>>
    BY <1>2, RunStatementEffect DEF Executes, Recorded
  <2>2. RecordedMeansRun'
    BY <2>1, StmtIdsIntro DEF RecordedMeansRun, HasRun, Recorded
  <2>3. StatementsInOrder'
    <3> SUFFICES ASSUME NEW g \in Files, NEW m \in 1..Last(g), HasRun(<<g, m>>)',
                        NEW j \in 1..m
                 PROVE  HasRun(<<g, j>>)'
      BY DEF StatementsInOrder, HasRun
    <3>1. j \in 1..Last(g) /\ <<g, j>> \in StmtIds /\ <<g, m>> \in StmtIds
      BY LastType, StmtIdsIntro
    <3>2. CASE HasRun(<<g, m>>)
      BY <2>1, <3>1, <3>2 DEF StatementsInOrder, HasRun
    <3>3. CASE <<g, m>> = <<f, k>>
      <4>1. CASE j = k
        BY <2>1, <3>3, <4>1
      <4>2. CASE j < k
        BY <1>2, <2>1, <3>1, <3>3, <4>2 DEF Executes, Ready
      <4> QED
        BY <3>3, <4>1, <4>2
    <3> QED
      BY <2>1, <3>1, <3>2, <3>3
  <2>4. OnlyPublished'
    BY <1>2, <2>1, StmtIdsIntro DEF OnlyPublished, Executes
  <2> QED
    BY <2>2, <2>3, <2>4
<1>3. ASSUME NEW f \in Files, Records(f)
      PROVE  RecordedMeansRun' /\ StatementsInOrder' /\ OnlyPublished'
  <2>1. executed' = executed /\ Recorded' = Recorded \cup {f}
    BY <1>3, InsertRowEffect DEF Records
  <2>2. \A j \in 1..Last(f) : HasRun(<<f, j>>)
    BY <1>3, LastType DEF Records, Ready
  <2> QED
    BY <2>1, <2>2 DEF RecordedMeansRun, StatementsInOrder, OnlyPublished, HasRun
<1> QED
  BY <1>1, <1>2, <1>3 DEF ServerStep
-----------------------------------------------------------------------------
(* The conjuncts that speak of the commands still to come.                 *)

LEMMA OrphanInvStep ==
    ASSUME IInv, [Next]_vars
    PROVE  OrphanInv'
<1>1. /\ TypeOK /\ OrphanInv /\ PassInv
      /\ \A f \in Files, k \in Nat : Ready(f, k) => Ready(f, k)'
      /\ dir \subseteq dir'
  BY NextIsServerStep, Monotone, DirGrows DEF IInv
<1>2. \A c \in orphans : c.file \in Files /\ c.stmt \in Nat
  BY <1>1 DEF TypeOK, Command
<1>3. CASE orphans' \subseteq orphans
  BY <1>1, <1>2, <1>3 DEF OrphanInv
<1>4. ASSUME NEW r \in Runners, GiveUp(r)
      PROVE  OrphanInv'
  <2>1. /\ file[r] \in Files /\ stmt[r] \in Nat
        /\ file[r] \in dir /\ Ready(file[r], stmt[r])
    BY <1>1, <1>4 DEF GiveUp, PassInv, ResultInv, ExecInv, TypeOK
  <2>2. ASSUME NEW c \in orphans'
        PROVE  c \in orphans \/ (c.file = file[r] /\ c.stmt = stmt[r])
    BY <1>4 DEF GiveUp
  <2> QED
    BY <1>1, <1>2, <2>1, <2>2 DEF OrphanInv
<1>5. orphans' \subseteq orphans \/ \E r \in Runners : GiveUp(r)
  BY DEF Next, Step, RustPass, TsPass, ApplyFiles, Start, EnsureTable, Discover,
     FetchApplied, Skip, Open, Execute, Rejected, Record, Finish, Abort,
     Land, Lose, Publish, vars
<1> QED
  BY <1>3, <1>4, <1>5

(* A runner whose locals a step leaves alone keeps its part.               *)
LEMMA PassFrame ==
    ASSUME TypeOK, NEW q \in Runners, ResultInv(q), ExecInv(q),
           ServerStep, dir \subseteq dir',
           UNCHANGED <<pc[q], discovered[q], seen[q], skipped[q], applied[q],
                       file[q], stmt[q]>>
    PROVE  ResultInv(q)' /\ ExecInv(q)'
<1>1. /\ Recorded \subseteq Recorded'
      /\ \A f \in Files, k \in Nat : Ready(f, k) => Ready(f, k)'
  BY Monotone
<1>2. file[q] \in Files /\ stmt[q] \in Nat
  BY DEF TypeOK
<1>3. ResultInv(q)'
  BY <1>1 DEF ResultInv
<1>4. ExecInv(q)'
  BY <1>1, <1>2 DEF ExecInv
<1> QED
  BY <1>3, <1>4

LEMMA PassInvStep ==
    ASSUME IInv, [Next]_vars
    PROVE  PassInv'
<1> SUFFICES ASSUME NEW q \in Runners
             PROVE  ResultInv(q)' /\ ExecInv(q)'
  BY DEF PassInv
<1> DEFINE Locals == <<pc[q], discovered[q], seen[q], skipped[q], applied[q],
                       file[q], stmt[q]>>
<1>0. /\ TypeOK /\ ServerStep /\ dir \subseteq dir'
      /\ ResultInv(q) /\ ExecInv(q)
      /\ Recorded \subseteq Recorded'
      /\ \A f \in Files, k \in Nat : Ready(f, k) => Ready(f, k)'
  BY NextIsServerStep, Monotone, DirGrows DEF IInv, PassInv
<1>a. ASSUME UNCHANGED Locals
      PROVE  ResultInv(q)' /\ ExecInv(q)'
  BY <1>0, <1>a, PassFrame
<1> USE DEF TypeOK, Goto
<1>1. ASSUME Start(q)
      PROVE  ResultInv(q)' /\ ExecInv(q)'
  BY <1>0, <1>1 DEF Start, Forget, ResultInv, ExecInv
<1>2. ASSUME NEW next \in {"discover", "fetch"}, EnsureTable(q, next)
      PROVE  ResultInv(q)' /\ ExecInv(q)'
  BY <1>0, <1>2 DEF EnsureTable, pass, ResultInv, ExecInv
<1>3. ASSUME NEW next \in {"fetch", "visit"}, Discover(q, next)
      PROVE  ResultInv(q)' /\ ExecInv(q)'
  BY <1>0, <1>3 DEF Discover, ResultInv, ExecInv
<1>4. ASSUME NEW next \in {"discover", "visit"}, FetchApplied(q, next)
      PROVE  ResultInv(q)' /\ ExecInv(q)'
  BY <1>0, <1>4 DEF FetchApplied, AppliedFilenames, ResultInv, ExecInv
<1>5. ASSUME NEW f \in Files, Skip(q, f)
      PROVE  ResultInv(q)' /\ ExecInv(q)'
  BY <1>0, <1>5 DEF Skip, IsNext, Pending, AlreadyApplied, ResultInv, ExecInv
<1>6. ASSUME NEW f \in Files, Open(q, f)
      PROVE  ResultInv(q)' /\ ExecInv(q)'
  <2>1. /\ pc'[q] = "exec" /\ file'[q] = f /\ stmt'[q] = 1
        /\ UNCHANGED <<discovered, seen, skipped, applied>>
    BY <1>0, <1>6 DEF Open
  <2>2. ResultInv(q)'
    BY <1>0, <1>6, <2>1 DEF Open, ResultInv
  <2>3. \A g \in discovered[q] : Rank[Kit[q]][g] < Rank[Kit[q]][f] => g \in Recorded
    <3> SUFFICES ASSUME NEW g \in discovered[q],
                        Rank[Kit[q]][g] < Rank[Kit[q]][f], g \notin Recorded
                 PROVE  FALSE
      OBVIOUS
    <3>1. g \in Pending(q)
      BY <1>0 DEF ResultInv, Pending
    <3>2. Rank[Kit[q]][f] <= Rank[Kit[q]][g]
      BY <1>6, <3>1 DEF Open, IsNext
    <3>3. g \in Files
      BY <1>0
    <3> QED
      BY <3>2, <3>3, RankType
  <2>4. f \in discovered[q] /\ f \notin seen[q]
    BY <1>6 DEF Open, IsNext, Pending, AlreadyApplied
  <2>5. Ready(f, 1)'
    BY LastType DEF Ready
  <2>6. ExecInv(q)'
    BY <1>0, <2>1, <2>3, <2>4, <2>5 DEF ExecInv
  <2> QED
    BY <2>2, <2>6
<1>7. ASSUME Execute(q)
      PROVE  ResultInv(q)' /\ ExecInv(q)'
  <2>1. PICK f \in Files : f = file[q]
    BY <1>0
  <2>2. PICK k \in 1..Last(f) : k = stmt[q]
    BY <1>0, <1>7, <2>1, LastType DEF Execute, AllExecuted
  <2>3. /\ UNCHANGED <<pc, discovered, seen, skipped, applied, file>>
        /\ stmt'[q] = k + 1
    BY <1>0, <1>7, <2>2 DEF Execute
  <2>4. HasRun(<<f, k>>)' /\ Ready(f, k)'
    BY <1>0, <1>7, <2>1, <2>2, RunStatementEffect DEF Execute, ExecInv
  <2>5. Ready(f, k + 1)'
    BY <2>4, LastType DEF Ready, Last
  <2> QED
    BY <1>0, <2>1, <2>2, <2>3, <2>5 DEF ResultInv, ExecInv
<1>8. ASSUME Fail(q)
      PROVE  ResultInv(q)' /\ ExecInv(q)'
  BY <1>0, <1>8 DEF Fail, Forget, ResultInv, ExecInv
<1>9. ASSUME Record(q)
      PROVE  ResultInv(q)' /\ ExecInv(q)'
  <2>1. file[q] \in Files /\ Recorded' = Recorded \cup {file[q]}
    BY <1>0, <1>9, InsertRowEffect DEF Record
  <2> QED
    BY <1>0, <1>9, <2>1 DEF Record, ResultInv, ExecInv
<1>10. ASSUME Finish(q)
       PROVE  ResultInv(q)' /\ ExecInv(q)'
  BY <1>0, <1>10 DEF Finish, pass, Pending, ResultInv, ExecInv
<1>11. ASSUME NEW r \in Runners, r # q,
              Step(r) \/ Abort(r) \/ GiveUp(r)
       PROVE  UNCHANGED Locals
  BY <1>0, <1>11 DEF Step, RustPass, TsPass, ApplyFiles, Start, EnsureTable, Discover,
     FetchApplied, Skip, Open, Execute, Rejected, Record, Finish, Abort, GiveUp,
     Fail, Forget, pass
<1>12. ASSUME \/ \E c \in orphans : Land(c) \/ Lose(c)
              \/ \E f \in Files : Publish(f)
              \/ UNCHANGED vars
       PROVE  UNCHANGED Locals
  BY <1>12 DEF Land, Lose, Publish, vars, pass
<1>13. ASSUME Step(q)
       PROVE  ResultInv(q)' /\ ExecInv(q)'
  BY <1>1, <1>2, <1>3, <1>4, <1>5, <1>6, <1>7, <1>8, <1>9, <1>10, <1>13
     DEF Step, RustPass, TsPass, ApplyFiles, Rejected
<1>14. ASSUME Abort(q) \/ GiveUp(q)
       PROVE  ResultInv(q)' /\ ExecInv(q)'
  BY <1>8, <1>14 DEF Abort, GiveUp
<1> QED
  BY <1>a, <1>11, <1>12, <1>13, <1>14 DEF Next
-----------------------------------------------------------------------------
LEMMA IInvInit == Init => IInv
<1> SUFFICES ASSUME Init PROVE IInv
  OBVIOUS
<1>1. TypeOK
  BY TypeInit
<1>2. \A s \in StmtIds : ~HasRun(s)
  BY DEF Init, HasRun
<1>3. Recorded = {}
  BY DEF Init, Recorded
<1>4. RecordedMeansRun /\ StatementsInOrder /\ OnlyPublished
  BY <1>2, <1>3, StmtIdsIntro DEF RecordedMeansRun, StatementsInOrder, OnlyPublished, HasRun
<1>5. OrphanInv /\ PassInv
  BY DEF Init, OrphanInv, PassInv, ResultInv, ExecInv
<1> QED
  BY <1>1, <1>4, <1>5 DEF IInv

LEMMA IInvStep == IInv /\ [Next]_vars => IInv'
<1> SUFFICES ASSUME IInv, [Next]_vars PROVE IInv'
  OBVIOUS
<1>1. ServerStep /\ dir \subseteq dir'
  BY NextIsServerStep, DirGrows DEF IInv
<1>2. TypeOK'
  BY <1>1, TypeStep DEF IInv
<1>3. RecordedMeansRun' /\ StatementsInOrder' /\ OnlyPublished'
  BY <1>1, ServerInvStep DEF IInv
<1> QED
  BY <1>2, <1>3, OrphanInvStep, PassInvStep DEF IInv

LEMMA Invariance == Spec => []IInv
BY IInvInit, IInvStep, PTL DEF Spec

(* Every variable of the runner keeps its type. *)
THEOREM TypeCorrect == Spec => []TypeOK
<1>1. IInv => TypeOK
  BY DEF IInv
<1> QED
  BY <1>1, Invariance, PTL

(* A recorded file has run completely, whatever interleaving of passes,    *)
(* crashes and late commands produced the record.                          *)
THEOREM RecordedFilesHaveRun == Spec => []RecordedMeansRun
<1>1. IInv => RecordedMeansRun
  BY DEF IInv
<1> QED
  BY <1>1, Invariance, PTL

(* No statement takes effect before the ones above it in its file have.    *)
THEOREM FilesRunInOrder == Spec => []StatementsInOrder
<1>1. IInv => StatementsInOrder
  BY DEF IInv
<1> QED
  BY <1>1, Invariance, PTL

(* A pass applies a file only when the listed files before it are recorded. *)
THEOREM PassesRunInOrder == Spec => []PassOrder
<1>1. IInv => PassOrder
  BY DEF IInv, PassInv, ExecInv, PassOrder
<1> QED
  BY <1>1, Invariance, PTL

(* A pass that returns Ok leaves every file it listed recorded.            *)
THEOREM OkPassesAreComplete == Spec => []OkMeansRecorded
<1>1. IInv => OkMeansRecorded
  BY DEF IInv, PassInv, ResultInv, OkMeansRecorded
<1> QED
  BY <1>1, Invariance, PTL
-----------------------------------------------------------------------------
(* Lexical order.  It needs one file order for both kits and a directory   *)
(* that only grows at its end: the assumptions of the last two theorems.   *)

Place(f) == Rank["rust"][f]
OneOrder == Rank["ts"] = Rank["rust"]
Below(f) == \A g \in dir : Place(g) < Place(f) => g \in Recorded

LexInv ==
    /\ \A r \in Runners : \A f \in discovered[r] : \A g \in dir :
           Place(g) < Place(f) => g \in discovered[r]
    /\ \A f \in Files : Outstanding(f) => Below(f)
    /\ \A f \in Files : \A k \in 1..Last(f) : HasRun(<<f, k>>) => Below(f)

LEMMA PlaceType == \A f \in Files : Place(f) \in Nat
BY RankAssumption DEF Place, Kits

LEMMA KitPlace ==
    ASSUME OneOrder
    PROVE  \A r \in Runners, f \in Files : Rank[Kit[r]][f] = Place(f)
BY KitAssumption DEF OneOrder, Place, Kits

LEMMA PublishOrUnchanged ==
    ASSUME [Next]_vars
    PROVE  dir' = dir \/ \E f \in Files : Publish(f)
BY DEF Next, Step, RustPass, TsPass, ApplyFiles, Start, EnsureTable, Discover,
   FetchApplied, Skip, Open, Execute, Rejected, Record, Finish, Abort, GiveUp,
   Land, Lose, vars

(* What is below a published file stays recorded: a new file is above it.  *)
LEMMA BelowStable ==
    ASSUME AppendOnly, IInv, [Next]_vars, NEW f \in dir, Below(f)
    PROVE  Below(f)'
<1>1. Recorded \subseteq Recorded' /\ dir \subseteq Files
  BY NextIsServerStep, Monotone DEF IInv, TypeOK
<1>2. CASE dir' = dir
  BY <1>1, <1>2 DEF Below
<1>3. ASSUME NEW h \in Files, Publish(h)
      PROVE  Below(f)'
  <2>1. dir' = dir \cup {h} /\ Place(f) < Place(h)
    BY <1>3 DEF Publish, Place
  <2>2. ~(Place(h) < Place(f))
    BY <1>1, <2>1, PlaceType
  <2> QED
    BY <1>1, <2>1, <2>2 DEF Below
<1> QED
  BY <1>2, <1>3, PublishOrUnchanged

(* A file becomes outstanding only when a pass opens it.                   *)
LEMMA NewlyOutstanding ==
    ASSUME TypeOK, [Next]_vars, NEW f \in Files, Outstanding(f)'
    PROVE  Outstanding(f) \/ \E r \in Runners : Open(r, f)
<1> USE DEF Outstanding, Goto, TypeOK
<1>1. ASSUME NEW r \in Runners, NEW g \in Files, Open(r, g)
      PROVE  Outstanding(f) \/ Open(r, f)
  BY <1>1 DEF Open
<1>2. ASSUME NEW r \in Runners, GiveUp(r)
      PROVE  Outstanding(f)
  BY <1>2 DEF GiveUp, Fail, Forget
<1>3. ASSUME NEW r \in Runners,
             \/ Start(r) \/ \E next \in Running \ {"exec"} : EnsureTable(r, next)
             \/ \E next \in Running \ {"exec"} : Discover(r, next) \/ FetchApplied(r, next)
             \/ \E g \in Files : Skip(r, g)
             \/ Execute(r) \/ Rejected(r) \/ Record(r) \/ Finish(r) \/ Abort(r)
      PROVE  Outstanding(f)
  BY <1>3 DEF Start, EnsureTable, Discover, FetchApplied, Skip, Execute, Rejected,
     Record, Finish, Abort, Fail, Forget, pass
<1>4. CASE \/ \E c \in orphans : Land(c) \/ Lose(c)
           \/ \E g \in Files : Publish(g)
           \/ UNCHANGED vars
  BY <1>4 DEF Land, Lose, Publish, vars, pass
<1> QED
  BY <1>1, <1>2, <1>3, <1>4 DEF Next, Step, RustPass, TsPass, ApplyFiles, Running

LEMMA OpenBelow ==
    ASSUME OneOrder, IInv, LexInv, NEW r \in Runners, NEW f \in Files, Open(r, f)
    PROVE  f \in dir /\ Below(f)
<1>1. f \in discovered[r] /\ discovered[r] \subseteq dir /\ dir \subseteq Files
  BY DEF Open, IsNext, Pending, IInv, PassInv, ResultInv, TypeOK
<1>2. ASSUME NEW g \in dir, Place(g) < Place(f), g \notin Recorded
      PROVE  FALSE
  <2>1. g \in discovered[r]
    BY <1>1, <1>2 DEF LexInv
  <2>2. g \in Pending(r)
    BY <1>2, <2>1 DEF Pending, IInv, PassInv, ResultInv
  <2>3. Place(f) <= Place(g)
    BY <2>2, <1>1, KitPlace DEF Open, IsNext
  <2> QED
    BY <1>1, <1>2, <2>3, PlaceType
<1> QED
  BY <1>1, <1>2 DEF Below

LEMMA OutstandingPublished ==
    ASSUME IInv, NEW f \in Files, Outstanding(f)
    PROVE  f \in dir
BY DEF IInv, OrphanInv, PassInv, ResultInv, ExecInv, Outstanding

LEMMA LexInvStep ==
    ASSUME AppendOnly, OneOrder, IInv, LexInv, [Next]_vars
    PROVE  LexInv'
<1>1. TypeOK /\ ServerStep /\ dir \subseteq Files
  BY NextIsServerStep DEF IInv, TypeOK
<1>2. ASSUME NEW f \in Files, Outstanding(f)'
      PROVE  Below(f)'
  <2>1. f \in dir /\ Below(f)
    BY <1>1, <1>2, NewlyOutstanding, OpenBelow, OutstandingPublished DEF LexInv
  <2> QED
    BY <2>1, BelowStable
<1>3. ASSUME NEW f \in Files, NEW k \in 1..Last(f), HasRun(<<f, k>>)'
      PROVE  Below(f)'
  <2>1. CASE HasRun(<<f, k>>)
    BY <2>1, BelowStable DEF LexInv, IInv, OnlyPublished
  <2>2. CASE ~HasRun(<<f, k>>)
    <3>1. ASSUME UNCHANGED executed
          PROVE  FALSE
      BY <1>3, <2>2, <3>1 DEF HasRun
    <3>2. ~\E g \in Files : Records(g)
      BY <1>1, <3>1, InsertRowEffect DEF Records
    <3>3. PICK g \in Files : \E j \in 1..Last(g) : Executes(g, j)
      BY <1>1, <3>1, <3>2 DEF ServerStep
    <3>4. PICK j \in 1..Last(g) : Executes(g, j)
      BY <3>3
    <3>5. <<f, k>> = <<g, j>>
      BY <1>1, <1>3, <2>2, <3>4, RunStatementEffect, StmtIdsIntro DEF Executes
    <3>6. f \in dir /\ Below(f)
      BY <3>4, <3>5 DEF Executes, LexInv
    <3> QED
      BY <3>6, BelowStable
  <2> QED
    BY <2>1, <2>2
<1>4. ASSUME NEW r \in Runners, NEW f \in discovered'[r], NEW g \in dir',
             Place(g) < Place(f)
      PROVE  g \in discovered'[r]
  <2>1. \/ discovered'[r] = discovered[r]
        \/ discovered'[r] = {}
        \/ discovered'[r] = dir /\ dir' = dir
    BY <1>1 DEF Next, Step, RustPass, TsPass, ApplyFiles, Start, EnsureTable, Discover,
       FetchApplied, Skip, Open, Execute, Rejected, Record, Finish, Abort, GiveUp,
       Land, Lose, Publish, vars, pass, Fail, Forget, TypeOK
  <2>2. CASE discovered'[r] = discovered[r]
    <3>1. f \in discovered[r] /\ discovered[r] \subseteq dir
      BY <2>2 DEF IInv, PassInv, ResultInv
    <3>2. g \in dir
      <4>1. ASSUME NEW h \in Files, Publish(h)
            PROVE  g \in dir
        BY <1>1, <1>4, <3>1, <4>1, PlaceType DEF Publish, Place
      <4> QED
        BY <4>1, PublishOrUnchanged
    <3> QED
      BY <1>4, <2>2, <3>1, <3>2 DEF LexInv
  <2> QED
    BY <1>4, <2>1, <2>2
<1> QED
  BY <1>2, <1>3, <1>4 DEF LexInv, Place

LEMMA LexInvInit == Init => LexInv
<1> SUFFICES ASSUME Init PROVE LexInv
  OBVIOUS
<1>1. \A f \in Files : ~Outstanding(f)
  BY DEF Init, Outstanding
<1>2. \A s \in StmtIds : ~HasRun(s)
  BY DEF Init, HasRun
<1>3. \A r \in Runners : discovered[r] = {}
  BY DEF Init
<1> QED
  BY <1>1, <1>2, <1>3, StmtIdsIntro DEF LexInv

LEMMA LexInvariance ==
    ASSUME AppendOnly, OneOrder
    PROVE  Spec => [](IInv /\ LexInv)
<1>1. Init => IInv /\ LexInv
  BY IInvInit, LexInvInit
<1>2. IInv /\ LexInv /\ [Next]_vars => (IInv /\ LexInv)'
  BY IInvStep, LexInvStep
<1> QED
  BY <1>1, <1>2, PTL DEF Spec

(* With an append-only directory and one file order, files take effect in  *)
(* lexical order, through every interleaving of passes and late commands.  *)
THEOREM FilesRunInLexicalOrder ==
    ASSUME AppendOnly, OneOrder
    PROVE  Spec => []LexicalOrder
<1>1. IInv /\ LexInv => LexicalOrder
  BY DEF IInv, TypeOK, LexInv, LexicalOrder, HasRun, Below, Place
<1> QED
  BY <1>1, LexInvariance, PTL
-----------------------------------------------------------------------------
(* What has taken effect is there: the files never drop an object.         *)
Made ==
    \A f \in Files : \A k \in 1..Last(f) :
        HasRun(<<f, k>>) => Statements[f][k].makes \subseteq objects

LEMMA MadeStep ==
    ASSUME IInv, Made, [Next]_vars
    PROVE  Made'
<1>1. TypeOK /\ ServerStep
  BY NextIsServerStep DEF IInv
<1>2. CASE UNCHANGED <<executed, rows, objects>>
  BY <1>2 DEF Made, HasRun
<1>3. ASSUME NEW f \in Files, NEW k \in 1..Last(f), Executes(f, k)
      PROVE  Made'
  <2>1. /\ objects' = objects \cup Statements[f][k].makes
        /\ \A s \in StmtIds : HasRun(s)' => HasRun(s) \/ s = <<f, k>>
    BY <1>1, <1>3, RunStatementEffect DEF Executes, RunStatement
  <2> SUFFICES ASSUME NEW g \in Files, NEW j \in 1..Last(g), HasRun(<<g, j>>)'
               PROVE  Statements[g][j].makes \subseteq objects'
    BY DEF Made, HasRun
  <2>2. HasRun(<<g, j>>) \/ <<g, j>> = <<f, k>>
    BY <2>1, StmtIdsIntro
  <2> QED
    BY <2>1, <2>2 DEF Made
<1>4. ASSUME NEW f \in Files, Records(f)
      PROVE  Made'
  <2>1. executed' = executed /\ objects' = objects
    BY <1>1, <1>4, InsertRowEffect DEF Records
  <2> QED
    BY <2>1 DEF Made, HasRun
<1> QED
  BY <1>1, <1>2, <1>3, <1>4 DEF ServerStep

LEMMA MadeInvariance == Spec => []Made
<1>1. Init => Made
  BY StmtIdsIntro DEF Init, Made, HasRun
<1>2. IInv /\ Made /\ [Next]_vars => Made'
  BY MadeStep
<1> QED
  BY <1>1, <1>2, Invariance, PTL DEF Spec
-----------------------------------------------------------------------------
(* Refinement.                                                             *)

LEMMA LogInit == Init => Log!Init
<1> SUFFICES ASSUME Init PROVE Log!Init
  OBVIOUS
<1>1. /\ dir = {} /\ Recorded = {}
      /\ {s \in StmtIds : executed[s] > 0} = {}
  BY DEF Init, Recorded
<1> QED
  BY <1>1 DEF Log!Init

LEMMA LogStep ==
    ASSUME AppendOnly, OneOrder, IInv, LexInv, [Next]_vars
    PROVE  [Log!Next]_(Log!vars)
<1> DEFINE ran == {s \in StmtIds : executed[s] > 0}
<1>1. TypeOK /\ ServerStep /\ dir \subseteq Files
  BY NextIsServerStep DEF IInv, TypeOK
<1>2. ASSUME NEW f \in Files, NEW k \in 1..Last(f), Executes(f, k)
      PROVE  Log!Next
  <2>1. /\ Recorded' = Recorded /\ dir' = dir
        /\ ran' = ran \cup {<<f, k>>}
    BY <1>1, <1>2, RunStatementEffect, StmtIdsIntro DEF Executes, Recorded, HasRun
  <2>2. f \in dir /\ Below(f)
    BY <1>2 DEF Executes, LexInv
  <2>3. Log!Earlier(f) \subseteq Recorded
    BY <2>2 DEF Log!Earlier, Below, Place
  <2>4. \A j \in 1..(k - 1) : <<f, j>> \in ran
    BY <1>2, LastType, StmtIdsIntro DEF Executes, Ready, HasRun
  <2>5. Log!RunStatement(f, k)
    BY <2>1, <2>2, <2>3, <2>4 DEF Log!RunStatement
  <2> QED
    BY <2>5 DEF Log!Next
<1>3. ASSUME NEW f \in Files, Records(f)
      PROVE  Log!Next
  <2>1. /\ Recorded' = Recorded \cup {f} /\ dir' = dir
        /\ ran' = ran
    BY <1>1, <1>3, InsertRowEffect DEF Records
  <2>2. f \in dir /\ Below(f)
    BY <1>3 DEF Records, LexInv
  <2>3. Log!Earlier(f) \subseteq Recorded
    BY <2>2 DEF Log!Earlier, Below, Place
  <2>4. \A j \in 1..Last(f) : <<f, j>> \in ran
    BY <1>3, LastType, StmtIdsIntro DEF Records, Ready, HasRun
  <2>5. Log!Mark(f)
    BY <2>1, <2>2, <2>3, <2>4 DEF Log!Mark
  <2> QED
    BY <2>5 DEF Log!Next
<1>4. CASE UNCHANGED <<executed, rows, objects>>
  <2>1. ran' = ran /\ Recorded' = Recorded
    BY <1>4 DEF Recorded
  <2>2. ASSUME NEW f \in Files, Publish(f)
        PROVE  Log!Publish(f)
    BY <2>1, <2>2 DEF Publish, Log!Publish
  <2>3. CASE dir' = dir
    BY <2>1, <2>3 DEF Log!vars
  <2> QED
    BY <2>2, <2>3, PublishOrUnchanged DEF Log!Next
<1> QED
  BY <1>1, <1>2, <1>3, <1>4 DEF ServerStep

(* The runners implement the abstract migration log: at-least-once, never  *)
(* skipped and never out of order.                                         *)
THEOREM RunnerImplementsLog ==
    ASSUME AppendOnly, OneOrder
    PROVE  Spec => ImplementsLog
<1>1. IInv /\ LexInv /\ [Next]_vars => [Log!Next]_(Log!vars)
  BY LogStep
<1> QED
  BY <1>1, LogInit, LexInvariance, PTL DEF Spec, ImplementsLog, Log!Spec
-----------------------------------------------------------------------------
(* One runner at a time.  A lone pass whose commands die with it knows     *)
(* every record: what it did not see it made itself.                       *)

Alone == \A p, q \in Runners : p = q

KnowsRecords(r) ==
    pc[r] \in {"visit", "exec"} \/ (pc[r] = "discover" /\ Kit[r] = "ts")

SoloInv ==
    /\ orphans = {}
    /\ \A r \in Runners : KnowsRecords(r) => Recorded \subseteq seen[r] \cup applied[r]
    /\ \A r \in Runners : pc[r] = "exec" => file[r] \notin applied[r]

LEMMA SoloInvStep ==
    ASSUME Alone, ~LostReplies, IInv, SoloInv, [Next]_vars
    PROVE  SoloInv'
<1>1. TypeOK /\ orphans = {} /\ orphans' = {}
  BY DEF IInv, SoloInv, Next, Step, RustPass, TsPass, ApplyFiles, Start, EnsureTable,
     Discover, FetchApplied, Skip, Open, Execute, Rejected, Record, Finish, Abort,
     GiveUp, Land, Lose, Publish, vars
<1> SUFFICES ASSUME NEW r \in Runners
             PROVE  /\ KnowsRecords(r)' => Recorded' \subseteq seen'[r] \cup applied'[r]
                    /\ pc'[r] = "exec" => file'[r] \notin applied'[r]
  BY <1>1 DEF SoloInv
<1> DEFINE Goal == /\ KnowsRecords(r)' => Recorded' \subseteq seen'[r] \cup applied'[r]
                   /\ pc'[r] = "exec" => file'[r] \notin applied'[r]
<1> USE DEF TypeOK, Goto, KnowsRecords
<1>2. ASSUME Record(r)
      PROVE  Goal
  <2>1. Recorded' = Recorded \cup {file[r]}
    BY <1>1, <1>2, InsertRowEffect DEF Record
  <2> QED
    BY <1>1, <1>2, <2>1 DEF Record, SoloInv
<1>3. ASSUME Execute(r)
      PROVE  Goal
  <2>1. Recorded' = Recorded
    BY <1>3 DEF Execute, RunStatement, Recorded
  <2> QED
    BY <1>1, <1>3, <2>1 DEF Execute, SoloInv
<1>4. ASSUME NEW f \in Files, Skip(r, f) \/ Open(r, f)
      PROVE  Goal
  BY <1>1, <1>4 DEF Skip, Open, IsNext, Pending, Recorded, server, SoloInv
<1>5. ASSUME FetchApplied(r, "visit") \/ FetchApplied(r, "discover")
      PROVE  Goal
  BY <1>1, <1>5 DEF FetchApplied, AppliedFilenames, Recorded, server, SoloInv
<1>6. ASSUME Kit[r] = "ts", Discover(r, "visit")
      PROVE  Goal
  BY <1>1, <1>6 DEF Discover, Recorded, server, SoloInv
<1>7. ASSUME \/ Start(r) \/ Rejected(r) \/ Finish(r) \/ Abort(r)
             \/ Kit[r] = "rust" /\ EnsureTable(r, "discover")
             \/ EnsureTable(r, "fetch") \/ Discover(r, "fetch")
      PROVE  Goal
  BY <1>1, <1>7 DEF Start, Rejected, Finish, Abort, Fail, EnsureTable, Discover, SoloInv
<1>8. ASSUME \E f \in Files : Publish(f)
      PROVE  Goal
  BY <1>1, <1>8 DEF Publish, Recorded, server, pass, SoloInv
<1>9. CASE UNCHANGED vars
  BY <1>1, <1>9 DEF vars, server, pass, Recorded, SoloInv
<1>10. ASSUME NEW q \in Runners, Step(q)
       PROVE  Goal
  <2>1. Step(r)
    BY <1>10 DEF Alone
  <2> QED
    BY <1>2, <1>3, <1>4, <1>5, <1>6, <1>7, <2>1, KitAssumption
       DEF Step, RustPass, TsPass, ApplyFiles
<1>11. ASSUME NEW q \in Runners, Abort(q) \/ GiveUp(q)
       PROVE  Goal
  BY <1>7, <1>11 DEF Alone, GiveUp
<1> QED
  BY <1>1, <1>8, <1>9, <1>10, <1>11 DEF Next

LEMMA SoloNoReapply ==
    ASSUME Alone, IInv, SoloInv, [Next]_vars, NEW f \in Recorded
    PROVE  /\ \A k \in 1..Last(f) : executed'[<<f, k>>] = executed[<<f, k>>]
           /\ rows'[f] = rows[f]
<1>1. TypeOK /\ ServerStep /\ f \in Files
  BY NextIsServerStep DEF IInv, Recorded
<1>2. ASSUME NEW g \in Files, Outstanding(g)
      PROVE  g \notin Recorded
  BY <1>2 DEF SoloInv, Outstanding, KnowsRecords, IInv, PassInv, ExecInv
<1>3. CASE UNCHANGED <<executed, rows, objects>>
  BY <1>3
<1>4. ASSUME NEW g \in Files, NEW j \in 1..Last(g), Executes(g, j)
      PROVE  UNCHANGED rows /\ \A k \in 1..Last(f) : executed'[<<f, k>>] = executed[<<f, k>>]
  <2>1. f # g
    BY <1>2, <1>4 DEF Executes
  <2> QED
    BY <1>1, <1>4, <2>1, StmtIdsIntro DEF Executes, RunStatement, TypeOK
<1>5. ASSUME NEW g \in Files, Records(g)
      PROVE  UNCHANGED executed /\ rows'[f] = rows[f]
  <2>1. f # g
    BY <1>2, <1>5 DEF Records
  <2> QED
    BY <1>1, <1>5, <2>1 DEF Records, InsertRow, TypeOK
<1> QED
  BY <1>1, <1>3, <1>4, <1>5 DEF ServerStep

(* A single runner whose failed commands never arrive late applies each    *)
(* file once: the documented idempotence holds exactly there.              *)
THEOREM LoneRunnerNeverReapplies ==
    ASSUME Alone, ~LostReplies
    PROVE  Spec => NoReapply
<1>1. Init => SoloInv
  BY DEF Init, SoloInv, KnowsRecords
<1>2. IInv /\ SoloInv /\ [Next]_vars => SoloInv'
  BY SoloInvStep
<1>3. IInv /\ SoloInv /\ [Next]_vars =>
          [\A f \in Recorded :
               /\ \A k \in 1..Last(f) : executed'[<<f, k>>] = executed[<<f, k>>]
               /\ rows'[f] = rows[f]]_vars
  BY SoloNoReapply
<1> QED
  BY <1>1, <1>2, <1>3, Invariance, PTL DEF Spec, NoReapply
-----------------------------------------------------------------------------
(* How often the runners run a statement: for any finite number of them    *)
(* and any bound on the faults, as long as the server refuses nothing,     *)
(* once per runner and once more per fault.                                *)

(* Past the fetch a pass goes by its snapshot.                             *)
Fetched(r) == pc[r] \in {"visit", "exec"} \/ (pc[r] = "discover" /\ Kit[r] = "ts")

(* Without a fault r will not run statement k of f again: its pass is past *)
(* it, or the file is recorded and the pass knows or is going to.          *)
Spent(r, f, k) ==
    IF pc[r] = "exec" /\ file[r] = f
    THEN stmt[r] > k
    ELSE f \in Recorded /\ (Fetched(r) => f \in seen[r] \cup applied[r])
SpentBy(f, k) == {r \in Runners : Spent(r, f, k)}
Late(f, k) == {c \in orphans : c.file = f /\ c.stmt = k}

(* Every execution, also one that is still to come late, is accounted for  *)
(* by a runner that will not run the statement again, or by a fault.       *)
Accounted(f, k) ==
    executed[<<f, k>>] + Cardinality(Late(f, k)) <= Cardinality(SpentBy(f, k)) + faults
AccountInv ==
    /\ IsFiniteSet(orphans)
    /\ \A f \in Files : \A k \in 1..Last(f) : Accounted(f, k)

(* The server refuses no statement.                                        *)
NothingRefused == [][\A r \in Runners : ~Rejected(r)]_vars
-----------------------------------------------------------------------------
(* Who is spent.                                                           *)

LEMMA CountedSets ==
    ASSUME IsFiniteSet(Runners), NEW S \in SUBSET Runners
    PROVE  IsFiniteSet(S) /\ Cardinality(S) \in Nat
BY FS_Subset, FS_CardinalityType

LEMMA RecordedGrows ==
    ASSUME IInv, [Next]_vars
    PROVE  Recorded \subseteq Recorded'
BY NextIsServerStep, Monotone DEF IInv

(* What other runners do leaves a runner spent.                            *)
LEMMA SpentFrame ==
    ASSUME IInv, [Next]_vars, NEW q \in Runners, NEW f \in Files, NEW k \in Nat,
           UNCHANGED <<pc[q], file[q], stmt[q], seen[q], applied[q]>>, Spent(q, f, k)
    PROVE  Spent(q, f, k)'
BY RecordedGrows DEF Spent, Fetched

LEMMA OthersUntouched ==
    ASSUME TypeOK, NEW r \in Runners, Step(r) \/ Abort(r) \/ GiveUp(r),
           NEW q \in Runners \ {r}
    PROVE  UNCHANGED <<pc[q], file[q], stmt[q], seen[q], applied[q]>>
BY DEF TypeOK, Step, RustPass, TsPass, ApplyFiles, Start, EnsureTable, Discover,
   FetchApplied, Skip, Open, Execute, Rejected, Record, Finish, Abort, GiveUp,
   Fail, Forget, Goto, pass

(* Nor does a runner's own pass make it run again what it is past.         *)
LEMMA SpentOwnStep ==
    ASSUME IInv, [Next]_vars, NEW r \in Runners, Step(r), ~Rejected(r),
           NEW f \in Files, NEW k \in 1..Last(f), Spent(r, f, k)
    PROVE  Spent(r, f, k)'
<1>0. /\ TypeOK /\ Recorded \subseteq Recorded' /\ k \in Nat /\ Last(f) \in Nat
      /\ pc[r] \in Running \cup Resting /\ stmt[r] \in Nat
      /\ pc \in [Runners -> Running \cup Resting]
  BY RecordedGrows, LastType DEF IInv, TypeOK
<1> USE DEF Spent, Fetched, Goto, Running, Resting
<1>1. CASE Start(r)
  <2>1. pc'[r] = "ensure"
    BY <1>0, <1>1 DEF Start
  <2>2. f \in Recorded
    BY <1>1 DEF Start
  <2> QED
    BY <1>0, <2>1, <2>2
<1>2. ASSUME NEW next \in {"discover", "fetch"}, EnsureTable(r, next),
             next = "discover" => Kit[r] = "rust"
      PROVE  Spent(r, f, k)'
  <2>1. pc'[r] = next
    BY <1>0, <1>2 DEF EnsureTable
  <2>2. f \in Recorded
    BY <1>2 DEF EnsureTable
  <2> QED
    BY <1>0, <1>2, <2>1, <2>2
<1>3. CASE \/ Kit[r] = "rust" /\ Discover(r, "fetch")
           \/ Kit[r] = "ts" /\ Discover(r, "visit")
  BY <1>0, <1>3 DEF Discover, TypeOK
<1>4. CASE \/ Kit[r] = "rust" /\ FetchApplied(r, "visit")
           \/ Kit[r] = "ts" /\ FetchApplied(r, "discover")
  BY <1>0, <1>4 DEF FetchApplied, AppliedFilenames, TypeOK
<1>5. ASSUME NEW g \in Files, Skip(r, g)
      PROVE  Spent(r, f, k)'
  BY <1>0, <1>5 DEF Skip
<1>6. ASSUME NEW g \in Files, Open(r, g)
      PROVE  Spent(r, f, k)'
  BY <1>0, <1>6 DEF Open, IsNext, Pending, AlreadyApplied, TypeOK
<1>7. CASE Execute(r)
  BY <1>0, <1>7 DEF Execute, TypeOK
<1>8. CASE Record(r)
  <2>1. Recorded' = Recorded \cup {file[r]}
    BY <1>0, <1>8, InsertRowEffect DEF Record, TypeOK
  <2>2. applied'[r] = applied[r] \cup {file[r]} /\ pc'[r] = "visit" /\ seen'[r] = seen[r]
    BY <1>8 DEF Record, IInv, TypeOK
  <2> QED
    BY <1>8, <2>1, <2>2 DEF Record
<1>9. CASE Finish(r)
  BY <1>0, <1>9 DEF Finish, TypeOK, pass
<1> QED
  BY <1>1, <1>2, <1>3, <1>4, <1>5, <1>6, <1>7, <1>8, <1>9
     DEF Step, RustPass, TsPass, ApplyFiles

(* A step without a fault leaves spent whoever is.                         *)
LEMMA SpentByGrows ==
    ASSUME IInv, [Next]_vars, \A r \in Runners : ~Rejected(r),
           NEW f \in Files, NEW k \in 1..Last(f),
           \/ \E r \in Runners : Step(r)
           \/ \E c \in orphans : Land(c) \/ Lose(c)
           \/ \E g \in Files : Publish(g)
           \/ UNCHANGED vars
    PROVE  SpentBy(f, k) \subseteq SpentBy(f, k)'
<1>0. TypeOK /\ k \in Nat
  BY LastType DEF IInv
<1>1. ASSUME NEW r \in Runners, Step(r)
      PROVE  SpentBy(f, k) \subseteq SpentBy(f, k)'
  BY <1>0, <1>1, SpentOwnStep, OthersUntouched, SpentFrame DEF SpentBy
<1>2. ASSUME \/ \E c \in orphans : Land(c) \/ Lose(c)
             \/ \E g \in Files : Publish(g)
             \/ UNCHANGED vars
      PROVE  SpentBy(f, k) \subseteq SpentBy(f, k)'
  <2>1. UNCHANGED <<pc, file, stmt, seen, applied>>
    BY <1>2 DEF Land, Lose, Publish, vars, pass
  <2> QED
    BY <1>0, <2>1, SpentFrame DEF SpentBy
<1> QED
  BY <1>1, <1>2

(* A fault costs no more than the runner it befell.                        *)
LEMMA SpentByFault ==
    ASSUME IInv, [Next]_vars, NEW f \in Files, NEW k \in 1..Last(f),
           NEW r \in Runners, Abort(r) \/ GiveUp(r)
    PROVE  SpentBy(f, k) \ {r} \subseteq SpentBy(f, k)'
<1>0. TypeOK /\ k \in Nat
  BY LastType DEF IInv
<1> QED
  BY <1>0, OthersUntouched, SpentFrame DEF SpentBy

(* A runner that gives up a statement was not past it and still is not     *)
(* before it, unless the file is recorded.                                 *)
LEMMA SpentByGiveUp ==
    ASSUME IInv, NEW r \in Runners, GiveUp(r),
           NEW f \in Files, NEW k \in Nat, f = file[r], k = stmt[r]
    PROVE  r \notin SpentBy(f, k)
BY DEF GiveUp, SpentBy, Spent, IInv, TypeOK

(* A runner that executes a statement was not past it and now is.          *)
LEMMA SpentByExecute ==
    ASSUME IInv, NEW r \in Runners, Execute(r),
           NEW f \in Files, NEW k \in Nat, f = file[r], k = stmt[r]
    PROVE  /\ r \notin SpentBy(f, k)
           /\ r \in SpentBy(f, k)'
<1>1. /\ pc[r] = "exec" /\ pc' = pc /\ file' = file
      /\ stmt[r] \in Nat /\ stmt'[r] = stmt[r] + 1
  BY DEF Execute, IInv, TypeOK
<1>2. ~Spent(r, f, k)
  BY <1>1 DEF Spent
<1>3. Spent(r, f, k)'
  BY <1>1 DEF Spent
<1> QED
  BY <1>2, <1>3 DEF SpentBy
-----------------------------------------------------------------------------
(* The balance of one statement.                                           *)

LEMMA Balanced ==
    ASSUME IsFiniteSet(Runners), IsFiniteSet(orphans), IsFiniteSet(orphans'),
           NEW f \in Files, NEW k \in Nat
    PROVE  /\ Cardinality(SpentBy(f, k)) \in Nat /\ Cardinality(SpentBy(f, k)') \in Nat
           /\ Cardinality(Late(f, k)) \in Nat /\ Cardinality(Late(f, k)') \in Nat
           /\ SpentBy(f, k) \subseteq SpentBy(f, k)'
                 => Cardinality(SpentBy(f, k)) <= Cardinality(SpentBy(f, k)')
           /\ Late(f, k)' \subseteq Late(f, k)
                 => Cardinality(Late(f, k)') <= Cardinality(Late(f, k))
<1>1. IsFiniteSet(SpentBy(f, k)) /\ IsFiniteSet(SpentBy(f, k)')
  <2>1. SpentBy(f, k) \subseteq Runners /\ SpentBy(f, k)' \subseteq Runners
    BY DEF SpentBy
  <2> QED
    BY <2>1, FS_Subset
<1>2. IsFiniteSet(Late(f, k)) /\ IsFiniteSet(Late(f, k)')
  <2>1. Late(f, k) \subseteq orphans /\ Late(f, k)' \subseteq orphans'
    BY DEF Late
  <2> QED
    BY <2>1, FS_Subset
<1> HIDE DEF SpentBy, Late
<1>3. SpentBy(f, k) \subseteq SpentBy(f, k)'
        => Cardinality(SpentBy(f, k)) <= Cardinality(SpentBy(f, k)')
  BY <1>1, FS_Subset
<1>4. Late(f, k)' \subseteq Late(f, k)
        => Cardinality(Late(f, k)') <= Cardinality(Late(f, k))
  BY <1>2, FS_Subset
<1> QED
  BY <1>1, <1>2, <1>3, <1>4, FS_CardinalityType

(* One more member, or one less.                                           *)
LEMMA OneMore ==
    ASSUME NEW S, NEW T, NEW x, IsFiniteSet(T), x \in T, x \notin S, S \subseteq T
    PROVE  Cardinality(S) + 1 <= Cardinality(T)
<1>1. IsFiniteSet(S) /\ IsFiniteSet(T \ {x}) /\ S \subseteq T \ {x}
  BY FS_Subset
<1>2. Cardinality(S) <= Cardinality(T \ {x})
  BY <1>1, FS_Subset
<1>3. Cardinality(T \ {x}) = Cardinality(T) - 1
  BY FS_RemoveElement
<1> QED
  BY <1>1, <1>2, <1>3, FS_CardinalityType

LEMMA OneLess ==
    ASSUME NEW S, NEW T, NEW x, IsFiniteSet(S), IsFiniteSet(T), S \ {x} \subseteq T
    PROVE  Cardinality(S) <= Cardinality(T) + 1
<1> DEFINE U == T \cup {x}
<1>1. /\ IsFiniteSet(U) /\ Cardinality(T) \in Nat
      /\ Cardinality(U) = IF x \in T THEN Cardinality(T) ELSE Cardinality(T) + 1
  BY FS_AddElement, FS_CardinalityType
<1>2. Cardinality(S) <= Cardinality(U)
  BY <1>1, FS_Subset
<1> HIDE DEF U
<1> QED
  BY <1>1, <1>2, FS_CardinalityType

(* What happens to the commands still to come.                             *)
LEMMA OrphansStayFinite ==
    ASSUME IsFiniteSet(orphans), [Next]_vars
    PROVE  IsFiniteSet(orphans')
<1>1. ASSUME NEW r \in Runners, GiveUp(r)
      PROVE  IsFiniteSet(orphans')
  BY <1>1, FS_AddElement DEF GiveUp
<1>2. orphans' \subseteq orphans \/ \E r \in Runners : GiveUp(r)
  BY DEF Next, Step, RustPass, TsPass, ApplyFiles, Start, EnsureTable, Discover,
     FetchApplied, Skip, Open, Execute, Rejected, Record, Finish, Abort,
     Land, Lose, Publish, vars
<1> QED
  BY <1>1, <1>2, FS_Subset

(* A step that neither runs the statement nor meets a fault.               *)
LEMMA QuietStep ==
    ASSUME IsFiniteSet(Runners), IsFiniteSet(orphans), IsFiniteSet(orphans'),
           TypeOK, NEW f \in Files, NEW k \in 1..Last(f), Accounted(f, k),
           executed'[<<f, k>>] = executed[<<f, k>>], faults' = faults,
           Late(f, k)' \subseteq Late(f, k), SpentBy(f, k) \subseteq SpentBy(f, k)'
    PROVE  Accounted(f, k)'
<1>1. k \in Nat /\ executed[<<f, k>>] \in Nat /\ faults \in Nat
  BY StmtIdsIntro, LastType DEF TypeOK
<1> HIDE DEF SpentBy, Late
<1> QED
  BY <1>1, Balanced DEF Accounted

LEMMA ExecuteStep ==
    ASSUME IsFiniteSet(Runners), IsFiniteSet(orphans), IInv, [Next]_vars,
           \A q \in Runners : ~Rejected(q),
           NEW r \in Runners, Execute(r),
           NEW f \in Files, NEW k \in 1..Last(f), Accounted(f, k)
    PROVE  Accounted(f, k)'
<1>1. /\ k \in Nat /\ <<f, k>> \in StmtIds /\ executed \in [StmtIds -> Nat]
      /\ executed[<<f, k>>] \in Nat /\ faults \in Nat /\ TypeOK
      /\ faults' = faults /\ orphans' = orphans /\ Late(f, k)' = Late(f, k)
  BY StmtIdsIntro, LastType DEF IInv, TypeOK, Execute, Late
<1>2. SpentBy(f, k) \subseteq SpentBy(f, k)'
  <2>1. Step(r)
    BY KitAssumption DEF Kits, Step, RustPass, TsPass, ApplyFiles
  <2> QED
    BY <2>1, SpentByGrows
<1>3. CASE f = file[r] /\ k = stmt[r]
  <2>1. executed'[<<f, k>>] = executed[<<f, k>>] + 1
    BY <1>1, <1>3 DEF Execute, RunStatement
  <2>2. r \notin SpentBy(f, k) /\ r \in SpentBy(f, k)'
    BY <1>1, <1>3, SpentByExecute
  <2>3. IsFiniteSet(SpentBy(f, k)')
    <3>1. SpentBy(f, k)' \subseteq Runners
      BY DEF SpentBy
    <3> QED
      BY <3>1, FS_Subset
  <2> HIDE DEF SpentBy, Late
  <2>4. Cardinality(SpentBy(f, k)) + 1 <= Cardinality(SpentBy(f, k)')
    BY <1>2, <2>2, <2>3, OneMore
  <2> QED
    BY <1>1, <2>1, <2>4, Balanced DEF Accounted
<1>4. CASE ~(f = file[r] /\ k = stmt[r])
  <2>1. executed'[<<f, k>>] = executed[<<f, k>>]
    BY <1>1, <1>4 DEF Execute, RunStatement
  <2> QED
    BY <1>1, <1>2, <2>1, QuietStep
<1> QED
  BY <1>3, <1>4

(* A statement that arrives late was counted when its runner gave it up.   *)
LEMMA LandStep ==
    ASSUME IsFiniteSet(Runners), IsFiniteSet(orphans), IInv, [Next]_vars,
           \A q \in Runners : ~Rejected(q),
           NEW c \in orphans, Land(c),
           NEW f \in Files, NEW k \in 1..Last(f), Accounted(f, k)
    PROVE  Accounted(f, k)'
<1>1. /\ k \in Nat /\ <<f, k>> \in StmtIds /\ executed \in [StmtIds -> Nat]
      /\ executed[<<f, k>>] \in Nat /\ faults \in Nat /\ TypeOK
      /\ k <= Last(f) /\ Last(f) \in Nat
  BY StmtIdsIntro, LastType DEF IInv, TypeOK
<1>2. faults' = faults /\ orphans' = orphans \ {c} /\ Late(f, k)' = Late(f, k) \ {c}
  BY DEF Land, Late
<1>3. SpentBy(f, k) \subseteq SpentBy(f, k)'
  BY SpentByGrows
<1>4. IsFiniteSet(orphans')
  BY OrphansStayFinite
<1>5. CASE c.file = f /\ c.stmt = k
  <2>1. executed'[<<f, k>>] = executed[<<f, k>>] + 1
    BY <1>1, <1>5 DEF Land, RunStatement
  <2>2. c \in Late(f, k) /\ IsFiniteSet(Late(f, k))
    <3>1. Late(f, k) \subseteq orphans
      BY DEF Late
    <3> QED
      BY <1>5, <3>1, FS_Subset DEF Late
  <2> HIDE DEF SpentBy, Late
  <2>3. Cardinality(Late(f, k)') = Cardinality(Late(f, k)) - 1
    BY <1>2, <2>2, FS_RemoveElement
  <2> QED
    BY <1>1, <1>2, <1>3, <1>4, <2>1, <2>3, Balanced DEF Accounted
<1>6. CASE ~(c.file = f /\ c.stmt = k)
  <2>1. executed'[<<f, k>>] = executed[<<f, k>>]
    BY <1>1, <1>6 DEF Land, RunStatement, InsertRow
  <2> QED
    BY <1>1, <1>2, <1>3, <1>4, <2>1, QuietStep
<1> QED
  BY <1>5, <1>6

LEMMA FaultStep ==
    ASSUME IsFiniteSet(Runners), IsFiniteSet(orphans), IInv, [Next]_vars,
           NEW r \in Runners, Abort(r) \/ GiveUp(r),
           NEW f \in Files, NEW k \in 1..Last(f), Accounted(f, k)
    PROVE  Accounted(f, k)'
<1>1. /\ k \in Nat /\ <<f, k>> \in StmtIds
      /\ executed[<<f, k>>] \in Nat /\ faults \in Nat /\ TypeOK
  BY StmtIdsIntro, LastType DEF IInv, TypeOK
<1>2. faults' = faults + 1 /\ executed' = executed
  BY DEF Abort, GiveUp, server
<1>3. IsFiniteSet(orphans')
  BY OrphansStayFinite
<1>4. SpentBy(f, k) \ {r} \subseteq SpentBy(f, k)'
  BY SpentByFault
<1>5. /\ SpentBy(f, k) \subseteq Runners /\ IsFiniteSet(SpentBy(f, k))
      /\ SpentBy(f, k)' \subseteq Runners /\ IsFiniteSet(SpentBy(f, k)')
      /\ Late(f, k) \subseteq orphans /\ IsFiniteSet(Late(f, k))
      /\ Late(f, k)' \subseteq orphans' /\ IsFiniteSet(Late(f, k)')
  <2>1. /\ SpentBy(f, k) \subseteq Runners /\ SpentBy(f, k)' \subseteq Runners
        /\ Late(f, k) \subseteq orphans /\ Late(f, k)' \subseteq orphans'
    BY DEF SpentBy, Late
  <2> QED
    BY <1>3, <2>1, FS_Subset
<1>6. CASE GiveUp(r) /\ f = file[r] /\ k = stmt[r]
  <2> DEFINE c == [id |-> faults, file |-> file[r], stmt |-> stmt[r]]
  <2>1. Late(f, k)' \ {c} \subseteq Late(f, k)
    BY <1>6 DEF GiveUp, Late
  <2>2. r \notin SpentBy(f, k)
    BY <1>1, <1>6, SpentByGiveUp
  <2> HIDE DEF SpentBy, Late, c
  <2>3. Cardinality(Late(f, k)') <= Cardinality(Late(f, k)) + 1
    BY <1>5, <2>1, OneLess
  <2>4. SpentBy(f, k) \subseteq SpentBy(f, k)'
    BY <1>4, <2>2
  <2> QED
    BY <1>1, <1>2, <1>3, <2>3, <2>4, Balanced DEF Accounted
<1>7. CASE ~(GiveUp(r) /\ f = file[r] /\ k = stmt[r])
  <2>1. Late(f, k)' \subseteq Late(f, k)
    BY <1>7 DEF Abort, GiveUp, Late
  <2> HIDE DEF SpentBy, Late
  <2>2. Cardinality(SpentBy(f, k)) <= Cardinality(SpentBy(f, k)') + 1
    BY <1>4, <1>5, OneLess
  <2> QED
    BY <1>1, <1>2, <1>3, <2>1, <2>2, Balanced DEF Accounted
<1> QED
  BY <1>6, <1>7
-----------------------------------------------------------------------------
LEMMA AccountInit ==
    ASSUME IsFiniteSet(Runners), Init
    PROVE  AccountInv
<1>1. IsFiniteSet(orphans)
  BY FS_EmptySet DEF Init
<1>2. ASSUME NEW f \in Files, NEW k \in 1..Last(f)
      PROVE  Accounted(f, k)
  <2>1. executed[<<f, k>>] = 0 /\ faults = 0
    BY StmtIdsIntro DEF Init
  <2>2. Late(f, k) = {} /\ SpentBy(f, k) \subseteq Runners
    BY DEF Init, Late, SpentBy
  <2>3. IsFiniteSet(SpentBy(f, k))
    BY <2>2, FS_Subset
  <2> HIDE DEF SpentBy, Late
  <2>4. Cardinality(Late(f, k)) = 0 /\ Cardinality(SpentBy(f, k)) \in Nat
    BY <2>2, <2>3, FS_EmptySet, FS_CardinalityType
  <2> QED
    BY <2>1, <2>4 DEF Accounted
<1> QED
  BY <1>1, <1>2 DEF AccountInv

LEMMA AccountStep ==
    ASSUME IsFiniteSet(Runners), IInv, AccountInv, [Next]_vars,
           \A r \in Runners : ~Rejected(r)
    PROVE  AccountInv'
<1>1. IsFiniteSet(orphans) /\ IsFiniteSet(orphans')
  BY OrphansStayFinite DEF AccountInv
<1> SUFFICES ASSUME NEW f \in Files, NEW k \in 1..Last(f)
             PROVE  Accounted(f, k)'
  BY <1>1 DEF AccountInv
<1>2. Accounted(f, k) /\ TypeOK /\ <<f, k>> \in StmtIds
  BY StmtIdsIntro DEF AccountInv, IInv
<1>3. ASSUME NEW r \in Runners, Execute(r)
      PROVE  Accounted(f, k)'
  BY <1>1, <1>2, <1>3, ExecuteStep
<1>4. ASSUME NEW c \in orphans, Land(c)
      PROVE  Accounted(f, k)'
  BY <1>1, <1>2, <1>4, LandStep
<1>5. ASSUME NEW r \in Runners, Abort(r) \/ GiveUp(r)
      PROVE  Accounted(f, k)'
  BY <1>1, <1>2, <1>5, FaultStep
<1>6. CASE /\ ~\E r \in Runners : Execute(r) \/ Abort(r) \/ GiveUp(r)
           /\ ~\E c \in orphans : Land(c)
  <2>1. executed' = executed /\ faults' = faults /\ orphans' \subseteq orphans
    BY <1>6 DEF Next, Step, RustPass, TsPass, ApplyFiles, Start, EnsureTable,
       Discover, FetchApplied, Skip, Open, Rejected, Record, InsertRow, Finish,
       Lose, Publish, vars, server
  <2>2. SpentBy(f, k) \subseteq SpentBy(f, k)'
    BY <1>6, SpentByGrows DEF Next
  <2>3. Late(f, k)' \subseteq Late(f, k)
    BY <2>1 DEF Late
  <2> QED
    BY <1>1, <1>2, <2>1, <2>2, <2>3, QuietStep
<1> QED
  BY <1>3, <1>4, <1>5, <1>6

(* A statement runs at most once per runner and once more per crash, error *)
(* or lost reply, however passes interleave and commands arrive late, when *)
(* the server refuses none: the passes re-execute nothing for no reason.   *)
THEOREM RerunsArePaidFor ==
    ASSUME IsFiniteSet(Runners)
    PROVE  Spec /\ NothingRefused => []RerunsPaidFor
<1>1. Init => AccountInv
  BY AccountInit
<1>2. IInv /\ AccountInv /\ [Next]_vars /\ [\A r \in Runners : ~Rejected(r)]_vars
        => AccountInv'
  <2> SUFFICES ASSUME IInv, AccountInv, [Next]_vars,
                      [\A r \in Runners : ~Rejected(r)]_vars
               PROVE  AccountInv'
    OBVIOUS
  <2>1. CASE \A r \in Runners : ~Rejected(r)
    BY <2>1, AccountStep
  <2>2. CASE UNCHANGED vars
    BY <2>2 DEF vars, server, pass, AccountInv, Accounted, Late, SpentBy, Spent,
       Fetched, Recorded
  <2> QED
    BY <2>1, <2>2
<1>3. IInv /\ AccountInv => RerunsPaidFor
  <2> SUFFICES ASSUME IInv, AccountInv, NEW s \in StmtIds
               PROVE  executed[s] <= Cardinality(Runners) + faults
    BY DEF RerunsPaidFor
  <2>0. PICK f \in Files : \E k \in 1..Last(f) : s = <<f, k>>
    BY StmtIdsElim
  <2>1. PICK k \in 1..Last(f) : s = <<f, k>>
    BY <2>0
  <2>2. executed[<<f, k>>] \in Nat /\ faults \in Nat /\ Accounted(f, k)
    BY <2>1 DEF IInv, TypeOK, AccountInv
  <2>3. /\ SpentBy(f, k) \subseteq Runners /\ Late(f, k) \subseteq orphans
        /\ IsFiniteSet(orphans)
    BY DEF SpentBy, Late, AccountInv
  <2> HIDE DEF SpentBy, Late
  <2>4. /\ Cardinality(SpentBy(f, k)) <= Cardinality(Runners)
        /\ IsFiniteSet(SpentBy(f, k)) /\ IsFiniteSet(Late(f, k))
    BY <2>3, FS_Subset
  <2>5. /\ Cardinality(SpentBy(f, k)) \in Nat /\ Cardinality(Runners) \in Nat
        /\ Cardinality(Late(f, k)) \in Nat
    BY <2>4, FS_CardinalityType
  <2> QED
    BY <2>1, <2>2, <2>4, <2>5 DEF Accounted
<1> QED
  BY <1>1, <1>2, <1>3, Invariance, PTL DEF Spec, NothingRefused
=============================================================================
