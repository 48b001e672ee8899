----------------------- MODULE MigrationPipelineProofs -----------------------
(***************************************************************************)
(* The pipeline of generator and runner, for every schema, every sequence  *)
(* of calls the numbers have room for, and every bound on the faults.      *)
(* Until a pass reads a file in the middle of its write the pipeline       *)
(* implements the runner over an append-only directory; and in every state *)
(* a pass finds the objects that a generated statement needs, but for      *)
(* those whose file was read that way.                                     *)
(***************************************************************************)
EXTENDS MigrationPipeline, MigrationGeneratorProofs

Directory == {Listed(f) : f \in files}

-----------------------------------------------------------------------------
(* The pipeline generates as the generator does.                           *)

LEMMA PipelineGenerates == [PipelineNext]_pipeline => [Next]_vars
<1>1. ASSUME NEW g \in Generators, Generate(g)
      PROVE  [Next]_vars
  BY <1>1 DEF Generate, Publish, WriteOn, EndsWrite, Dies, Elsewhere, Next, Step
<1>2. CASE Repair \/ Apply \/ ApplyFails \/ UNCHANGED pipeline
  BY <1>2 DEF Repair, Apply, ApplyFails, pipeline, generating, Next
<1> QED
  BY <1>1, <1>2 DEF PipelineNext

LEMMA GeneratorRuns == PipelineSpec => Spec
<1>1. PipelineInit => Init
  BY DEF PipelineInit
<1> QED
  BY <1>1, PipelineGenerates, PTL DEF PipelineSpec, Spec

-----------------------------------------------------------------------------
(* What the runner assumes of its constants holds of the directory.        *)

LEMMA PublishedParts ==
    ASSUME NEW F \in Published
    PROVE  /\ F = <<F[1], F[2]>> /\ F[2] \in Cuts
           /\ F[1] \in [num : 1..LastNumber, obj : Objects]
           /\ F[1].num \in Nat /\ F[1].obj \in Objects
BY BoundsAssumption DEF Published

LEMMA CreateType ==
    ASSUME NEW o \in Objects
    PROVE  Create(o) \in Run!Statement
BY ReadsAssumption DEF Create, Needed, Objects, Run!Statement

LEMMA ContentsType == Contents \in [Published -> Seq(Run!Statement)]
<1> SUFFICES ASSUME NEW F \in Published
             PROVE  Contents[F] \in Seq(Run!Statement)
  BY DEF Contents
<1>1. CASE F[2] = "empty"
  BY <1>1 DEF Contents
<1>2. CASE F[2] = "broken"
  <2>1. [needs |-> {Nowhere}, makes |-> {}, again |-> TRUE] \in Run!Statement
    BY DEF Run!Statement
  <2> QED
    BY <1>2, <2>1 DEF Contents
<1>3. CASE F[2] \notin {"empty", "broken"}
  <2>1. Contents[F] = <<Create(F[1].obj)>>
    BY <1>3 DEF Contents
  <2> QED
    BY <2>1, PublishedParts, CreateType
<1> QED
  BY <1>1, <1>2, <1>3

(* The order of the file names: numbers first, then names.                 *)
Spot(F) == F[1].num * Cardinality(Objects) + Alphabet[F[1].obj]

LEMMA CutOrderType ==
    /\ \A c \in Cuts : CutOrder[c] \in 0..3
    /\ \A c, d \in Cuts : CutOrder[c] = CutOrder[d] => c = d
BY DEF Cuts, CutOrder

LEMMA SpotOrder ==
    ASSUME NEW F \in Published
    PROVE  /\ Spot(F) \in Nat
           /\ Sorted[F] = 4 * Spot(F) + CutOrder[F[2]] /\ Sorted[F] \in Nat
           /\ \A G \in Published : F[1].num < G[1].num => Spot(F) < Spot(G)
<1> DEFINE K == Cardinality(Objects)
<1>1. K \in Nat /\ \A o \in Objects : Alphabet[o] \in 0..K - 1
  BY AlphabetAssumption, FS_CardinalityType
<1> HIDE DEF K
<1>2. ASSUME NEW G \in Published
      PROVE  /\ G[1].num \in Nat /\ Alphabet[G[1].obj] \in 0..K - 1
             /\ G[1].num * K \in Nat
             /\ Spot(G) = G[1].num * K + Alphabet[G[1].obj] /\ Spot(G) \in Nat
  BY <1>1, PublishedParts, Times DEF Spot, K
<1>3. ASSUME NEW G \in Published, F[1].num < G[1].num
      PROVE  Spot(F) < Spot(G)
  <2> DEFINE n == F[1].num
             l == G[1].num
  <2>1. n \in Nat /\ l \in Nat /\ n + 1 \in Nat /\ n + 1 <= l
    BY <1>2, <1>3
  <2> HIDE DEF n, l
  <2>2. (n + 1) * K = n * K + K /\ (n + 1) * K <= l * K
    BY <1>1, <2>1, Times
  <2>3. /\ Spot(F) = n * K + Alphabet[F[1].obj] /\ Spot(G) = l * K + Alphabet[G[1].obj]
        /\ n * K \in Nat /\ l * K \in Nat
        /\ Alphabet[F[1].obj] \in 0..K - 1 /\ Alphabet[G[1].obj] \in 0..K - 1
    BY <1>2 DEF n, l
  <2> QED
    BY <1>1, <2>2, <2>3
<1>4. Sorted[F] = 4 * Spot(F) + CutOrder[F[2]]
  BY DEF Sorted, Spot
<1> QED
  BY <1>2, <1>3, <1>4, CutOrderType, PublishedParts

LEMMA SortedByNumber ==
    ASSUME NEW F \in Published, NEW G \in Published, F[1].num < G[1].num
    PROVE  Sorted[F] < Sorted[G]
<1>1. /\ Spot(F) \in Nat /\ Spot(G) \in Nat /\ Spot(F) < Spot(G)
      /\ CutOrder[F[2]] \in 0..3 /\ CutOrder[G[2]] \in 0..3
  BY SpotOrder, CutOrderType, PublishedParts
<1> QED
  BY <1>1, SpotOrder

LEMMA SortedApart ==
    ASSUME NEW F \in Published, NEW G \in Published, Sorted[F] = Sorted[G]
    PROVE  F = G
<1>1. /\ F[1].num \in Nat /\ G[1].num \in Nat
      /\ Sorted[F] \in Nat /\ Sorted[G] \in Nat
      /\ Spot(F) \in Nat /\ Spot(G) \in Nat
      /\ CutOrder[F[2]] \in 0..3 /\ CutOrder[G[2]] \in 0..3
  BY SpotOrder, CutOrderType, PublishedParts
<1>2. F[1].num = G[1].num
  BY <1>1, SortedByNumber
<1>3. Spot(F) = Spot(G) /\ CutOrder[F[2]] = CutOrder[G[2]]
  BY <1>1, SpotOrder
<1>4. Alphabet[F[1].obj] = Alphabet[G[1].obj]
  <2> DEFINE base == F[1].num * Cardinality(Objects)
             x == Alphabet[F[1].obj]
             y == Alphabet[G[1].obj]
  <2>1. base \in Nat
    <3>1. Cardinality(Objects) \in Nat
      BY AlphabetAssumption, FS_CardinalityType
    <3> QED
      BY <1>1, <3>1, Times
  <2>2. x \in Nat /\ y \in Nat
    <3>1. /\ Cardinality(Objects) \in Nat
          /\ \A o \in Objects : Alphabet[o] \in 0..Cardinality(Objects) - 1
      BY AlphabetAssumption, FS_CardinalityType
    <3>2. \A o \in Objects : Alphabet[o] \in Nat
      BY <3>1
    <3> QED
      BY <3>2, PublishedParts
  <2>3. base + x = base + y
    BY <1>2, <1>3 DEF Spot
  <2> HIDE DEF base, x, y
  <2>4. x = y
    BY <2>1, <2>2, <2>3
  <2> QED
    BY <2>4 DEF x, y
<1>5. F[1].obj = G[1].obj
  BY <1>4, AlphabetAssumption, PublishedParts DEF IsInjective
<1>6. F[1] = G[1] /\ F[2] = G[2]
  BY <1>2, <1>3, <1>5, CutOrderType, PublishedParts
<1> QED
  BY <1>6, PublishedParts

LEMMA RunnerAssumptions ==
    /\ Run!KitAssumption /\ Run!FilesAssumption /\ Run!StatementsAssumption
    /\ Run!RankAssumption /\ Run!BoundsAssumption
<1>1. Run!KitAssumption
  BY RunnerAssumption DEF Run!KitAssumption, Run!Kits
<1>2. Run!FilesAssumption
  <2>1. PICK o \in Objects : TRUE
    BY AlphabetAssumption
  <2>2. 1 \in 1..LastNumber
    BY AlphabetAssumption, BoundsAssumption
  <2>3. <<[num |-> 1, obj |-> o], "whole">> \in Published
    BY <2>1, <2>2 DEF Published, Cuts
  <2> QED
    BY <2>3 DEF Run!FilesAssumption
<1>3. Run!StatementsAssumption
  BY ContentsType DEF Run!StatementsAssumption
<1>4. Run!RankAssumption
  BY SpotOrder, SortedApart DEF Run!RankAssumption, Run!Kits, Sorted
<1>5. Run!BoundsAssumption
  BY RunnerAssumption DEF Run!BoundsAssumption
<1> QED
  BY <1>1, <1>2, <1>3, <1>4, <1>5
-----------------------------------------------------------------------------
(* The directory.                                                          *)

(* Calls never overlap, all files are generated, and each that is not      *)
(* being written, nor cut off, is whole.                                   *)
PipeInv ==
    /\ ~overlapped /\ text \in Cuts
    /\ \A f \in files : f.obj \in Objects /\ fate[f] \in Cuts
    /\ \A f \in files \ torn : fate[f] = "whole"

(* What the generator promises: fresh numbers of four digits.              *)
GenInv == TypeOK /\ NumberIsFresh /\ InRange

(* The directory changes when a write begins and, in torn, when it ends.   *)
LEMMA WriteOrNot ==
    ASSUME [PipelineNext]_pipeline
    PROVE  \/ \E g \in Generators : Publish(g) /\ UNCHANGED <<running, misread>>
           \/ \E g \in Generators : EndsWrite(g) /\ UNCHANGED <<fate, running, misread>>
           \/ UNCHANGED <<files, torn, fate>>
<1>1. ASSUME NEW g \in Generators, Generate(g)
      PROVE  \/ Publish(g) /\ UNCHANGED <<running, misread>>
             \/ EndsWrite(g) /\ UNCHANGED <<fate, running, misread>>
             \/ UNCHANGED <<files, torn, fate>>
  BY <1>1 DEF Generate, WriteOn, Dies, Elsewhere, Begin, LoadJournal, LoadFails, ListFiles,
     Skip, OpenJournal, Save, NothingToSave, Throw, disk, vars
<1>2. CASE Repair \/ Apply \/ ApplyFails \/ UNCHANGED pipeline
  BY <1>2 DEF Repair, Apply, ApplyFails, pipeline, generating, DiscardJournal, disk, vars
<1> QED
  BY <1>1, <1>2 DEF PipelineNext

LEMMA NoOverlap ==
    ASSUME TypeOK, ~overlapped, [PipelineNext]_pipeline
    PROVE  ~overlapped'
<1>1. ASSUME NEW g \in Generators, NEW c \in Calls, Begin(g, c)
      PROVE  ~overlapped'
  <2>1. \A h \in Generators : h = g
    BY AloneAssumption
  <2>2. pc[g] \notin Busy
    BY <1>1 DEF Begin, Resting, Busy
  <2>3. ~\E h \in Generators : pc[h] \in Busy
    BY <2>1, <2>2
  <2>4. overlapped' = (overlapped \/ \E h \in Generators : pc[h] \in Busy)
    BY <1>1 DEF Begin
  <2> QED
    BY <2>3, <2>4, Zenon
<1>2. CASE overlapped' = overlapped
  BY <1>2
<1>3. ASSUME NEW g \in Generators, Generate(g)
      PROVE  overlapped' = overlapped \/ \E c \in Calls : Begin(g, c)
  BY <1>3 DEF Generate, Publish, WriteOn, EndsWrite, Dies, Elsewhere, LoadJournal, LoadFails,
     ListFiles, Skip, OpenFile, Emit, OpenJournal, Save, NothingToSave, Throw, used, vars
<1>4. CASE Repair \/ Apply \/ ApplyFails \/ UNCHANGED pipeline
  <2>1. overlapped' = overlapped
    BY <1>4 DEF Repair, Apply, ApplyFails, pipeline, generating, DiscardJournal, used, vars
  <2> QED
    BY <1>2, <2>1
<1> QED
  BY <1>1, <1>2, <1>3, <1>4 DEF PipelineNext

(* A file that begins to be written is new and has the highest number.     *)
LEMMA PublishEffect ==
    ASSUME GenInv, PipeInv, NEW g \in Generators, Publish(g)
    PROVE  \E f \in File, c \in Cuts :
               /\ f \notin files /\ f.obj \in Objects
               /\ \A h \in files : h.num < f.num
               /\ files' = files \cup {f} /\ torn' = torn \cup {f}
               /\ fate' = [h \in files' |-> IF h = f THEN c ELSE fate[h]]
               /\ text' = "empty"
<1>1. PICK f \in File : /\ f = NextFile(g) /\ f.obj \in Objects /\ f.num = number[g]
                        /\ files' = files \cup {f} /\ torn' = torn \cup {f}
  BY OpenFileEffect DEF GenInv, Publish
<1>2. \A h \in files : h.num < f.num
  BY <1>1 DEF GenInv, PipeInv, NumberIsFresh, Publish, OpenFile
<1>3. f \notin files
  <2>1. f.num \in Nat
    BY DEF File
  <2> QED
    BY <1>2, <2>1
<1>4. PICK c \in Cuts : fate' = [h \in files' |-> IF h = f THEN c ELSE fate[h]]
  BY <1>1 DEF Publish
<1>5. text' = "empty"
  BY DEF Publish
<1> QED
  BY <1>1, <1>2, <1>3, <1>4, <1>5

LEMMA TextStep ==
    ASSUME PipeInv, [PipelineNext]_pipeline
    PROVE  text' \in Cuts
BY DEF PipeInv, PipelineNext, Generate, Publish, WriteOn, Repair, Apply, ApplyFails,
   pipeline, generating, Cuts

LEMMA PipeStep ==
    ASSUME GenInv, PipeInv, [PipelineNext]_pipeline
    PROVE  PipeInv'
<1>1. ~overlapped' /\ text' \in Cuts
  BY NoOverlap, TextStep DEF GenInv, PipeInv
<1>2. ASSUME NEW g \in Generators, Publish(g)
      PROVE  PipeInv'
  BY <1>1, <1>2, PublishEffect DEF PipeInv
<1>3. ASSUME NEW g \in Generators, EndsWrite(g), UNCHANGED fate
      PROVE  PipeInv'
  BY <1>1, <1>3 DEF PipeInv, EndsWrite, Emit
<1>4. CASE UNCHANGED <<files, torn, fate>>
  BY <1>1, <1>4 DEF PipeInv
<1> QED
  BY <1>2, <1>3, <1>4, WriteOrNot

LEMMA ListedPublished ==
    ASSUME GenInv, PipeInv, NEW f \in files
    PROVE  /\ Listed(f) \in Published /\ Listed(f)[1] = f /\ Listed(f)[2] = fate[f]
           /\ \A c \in Cuts : <<f, c>> \in Published
<1>1. f \in [num : 1..LastNumber, obj : Objects]
  BY BoundsAssumption DEF GenInv, TypeOK, InRange, PipeInv, File
<1>2. fate[f] \in Cuts
  BY DEF PipeInv
<1> QED
  BY <1>1, <1>2 DEF Published, Listed

(* It is published: it sorts after all others.                             *)
LEMMA WriteIsPublish ==
    ASSUME GenInv, PipeInv, GenInv', PipeInv', NEW g \in Generators, Publish(g)
    PROVE  \E f \in files' :
               /\ f \notin files
               /\ \A h \in files : Listed(h)' = Listed(h) /\ h.num < f.num /\ f.num \in Nat
               /\ files' = files \cup {f}
               /\ Listed(f)' \in Published /\ Listed(f)' \notin Directory
               /\ \A G \in Directory : Sorted[G] < Sorted[Listed(f)']
               /\ Directory' = Directory \cup {Listed(f)'}
<1>1. PICK f \in File, c \in Cuts :
               /\ f \notin files /\ f.obj \in Objects /\ \A h \in files : h.num < f.num
               /\ files' = files \cup {f}
               /\ fate' = [h \in files' |-> IF h = f THEN c ELSE fate[h]]
  BY PublishEffect
<1>2. /\ Listed(f)' = <<f, c>> /\ f.num \in Nat
      /\ \A h \in files : Listed(h)' = Listed(h)
  BY <1>1 DEF Listed, File
<1>3. <<f, c>> \in Published
  <2>1. f \in [num : 1..LastNumber, obj : Objects]
    BY <1>1, BoundsAssumption DEF GenInv, InRange, File
  <2> QED
    BY <2>1 DEF Published
<1>4. <<f, c>> \notin Directory
  BY <1>1 DEF Directory, Listed
<1>5. ASSUME NEW G \in Directory
      PROVE  Sorted[G] < Sorted[<<f, c>>]
  <2>1. PICK h \in files : G = Listed(h)
    BY DEF Directory
  <2>2. G \in Published /\ G[1].num < <<f, c>>[1].num
    BY <1>1, <2>1, ListedPublished
  <2> QED
    BY <1>3, <2>2, SortedByNumber
<1>6. Directory' = Directory \cup {<<f, c>>}
  <2>1. Directory' = {Listed(h)' : h \in files'}
    BY DEF Directory
  <2> QED
    BY <1>1, <1>2, <2>1 DEF Directory
<1> QED
  BY <1>1, <1>2, <1>3, <1>4, <1>5, <1>6

LEMMA PipelineInvariance ==
    ASSUME NEW m, Room(m)
    PROVE  PipelineSpec => [](GenInv /\ DependenciesFirst /\ PipeInv)
<1>1. PipelineInit => ~overlapped /\ PipeInv
  <2>1. PipelineInit => text \in Cuts
    BY DEF PipelineInit, Cuts
  <2>2. PipelineInit => ~overlapped /\ files = {}
    BY Zenon DEF PipelineInit, Init
  <2> QED
    BY <2>1, <2>2 DEF PipeInv
<1>2. TypeOK /\ ~overlapped /\ [PipelineNext]_pipeline => ~overlapped'
  BY NoOverlap
<1>3. TypeOK /\ NumberIsFresh /\ (~overlapped => InRange) /\ ~overlapped => GenInv
  BY DEF GenInv
<1>4. GenInv /\ PipeInv /\ [PipelineNext]_pipeline => PipeInv'
  BY PipeStep
<1>5. PipelineSpec => []~overlapped
  BY <1>1, <1>2, GeneratorRuns, TypeCorrect, PTL DEF PipelineSpec
<1>6. PipelineSpec => []GenInv /\ []DependenciesFirst
  BY <1>3, <1>5, GeneratorRuns, TypeCorrect, NumbersFit, FreshAndOrdered, PTL
<1> QED
  BY <1>1, <1>4, <1>6, PTL DEF PipelineSpec
-----------------------------------------------------------------------------
(* The pass.                                                               *)

Recorded == {F \in Published : rows[F] > 0}
Found    == discovered[Runner]
Known    == seen[Runner]
Done     == rskipped[Runner] \cup applied[Runner]
Current  == file[Runner]

PassType ==
    /\ rows \in [Published -> Nat]
    /\ rpc \in [{Runner} -> Run!Running \cup Run!Resting]
    /\ discovered \in [{Runner} -> SUBSET Published]
    /\ seen \in [{Runner} -> SUBSET Published]
    /\ rskipped \in [{Runner} -> SUBSET Published]
    /\ applied \in [{Runner} -> SUBSET Published]
    /\ file \in [{Runner} -> Published]
    /\ stmt \in [{Runner} -> Nat \ {0}]

(* What a pass listed was there, and everything below it in number; what   *)
(* it skips or has applied is recorded.                                    *)
ListInv ==
    /\ Found \subseteq Directory /\ Recorded \subseteq Directory
    /\ \A F \in Found : \A h \in files : h.num < F[1].num => Listed(h) \in Found
    /\ Known \cup Done \subseteq Recorded
    /\ rpc[Runner] = "ok" => Found \subseteq Done

(* The file it applies is the first of what is left, read as it will stay  *)
(* or in the middle of its write.                                          *)
TurnInv ==
    rpc[Runner] = "exec" =>
        /\ Current[1] \in files /\ Listed(Current[1]) \in Found
        /\ \A G \in Found \ Done : Sorted[Listed(Current[1])] <= Sorted[G]
        /\ Misread => Current[1] \in misread
        /\ stmt[Runner] > 1 /\ Current[2] = "whole" => Current[1].obj \in objects

(* A recorded whole file has made its object, unless it was misread.       *)
MadeInv ==
    \A h \in files :
        Listed(h) \in Recorded /\ fate[h] = "whole" => h.obj \in objects \/ h \in misread

RunInv == PassType /\ ListInv /\ TurnInv /\ MadeInv

LEMMA AnyFileType == Run!AnyFile \in Published
BY RunnerAssumptions DEF Run!FilesAssumption, Run!AnyFile

LEMMA RunTypeInit == Run!Init => PassType
BY AnyFileType DEF Run!Init, Run!Resting, PassType

LEMMA PassTypes ==
    ASSUME PassType
    PROVE  /\ Found \subseteq Published /\ Known \subseteq Published
           /\ Done \subseteq Published /\ Current \in Published
           /\ stmt[Runner] \in Nat \ {0}
BY DEF PassType, Found, Known, Done, Current

LEMMA PassTypeStep ==
    ASSUME GenInv, PipeInv, PassType, Run!Step(Runner) \/ Run!Abort(Runner)
    PROVE  PassType'
<1> USE DEF PassType, Run!Goto, Run!server, Run!pass, Run!Running, Run!Resting
<1>0. Directory \subseteq Published
  BY ListedPublished DEF Directory
<1>1. ASSUME Run!Forget(Runner)
      PROVE  /\ discovered' \in [{Runner} -> SUBSET Published]
             /\ seen' \in [{Runner} -> SUBSET Published]
             /\ rskipped' \in [{Runner} -> SUBSET Published]
             /\ applied' \in [{Runner} -> SUBSET Published]
             /\ file' \in [{Runner} -> Published]
             /\ stmt' \in [{Runner} -> Nat \ {0}]
  BY <1>1, AnyFileType DEF Run!Forget
<1>2. CASE Run!Start(Runner)
  BY <1>1, <1>2 DEF Run!Start
<1>3. CASE Run!Abort(Runner) \/ Run!Rejected(Runner)
  BY <1>1, <1>3 DEF Run!Abort, Run!Rejected, Run!Fail
<1>4. ASSUME NEW next \in {"discover", "fetch", "visit"},
             \/ Run!EnsureTable(Runner, next) \/ Run!Discover(Runner, next)
             \/ Run!FetchApplied(Runner, next)
      PROVE  PassType'
  BY <1>0, <1>4
     DEF Run!EnsureTable, Run!Discover, Run!FetchApplied, Run!AppliedFilenames,
     Run!Recorded, Directory
<1>5. ASSUME NEW F \in Published, Run!Skip(Runner, F) \/ Run!Open(Runner, F)
      PROVE  PassType'
  BY <1>5 DEF Run!Skip, Run!Open
<1>6. CASE Run!Execute(Runner)
  BY <1>6 DEF Run!Execute, Run!RunStatement
<1>7. CASE Run!Record(Runner)
  BY <1>7 DEF Run!Record, Run!InsertRow
<1>8. CASE Run!Finish(Runner)
  BY <1>8 DEF Run!Finish
<1> QED
  BY <1>2, <1>3, <1>4, <1>5, <1>6, <1>7, <1>8
     DEF Run!Step, Run!RustPass, Run!TsPass, Run!ApplyFiles

(* The steps of a pass, each by what it does to what the invariants name.  *)
Rest ==
    /\ rpc'[Runner] \notin {"exec", "ok"} /\ UNCHANGED <<rows, objects>>
    /\ Found' \in {Found, {}, Directory}
    /\ Known' \subseteq Known \cup Recorded /\ Done' \subseteq Done \cup Known
OpenStep ==
    /\ rpc'[Runner] = "exec" /\ UNCHANGED <<rows, objects>>
    /\ Found' = Found /\ Known' = Known /\ Done' = Done
    /\ Current' \in Found \ Done /\ stmt'[Runner] = 1
    /\ \A G \in Found \ Done : Sorted[Current'] <= Sorted[G]
ExecuteStep ==
    /\ rpc[Runner] = "exec" /\ rpc'[Runner] = "exec" /\ rows' = rows
    /\ Found' = Found /\ Known' = Known /\ Done' = Done /\ Current' = Current
    /\ stmt[Runner] <= Len(Contents[Current])
    /\ objects' = objects \cup Contents[Current][stmt[Runner]].makes
RecordStep ==
    /\ rpc[Runner] = "exec" /\ rpc'[Runner] = "visit" /\ objects' = objects
    /\ Found' = Found /\ Known' = Known /\ Done' = Done \cup {Current}
    /\ stmt[Runner] > Len(Contents[Current])
    /\ Recorded' = Recorded \cup {Current}
FinishStep ==
    /\ rpc'[Runner] = "ok" /\ UNCHANGED <<rows, objects>>
    /\ Found' = Found /\ Known' = Known /\ Done' = Done /\ Found \subseteq Done

LEMMA PassSteps ==
    ASSUME PassType, Run!Step(Runner) \/ Run!Abort(Runner)
    PROVE  Rest \/ OpenStep \/ ExecuteStep \/ RecordStep \/ FinishStep
<1>0. PassType
  OBVIOUS
<1> USE DEF PassType, Found, Known, Done, Current, Run!Goto, Run!server, Run!pass
<1>1. ASSUME Run!Forget(Runner), rpc'[Runner] \in {"ensure", "err"}, UNCHANGED <<rows, objects>>
      PROVE  Rest
  BY <1>0, <1>1 DEF Run!Forget, Rest
<1>2. CASE Run!Start(Runner)
  <2>1. rpc'[Runner] = "ensure"
    BY <1>0, <1>2 DEF Run!Start
  <2> QED
    BY <1>1, <1>2, <2>1 DEF Run!Start
<1>3. CASE Run!Abort(Runner) \/ Run!Rejected(Runner)
  <2>1. rpc'[Runner] = "err"
    BY <1>0, <1>3 DEF Run!Abort, Run!Rejected, Run!Fail
  <2> QED
    BY <1>1, <1>3, <2>1 DEF Run!Abort, Run!Rejected, Run!Fail
<1>4. ASSUME NEW next \in {"discover", "fetch", "visit"},
             \/ Run!EnsureTable(Runner, next) \/ Run!Discover(Runner, next)
             \/ Run!FetchApplied(Runner, next)
      PROVE  Rest
  <2>1. CASE Run!EnsureTable(Runner, next)
    BY <1>0, <1>4, <2>1 DEF Run!EnsureTable, Rest
  <2>2. CASE Run!Discover(Runner, next)
    BY <1>0, <1>4, <2>2 DEF Run!Discover, Rest, Directory
  <2>3. CASE Run!FetchApplied(Runner, next)
    BY <1>0, <1>4, <2>3
       DEF Run!FetchApplied, Run!AppliedFilenames, Run!Recorded, Rest, Recorded
  <2> QED
    BY <1>4, <2>1, <2>2, <2>3
<1>5. ASSUME NEW F \in Published, Run!Skip(Runner, F)
      PROVE  Rest
  BY <1>0, <1>5 DEF Run!Skip, Run!AlreadyApplied, Rest
<1>6. ASSUME NEW F \in Published, Run!Open(Runner, F)
      PROVE  OpenStep
  <2>1. /\ F \in Found \ Done /\ \A G \in Found \ Done : Sorted[F] <= Sorted[G]
        /\ Current' = F
    BY <1>0, <1>6, RunnerAssumption DEF Run!Open, Run!IsNext, Run!Pending
  <2> QED
    BY <1>0, <1>6, <2>1 DEF Run!Open, OpenStep
<1>7. CASE Run!Execute(Runner)
  <2>1. stmt[Runner] <= Len(Contents[Current])
    <3>1. Len(Contents[Current]) \in Nat /\ stmt[Runner] \in Nat
      BY <1>0, ContentsType
    <3> QED
      BY <1>7, <3>1 DEF Run!Execute, Run!AllExecuted, Run!Last
  <2> QED
    BY <1>0, <1>7, <2>1 DEF Run!Execute, Run!RunStatement, ExecuteStep
<1>8. CASE Run!Record(Runner)
  <2>1. Recorded' = Recorded \cup {Current}
    BY <1>0, <1>8 DEF Run!Record, Run!InsertRow, Recorded
  <2> QED
    BY <1>0, <1>8, <2>1 DEF Run!Record, Run!InsertRow, Run!AllExecuted, Run!Last, RecordStep
<1>9. CASE Run!Finish(Runner)
  BY <1>0, <1>9 DEF Run!Finish, Run!Pending, FinishStep
<1> QED
  BY <1>2, <1>3, <1>4, <1>5, <1>6, <1>7, <1>8, <1>9
     DEF Run!Step, Run!RustPass, Run!TsPass, Run!ApplyFiles

(* The runner's own steps keep the invariant.                              *)
LEMMA ProceedStep ==
    ASSUME GenInv, PipeInv, RunInv, UNCHANGED <<generating, misread>>,
           \/ Proceed \/ Run!Abort(Runner)
    PROVE  RunInv'
<1>0. PassType' /\ (Rest \/ OpenStep \/ ExecuteStep \/ RecordStep \/ FinishStep)
  BY PassTypeStep, PassSteps DEF RunInv, Proceed
<1>1. /\ files' = files /\ fate' = fate /\ misread' = misread
      /\ \A h \in files : Listed(h)' = Listed(h)
  BY DEF generating, vars, disk, Listed
<1>2. Directory' = Directory
  BY <1>1 DEF Directory, Listed
<1>3. PassType /\ ListInv /\ TurnInv /\ MadeInv
  BY DEF RunInv
<1>4. rows' = rows => Recorded' = Recorded
  BY DEF Recorded
<1>5. \A h \in files : Listed(h) \in Published /\ Listed(h)[1] = h /\ Listed(h)[2] = fate[h]
  BY ListedPublished
<1>6. CASE Rest
  <2>1. ListInv'
    BY <1>1, <1>2, <1>3, <1>4, <1>6 DEF ListInv, Rest, Directory
  <2>2. TurnInv' /\ MadeInv'
    BY <1>1, <1>3, <1>4, <1>6 DEF TurnInv, MadeInv, Rest
  <2> QED
    BY <1>0, <2>1, <2>2 DEF RunInv
<1>7. CASE OpenStep
  <2>1. ListInv'
    BY <1>1, <1>2, <1>3, <1>4, <1>7 DEF ListInv, OpenStep
  <2>2. PICK f \in files : Current' = Listed(f)
    BY <1>3, <1>7 DEF ListInv, OpenStep, Directory
  <2>3. Current'[1] = f /\ Listed(f)' = Listed(f)
    BY <1>1, <1>5, <2>2
  <2>4. ~Misread'
    BY <2>2, <2>3 DEF Misread, Current
  <2>5. TurnInv'
    BY <1>1, <1>3, <1>7, <2>2, <2>3, <2>4 DEF TurnInv, OpenStep
  <2>6. MadeInv'
    BY <1>1, <1>3, <1>4, <1>7 DEF MadeInv, OpenStep
  <2> QED
    BY <1>0, <2>1, <2>5, <2>6 DEF RunInv
<1>8. CASE ExecuteStep
  <2>1. ListInv'
    BY <1>1, <1>2, <1>3, <1>4, <1>8 DEF ListInv, ExecuteStep
  <2>2. MadeInv'
    BY <1>1, <1>3, <1>4, <1>8 DEF MadeInv, ExecuteStep
  <2>3. ASSUME Current[2] = "whole"
        PROVE  Current[1].obj \in objects'
    <3>1. Contents[Current] = <<Create(Current[1].obj)>> /\ stmt[Runner] \in Nat \ {0}
      BY <1>3, <2>3, PassTypes DEF Contents
    <3>2. stmt[Runner] = 1
      BY <1>8, <3>1 DEF ExecuteStep
    <3> QED
      BY <1>8, <3>1, <3>2 DEF ExecuteStep, Create
  <2>4. Current[1] \in files /\ Misread' = Misread
    BY <1>1, <1>3, <1>8 DEF TurnInv, ExecuteStep, Misread, Current
  <2>5. TurnInv'
    BY <1>1, <1>3, <1>8, <2>3, <2>4 DEF TurnInv, ExecuteStep
  <2> QED
    BY <1>0, <2>1, <2>2, <2>5 DEF RunInv
<1>9. CASE RecordStep
  <2>1. Current = Listed(Current[1]) /\ Current[1] \in files
    <3>1. rpc[Runner] = "exec" /\ ~EndsMisread
      <4>1. CASE Proceed
        BY <1>9, <4>1 DEF RecordStep, Proceed
      <4>2. CASE Run!Abort(Runner)
        BY <1>3, <1>9, <4>2 DEF RecordStep, Run!Abort, Run!Fail, Run!Goto, PassType
      <4> QED
        BY <4>1, <4>2
    <3>2. Run!AllExecuted(Runner)
      BY <1>9 DEF RecordStep, Run!AllExecuted, Run!Last, Current
    <3> QED
      BY <1>3, <3>1, <3>2 DEF EndsMisread, Misread, TurnInv, Current
  <2>2. ListInv'
    BY <1>1, <1>2, <1>3, <1>9, <2>1 DEF ListInv, RecordStep, Directory
  <2>3. TurnInv'
    BY <1>9 DEF TurnInv, RecordStep
  <2>4. ASSUME NEW h \in files, Listed(h) = Current, fate[h] = "whole"
        PROVE  h.obj \in objects
    <3>1. Current[1] = h /\ Current[2] = "whole"
      BY <1>5, <2>4
    <3>2. Len(Contents[Current]) = 1 /\ stmt[Runner] \in Nat
      BY <1>3, <3>1, PassTypes DEF Contents
    <3>3. stmt[Runner] > 1 /\ rpc[Runner] = "exec"
      BY <1>9, <3>2 DEF RecordStep
    <3> QED
      BY <1>3, <3>1, <3>3 DEF TurnInv
  <2>5. MadeInv'
    BY <1>1, <1>3, <1>9, <2>4 DEF MadeInv, RecordStep
  <2> QED
    BY <1>0, <2>2, <2>3, <2>5 DEF RunInv
<1>10. CASE FinishStep
  <2>1. ListInv'
    BY <1>1, <1>2, <1>3, <1>4, <1>10 DEF ListInv, FinishStep
  <2>2. TurnInv' /\ MadeInv'
    BY <1>1, <1>3, <1>4, <1>10 DEF TurnInv, MadeInv, FinishStep
  <2> QED
    BY <1>0, <2>1, <2>2 DEF RunInv
<1> QED
  BY <1>0, <1>6, <1>7, <1>8, <1>9, <1>10

(* So do the steps of a pass that reads a file in the middle of its write. *)
LEMMA MisreadStep ==
    ASSUME GenInv, PipeInv, RunInv, UNCHANGED generating,
           \/ \E f \in files : OpenUnfinished(f)
           \/ RecordMisread
    PROVE  RunInv'
<1>1. /\ files' = files /\ fate' = fate
      /\ \A h \in files : Listed(h)' = Listed(h)
  BY DEF generating, vars, disk, Listed
<1>2. Directory' = Directory
  BY <1>1 DEF Directory, Listed
<1>3. PassType /\ ListInv /\ TurnInv /\ MadeInv
  BY DEF RunInv
<1>4. \A h \in files : Listed(h) \in Published /\ Listed(h)[1] = h /\ Listed(h)[2] = fate[h]
  BY ListedPublished
<1>5. ASSUME NEW f \in files, OpenUnfinished(f)
      PROVE  RunInv'
  <2>1. /\ rpc' = [rpc EXCEPT ![Runner] = "exec"]
        /\ file' = [file EXCEPT ![Runner] = <<f, text>>]
        /\ stmt' = [stmt EXCEPT ![Runner] = 1] /\ misread' = misread \cup {f}
        /\ UNCHANGED <<rows, objects, discovered, seen, rskipped, applied>>
    BY <1>5 DEF OpenUnfinished, Run!Goto
  <2>2. /\ Listed(f) \in Found \ Done
        /\ \A G \in Found \ Done : Sorted[Listed(f)] <= Sorted[G]
    BY <1>5, RunnerAssumption
       DEF OpenUnfinished, ComesTo, Run!IsNext, Run!Pending, Found, Done
  <2>3. <<f, text>> \in Published
    BY ListedPublished DEF PipeInv
  <2>4. PassType'
    BY <1>3, <2>1, <2>3 DEF PassType, Run!Running
  <2>5. /\ rpc'[Runner] = "exec" /\ Current' = <<f, text>> /\ stmt'[Runner] = 1
        /\ Found' = Found /\ Known' = Known /\ Done' = Done /\ Recorded' = Recorded
    BY <1>3, <2>1 DEF PassType, Current, Found, Known, Done, Recorded
  <2>6. ListInv'
    BY <1>1, <1>2, <1>3, <2>5 DEF ListInv
  <2>7. Current'[1] = f
    BY <2>5
  <2>8. TurnInv'
    BY <1>1, <2>1, <2>2, <2>5, <2>7 DEF TurnInv
  <2>9. MadeInv'
    BY <1>1, <1>3, <2>1, <2>5 DEF MadeInv
  <2> QED
    BY <2>4, <2>6, <2>8, <2>9 DEF RunInv
<1>6. CASE RecordMisread
  <2> DEFINE F == Listed(Current[1])
  <2>1. /\ rpc[Runner] = "exec" /\ Misread
        /\ rpc' = [rpc EXCEPT ![Runner] = "visit"]
        /\ rows' = [rows EXCEPT ![F] = @ + 1]
        /\ applied' = [applied EXCEPT ![Runner] = @ \cup {F}]
        /\ UNCHANGED <<objects, discovered, seen, rskipped, file, stmt, misread>>
    BY <1>6 DEF RecordMisread, EndsMisread, Run!InsertRow, Run!Goto, Current
  <2>2. Current[1] \in files /\ F \in Found /\ Current[1] \in misread
    BY <1>3, <2>1 DEF TurnInv
  <2>3. F \in Published /\ F \in Directory
    BY <1>4, <2>2 DEF Directory
  <2> HIDE DEF F
  <2>4. PassType'
    BY <1>3, <2>1, <2>3 DEF PassType, Run!Resting, Run!Running
  <2>5. /\ rpc'[Runner] = "visit" /\ Found' = Found /\ Known' = Known
        /\ Done' = Done \cup {F} /\ Recorded' = Recorded \cup {F}
    BY <1>3, <2>1, <2>3 DEF PassType, Found, Known, Done, Recorded
  <2>6. ListInv'
    BY <1>1, <1>2, <1>3, <2>3, <2>5 DEF ListInv
  <2>7. \A h \in files : Listed(h) = F => h \in misread
    BY <1>4, <2>2 DEF F
  <2>8. TurnInv' /\ MadeInv'
    BY <1>1, <1>3, <2>1, <2>5, <2>7 DEF TurnInv, MadeInv
  <2> QED
    BY <2>4, <2>6, <2>8 DEF RunInv
<1> QED
  BY <1>5, <1>6

(* The generator meanwhile adds files that sort last.                      *)
LEMMA GenerateStep ==
    ASSUME GenInv, PipeInv, RunInv, GenInv', PipeInv', UNCHANGED <<running, misread>>,
           \/ \E g \in Generators : Publish(g)
           \/ UNCHANGED <<files, fate>>
    PROVE  RunInv'
<1>1. /\ UNCHANGED <<rpc, rows, objects, misread>> /\ stmt' = stmt
      /\ Found' = Found /\ Known' = Known /\ Done' = Done /\ Current' = Current
      /\ Recorded' = Recorded
  BY DEF running, Found, Known, Done, Current, Recorded
<1>2. PassType'
  BY DEF RunInv, PassType, running
<1>3. PassType /\ ListInv /\ TurnInv /\ MadeInv
  BY DEF RunInv
<1>4. \A h \in files : Listed(h)[1] = h /\ Listed(h)[2] = fate[h]
  BY ListedPublished
<1>5. ASSUME NEW g \in Generators, Publish(g)
      PROVE  RunInv'
  <2>1. PICK f \in files' :
            /\ f \notin files
            /\ \A h \in files : Listed(h)' = Listed(h) /\ h.num < f.num /\ f.num \in Nat
            /\ files' = files \cup {f}
            /\ Listed(f)' \notin Directory
            /\ Directory' = Directory \cup {Listed(f)'}
    BY <1>5, WriteIsPublish
  <2>2. \A h \in files : fate'[h] = fate[h] /\ h.num \in Nat
    <3>1. \A h \in files : fate'[h] = fate[h]
      <4>1. \A h \in files : Listed(h)' = <<h, fate'[h]>> /\ Listed(h) = <<h, fate[h]>>
        BY DEF Listed
      <4> QED
        BY <2>1, <4>1
    <3>2. files \subseteq File
      BY DEF GenInv, TypeOK
    <3> QED
      BY <3>1, <3>2 DEF File
  <2>3. ASSUME NEW F \in Found
        PROVE  ~(f.num < F[1].num)
    <3>1. PICK h \in files : F = Listed(h)
      BY <1>3, <2>3 DEF ListInv, Directory
    <3>2. F[1] = h /\ h.num < f.num /\ h.num \in Nat /\ f.num \in Nat
      BY <1>4, <2>1, <2>2, <3>1
    <3> QED
      BY <3>2
  <2>4. ListInv'
    BY <1>1, <1>3, <2>1, <2>3 DEF ListInv
  <2>5. ASSUME rpc[Runner] = "exec"
        PROVE  Current[1] \in files /\ Misread' = Misread
    BY <1>1, <1>3, <2>1, <2>5 DEF TurnInv, Misread, Current
  <2>6. TurnInv'
    BY <1>1, <1>3, <2>1, <2>5 DEF TurnInv
  <2>7. Listed(f)' \notin Recorded
    BY <1>3, <2>1 DEF ListInv
  <2>8. MadeInv'
    BY <1>1, <1>3, <2>1, <2>2, <2>7 DEF MadeInv
  <2> QED
    BY <1>2, <2>4, <2>6, <2>8 DEF RunInv
<1>6. CASE UNCHANGED <<files, fate>>
  <2>1. /\ files' = files /\ fate' = fate /\ \A h : Listed(h)' = Listed(h)
        /\ Directory' = Directory /\ Misread' = Misread
    BY <1>1, <1>6 DEF Listed, Directory, Misread, Current
  <2> QED
    BY <1>1, <1>2, <1>3, <2>1 DEF RunInv, ListInv, TurnInv, MadeInv
<1> QED
  BY <1>5, <1>6

LEMMA RunInvStep ==
    ASSUME GenInv, PipeInv, RunInv, GenInv', PipeInv', [PipelineNext]_pipeline
    PROVE  RunInv'
<1>1. ASSUME NEW g \in Generators, Generate(g)
      PROVE  RunInv'
  <2>1. UNCHANGED <<running, misread>>
    BY <1>1 DEF Generate
  <2>2. Publish(g) \/ UNCHANGED <<files, fate>>
    BY <1>1 DEF Generate, WriteOn, EndsWrite, Emit, Dies, Elsewhere, Begin, LoadJournal,
       LoadFails, ListFiles, Skip, OpenJournal, Save, NothingToSave, Throw, disk, vars
  <2> QED
    BY <2>1, <2>2, GenerateStep
<1>2. CASE Repair \/ UNCHANGED pipeline
  <2>1. UNCHANGED <<running, misread>> /\ UNCHANGED <<files, fate>>
    BY <1>2 DEF Repair, DiscardJournal, pipeline, generating, disk, vars
  <2> QED
    BY <2>1, GenerateStep
<1>3. CASE Apply \/ ApplyFails
  BY <1>3, ProceedStep, MisreadStep DEF Apply, ApplyFails, Proceed
<1> QED
  BY <1>1, <1>2, <1>3 DEF PipelineNext

LEMMA RunInvInit == PipelineInit => RunInv
<1> SUFFICES ASSUME PipelineInit PROVE RunInv
  OBVIOUS
<1>1. /\ files = {} /\ rpc[Runner] = "idle" /\ rows = [F \in Published |-> 0]
      /\ Found = {} /\ Known = {} /\ Done = {}
  BY DEF PipelineInit, Init, Run!Init, Found, Known, Done
<1>2. Recorded = {}
  BY <1>1 DEF Recorded
<1> QED
  BY <1>1, <1>2, RunTypeInit DEF PipelineInit, RunInv, ListInv, TurnInv, MadeInv

LEMMA RunInvariance ==
    ASSUME NEW m, Room(m)
    PROVE  PipelineSpec => []RunInv
BY RunInvInit, RunInvStep, PipelineInvariance, PTL DEF PipelineSpec
-----------------------------------------------------------------------------
(* The refinement.                                                         *)

LEMMA StepRuns ==
    ASSUME GenInv, PipeInv, RunInv, GenInv', PipeInv', [PipelineNext]_pipeline
    PROVE  misread' # {} \/ [Run!Next]_(Run!vars)
<1>1. ASSUME NEW g \in Generators, UNCHANGED running, Publish(g)
      PROVE  Run!Next
  <2>1. PICK f \in files' :
               /\ Listed(f)' \in Published /\ Listed(f)' \notin Directory
               /\ \A G \in Directory : Sorted[G] < Sorted[Listed(f)']
               /\ Directory' = Directory \cup {Listed(f)'}
    BY <1>1, WriteIsPublish
  <2>2. Run!Publish(Listed(f)')
    BY <1>1, <2>1 DEF Run!Publish, Run!server, Run!pass, running, Directory
  <2> QED
    BY <2>1, <2>2 DEF Run!Next
<1>2. ASSUME UNCHANGED running, UNCHANGED <<files, fate>>
      PROVE  UNCHANGED Run!vars
  <2>1. Directory' = Directory
    BY <1>2 DEF Directory, Listed
  <2> QED
    BY <1>2, <2>1 DEF Run!vars, Run!server, Run!pass, running, Directory
<1>3. ASSUME NEW g \in Generators, Generate(g)
      PROVE  [Run!Next]_(Run!vars)
  <2>1. UNCHANGED running
    BY <1>3 DEF Generate
  <2>2. Publish(g) \/ UNCHANGED <<files, fate>>
    BY <1>3 DEF Generate, WriteOn, EndsWrite, Emit, Dies, Elsewhere, Begin, LoadJournal,
       LoadFails, ListFiles, Skip, OpenJournal, Save, NothingToSave, Throw, disk, vars
  <2> QED
    BY <1>1, <1>2, <2>1, <2>2
<1>4. CASE Repair \/ UNCHANGED pipeline
  <2>1. UNCHANGED running /\ UNCHANGED <<files, fate>>
    BY <1>4 DEF Repair, DiscardJournal, pipeline, generating, disk, vars
  <2> QED
    BY <1>2, <2>1
<1>5. CASE Apply
  <2>1. ASSUME NEW f \in files, OpenUnfinished(f)
        PROVE  misread' # {}
    BY <2>1 DEF OpenUnfinished
  <2>2. CASE RecordMisread
    BY <2>2 DEF RecordMisread, EndsMisread, RunInv, TurnInv
  <2>3. CASE Proceed
    BY <2>3 DEF Proceed, Run!Next
  <2> QED
    BY <1>5, <2>1, <2>2, <2>3 DEF Apply
<1>6. CASE ApplyFails
  BY <1>6 DEF ApplyFails, Run!Next
<1> QED
  BY <1>3, <1>4, <1>5, <1>6 DEF PipelineNext

(* The pipeline implements the runner over an append-only directory, until *)
(* a pass reads a file in the middle of its write and as long as the       *)
(* calls' numbers have room in the digits of a file name: the generator    *)
(* keeps, through failures and cut-off writes, the one promise about the   *)
(* order of files that the runner's guarantees rest on.                    *)
THEOREM PipelineImplementsRunner ==
    ASSUME NEW m, Room(m)
    PROVE  PipelineSpec => ImplementsRunner
<1>1. PipelineInit => Run!Init
  BY DEF PipelineInit
<1>2. /\ GenInv /\ PipeInv /\ RunInv /\ GenInv' /\ PipeInv' /\ [PipelineNext]_pipeline
      => [misread' # {} \/ [Run!Next]_(Run!vars)]_pipeline
  BY StepRuns
<1> QED
  BY <1>1, <1>2, PipelineInvariance, RunInvariance, PTL DEF PipelineSpec, ImplementsRunner
-----------------------------------------------------------------------------
(* What a pass finds, misread files or not.                                *)

(* The server refuses only a text that was read cut off, or a view that    *)
(* needs a table whose file was misread: whatever else a generated CREATE  *)
(* needs was created by a file that sorts before its own and that the      *)
(* pass, or one before it, has recorded.                                   *)
THEOREM OnlyBrokenFilesRefused ==
    ASSUME NEW m, Room(m)
    PROVE  PipelineSpec => []RefusedOnlyBroken
<1>1. GenInv /\ DependenciesFirst /\ PipeInv /\ RunInv => RefusedOnlyBroken
  <2> SUFFICES ASSUME GenInv, DependenciesFirst, PipeInv, RunInv,
                      rpc[Runner] = "exec",
                      stmt[Runner] <= Len(Contents[Current]),
                      Current[2] # "broken",
                      ~\E h \in misread : h.obj \in Needed(Current[1].obj)
               PROVE  Run!CanRun(Contents[Current][stmt[Runner]])
    BY DEF RefusedOnlyBroken, Current
  <2> DEFINE f == Current[1]
             k == stmt[Runner]
  <2>1. /\ PassType /\ Current \in Published /\ k \in Nat \ {0}
        /\ f \in files /\ Listed(f) \in Found
        /\ \A G \in Found \ Done : Sorted[Listed(f)] <= Sorted[G]
        /\ Done \subseteq Recorded
        /\ \A h \in files : h.num < f.num => Listed(h) \in Found
    <3>1. PassType /\ Current \in Published /\ k \in Nat \ {0}
      BY PassTypes DEF RunInv
    <3>2. /\ f \in files /\ Listed(f) \in Found
          /\ \A G \in Found \ Done : Sorted[Listed(f)] <= Sorted[G]
      BY DEF RunInv, TurnInv
    <3>3. Listed(f)[1] = f
      BY <3>2, ListedPublished
    <3> QED
      BY <3>1, <3>2, <3>3 DEF RunInv, ListInv
  <2>2. Current[2] # "empty"
    BY <2>1 DEF Contents
  <2>3. Contents[Current] = <<Create(f.obj)>>
    BY <2>1, <2>2 DEF Contents
  <2>4. k = 1 /\ Contents[Current][k] = Create(f.obj)
    BY <2>1, <2>3
  <2>5. ASSUME NEW t \in Needed(f.obj)
        PROVE  t \in objects
    <3>1. f.obj \in Views /\ t \in Reads[f.obj]
      BY <2>5 DEF Needed
    <3>2. PICK h \in files \ torn : h.obj = t /\ h.num < f.num
      BY <2>1, <3>1 DEF DependenciesFirst, PipeInv, FilesOf
    <3>3. fate[h] = "whole" /\ Listed(h) \in Found /\ h \notin misread
      BY <2>1, <2>5, <3>2 DEF PipeInv
    <3>4. /\ Listed(h) \in Published /\ Listed(h)[1] = h
          /\ Listed(f) \in Published /\ Listed(f)[1] = f
      BY <2>1, <3>2, ListedPublished
    <3>5. Sorted[Listed(h)] < Sorted[Listed(f)]
      BY <3>2, <3>4, SortedByNumber
    <3>6. Sorted[Listed(h)] \in Nat /\ Sorted[Listed(f)] \in Nat
      BY <3>4, SpotOrder
    <3>7. Listed(h) \in Recorded
      BY <2>1, <3>3, <3>5, <3>6
    <3> QED
      BY <3>2, <3>3, <3>7 DEF RunInv, MadeInv
  <2> QED
    BY <2>4, <2>5 DEF Run!CanRun, Create
<1> QED
  BY <1>1, PipelineInvariance, RunInvariance, PTL

(* No object is lost by a crash: when a pass returned Ok, every object     *)
(* whose journalled file it listed is on the server, but for one whose     *)
(* file a pass read in the middle of its write.                            *)
THEOREM OkPassesCreateJournalled ==
    ASSUME NEW m, Room(m)
    PROVE  PipelineSpec => []OkCreatesJournalled
<1>1. ASSUME GenInv, PipeInv, RunInv, JournalledFilesExist, JournalledFilesWhole
      PROVE  OkCreatesJournalled
  <2> SUFFICES ASSUME rpc[Runner] = "ok",
                      NEW f \in ToSet(journal), Listed(f) \in discovered[Runner],
                      f \notin misread
               PROVE  f.obj \in objects
    BY DEF OkCreatesJournalled
  <2>1. f \in files \ torn
    BY <1>1 DEF JournalledFilesExist, JournalledFilesWhole, PipeInv
  <2>2. fate[f] = "whole"
    BY <1>1, <2>1 DEF PipeInv
  <2>3. Listed(f) \in Recorded
    BY <1>1 DEF RunInv, ListInv, Found
  <2> QED
    BY <1>1, <2>1, <2>2, <2>3 DEF RunInv, MadeInv
<1> QED
  BY <1>1, PipelineInvariance, RunInvariance, GeneratorRuns, JournalNamesFiles,
     JournalNamesWholeFiles, PTL
=============================================================================
