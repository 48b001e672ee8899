---------------------- MODULE MigrationGeneratorProofs ----------------------
(***************************************************************************)
(* The safety of MigrationGenerator for every set of processes, tables,    *)
(* views and calls and every bound.  The two journal invariants hold       *)
(* however calls interleave; the rest, as in the module, while no two      *)
(* calls have overlapped, and what depends on the numbers as long as they  *)
(* fit the digits the generator's pattern reads.                           *)
(***************************************************************************)
EXTENDS MigrationGenerator, TLAPS, FiniteSetTheorems, WellFoundedInduction

(* Every number of the directory has the digits the pattern knows.         *)
InRange == \A f \in files : f.num <= LastNumber

EachOnce(log) == \A i, j \in DOMAIN log : log[i].obj = log[j].obj => i = j

(* Past the load a call works on its own copy of the journal.              *)
Loaded(g) == pc[g] \in {"list", "emit", "write", "save"}

(* Of any call, whatever the others do meanwhile.                          *)
CopyInv ==
    /\ ToSet(journal) \subseteq files /\ EachOnce(journal)
    /\ \A g \in Generators :
           /\ ToSet(entries[g]) \subseteq files /\ EachOnce(entries[g])
           /\ pc[g] \in {"load", "list"} => skipped[g] = {} /\ created[g] = << >>
           /\ pc[g] = "load" => entries[g] = << >>
           /\ pc[g] = "write" =>
                  queue[g] # << >> /\ NextFile(g) \in files
                  /\ Head(queue[g]) \notin Captured(entries[g])

(* Of calls that never overlapped: the copy of the call under way is the   *)
(* journal and what the call has added, so it knows all that is captured.  *)
CopyIsCurrent(g) ==
    Loaded(g) =>
        /\ IF pc[g] = "save" THEN journal = << >>
                             ELSE ~unread /\ (created[g] = << >> => entries[g] = journal)
        /\ Captured(journal) \subseteq Captured(entries[g])
        /\ skipped[g] \cup Captured(created[g]) \subseteq Captured(entries[g])
        /\ ToSet(entries[g]) \cap torn = {}

AloneInv ==
    ~overlapped =>
        /\ \A g, h \in Generators : pc[g] \in Busy /\ pc[h] \in Busy => g = h
        /\ \A g \in Generators : CopyIsCurrent(g)
        /\ ToSet(journal) \cap torn = {}

(* A view that the call has still to visit comes after its tables: each is *)
(* captured by now or stands before it in the queue.                       *)
Awaits(g, i, t) == t \in Captured(entries[g]) \/ \E j \in DOMAIN queue[g] : j < i /\ queue[g][j] = t
QueueInv ==
    \A g \in Generators : pc[g] \in Busy =>
        \A i \in DOMAIN queue[g] : queue[g][i] \in Views =>
            \A t \in Reads[queue[g][i]] : Awaits(g, i, t)

(* An object has one file for nothing once it is captured, in the journal  *)
(* or in the copy that will replace it; every other file is paid for.      *)
Paid(o) ==
    \/ o \in Captured(journal)
    \/ \E g \in Generators : Loaded(g) /\ o \in Captured(entries[g])
    \/ \E g \in Generators : pc[g] = "write" /\ o = Head(queue[g])
CountInv ==
    /\ IsFiniteSet(files)
    /\ ~overlapped =>
           \A o \in Objects :
               Cardinality(FilesOf(o)) <= faults + (IF Paid(o) THEN 1 ELSE 0)

(* The file being written is the last one.                                 *)
WriteIsLast ==
    ~overlapped =>
        \A g \in Generators : pc[g] = "write" =>
            \A f \in files : f.num < number[g] \/ f = NextFile(g)

(* The journal is emptied before it is written anew: what an earlier call  *)
(* captured is in the copy meanwhile.                                      *)
CapturedKept ==
    ~overlapped =>
        \A g, h \in Generators : Loaded(g) /\ pc[h] = "ok" =>
            skipped[h] \cup Captured(created[h]) \subseteq Captured(entries[g])

NumberInv == InRange => NumberIsFresh /\ WriteIsLast
OkInv == OkMeansCaptured /\ CapturedKept
OrderInv  == InRange => DependenciesFirst

IInv ==
    /\ TypeOK /\ CopyInv /\ AloneInv /\ QueueInv
    /\ NumberInv /\ OrderInv /\ OkInv /\ CountInv
-----------------------------------------------------------------------------
(* Logs.                                                                   *)

LEMMA CapturedIff ==
    ASSUME NEW log, NEW o
    PROVE  o \in Captured(log) <=> \E f \in ToSet(log) : f.obj = o
BY DEF Captured, ToSet

LEMMA EmptyLog == Captured(<< >>) = {} /\ ToSet(<< >>) = {} /\ EachOnce(<< >>)
BY DEF Captured, ToSet, EachOnce

LEMMA AppendLog ==
    ASSUME NEW log \in Seq(File), NEW f \in File
    PROVE  /\ Append(log, f) \in Seq(File)
           /\ Append(log, f) # << >>
           /\ ToSet(Append(log, f)) = ToSet(log) \cup {f}
           /\ Captured(Append(log, f)) = Captured(log) \cup {f.obj}
           /\ EachOnce(log) /\ f.obj \notin Captured(log) => EachOnce(Append(log, f))
<1>1. /\ Append(log, f) \in Seq(File) /\ Append(log, f) # << >>
      /\ DOMAIN Append(log, f) = 1..(Len(log) + 1) /\ DOMAIN log = 1..Len(log)
      /\ Len(log) \in Nat
      /\ \A i \in 1..Len(log) : Append(log, f)[i] = log[i]
      /\ Append(log, f)[Len(log) + 1] = f
  OBVIOUS
<1>2. ToSet(Append(log, f)) = ToSet(log) \cup {f}
  BY <1>1 DEF ToSet
<1>3. Captured(Append(log, f)) = Captured(log) \cup {f.obj}
  BY <1>1 DEF Captured
<1>4. EachOnce(log) /\ f.obj \notin Captured(log) => EachOnce(Append(log, f))
  BY <1>1 DEF EachOnce, Captured
<1> QED
  BY <1>1, <1>2, <1>3, <1>4
-----------------------------------------------------------------------------
(* Numbers.                                                                *)

LEMMA SeqMonotone ==
    ASSUME NEW S, NEW T, S \subseteq T, NEW s \in Seq(S)
    PROVE  s \in Seq(T)
OBVIOUS

(* The largest of a set of numbers that has a bound is one of them.        *)
LEMMA MaxOfBounded ==
    ASSUME NEW S \in SUBSET Nat, S # {}, NEW m \in Nat, \A x \in S : x <= m
    PROVE  Max(S) \in S /\ \A x \in S : x <= Max(S)
<1> DEFINE Above == {n \in Nat : \A x \in S : x <= n}
<1> DEFINE Less == OpToRel(<, Nat)
<1>0. Above \subseteq Nat /\ Above # {}
  OBVIOUS
<1>1. PICK least \in Above : \A n \in Above : ~(<<n, least>> \in Less)
  <2> HIDE DEF Above
  <2> QED
    BY <1>0, NatLessThanWellFounded, WFMin, Zenon
<1>2. \A n \in Above : least <= n
  <2> SUFFICES ASSUME NEW n \in Above, n < least PROVE FALSE
    BY <1>0
  <2>1. <<n, least>> \in Less
    BY Zenon DEF OpToRel
  <2> QED
    BY <1>1, <2>1
<1> HIDE DEF Less
<1>3. least \in S
  <2> SUFFICES ASSUME least \notin S PROVE FALSE
    OBVIOUS
  <2>1. \A x \in S : x <= least - 1
    BY <1>1
  <2> HIDE DEF Above
  <2>2. PICK x \in S : x <= least - 1
    BY <2>1
  <2> USE DEF Above
  <2>3. least - 1 \in Above
    BY <1>0, <2>1, <2>2
  <2> QED
    BY <1>0, <1>2, <2>3
<1> QED
  BY <1>1, <1>3 DEF Max

LEMMA NextNumber ==
    ASSUME TypeOK
    PROVE  /\ NextMigrationNumber \in Nat \ {0}
           /\ \A f \in files : f.num <= LastNumber => f.num < NextMigrationNumber
<1> DEFINE Known == {f.num : f \in {h \in files : h.num <= LastNumber}} \cup {0}
<1>1. /\ Known \in SUBSET Nat /\ Known # {}
      /\ LastNumber \in Nat /\ \A x \in Known : x <= LastNumber
  BY BoundsAssumption DEF TypeOK, File
<1>2. Max(Known) \in Known /\ \A x \in Known : x <= Max(Known)
  BY <1>1, MaxOfBounded
<1>3. NextMigrationNumber = Max(Known) + 1
  BY DEF NextMigrationNumber
<1>4. \A f \in files : f.num <= LastNumber => f.num \in Known
  OBVIOUS
<1>5. files \subseteq File
  BY DEF TypeOK
<1>6. Max(Known) \in Nat
  BY <1>1, <1>2
<1>7. ASSUME NEW f \in files, f.num <= LastNumber
      PROVE  f.num <= Max(Known) /\ f.num \in Nat
  BY <1>2, <1>4, <1>5, <1>7 DEF File
<1> HIDE DEF Known
<1> QED
  BY <1>3, <1>6, <1>7
-----------------------------------------------------------------------------
(* Type correctness.                                                       *)

LEMMA EmitOrderType ==
    ASSUME NEW c \in Calls
    PROVE  EmitOrder(c) \in Seq(Objects)
<1>1. c[1] \in Seq(Tables) /\ c[2] \in Seq(Views)
  BY CallsAssumption
<1>2. c[1] \in Seq(Objects) /\ c[2] \in Seq(Objects)
  BY <1>1, SeqMonotone DEF Objects
<1> QED
  BY <1>2 DEF EmitOrder

LEMMA TypeInit == Init => TypeOK
<1> SUFFICES ASSUME Init PROVE TypeOK
  OBVIOUS
<1>1. /\ pc \in [Generators -> Busy \cup Resting]
      /\ queue \in [Generators -> Seq(Objects)]
      /\ entries \in [Generators -> Seq(File)] /\ created \in [Generators -> Seq(File)]
      /\ number \in [Generators -> Nat \ {0}]
      /\ skipped \in [Generators -> SUBSET Objects]
  BY DEF Init, Resting
<1>2. files \subseteq File /\ torn \subseteq files /\ journal \in Seq(File)
  BY DEF Init
<1>3. overlapped \in BOOLEAN /\ unread \in BOOLEAN
  BY Zenon DEF Init
<1>4. {calls, byHand, faults} \subseteq Nat
  BY DEF Init
<1> QED
  BY <1>1, <1>2, <1>3, <1>4 DEF TypeOK

LEMMA TypeStep == TypeOK /\ CopyInv /\ [Next]_vars => TypeOK'
<1> SUFFICES ASSUME TypeOK, CopyInv, [Next]_vars PROVE TypeOK'
  OBVIOUS
<1> USE DEF TypeOK, Goto, Busy, Resting, disk, call, used
<1>1. ASSUME NEW g \in Generators, NEW c \in Calls, Begin(g, c)
      PROVE  TypeOK'
  <2>1. /\ pc' \in [Generators -> Busy \cup Resting]
        /\ queue' \in [Generators -> Seq(Objects)]
        /\ entries' \in [Generators -> Seq(File)]
        /\ created' \in [Generators -> Seq(File)]
    BY <1>1, EmitOrderType DEF Begin
  <2>2. /\ number' \in [Generators -> Nat \ {0}]
        /\ skipped' \in [Generators -> SUBSET Objects]
        /\ calls' \in Nat /\ overlapped' \in BOOLEAN
    BY <1>1 DEF Begin
  <2> QED
    BY <1>1, <2>1, <2>2 DEF Begin
<1>2. ASSUME NEW g \in Generators, LoadJournal(g) \/ LoadFails(g)
      PROVE  TypeOK'
  BY <1>2 DEF LoadJournal, LoadFails
<1>3. ASSUME NEW g \in Generators, ListFiles(g)
      PROVE  TypeOK'
  BY <1>3, NextNumber DEF ListFiles
<1>4. ASSUME NEW g \in Generators, Skip(g)
      PROVE  TypeOK'
  BY <1>4 DEF Skip
<1>5. ASSUME NEW g \in Generators, Emit(g)
      PROVE  TypeOK'
  <2> DEFINE f == NextFile(g)
  <2>1. f \in File /\ Tail(queue[g]) \in Seq(Objects)
    BY <1>5 DEF Emit, CopyInv, NextFile, Name, File
  <2>2. /\ entries' \in [Generators -> Seq(File)]
        /\ created' \in [Generators -> Seq(File)]
    BY <1>5, <2>1, AppendLog DEF Emit, Emitted
  <2>3. /\ queue' \in [Generators -> Seq(Objects)]
        /\ number' \in [Generators -> Nat \ {0}]
    BY <1>5, <2>1 DEF Emit
  <2> QED
    BY <1>5, <2>2, <2>3 DEF Emit
<1>6. ASSUME NEW g \in Generators, OpenJournal(g) \/ Save(g) \/ NothingToSave(g)
      PROVE  TypeOK'
  <2>1. pc' \in [Generators -> Busy \cup Resting]
    BY <1>6 DEF OpenJournal, Save, NothingToSave
  <2>5. journal' \in {entries[g], << >>, journal}
    BY <1>6, Zenon DEF OpenJournal, Save, NothingToSave, disk
  <2>2. journal' \in Seq(File)
    <3>1. entries[g] \in Seq(File) /\ << >> \in Seq(File) /\ journal \in Seq(File)
      OBVIOUS
    <3> QED
      BY <2>5, <3>1
  <2>3. unread' = TRUE \/ unread' = FALSE \/ unread' = unread
    BY <1>6, Zenon DEF OpenJournal, Save, NothingToSave, disk
  <2>4. unread' \in BOOLEAN
    <3>1. unread \in BOOLEAN
      OBVIOUS
    <3> QED
      BY <2>3, <3>1, Zenon
  <2> QED
    BY <1>6, <2>1, <2>2, <2>4 DEF OpenJournal, Save, NothingToSave
<1>7. ASSUME NEW g \in Generators, OpenFile(g)
      PROVE  TypeOK'
  <2>1. NextFile(g) \in File
    BY <1>7 DEF OpenFile, NextFile, Name, File
  <2> QED
    BY <1>7, <2>1 DEF OpenFile
<1>11. ASSUME NEW g \in Generators, Throw(g)
       PROVE  TypeOK'
  BY <1>11 DEF Throw
<1>8. ASSUME NEW n \in 1..LastNumber, WriteByHand(n)
      PROVE  TypeOK'
  <2>1. Name(n, ByHand) \in File
    BY BoundsAssumption DEF Name, File
  <2> QED
    BY <1>8, <2>1 DEF WriteByHand
<1>9. CASE DiscardJournal
  BY <1>9 DEF DiscardJournal
<1>10. CASE UNCHANGED vars
  BY <1>10 DEF vars
<1> QED
  BY <1>1, <1>2, <1>3, <1>4, <1>5, <1>6, <1>7, <1>8, <1>9, <1>10, <1>11 DEF Next, Step
-----------------------------------------------------------------------------
(* What the steps do to the directory and to the call.                     *)

LEMMA EmitEffect ==
    ASSUME TypeOK, CopyInv, NEW g \in Generators, Emit(g)
    PROVE  \E f \in files :
               /\ f = NextFile(g) /\ f \in File
               /\ f.obj = Head(queue[g]) /\ f.obj \in Objects /\ f.num = number[g]
               /\ f.obj \notin Captured(entries[g])
               /\ files' = files /\ torn' = torn \ {f}
               /\ ToSet(entries'[g]) = ToSet(entries[g]) \cup {f}
               /\ Captured(entries'[g]) = Captured(entries[g]) \cup {f.obj}
               /\ EachOnce(entries[g]) => EachOnce(entries'[g])
               /\ created'[g] # << >>
               /\ Captured(created'[g]) = Captured(created[g]) \cup {f.obj}
               /\ queue'[g] = Tail(queue[g]) /\ number'[g] = number[g] + 1
               /\ \A h \in Generators \ {g} :
                      /\ entries'[h] = entries[h] /\ created'[h] = created[h]
                      /\ queue'[h] = queue[h] /\ number'[h] = number[h]
<1> DEFINE f == NextFile(g)
<1>0. f \in files /\ queue[g] # << >> /\ f.obj \notin Captured(entries[g])
  BY DEF Emit, CopyInv, NextFile, Name
<1>1. /\ f \in File /\ f.obj = Head(queue[g]) /\ f.obj \in Objects /\ f.num = number[g]
      /\ files' = files /\ torn' = torn \ {f}
      /\ entries' = [entries EXCEPT ![g] = Append(@, f)]
      /\ created' = [created EXCEPT ![g] = Append(@, f)]
      /\ queue' = [queue EXCEPT ![g] = Tail(@)]
      /\ number' = [number EXCEPT ![g] = @ + 1]
  BY <1>0 DEF Emit, Emitted, NextFile, Name, File, TypeOK
<1>2. entries'[g] = Append(entries[g], f) /\ created'[g] = Append(created[g], f)
  BY <1>1 DEF TypeOK
<1>3. entries[g] \in Seq(File) /\ created[g] \in Seq(File)
  BY DEF TypeOK
<1>4. \A h \in Generators \ {g} :
          /\ entries'[h] = entries[h] /\ created'[h] = created[h]
          /\ queue'[h] = queue[h] /\ number'[h] = number[h]
  BY <1>1 DEF TypeOK
<1>5. queue'[g] = Tail(queue[g]) /\ number'[g] = number[g] + 1
  BY <1>1 DEF TypeOK
<1>6. ToSet(Append(entries[g], f)) = ToSet(entries[g]) \cup {f}
  BY <1>1, <1>3, AppendLog
<1>7. /\ Captured(Append(entries[g], f)) = Captured(entries[g]) \cup {f.obj}
      /\ EachOnce(entries[g]) => EachOnce(Append(entries[g], f))
      /\ Append(created[g], f) # << >>
      /\ Captured(Append(created[g], f)) = Captured(created[g]) \cup {f.obj}
  BY <1>0, <1>1, <1>3, AppendLog
<1>8. f = NextFile(g)
  OBVIOUS
<1> HIDE DEF f
<1> QED
  BY <1>0, <1>1, <1>2, <1>4, <1>5, <1>6, <1>7, <1>8

LEMMA OpenFileEffect ==
    ASSUME TypeOK, NEW g \in Generators, OpenFile(g)
    PROVE  \E f \in File :
               /\ f = NextFile(g) /\ f = NextFile(g)'
               /\ f.obj = Head(queue[g]) /\ f.obj \in Objects /\ f.num = number[g]
               /\ f.obj \notin Captured(entries[g])
               /\ files' = files \cup {f} /\ torn' = torn \cup {f}
<1> DEFINE f == NextFile(g)
<1>1. /\ f \in File /\ f.obj = Head(queue[g]) /\ f.obj \in Objects /\ f.num = number[g]
      /\ f.obj \notin Captured(entries[g])
      /\ files' = files \cup {f} /\ torn' = torn \cup {f}
  BY DEF OpenFile, CapturedSet, NextFile, Name, File, TypeOK
<1>2. f = NextFile(g) /\ f = NextFile(g)'
  BY DEF OpenFile, call, NextFile, Name
<1> HIDE DEF f
<1> QED
  BY <1>1, <1>2

(* Files are never removed, and overlapping cannot be undone.              *)
LEMMA Grows ==
    ASSUME [Next]_vars
    PROVE  files \subseteq files' /\ (~overlapped' => ~overlapped)
<1>1. ASSUME NEW g \in Generators, NEW c \in Calls, Begin(g, c)
      PROVE  files \subseteq files' /\ (~overlapped' => ~overlapped)
  <2>1. files' = files
    BY <1>1 DEF Begin, disk
  <2>2. ~overlapped' => ~overlapped
    BY <1>1, Zenon DEF Begin
  <2> QED
    BY <2>1, <2>2
<1>2. ASSUME NEW g \in Generators, Step(g)
      PROVE  files \subseteq files' /\ overlapped' = overlapped
  BY <1>2 DEF Step, LoadJournal, LoadFails, ListFiles, Skip, OpenFile, Emit, OpenJournal,
     Save, NothingToSave, disk, used
<1>3. ASSUME NEW g \in Generators, Throw(g)
      PROVE  files \subseteq files' /\ overlapped' = overlapped
  BY <1>3 DEF Throw, disk
<1>4. ASSUME NEW n \in 1..LastNumber, WriteByHand(n)
      PROVE  files \subseteq files' /\ overlapped' = overlapped
  BY <1>4 DEF WriteByHand
<1>5. CASE DiscardJournal \/ UNCHANGED vars
  BY <1>5 DEF DiscardJournal, vars, disk, used
<1> QED
  BY <1>1, <1>2, <1>3, <1>4, <1>5 DEF Next
-----------------------------------------------------------------------------
(* However calls interleave, a journal and a copy of it name files that are *)
(* there, each object once.                                                 *)

LEMMA CopyStep ==
    ASSUME TypeOK, CopyInv, [Next]_vars
    PROVE  CopyInv'
<1> USE DEF CopyInv, NextFile, Goto
<1>0. files \subseteq files'
  BY Grows
<1>1. ASSUME NEW g \in Generators, NEW c \in Calls, Begin(g, c)
      PROVE  CopyInv'
  BY <1>0, <1>1, EmptyLog DEF Begin, TypeOK, disk
<1>2. ASSUME NEW g \in Generators,
             LoadJournal(g) \/ LoadFails(g) \/ ListFiles(g) \/ Skip(g) \/ NothingToSave(g)
      PROVE  CopyInv'
  BY <1>0, <1>2 DEF LoadJournal, LoadFails, ListFiles, Skip, NothingToSave, TypeOK, disk, call
<1>9. ASSUME NEW g \in Generators, OpenFile(g)
      PROVE  CopyInv'
  <2>1. /\ pc[g] = "emit" /\ pc' = [pc EXCEPT ![g] = "write"] /\ journal' = journal
        /\ UNCHANGED call /\ queue[g] # << >> /\ Head(queue[g]) \notin Captured(entries[g])
    BY <1>9 DEF OpenFile, CapturedSet
  <2>2. NextFile(g)' = NextFile(g) /\ NextFile(g) \in files'
    BY <1>9, OpenFileEffect
  <2> QED
    BY <1>0, <2>1, <2>2 DEF call, TypeOK
<1>3. ASSUME NEW g \in Generators, Emit(g)
      PROVE  CopyInv'
  <2>1. /\ pc' = [pc EXCEPT ![g] = "emit"] /\ pc[g] = "write" /\ journal' = journal
        /\ skipped' = skipped
    BY <1>3 DEF Emit
  <2>2. /\ ToSet(entries'[g]) \subseteq files' /\ EachOnce(entries'[g])
        /\ pc'[g] = "emit"
    BY <1>0, <1>3, <2>1, EmitEffect DEF TypeOK
  <2>3. \A h \in Generators \ {g} :
            /\ entries'[h] = entries[h] /\ created'[h] = created[h]
            /\ queue'[h] = queue[h] /\ number'[h] = number[h] /\ pc'[h] = pc[h]
    BY <1>3, <2>1, EmitEffect DEF TypeOK
  <2> QED
    BY <1>0, <2>1, <2>2, <2>3
<1>4. ASSUME NEW g \in Generators, OpenJournal(g) \/ Save(g)
      PROVE  CopyInv'
  BY <1>0, <1>4, EmptyLog DEF OpenJournal, Save, TypeOK, call
<1>5. ASSUME NEW g \in Generators, Throw(g)
      PROVE  CopyInv'
  BY <1>0, <1>5, EmptyLog DEF Throw, TypeOK, disk, call
<1>6. ASSUME NEW n \in 1..LastNumber, WriteByHand(n)
      PROVE  CopyInv'
  BY <1>0, <1>6 DEF WriteByHand, call
<1>7. CASE DiscardJournal
  BY <1>0, <1>7 DEF DiscardJournal, TypeOK, call
<1>8. CASE UNCHANGED vars
  BY <1>8 DEF vars, disk, call
<1> QED
  BY <1>1, <1>2, <1>3, <1>4, <1>5, <1>6, <1>7, <1>8, <1>9 DEF Next, Step
-----------------------------------------------------------------------------
(* Calls that do not overlap.                                              *)

(* A call that steps is the only one under way.                            *)
LEMMA OthersRest ==
    ASSUME TypeOK, AloneInv, ~overlapped, NEW g \in Generators, pc[g] \in Busy
    PROVE  \A h \in Generators \ {g} : pc[h] \in Resting /\ ~Loaded(h)
BY DEF AloneInv, TypeOK, Busy, Resting, Loaded

LEMMA AloneStep ==
    ASSUME TypeOK, CopyInv, AloneInv, [Next]_vars
    PROVE  AloneInv'
<1> SUFFICES ASSUME ~overlapped'
             PROVE  /\ \A g, h \in Generators : pc'[g] \in Busy /\ pc'[h] \in Busy => g = h
                    /\ \A g \in Generators : CopyIsCurrent(g)'
                    /\ ToSet(journal') \cap torn' = {}
  BY DEF AloneInv, Busy
<1>0. ~overlapped /\ files \subseteq files'
  BY Grows
<1> USE DEF Goto, CopyIsCurrent, Loaded, Busy, Resting
<1>1. ASSUME NEW g \in Generators, NEW c \in Calls, Begin(g, c)
      PROVE  AloneInv'
  <2>1. \A h \in Generators : pc[h] \notin Busy
    BY <1>1, Zenon DEF Begin
  <2> QED
    BY <1>0, <1>1, <2>1 DEF Begin, TypeOK, AloneInv, disk
<1>2. ASSUME NEW g \in Generators, LoadJournal(g)
      PROVE  AloneInv'
  BY <1>0, <1>2, EmptyLog DEF LoadJournal, TypeOK, AloneInv, CopyInv, disk, used
<1>13. ASSUME NEW g \in Generators, OpenFile(g)
       PROVE  AloneInv'
  <2>1. /\ pc[g] = "emit" /\ pc' = [pc EXCEPT ![g] = "write"] /\ journal' = journal
        /\ unread' = unread /\ overlapped' = overlapped /\ UNCHANGED call
    BY <1>13 DEF OpenFile, used
  <2>2. \A h \in Generators \ {g} : ~Loaded(h)
    BY <1>0, <2>1, OthersRest
  <2>3. PICK f \in File : f.obj \notin Captured(entries[g]) /\ torn' = torn \cup {f}
    BY <1>13, OpenFileEffect
  <2>4. f \notin ToSet(entries[g]) /\ f.obj \notin Captured(journal)
    BY <1>0, <2>1, <2>3, CapturedIff DEF AloneInv
  <2>5. f \notin ToSet(journal)
    BY <2>4, CapturedIff
  <2>6. ToSet(journal) \cap torn' = {} /\ CopyIsCurrent(g)'
    BY <1>0, <2>1, <2>3, <2>4, <2>5 DEF AloneInv, call, TypeOK
  <2> QED
    BY <1>0, <2>1, <2>2, <2>6 DEF TypeOK, AloneInv, call
<1>3. ASSUME NEW g \in Generators, LoadFails(g) \/ NothingToSave(g)
      PROVE  AloneInv'
  BY <1>0, <1>3 DEF LoadFails, NothingToSave, TypeOK, AloneInv, disk, call, used
<1>7. ASSUME NEW g \in Generators, ListFiles(g)
      PROVE  AloneInv'
  <2>1. /\ UNCHANGED <<disk, entries, skipped, created, overlapped>>
        /\ pc[g] = "list" /\ pc' = [pc EXCEPT ![g] = "emit"]
    BY <1>7 DEF ListFiles, used
  <2> QED
    BY <1>0, <2>1 DEF TypeOK, AloneInv, disk
<1>12. ASSUME NEW g \in Generators, Skip(g)
       PROVE  AloneInv'
  <2>1. /\ pc' = pc /\ UNCHANGED <<disk, entries, created, used>>
        /\ skipped' = [skipped EXCEPT ![g] = @ \cup {Head(queue[g])}]
        /\ Head(queue[g]) \in Captured(entries[g])
    BY <1>12 DEF Skip, CapturedSet
  <2>2. \A h \in Generators :
            Loaded(h) /\ skipped[h] \subseteq Captured(entries[h])
                => skipped'[h] \subseteq Captured(entries[h])
    BY <2>1 DEF TypeOK
  <2> QED
    BY <1>0, <2>1, <2>2 DEF AloneInv, disk, used
<1>4. ASSUME NEW g \in Generators, Emit(g)
      PROVE  AloneInv'
  <2>1. /\ pc' = [pc EXCEPT ![g] = "emit"] /\ pc[g] = "write" /\ journal' = journal
        /\ unread' = unread /\ skipped' = skipped /\ overlapped' = overlapped
    BY <1>4 DEF Emit, used
  <2>2. \A h \in Generators \ {g} : ~Loaded(h)
    BY <1>0, <2>1, OthersRest
  <2>3. CopyIsCurrent(g)'
    BY <1>0, <1>4, <2>1, EmitEffect DEF AloneInv, TypeOK
  <2>4. ToSet(journal) \cap torn' = {}
    BY <1>0, <1>4, EmitEffect DEF AloneInv
  <2> QED
    BY <1>0, <2>1, <2>2, <2>3, <2>4 DEF AloneInv, TypeOK
<1>5. ASSUME NEW g \in Generators, Save(g)
      PROVE  AloneInv'
  <2>1. journal' = entries[g] /\ pc' = [pc EXCEPT ![g] = "ok"]
    BY <1>0, <1>5 DEF Save, AloneInv
  <2>2. \A h \in Generators \ {g} : ~Loaded(h)
    BY <1>0, <1>5, OthersRest DEF Save
  <2> QED
    BY <1>0, <1>5, <2>1, <2>2 DEF Save, TypeOK, AloneInv, call, used
<1>6. ASSUME NEW g \in Generators, Throw(g)
      PROVE  AloneInv'
  BY <1>0, <1>6 DEF Throw, TypeOK, AloneInv, disk, call
<1>8. ASSUME NEW g \in Generators, OpenJournal(g)
      PROVE  AloneInv'
  <2>1. /\ journal' = << >> /\ pc' = [pc EXCEPT ![g] = "save"] /\ torn' = torn
        /\ pc[g] = "emit" /\ overlapped' = overlapped /\ UNCHANGED call
    BY <1>8 DEF OpenJournal, used
  <2>2. \A h \in Generators \ {g} : ~Loaded(h)
    BY <1>0, <2>1, OthersRest
  <2>3. CopyIsCurrent(g)'
    BY <1>0, <2>1, EmptyLog DEF TypeOK, AloneInv, call
  <2> QED
    BY <1>0, <2>1, <2>2, <2>3, EmptyLog DEF TypeOK, AloneInv, call
<1>9. ASSUME NEW n \in 1..LastNumber, WriteByHand(n)
      PROVE  AloneInv'
  BY <1>0, <1>9 DEF WriteByHand, AloneInv, call
<1>10. CASE DiscardJournal
  BY <1>0, <1>10 DEF DiscardJournal, AloneInv, TypeOK, call, used
<1>11. CASE UNCHANGED vars
  BY <1>0, <1>11 DEF vars, disk, call, used, AloneInv
<1> QED
  BY <1>1, <1>2, <1>3, <1>4, <1>5, <1>6, <1>7, <1>8, <1>9, <1>10, <1>11,
     <1>12, <1>13 DEF Next, Step, AloneInv

(* A call saves what it loaded and added, so what an earlier one captured  *)
(* stays captured.                                                         *)
LEMMA OkStep ==
    ASSUME TypeOK, CopyInv, AloneInv, OkInv, [Next]_vars
    PROVE  OkMeansCaptured'
<1> SUFFICES ASSUME ~overlapped', ~unread', NEW h \in Generators, pc'[h] = "ok"
             PROVE  skipped'[h] \cup Captured(created'[h]) \subseteq Captured(journal')
  BY DEF OkMeansCaptured
<1> DEFINE Ok == skipped'[h] \cup Captured(created'[h]) \subseteq Captured(journal')
<1>0. ~overlapped
  BY Grows
<1> USE DEF Goto, OkInv, OkMeansCaptured, Busy, Resting
<1>1. ASSUME NEW g \in Generators, NEW c \in Calls, Begin(g, c)
      PROVE  Ok
  BY <1>0, <1>1 DEF Begin, TypeOK, disk
<1>2. ASSUME NEW g \in Generators,
             LoadJournal(g) \/ LoadFails(g) \/ ListFiles(g) \/ OpenFile(g) \/ Throw(g)
      PROVE  Ok
  BY <1>0, <1>2 DEF LoadJournal, LoadFails, ListFiles, OpenFile, Throw, TypeOK, disk, call, used
<1>3. ASSUME NEW g \in Generators, Skip(g)
      PROVE  Ok
  BY <1>0, <1>3 DEF Skip, TypeOK, disk, used
<1>4. ASSUME NEW g \in Generators, Emit(g)
      PROVE  Ok
  <2>1. /\ pc' = [pc EXCEPT ![g] = "emit"] /\ pc[g] = "write" /\ journal' = journal
        /\ unread' = unread /\ skipped' = skipped
    BY <1>4 DEF Emit, used
  <2> QED
    BY <1>0, <1>4, <2>1, EmitEffect DEF TypeOK
<1>5. ASSUME NEW g \in Generators, Save(g)
      PROVE  Ok
  <2>1. CopyIsCurrent(g) /\ UNCHANGED call /\ pc[g] = "save" /\ Loaded(g)
    BY <1>0, <1>5 DEF Save, AloneInv, Loaded
  <2>2. journal' = entries[g] /\ pc' = [pc EXCEPT ![g] = "ok"]
    BY <1>5, <2>1 DEF Save, CopyIsCurrent
  <2> QED
    BY <1>0, <2>1, <2>2 DEF CopyIsCurrent, CapturedKept, TypeOK, call
<1>6. ASSUME NEW g \in Generators, NothingToSave(g)
      PROVE  Ok
  <2>1. /\ CopyIsCurrent(g) /\ Loaded(g) /\ created[g] = << >> /\ UNCHANGED <<disk, call>>
        /\ pc[g] = "emit" /\ pc' = [pc EXCEPT ![g] = "ok"]
    BY <1>0, <1>6 DEF NothingToSave, AloneInv, Loaded
  <2> QED
    BY <1>0, <2>1 DEF CopyIsCurrent, TypeOK, disk, call
<1>7. ASSUME NEW g \in Generators, OpenJournal(g)
      PROVE  Ok
  BY <1>7 DEF OpenJournal
<1>8. ASSUME NEW n \in 1..LastNumber, WriteByHand(n)
      PROVE  Ok
  BY <1>0, <1>8 DEF WriteByHand, call
<1>9. CASE DiscardJournal
  BY <1>9 DEF DiscardJournal
<1>10. CASE UNCHANGED vars
  BY <1>0, <1>10 DEF vars, disk, call, used
<1> QED
  BY <1>1, <1>2, <1>3, <1>4, <1>5, <1>6, <1>7, <1>8, <1>9, <1>10 DEF Next, Step

(* The copy of the call under way keeps what earlier calls captured: none  *)
(* of them returns while it works.                                         *)
LEMMA KeptStep ==
    ASSUME TypeOK, CopyInv, AloneInv, OkInv, [Next]_vars
    PROVE  CapturedKept'
<1> SUFFICES ASSUME ~overlapped', NEW k \in Generators, Loaded(k)',
                    NEW h \in Generators, pc'[h] = "ok"
             PROVE  skipped'[h] \cup Captured(created'[h]) \subseteq Captured(entries'[k])
  BY DEF CapturedKept
<1> DEFINE Ok == skipped'[h] \cup Captured(created'[h]) \subseteq Captured(entries'[k])
<1>0. ~overlapped
  BY Grows
<1> USE DEF Goto, OkInv, CapturedKept, Loaded, Busy, Resting
<1>1. ASSUME NEW g \in Generators, NEW c \in Calls, Begin(g, c)
      PROVE  Ok
  BY <1>0, <1>1 DEF Begin, TypeOK
<1>2. ASSUME NEW g \in Generators, LoadJournal(g)
      PROVE  Ok
  <2>1. \A i \in Generators \ {g} : pc[i] \notin Busy
    BY <1>0, <1>2, OthersRest DEF LoadJournal
  <2>2. /\ pc' = [pc EXCEPT ![g] = "list"] /\ ~unread
        /\ entries' = [entries EXCEPT ![g] = journal]
        /\ UNCHANGED <<skipped, created>>
    BY <1>2 DEF LoadJournal
  <2>3. k = g /\ h # g /\ pc[h] = "ok"
    BY <2>1, <2>2 DEF TypeOK
  <2> QED
    BY <1>0, <2>2, <2>3 DEF OkMeansCaptured, TypeOK
<1>3. ASSUME NEW g \in Generators,
             \/ LoadFails(g) \/ ListFiles(g) \/ OpenFile(g) \/ OpenJournal(g) \/ Throw(g)
      PROVE  Ok
  BY <1>0, <1>3 DEF LoadFails, ListFiles, OpenFile, OpenJournal, Throw, TypeOK, call
<1>4. ASSUME NEW g \in Generators, Skip(g)
      PROVE  Ok
  BY <1>0, <1>4 DEF Skip, TypeOK
<1>5. ASSUME NEW g \in Generators, Emit(g)
      PROVE  Ok
  <2>1. /\ pc' = [pc EXCEPT ![g] = "emit"] /\ pc[g] = "write" /\ skipped' = skipped
    BY <1>5 DEF Emit
  <2> QED
    BY <1>0, <1>5, <2>1, EmitEffect DEF TypeOK
<1>6. ASSUME NEW g \in Generators, Save(g) \/ NothingToSave(g)
      PROVE  Ok
  <2>1. \A i \in Generators \ {g} : pc[i] \notin Busy
    BY <1>0, <1>6, OthersRest DEF Save, NothingToSave
  <2> QED
    BY <1>6, <2>1 DEF Save, NothingToSave, TypeOK
<1>7. ASSUME NEW n \in 1..LastNumber, WriteByHand(n)
      PROVE  Ok
  BY <1>0, <1>7 DEF WriteByHand, call
<1>8. CASE DiscardJournal \/ UNCHANGED vars
  BY <1>0, <1>8 DEF DiscardJournal, vars, call
<1> QED
  BY <1>1, <1>2, <1>3, <1>4, <1>5, <1>6, <1>7, <1>8 DEF Next, Step

(* The next number exceeds those of the directory: it did when the call    *)
(* listed the files, and since then it has been the only one to add any.   *)
LEMMA NumberStep ==
    ASSUME TypeOK, CopyInv, AloneInv, NumberInv, [Next]_vars
    PROVE  NumberInv'
<1> SUFFICES ASSUME InRange', ~overlapped', NEW h \in Generators
             PROVE  /\ pc'[h] = "emit" => \A f \in files' : f.num < number'[h]
                    /\ pc'[h] = "write" =>
                           \A f \in files' : f.num < number'[h] \/ f = NextFile(h)'
  BY DEF NumberInv, NumberIsFresh, WriteIsLast
<1> DEFINE Fresh == /\ pc'[h] = "emit" => \A f \in files' : f.num < number'[h]
                    /\ pc'[h] = "write" =>
                           \A f \in files' : f.num < number'[h] \/ f = NextFile(h)'
<1>0. ~overlapped /\ InRange
  BY Grows DEF InRange
<1> USE DEF Goto, NumberInv, NumberIsFresh, WriteIsLast, NextFile, Name, Busy, Resting
<1>1. ASSUME NEW g \in Generators, NEW c \in Calls, Begin(g, c)
      PROVE  Fresh
  BY <1>0, <1>1 DEF Begin, TypeOK, disk
<1>2. ASSUME NEW g \in Generators,
             \/ LoadJournal(g) \/ LoadFails(g) \/ Skip(g) \/ OpenJournal(g) \/ Save(g)
             \/ NothingToSave(g) \/ Throw(g)
      PROVE  Fresh
  BY <1>0, <1>2 DEF LoadJournal, LoadFails, Skip, OpenJournal, Save, NothingToSave, Throw,
     TypeOK, disk, call
<1>3. ASSUME NEW g \in Generators, ListFiles(g)
      PROVE  Fresh
  BY <1>0, <1>3, NextNumber DEF ListFiles, InRange, TypeOK, disk
<1>4. ASSUME NEW g \in Generators, Emit(g)
      PROVE  Fresh
  <2>1. pc' = [pc EXCEPT ![g] = "emit"] /\ pc[g] = "write"
    BY <1>4 DEF Emit
  <2>2. \A k \in Generators \ {g} : pc'[k] \in Resting
    BY <1>0, <2>1, OthersRest DEF TypeOK
  <2>3. number[g] \in Nat /\ files \subseteq File
    BY DEF TypeOK
  <2>4. /\ files' = files /\ number'[g] = number[g] + 1
        /\ \A f \in files : f.num < number[g] \/ f.num = number[g]
    BY <1>0, <1>4, <2>1, EmitEffect
  <2>5. \A f \in files' : f.num < number'[g]
    BY <2>3, <2>4 DEF File
  <2> QED
    BY <2>1, <2>2, <2>5 DEF TypeOK
<1>6. ASSUME NEW g \in Generators, OpenFile(g)
      PROVE  Fresh
  <2>1. /\ pc[g] = "emit" /\ pc' = [pc EXCEPT ![g] = "write"] /\ UNCHANGED call
        /\ files' = files \cup {NextFile(g)}
    BY <1>6 DEF OpenFile
  <2>2. \A k \in Generators \ {g} : pc'[k] \in Resting
    BY <1>0, <2>1, OthersRest DEF TypeOK
  <2>3. \A f \in files' : f.num < number'[g] \/ f = NextFile(g)'
    BY <1>0, <2>1 DEF call
  <2> QED
    BY <2>1, <2>2, <2>3 DEF TypeOK
<1>7. ASSUME NEW n \in 1..LastNumber, WriteByHand(n)
      PROVE  Fresh
  BY <1>7 DEF WriteByHand
<1>8. CASE DiscardJournal \/ UNCHANGED vars
  BY <1>0, <1>8 DEF DiscardJournal, vars, disk, call
<1> QED
  BY <1>1, <1>2, <1>3, <1>4, <1>6, <1>7, <1>8 DEF Next, Step
-----------------------------------------------------------------------------
(* Tables come before the views that read them.                            *)

LEMMA Concatenation ==
    ASSUME NEW p \in Seq(Tables), NEW q \in Seq(Views)
    PROVE  /\ DOMAIN (p \o q) = 1..(Len(p) + Len(q))
           /\ DOMAIN p = 1..Len(p) /\ DOMAIN q = 1..Len(q)
           /\ Len(p) \in Nat /\ Len(q) \in Nat
           /\ \A k \in 1..Len(p) : (p \o q)[k] = p[k] /\ p[k] \in Tables
           /\ \A k \in 1..(Len(p) + Len(q)) :
                  k > Len(p) => (p \o q)[k] = q[k - Len(p)] /\ k - Len(p) \in DOMAIN q
<1>1. p \in Seq(Tables \cup Views) /\ q \in Seq(Tables \cup Views)
  OBVIOUS
<1>2. /\ DOMAIN (p \o q) = 1..(Len(p) + Len(q)) /\ Len(p) \in Nat /\ Len(q) \in Nat
      /\ DOMAIN p = 1..Len(p) /\ DOMAIN q = 1..Len(q)
  BY <1>1
<1>3. \A k \in 1..(Len(p) + Len(q)) :
          (p \o q)[k] = IF k <= Len(p) THEN p[k] ELSE q[k - Len(p)]
  BY <1>1
<1>4. \A k \in 1..Len(p) : p[k] \in Tables
  OBVIOUS
<1> QED
  BY <1>2, <1>3, <1>4

(* The caller passes a view's tables with it, and they are emitted first.  *)
LEMMA TablesFirst ==
    ASSUME NEW c \in Calls, NEW i \in DOMAIN EmitOrder(c), EmitOrder(c)[i] \in Views,
           NEW t \in Reads[EmitOrder(c)[i]]
    PROVE  \E j \in DOMAIN EmitOrder(c) : j < i /\ EmitOrder(c)[j] = t
<1> DEFINE p == c[1]
           q == c[2]
<1>1. /\ p \in Seq(Tables) /\ q \in Seq(Views) /\ EmitOrder(c) = p \o q
      /\ \A v \in ToSet(q) : Reads[v] \subseteq ToSet(p)
  BY CallsAssumption DEF EmitOrder
<1> HIDE DEF p, q
<1>2. i \in 1..(Len(p) + Len(q)) /\ Len(p) \in Nat /\ Len(q) \in Nat
  BY <1>1, Concatenation
<1>3. i > Len(p)
  <2> SUFFICES ASSUME i <= Len(p) PROVE FALSE
    BY <1>2
  <2>1. EmitOrder(c)[i] \in Tables
    BY <1>1, <1>2, Concatenation
  <2> QED
    BY <2>1, ObjectsAssumption
<1>4. EmitOrder(c)[i] \in ToSet(q)
  BY <1>1, <1>2, <1>3, Concatenation DEF ToSet
<1>5. t \in ToSet(p)
  BY <1>1, <1>4
<1>6. PICK j \in 1..Len(p) : p[j] = t
  BY <1>1, <1>5, Concatenation DEF ToSet
<1>7. j \in DOMAIN (p \o q) /\ j < i /\ (p \o q)[j] = t
  BY <1>1, <1>2, <1>3, <1>6, Concatenation
<1> QED
  BY <1>1, <1>7

LEMMA TailQueue ==
    ASSUME NEW q \in Seq(Objects), q # << >>
    PROVE  /\ Len(q) \in Nat \ {0} /\ DOMAIN q = 1..Len(q) /\ Head(q) = q[1]
           /\ DOMAIN Tail(q) = 1..(Len(q) - 1)
           /\ \A i \in DOMAIN Tail(q) : i + 1 \in DOMAIN q /\ Tail(q)[i] = q[i + 1]
OBVIOUS

(* The head of the queue is captured and leaves it.                        *)
LEMMA QueueAdvances ==
    ASSUME TypeOK, QueueInv, NEW g \in Generators, pc[g] \in Busy, queue[g] # << >>,
           queue'[g] = Tail(queue[g]),
           Captured(entries[g]) \cup {Head(queue[g])} \subseteq Captured(entries'[g]),
           NEW i \in DOMAIN queue'[g], queue'[g][i] \in Views, NEW t \in Reads[queue'[g][i]]
    PROVE  Awaits(g, i, t)'
<1> DEFINE q == queue[g]
<1>1. /\ Len(q) \in Nat \ {0} /\ DOMAIN q = 1..Len(q) /\ Head(q) = q[1]
      /\ DOMAIN Tail(q) = 1..(Len(q) - 1)
      /\ \A k \in DOMAIN Tail(q) : k + 1 \in DOMAIN q /\ Tail(q)[k] = q[k + 1]
  BY TailQueue DEF TypeOK
<1>2. i + 1 \in DOMAIN q /\ q[i + 1] \in Views /\ t \in Reads[q[i + 1]]
  BY <1>1
<1>3. Awaits(g, i + 1, t)
  BY <1>2 DEF QueueInv
<1>4. CASE t \in Captured(entries[g])
  BY <1>4 DEF Awaits
<1>5. ASSUME NEW j \in DOMAIN q, j < i + 1, q[j] = t
      PROVE  Awaits(g, i, t)'
  <2>1. CASE j = 1
    BY <1>1, <1>5, <2>1 DEF Awaits
  <2>2. CASE j # 1
    <3>1. j - 1 \in DOMAIN Tail(q) /\ j - 1 < i /\ Tail(q)[j - 1] = t
      BY <1>1, <1>2, <1>5, <2>2
    <3> QED
      BY <3>1 DEF Awaits
  <2> QED
    BY <2>1, <2>2
<1> QED
  BY <1>3, <1>4, <1>5 DEF Awaits

LEMMA QueueStep ==
    ASSUME TypeOK, CopyInv, QueueInv, [Next]_vars
    PROVE  QueueInv'
<1> SUFFICES ASSUME NEW h \in Generators, pc'[h] \in Busy', NEW i \in DOMAIN queue'[h],
                    queue'[h][i] \in Views, NEW t \in Reads[queue'[h][i]]
             PROVE  Awaits(h, i, t)'
  BY DEF QueueInv
<1> USE DEF Goto, Busy, Resting
<1>0. ASSUME pc[h] \in Busy, queue'[h] = queue[h],
             Captured(entries[h]) \subseteq Captured(entries'[h])
      PROVE  Awaits(h, i, t)'
  BY <1>0 DEF QueueInv, Awaits
<1>1. ASSUME NEW g \in Generators, NEW c \in Calls, Begin(g, c)
      PROVE  Awaits(h, i, t)'
  <2>1. CASE g = h
    <3>1. queue'[h] = EmitOrder(c)
      BY <1>1, <2>1 DEF Begin, TypeOK
    <3> QED
      BY <3>1, TablesFirst DEF Awaits
  <2>2. CASE g # h
    BY <1>0, <1>1, <2>2 DEF Begin, TypeOK
  <2> QED
    BY <2>1, <2>2
<1>2. ASSUME NEW g \in Generators, LoadJournal(g)
      PROVE  Awaits(h, i, t)'
  BY <1>0, <1>2, EmptyLog DEF LoadJournal, TypeOK, CopyInv
<1>3. ASSUME NEW g \in Generators,
             \/ LoadFails(g) \/ ListFiles(g) \/ OpenFile(g) \/ OpenJournal(g) \/ Save(g)
             \/ NothingToSave(g)
      PROVE  Awaits(h, i, t)'
  BY <1>0, <1>3 DEF LoadFails, ListFiles, OpenFile, OpenJournal, Save, NothingToSave,
     TypeOK, call
<1>4. ASSUME NEW g \in Generators, Skip(g)
      PROVE  Awaits(h, i, t)'
  <2>1. CASE g = h
    BY <1>4, <2>1, QueueAdvances DEF Skip, CapturedSet, TypeOK
  <2>2. CASE g # h
    BY <1>0, <1>4, <2>2 DEF Skip, TypeOK
  <2> QED
    BY <2>1, <2>2
<1>5. ASSUME NEW g \in Generators, Emit(g)
      PROVE  Awaits(h, i, t)'
  <2>1. pc[g] = "write" /\ pc' = [pc EXCEPT ![g] = "emit"] /\ queue[g] # << >>
    BY <1>5 DEF Emit, CopyInv
  <2>2. CASE g = h
    BY <1>5, <2>1, <2>2, EmitEffect, QueueAdvances
  <2>3. CASE g # h
    BY <1>0, <1>5, <2>1, <2>3, EmitEffect DEF TypeOK
  <2> QED
    BY <2>2, <2>3
<1>6. ASSUME NEW g \in Generators, Throw(g)
      PROVE  Awaits(h, i, t)'
  BY <1>0, <1>6 DEF Throw, TypeOK, call
<1>7. ASSUME NEW n \in 1..LastNumber, WriteByHand(n)
      PROVE  Awaits(h, i, t)'
  BY <1>0, <1>7 DEF WriteByHand, call
<1>8. CASE DiscardJournal \/ UNCHANGED vars
  BY <1>0, <1>8 DEF DiscardJournal, vars, call
<1> QED
  BY <1>1, <1>2, <1>3, <1>4, <1>5, <1>6, <1>7, <1>8 DEF Next, Step

(* The object at the head of a queue has its tables' files, whole and      *)
(* lower-numbered.                                                         *)
LEMMA HeadHasTables ==
    ASSUME TypeOK, CopyInv, AloneInv, QueueInv, NumberInv, InRange, ~overlapped,
           NEW g \in Generators, pc[g] = "emit", queue[g] # << >>,
           Head(queue[g]) \in Views, NEW t \in Reads[Head(queue[g])]
    PROVE  \E h \in FilesOf(t) \ torn : h.num < number[g]
<1>1. /\ DOMAIN queue[g] = 1..Len(queue[g]) /\ Len(queue[g]) \in Nat \ {0}
      /\ Head(queue[g]) = queue[g][1]
  BY TailQueue DEF TypeOK
<1>2. Awaits(g, 1, t)
  BY <1>1 DEF QueueInv, Busy
<1>3. PICK h \in ToSet(entries[g]) : h.obj = t
  BY <1>1, <1>2, CapturedIff DEF Awaits
<1>4. h \in files /\ h \notin torn
  BY <1>3 DEF CopyInv, AloneInv, CopyIsCurrent, Loaded
<1> QED
  BY <1>3, <1>4 DEF FilesOf, NumberInv, NumberIsFresh

LEMMA OrderStep ==
    ASSUME TypeOK, CopyInv, AloneInv, QueueInv, NumberInv, OrderInv, [Next]_vars
    PROVE  OrderInv'
<1> SUFFICES ASSUME InRange', ~overlapped', NEW f \in files', f.obj \in Views,
                    NEW t \in Reads[f.obj]
             PROVE  \E h \in FilesOf(t)' \ torn' : h.num < f.num
  BY DEF OrderInv, DependenciesFirst
<1> DEFINE Done == \E h \in FilesOf(t)' \ torn' : h.num < f.num
<1>0. ~overlapped /\ InRange /\ files \subseteq files'
  BY Grows DEF InRange
<1>1. f \in files => \E h \in FilesOf(t) \ torn : h.num < f.num
  BY <1>0 DEF OrderInv, DependenciesFirst
<1>2. ASSUME torn' \subseteq torn, f \in files
      PROVE  Done
  BY <1>0, <1>1, <1>2 DEF FilesOf
<1>3. CASE files' = files /\ torn' = torn
  BY <1>2, <1>3
<1>4. ASSUME NEW g \in Generators, Emit(g)
      PROVE  Done
  <2>1. torn' \subseteq torn /\ f \in files
    BY <1>4 DEF Emit
  <2> QED
    BY <1>2, <2>1
<1>5. ASSUME NEW g \in Generators, OpenFile(g)
      PROVE  Done
  <2>1. PICK e \in File : /\ e.obj = Head(queue[g]) /\ e.num = number[g]
                          /\ files' = files \cup {e} /\ torn' = torn \cup {e}
    BY <1>5, OpenFileEffect
  <2>2. \A h \in files : h.num < e.num /\ h \in File
    BY <1>0, <1>5, <2>1 DEF OpenFile, NumberInv, NumberIsFresh, TypeOK
  <2>3. \A h \in FilesOf(t) \ torn : h \in FilesOf(t)' \ torn'
    BY <2>1, <2>2 DEF FilesOf, File
  <2>4. CASE f \in files
    BY <1>1, <2>3, <2>4
  <2>5. CASE f = e
    BY <1>0, <1>5, <2>1, <2>3, <2>5, HeadHasTables DEF OpenFile
  <2> QED
    BY <2>1, <2>4, <2>5
<1>6. ASSUME NEW n \in 1..LastNumber, WriteByHand(n)
      PROVE  Done
  <2>1. f \in files /\ torn' = torn
    BY <1>6, ObjectsAssumption DEF WriteByHand, Name, Objects
  <2> QED
    BY <1>2, <2>1
<1>7. ASSUME NEW g \in Generators, \/ \E c \in Calls : Begin(g, c)
                                   \/ LoadJournal(g) \/ LoadFails(g) \/ ListFiles(g)
                                   \/ Skip(g) \/ OpenJournal(g) \/ Save(g)
                                   \/ NothingToSave(g) \/ Throw(g)
      PROVE  files' = files /\ torn' = torn
  BY <1>7 DEF Begin, LoadJournal, LoadFails, ListFiles, Skip, OpenJournal, Save,
     NothingToSave, Throw, disk
<1>8. CASE DiscardJournal \/ UNCHANGED vars
  BY <1>3, <1>8 DEF DiscardJournal, vars, disk
<1> QED
  BY <1>3, <1>4, <1>5, <1>6, <1>7, <1>8 DEF Next, Step
-----------------------------------------------------------------------------
(* One file of an object is for nothing, the others are paid for.          *)

LEMMA FilesOfFinite ==
    ASSUME IsFiniteSet(files), NEW o
    PROVE  IsFiniteSet(FilesOf(o)) /\ Cardinality(FilesOf(o)) \in Nat
BY FS_Subset, FS_CardinalityType DEF FilesOf

(* A step that adds no file and keeps what is captured.                    *)
LEMMA CountKept ==
    ASSUME TypeOK, CountInv, files' = files, ~overlapped, faults' \in Nat,
           \/ faults' = faults /\ \A o \in Objects : Paid(o) => Paid(o)'
           \/ faults' = faults + 1
    PROVE  CountInv'
<1>1. IsFiniteSet(files') /\ \A o : FilesOf(o)' = FilesOf(o)
  BY DEF CountInv, FilesOf
<1>2. faults \in Nat
  BY DEF TypeOK
<1> SUFFICES ASSUME NEW o \in Objects
             PROVE  Cardinality(FilesOf(o)) <= faults' + (IF Paid(o)' THEN 1 ELSE 0)
  BY <1>1 DEF CountInv
<1>3. /\ Cardinality(FilesOf(o)) \in Nat
      /\ Cardinality(FilesOf(o)) <= faults + (IF Paid(o) THEN 1 ELSE 0)
  BY FilesOfFinite DEF CountInv
<1> QED
  BY <1>2, <1>3

(* A step that adds a file of an object that was not captured.             *)
LEMMA CountAdded ==
    ASSUME TypeOK, CountInv, ~overlapped, NEW e, files' = files \cup {e}, ~Paid(e.obj),
           faults' = faults, Paid(e.obj)', \A o \in Objects : Paid(o) => Paid(o)'
    PROVE  CountInv'
<1>1. /\ \A o : o # e.obj => FilesOf(o)' = FilesOf(o)
      /\ FilesOf(e.obj)' = FilesOf(e.obj) \cup {e}
  BY DEF FilesOf
<1>2. IsFiniteSet(files) /\ IsFiniteSet(files') /\ faults \in Nat
  BY FS_AddElement DEF CountInv, TypeOK
<1> SUFFICES ASSUME NEW o \in Objects
             PROVE  Cardinality(FilesOf(o)') <= faults' + (IF Paid(o)' THEN 1 ELSE 0)
  BY <1>2 DEF CountInv
<1>3. /\ Cardinality(FilesOf(o)) \in Nat
      /\ Cardinality(FilesOf(o)) <= faults + (IF Paid(o) THEN 1 ELSE 0)
  BY <1>2, FilesOfFinite DEF CountInv
<1>4. CASE o # e.obj
  BY <1>1, <1>2, <1>3, <1>4
<1>5. CASE o = e.obj
  <2>1. IsFiniteSet(FilesOf(o)) /\ FilesOf(o)' = FilesOf(o) \cup {e}
    BY <1>1, <1>2, <1>5, FilesOfFinite
  <2>2. \/ Cardinality(FilesOf(o)') = Cardinality(FilesOf(o))
        \/ Cardinality(FilesOf(o)') = Cardinality(FilesOf(o)) + 1
    BY <2>1, FS_AddElement, Zenon
  <2> QED
    BY <1>2, <1>3, <1>5, <2>2
<1> QED
  BY <1>4, <1>5

LEMMA CountStep ==
    ASSUME TypeOK, CopyInv, AloneInv, CountInv, [Next]_vars
    PROVE  CountInv'
<1>0. ~overlapped' => ~overlapped
  BY Grows
<1>1. IsFiniteSet(files')
  BY FS_AddElement DEF CountInv, Next, Step, Begin, LoadJournal, LoadFails, ListFiles,
     Skip, OpenFile, Emit, OpenJournal, Save, NothingToSave, Throw, WriteByHand,
     DiscardJournal, vars, disk
<1> SUFFICES ASSUME ~overlapped' PROVE CountInv'
  BY <1>1 DEF CountInv
<1> USE DEF Goto, Busy, Resting, Loaded, Paid
<1>2. ASSUME NEW g \in Generators, NEW c \in Calls, Begin(g, c)
      PROVE  CountInv'
  <2>1. \A o \in Objects : Paid(o) => Paid(o)'
    BY <1>2 DEF Begin, TypeOK, disk
  <2> QED
    BY <1>0, <1>2, <2>1, CountKept DEF Begin, TypeOK, disk
<1>3. ASSUME NEW g \in Generators, LoadJournal(g) \/ LoadFails(g) \/ ListFiles(g) \/ Skip(g)
      PROVE  CountInv'
  <2>1. \A o \in Objects : Paid(o) => Paid(o)'
    BY <1>3 DEF LoadJournal, LoadFails, ListFiles, Skip, TypeOK, disk, call
  <2> QED
    BY <1>0, <1>3, <2>1, CountKept
       DEF LoadJournal, LoadFails, ListFiles, Skip, TypeOK, disk, used
<1>4. ASSUME NEW g \in Generators, Emit(g)
      PROVE  CountInv'
  <2>1. /\ Captured(entries'[g]) = Captured(entries[g]) \cup {Head(queue[g])}
        /\ files' = files
        /\ \A h \in Generators \ {g} : entries'[h] = entries[h] /\ queue'[h] = queue[h]
    BY <1>4, EmitEffect
  <2>2. /\ pc[g] = "write" /\ pc' = [pc EXCEPT ![g] = "emit"] /\ journal' = journal
        /\ faults' = faults
    BY <1>4 DEF Emit, used
  <2>3. ASSUME NEW o \in Objects, Paid(o)
        PROVE  Paid(o)'
    BY <2>1, <2>2, <2>3 DEF TypeOK
  <2> QED
    BY <1>0, <2>1, <2>2, <2>3, CountKept DEF TypeOK
<1>5. ASSUME NEW g \in Generators, OpenJournal(g) \/ Save(g) \/ NothingToSave(g)
      PROVE  CountInv'
  <2>1. /\ Loaded(g) /\ entries' = entries /\ queue' = queue
        /\ Captured(journal) \subseteq Captured(entries[g])
        /\ files' = files /\ faults' = faults /\ pc[g] # "write"
        /\ \/ pc' = [pc EXCEPT ![g] = "save"]
           \/ pc' = [pc EXCEPT ![g] = "ok"] /\ journal' = entries[g]
    BY <1>0, <1>5
       DEF OpenJournal, Save, NothingToSave, AloneInv, CopyIsCurrent, disk, call, used
  <2>2. \A h \in Generators \ {g} : pc[h] \in Resting
    BY <1>0, <2>1, OthersRest
  <2>3. ASSUME NEW o \in Objects, Paid(o)
        PROVE  Paid(o)'
    <3>1. o \in Captured(entries[g])
      BY <2>1, <2>2, <2>3
    <3> QED
      BY <2>1, <3>1 DEF TypeOK
  <2> QED
    BY <1>0, <2>1, <2>3, CountKept DEF TypeOK
<1>6. ASSUME NEW g \in Generators, Throw(g)
      PROVE  CountInv'
  BY <1>0, <1>6, CountKept DEF Throw, disk, TypeOK
<1>7. ASSUME NEW g \in Generators, OpenFile(g)
      PROVE  CountInv'
  <2>1. PICK e \in File : /\ files' = files \cup {e} /\ e.obj \in Objects
                          /\ e.obj = Head(queue[g]) /\ e.obj \notin Captured(entries[g])
    BY <1>7, OpenFileEffect
  <2>2. /\ pc[g] = "emit" /\ pc' = [pc EXCEPT ![g] = "write"] /\ faults' = faults
        /\ journal' = journal /\ UNCHANGED call
    BY <1>7 DEF OpenFile, used
  <2>3. ~Paid(e.obj)
    BY <1>0, <2>1, <2>2, OthersRest DEF AloneInv, CopyIsCurrent
  <2>4. Paid(e.obj)' /\ \A o \in Objects : Paid(o) => Paid(o)'
    BY <2>1, <2>2 DEF call, TypeOK
  <2> HIDE DEF Paid
  <2> QED
    BY <1>0, <2>1, <2>2, <2>3, <2>4, CountAdded
<1>8. ASSUME NEW n \in 1..LastNumber, WriteByHand(n)
      PROVE  CountInv'
  <2>1. \A o \in Objects : FilesOf(o)' = FilesOf(o)
    BY <1>8, ObjectsAssumption DEF WriteByHand, FilesOf, Name
  <2>2. faults' = faults /\ \A o \in Objects : Paid(o)' = Paid(o)
    BY <1>8 DEF WriteByHand, call
  <2> HIDE DEF Paid
  <2> QED
    BY <1>0, <1>1, <2>1, <2>2 DEF CountInv
<1>9. CASE DiscardJournal
  <2>1. \A o \in Objects : Paid(o) => Paid(o)'
    BY <1>9 DEF DiscardJournal, call
  <2> QED
    BY <1>0, <1>9, <2>1, CountKept DEF DiscardJournal, TypeOK, used
<1>10. CASE UNCHANGED vars
  BY <1>0, <1>10, CountKept DEF vars, disk, call, used, TypeOK
<1> QED
  BY <1>2, <1>3, <1>4, <1>5, <1>6, <1>7, <1>8, <1>9, <1>10 DEF Next, Step
-----------------------------------------------------------------------------
LEMMA IndInit == Init => IInv
<1> SUFFICES ASSUME Init PROVE IInv
  OBVIOUS
<1>1. \A g \in Generators : pc[g] = "idle" /\ entries[g] = << >>
  BY DEF Init
<1>2. files = {} /\ torn = {} /\ journal = << >> /\ faults = 0
  BY DEF Init
<1>3. CopyInv
  BY <1>1, <1>2, EmptyLog DEF CopyInv
<1>4. AloneInv /\ QueueInv
  BY <1>1, <1>2, EmptyLog DEF AloneInv, QueueInv, CopyIsCurrent, Loaded, Busy
<1>5. NumberInv /\ OrderInv /\ OkInv
  BY <1>1, <1>2 DEF NumberInv, WriteIsLast, OrderInv, OkInv, CapturedKept, OkMeansCaptured,
     NumberIsFresh, DependenciesFirst, Loaded
<1>6. CountInv
  BY <1>2, FS_EmptySet DEF CountInv, FilesOf
<1> QED
  BY <1>3, <1>4, <1>5, <1>6, TypeInit DEF IInv

LEMMA IndStep == IInv /\ [Next]_vars => IInv'
BY TypeStep, CopyStep, AloneStep, QueueStep, NumberStep, OrderStep, OkStep, KeptStep,
   CountStep DEF IInv, OkInv

LEMMA Invariance == Spec => []IInv
BY IndInit, IndStep, PTL DEF Spec
-----------------------------------------------------------------------------
(* Every variable keeps its type.                                          *)
THEOREM TypeCorrect == Spec => []TypeOK
<1>1. IInv => TypeOK
  BY DEF IInv
<1> QED
  BY <1>1, Invariance, PTL

(* A journal entry names a file that is there, however calls interleave    *)
(* and fail: Save writes a copy whose files were written before.           *)
THEOREM JournalNamesFiles == Spec => []JournalledFilesExist
<1>1. IInv => JournalledFilesExist
  BY DEF IInv, CopyInv, JournalledFilesExist
<1> QED
  BY <1>1, Invariance, PTL

(* The journal names an object once, however calls interleave and fail.    *)
THEOREM JournalHasNoDuplicates == Spec => []JournalNamesEachOnce
<1>1. IInv => JournalNamesEachOnce
  BY DEF IInv, CopyInv, JournalNamesEachOnce, EachOnce
<1> QED
  BY <1>1, Invariance, PTL

(* Calls that do not overlap never journal a file that was cut off.        *)
THEOREM JournalNamesWholeFiles == Spec => []JournalledFilesWhole
<1>1. IInv => JournalledFilesWhole
  BY DEF IInv, AloneInv, JournalledFilesWhole
<1> QED
  BY <1>1, Invariance, PTL

(* Calls that do not overlap hand out fresh numbers, as long as those in   *)
(* the directory have the digits the generator's pattern reads.            *)
THEOREM NumbersAreFresh == Spec => [](InRange => NumberIsFresh)
<1>1. IInv => (InRange => NumberIsFresh)
  BY DEF IInv, NumberInv
<1> QED
  BY <1>1, Invariance, PTL

(* Under the same condition a view's file comes after whole files of its   *)
(* tables, whichever calls wrote them and however those ended.             *)
THEOREM TablesComeFirst == Spec => [](InRange => DependenciesFirst)
<1>1. IInv => (InRange => DependenciesFirst)
  BY DEF IInv, OrderInv
<1> QED
  BY <1>1, Invariance, PTL

(* What a call returned is journalled until a journal write is cut off.    *)
THEOREM OkCallsAreCaptured == Spec => []OkMeansCaptured
<1>1. IInv => OkMeansCaptured
  BY DEF IInv, OkInv
<1> QED
  BY <1>1, Invariance, PTL

(* An object has at most one file more than there were faults.             *)
THEOREM DuplicatesArePaidFor == Spec => []DuplicatesPaidFor
<1>1. IInv => DuplicatesPaidFor
  <2> SUFFICES ASSUME IInv, ~overlapped, NEW o \in Objects
               PROVE  Cardinality(FilesOf(o)) <= 1 + faults
    BY DEF DuplicatesPaidFor
  <2>1. /\ Cardinality(FilesOf(o)) \in Nat /\ faults \in Nat
        /\ Cardinality(FilesOf(o)) <= faults + (IF Paid(o) THEN 1 ELSE 0)
    BY FilesOfFinite DEF IInv, CountInv, TypeOK
  <2> QED
    BY <2>1
<1> QED
  BY <1>1, Invariance, PTL
-----------------------------------------------------------------------------
(* Whether the numbers fit is a matter of how often the generator is used. *)

(* Each call takes at most m numbers, a file written by hand at most two.  *)
Taken(m) == calls * m + 2 * byHand
Room(m) ==
    /\ m \in Nat
    /\ \A c \in Calls : Len(EmitOrder(c)) <= m
    /\ MaxCalls * m + 2 * MaxByHand <= LastNumber

RoomInv(m) ==
    /\ calls <= MaxCalls /\ byHand <= MaxByHand
    /\ \A g \in Generators : pc[g] \in {"load", "list"} => Len(queue[g]) <= m
    /\ ~overlapped =>
           /\ \A f \in files : f.num <= Taken(m)
           /\ \A g \in Generators : pc[g] \in {"load", "list"} =>
                  m <= Taken(m) /\ \A f \in files : f.num + m <= Taken(m)
           /\ \A g \in Generators : pc[g] \in {"emit", "write"} =>
                  number[g] + Len(queue[g]) <= Taken(m) + 1

LEMMA Times ==
    ASSUME NEW m \in Nat
    PROVE  /\ \A k \in Nat : k * m \in Nat /\ (k + 1) * m = k * m + m
           /\ \A k, l \in Nat : k <= l => k * m <= l * m
<1>1. \A k \in Nat : k * m \in Nat /\ (k + 1) * m = k * m + m
  OBVIOUS
<1>2. \A k, l \in Nat : k <= l => k * m <= l * m
  OBVIOUS
<1> QED
  BY <1>1, <1>2

LEMMA TakenType ==
    ASSUME TypeOK, NEW m \in Nat
    PROVE  Taken(m) \in Nat
<1>1. calls \in Nat /\ byHand \in Nat
  BY DEF TypeOK
<1>2. calls * m \in Nat
  BY <1>1, Times
<1> QED
  BY <1>1, <1>2 DEF Taken

LEMMA RoomInRange ==
    ASSUME TypeOK, NEW m, Room(m), RoomInv(m), ~overlapped
    PROVE  InRange
<1>1. /\ m \in Nat /\ calls \in Nat /\ byHand \in Nat
      /\ MaxCalls \in Nat /\ MaxByHand \in Nat /\ LastNumber \in Nat
      /\ calls <= MaxCalls /\ byHand <= MaxByHand
  BY BoundsAssumption DEF TypeOK, Room, RoomInv
<1>2. Taken(m) \in Nat /\ calls * m <= MaxCalls * m /\ calls * m \in Nat /\ MaxCalls * m \in Nat
  BY <1>1, Times, TakenType
<1>3. Taken(m) <= LastNumber
  BY <1>1, <1>2 DEF Room, Taken
<1> QED
  BY <1>1, <1>2, <1>3 DEF RoomInv, InRange, TypeOK, File

LEMMA NextNumberBound ==
    ASSUME TypeOK, NEW b \in Nat, \A f \in files : f.num <= b
    PROVE  NextMigrationNumber <= b + 1
<1> DEFINE Known == {f.num : f \in {h \in files : h.num <= LastNumber}} \cup {0}
<1>1. /\ Known \in SUBSET Nat /\ Known # {}
      /\ LastNumber \in Nat /\ \A x \in Known : x <= LastNumber
  BY BoundsAssumption DEF TypeOK, File
<1>2. Max(Known) \in Known
  BY <1>1, MaxOfBounded
<1>3. \A x \in Known : x <= b
  OBVIOUS
<1>4. Max(Known) \in Nat /\ Max(Known) <= b
  BY <1>1, <1>2, <1>3
<1>5. NextMigrationNumber = Max(Known) + 1
  BY DEF NextMigrationNumber
<1> QED
  BY <1>4, <1>5

LEMMA RoomStep ==
    ASSUME TypeOK, CopyInv, AloneInv, NumberInv, NEW m, Room(m), RoomInv(m), [Next]_vars
    PROVE  RoomInv(m)'
<1>0. m \in Nat /\ Taken(m) \in Nat /\ MaxCalls \in Nat /\ MaxByHand \in Nat
  BY TakenType, BoundsAssumption DEF Room
<1>1. (~overlapped' => ~overlapped) /\ files \subseteq files'
  BY Grows
<1>2. calls \in Nat /\ byHand \in Nat /\ files \subseteq File /\ number \in [Generators -> Nat \ {0}]
  BY DEF TypeOK
<1>3. \A g \in Generators : Len(queue[g]) \in Nat
  BY DEF TypeOK
<1> USE DEF Goto, Busy, Resting, RoomInv
<1>4. ASSUME NEW g \in Generators, NEW c \in Calls, Begin(g, c)
      PROVE  RoomInv(m)'
  <2>1. /\ calls' = calls + 1 /\ byHand' = byHand /\ calls < MaxCalls /\ files' = files
        /\ queue' = [queue EXCEPT ![g] = EmitOrder(c)] /\ pc' = [pc EXCEPT ![g] = "load"]
    BY <1>4 DEF Begin, disk
  <2>2. Taken(m)' = Taken(m) + m
    <3>1. (calls + 1) * m = calls * m + m /\ calls * m \in Nat
      BY <1>0, <1>2, Times
    <3> QED
      BY <1>0, <1>2, <2>1, <3>1 DEF Taken
  <2>3. \A h \in Generators : pc'[h] \in {"load", "list"} => Len(queue'[h]) <= m
    BY <2>1 DEF TypeOK, Room
  <2>4. ASSUME ~overlapped'
        PROVE  \A h \in Generators : pc[h] \notin Busy
    BY <1>4, <2>4, Zenon DEF Begin
  <2>5. calls' <= MaxCalls /\ byHand' <= MaxByHand
    BY <1>0, <1>2, <2>1
  <2>6. ASSUME ~overlapped'
        PROVE  /\ m <= Taken(m)'
               /\ \A f \in files' : f.num <= Taken(m)' /\ f.num + m <= Taken(m)'
               /\ \A h \in Generators : pc'[h] \notin {"emit", "write"}
    <3>1. \A f \in files : f.num <= Taken(m) /\ f.num \in Nat
      BY <1>1, <1>2, <2>6 DEF File
    <3>2. \A h \in Generators : pc'[h] \notin {"emit", "write"}
      BY <2>1, <2>4, <2>6 DEF TypeOK
    <3> QED
      BY <1>0, <2>1, <2>2, <3>1, <3>2
  <2> QED
    BY <2>3, <2>5, <2>6
<1>5. ASSUME NEW g \in Generators, ListFiles(g)
      PROVE  RoomInv(m)'
  <2>1. /\ UNCHANGED <<files, queue, calls, byHand, overlapped>>
        /\ number' = [number EXCEPT ![g] = NextMigrationNumber]
        /\ pc[g] = "list" /\ pc' = [pc EXCEPT ![g] = "emit"]
    BY <1>5 DEF ListFiles, disk, used
  <2>2. Taken(m)' = Taken(m)
    BY <2>1 DEF Taken
  <2>3. ASSUME ~overlapped
        PROVE  NextMigrationNumber + Len(queue[g]) <= Taken(m) + 1
    <3>1. \A f \in files : f.num + m <= Taken(m) /\ f.num \in Nat
      BY <1>2, <2>1, <2>3 DEF File
    <3>2. Len(queue[g]) <= m /\ NextMigrationNumber \in Nat
      BY <2>1, NextNumber
    <3>3. Taken(m) - m \in Nat
      BY <1>0, <2>1, <2>3
    <3>4. NextMigrationNumber <= (Taken(m) - m) + 1
      BY <1>0, <3>1, <3>3, NextNumberBound
    <3> QED
      BY <1>0, <1>3, <3>2, <3>4
  <2> QED
    BY <2>1, <2>2, <2>3 DEF TypeOK
<1>6. ASSUME NEW g \in Generators, Skip(g)
      PROVE  RoomInv(m)'
  <2>1. /\ UNCHANGED <<files, number, calls, byHand, overlapped, pc>>
        /\ queue' = [queue EXCEPT ![g] = Tail(@)] /\ queue[g] # << >> /\ pc[g] = "emit"
    BY <1>6 DEF Skip, disk, used
  <2>2. Taken(m)' = Taken(m) /\ Len(Tail(queue[g])) = Len(queue[g]) - 1
    BY <2>1 DEF Taken, TypeOK
  <2> QED
    BY <1>0, <1>2, <1>3, <2>1, <2>2 DEF TypeOK
<1>7. ASSUME NEW g \in Generators, Emit(g)
      PROVE  RoomInv(m)'
  <2>1. /\ files' = files
        /\ queue'[g] = Tail(queue[g]) /\ number'[g] = number[g] + 1
        /\ \A h \in Generators \ {g} : queue'[h] = queue[h] /\ number'[h] = number[h]
    BY <1>7, EmitEffect
  <2>2. /\ pc[g] = "write" /\ pc' = [pc EXCEPT ![g] = "emit"] /\ queue[g] # << >>
        /\ UNCHANGED <<calls, byHand, overlapped>> /\ Taken(m)' = Taken(m)
    BY <1>7 DEF Emit, CopyInv, used, Taken
  <2>3. Len(Tail(queue[g])) = Len(queue[g]) - 1 /\ Len(queue[g]) > 0
    BY <2>2 DEF TypeOK
  <2>4. ASSUME ~overlapped
        PROVE  /\ number'[g] + Len(queue'[g]) <= Taken(m) + 1
               /\ \A h \in Generators \ {g} : pc[h] \notin Busy
    <3>1. number[g] + Len(queue[g]) <= Taken(m) + 1
      BY <2>2, <2>4
    <3>2. \A h \in Generators \ {g} : pc[h] \notin Busy
      BY <2>2, <2>4, OthersRest
    <3>4. number'[g] + Len(queue'[g]) <= Taken(m) + 1
      BY <1>2, <1>3, <2>1, <2>3, <3>1
    <3> QED
      BY <2>1, <2>4, <3>2, <3>4
  <2>5. \A h \in Generators : pc'[h] \in {"load", "list"} => h # g /\ pc'[h] = pc[h]
    BY <2>2 DEF TypeOK
  <2>6. \A h \in Generators \ {g} : pc'[h] = pc[h]
    BY <2>2 DEF TypeOK
  <2> QED
    BY <2>1, <2>2, <2>4, <2>5, <2>6
<1>8. ASSUME NEW g \in Generators,
             \/ LoadJournal(g) \/ LoadFails(g) \/ OpenJournal(g) \/ Save(g)
             \/ NothingToSave(g) \/ Throw(g)
      PROVE  RoomInv(m)'
  <2>1. UNCHANGED <<files, queue, number, calls, byHand, overlapped>>
    BY <1>8 DEF LoadJournal, LoadFails, OpenJournal, Save, NothingToSave, Throw,
       disk, call, used
  <2>2. Taken(m)' = Taken(m)
    BY <2>1 DEF Taken
  <2>3. \/ pc[g] = "load" /\ pc' = [pc EXCEPT ![g] = "list"]
        \/ \E where \in Resting \cup {"save"} : pc' = [pc EXCEPT ![g] = where]
    BY <1>8 DEF LoadJournal, LoadFails, OpenJournal, Save, NothingToSave, Throw
  <2> QED
    BY <2>1, <2>2, <2>3 DEF TypeOK
<1>9. ASSUME NEW g \in Generators, OpenFile(g)
      PROVE  RoomInv(m)'
  <2>1. PICK e \in File : files' = files \cup {e} /\ e.num = number[g]
    BY <1>9, OpenFileEffect
  <2>2. /\ pc[g] = "emit" /\ UNCHANGED <<queue, number, calls, byHand, overlapped>>
        /\ queue[g] # << >> /\ pc' = [pc EXCEPT ![g] = "write"] /\ Taken(m)' = Taken(m)
    BY <1>9 DEF OpenFile, call, used, Taken
  <2>3. Len(queue[g]) > 0
    BY <2>2 DEF TypeOK
  <2>4. ASSUME ~overlapped
        PROVE  /\ e.num <= Taken(m)
               /\ \A h \in Generators \ {g} : pc'[h] \notin Busy
    <3>1. number[g] + Len(queue[g]) <= Taken(m) + 1
      BY <2>2, <2>4
    <3>2. \A h \in Generators \ {g} : pc'[h] \notin Busy
      BY <2>2, <2>4, OthersRest DEF TypeOK
    <3> QED
      BY <1>0, <1>2, <1>3, <2>1, <2>3, <3>1, <3>2
  <2> QED
    BY <1>0, <1>2, <2>1, <2>2, <2>4 DEF TypeOK
<1>10. ASSUME NEW n \in 1..LastNumber, WriteByHand(n)
       PROVE  RoomInv(m)'
  <2>1. /\ UNCHANGED <<pc, queue, number, calls, overlapped>> /\ byHand' = byHand + 1
        /\ byHand < MaxByHand /\ n <= NextMigrationNumber + 1
        /\ files' = files \cup {Name(n, ByHand)}
        /\ \A g \in Generators : pc[g] \in Resting
    BY <1>10 DEF WriteByHand, call
  <2>2. Taken(m)' = Taken(m) + 2
    <3>1. calls * m \in Nat
      BY <1>0, <1>2, Times
    <3> QED
      BY <1>0, <1>2, <2>1, <3>1 DEF Taken
  <2>3. ASSUME ~overlapped
        PROVE  \A f \in files' : f.num <= Taken(m)'
    <3>1. \A f \in files : f.num <= Taken(m) /\ f.num \in Nat
      BY <1>2, <2>3 DEF File
    <3>2. NextMigrationNumber <= Taken(m) + 1 /\ NextMigrationNumber \in Nat
      BY <1>0, <3>1, NextNumber, NextNumberBound
    <3>3. Name(n, ByHand).num = n
      BY DEF Name
    <3> QED
      BY <1>0, <2>1, <2>2, <3>1, <3>2, <3>3
  <2> QED
    BY <1>0, <1>2, <2>1, <2>3
<1>11. CASE DiscardJournal \/ UNCHANGED vars
  <2>1. /\ UNCHANGED <<files, queue, number, calls, byHand, overlapped>>
        /\ pc' = pc \/ pc' = [g \in Generators |-> "idle"]
    BY <1>11 DEF DiscardJournal, vars, disk, call, used
  <2>2. Taken(m)' = Taken(m)
    BY <2>1 DEF Taken
  <2> QED
    BY <2>1, <2>2
<1> QED
  BY <1>4, <1>5, <1>6, <1>7, <1>8, <1>9, <1>10, <1>11 DEF Next, Step

(* With room for every call, the numbers of calls that do not overlap have *)
(* the digits the pattern reads.                                           *)
THEOREM NumbersFit ==
    ASSUME NEW m, Room(m)
    PROVE  Spec => [](~overlapped => InRange)
<1>1. Init => RoomInv(m)
  <2>1. m \in Nat /\ MaxCalls \in Nat /\ MaxByHand \in Nat
    BY BoundsAssumption DEF Room
  <2>2. Init => Taken(m) = 0
    BY <2>1 DEF Init, Taken
  <2> QED
    BY <2>1, <2>2 DEF Init, RoomInv
<1>2. IInv /\ RoomInv(m) /\ [Next]_vars => RoomInv(m)'
  BY RoomStep DEF IInv
<1>3. IInv /\ RoomInv(m) => (~overlapped => InRange)
  BY RoomInRange DEF IInv
<1> QED
  BY <1>1, <1>2, <1>3, Invariance, PTL DEF Spec

(* With room for every call, calls that do not overlap never write a       *)
(* number twice, and tables come before the views that read them.          *)
THEOREM FreshAndOrdered ==
    ASSUME NEW m, Room(m)
    PROVE  Spec => []NumberIsFresh /\ []DependenciesFirst
<1>1. /\ (InRange => NumberIsFresh) /\ (~overlapped => InRange) => NumberIsFresh
      /\ (InRange => DependenciesFirst) /\ (~overlapped => InRange) => DependenciesFirst
  BY DEF NumberIsFresh, DependenciesFirst
<1> QED
  BY <1>1, NumbersFit, NumbersAreFresh, TablesComeFirst, PTL
=============================================================================
