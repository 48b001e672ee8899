--------------------------- MODULE TableDdlProofs ---------------------------
(***************************************************************************)
(* What the checks of TableDdl guarantee of the rendered table, for any    *)
(* names, types and limits and specifications of any length: the Rust kit  *)
(* renders sound tables only, and on a portable plain specification the    *)
(* TypeScript kit answers alike.                                           *)
(***************************************************************************)
EXTENDS TableDdl, TLAPS, FiniteSetTheorems, WellFoundedInduction

Kinds  == {"table", "column", "index", "order_by", "ttl", "type"}
Whys   == {"empty", "too long", "invalid", "no columns", "too many columns", "reserved",
           "duplicate", "precision", "disallowed", "unknown"}
Fault  == {NoFault} \cup (Kinds \X Whys)
Column == [name : Identifiers, type : Type]

FormOK ==
    form \in [name : TableNames, mandatory : Seq(Column), promoted : Seq(Column),
              reserved : SUBSET Identifiers, order : Seq(Names), indexes : Seq(Names),
              ttl : [column : Names \cup {"none"}, clauses : SUBSET {"delete"}]]
-----------------------------------------------------------------------------
(* The first fault of a chain of checks.                                   *)

LEMMA LeastPosition ==
    ASSUME NEW S \in SUBSET Nat, S # {}
    PROVE  Min(S) \in S /\ \A x \in S : Min(S) <= x
<1> DEFINE Less == OpToRel(<, Nat)
<1>1. PICK least \in S : \A x \in S : ~(<<x, least>> \in Less)
  BY NatLessThanWellFounded, WFMin, Zenon
<1>2. \A x \in S : least <= x
  <2> SUFFICES ASSUME NEW x \in S, x < least PROVE FALSE
    OBVIOUS
  <2>1. <<x, least>> \in Less
    BY Zenon DEF OpToRel
  <2> QED
    BY <1>1, <2>1
<1> HIDE DEF Less
<1> QED
  BY <1>2 DEF Min

LEMMA FaultOrNone ==
    ASSUME NEW s \in Seq(Fault)
    PROVE  \/ FirstFault(s) = NoFault /\ \A i \in DOMAIN s : s[i] = NoFault
           \/ \E i \in DOMAIN s : /\ s[i] # NoFault /\ FirstFault(s) = s[i]
                                  /\ \A j \in DOMAIN s : j < i => s[j] = NoFault
<1> DEFINE failed == {i \in DOMAIN s : s[i] # NoFault}
<1>1. CASE failed = {}
  BY <1>1 DEF FirstFault
<1>2. CASE failed # {}
  <2>1. failed \in SUBSET Nat /\ DOMAIN s \subseteq Nat
    OBVIOUS
  <2>2. PICK m \in failed : m = Min(failed) /\ \A x \in failed : m <= x
    BY <1>2, <2>1, LeastPosition
  <2>3. FirstFault(s) = s[m]
    BY <1>2, <2>2 DEF FirstFault
  <2>4. ASSUME NEW j \in DOMAIN s, j < m
        PROVE  s[j] = NoFault
    <3>1. j \in Nat /\ m \in Nat /\ (s[j] # NoFault => j \in failed)
      BY <2>1
    <3> HIDE DEF failed
    <3> QED
      BY <2>2, <2>4, <3>1
  <2> QED
    BY <2>2, <2>3, <2>4
<1> QED
  BY <1>1, <1>2

LEMMA FirstFaultType ==
    ASSUME NEW s \in Seq(Fault)
    PROVE  FirstFault(s) \in Fault
BY FaultOrNone DEF Fault

LEMMA NoneIff ==
    ASSUME NEW s \in Seq(Fault)
    PROVE  FirstFault(s) = NoFault <=> \A i \in DOMAIN s : s[i] = NoFault
BY FaultOrNone

LEMMA LeastIsFirst ==
    ASSUME NEW s \in Seq(Fault), NEW i \in DOMAIN s, s[i] # NoFault,
           \A j \in DOMAIN s : j < i => s[j] = NoFault
    PROVE  FirstFault(s) = s[i]
<1>1. PICK k \in DOMAIN s : /\ s[k] # NoFault /\ FirstFault(s) = s[k]
                            /\ \A j \in DOMAIN s : j < k => s[j] = NoFault
  BY FaultOrNone
<1>2. i \in Nat /\ k \in Nat /\ ~(i < k) /\ ~(k < i)
  BY <1>1
<1> QED
  BY <1>1, <1>2

(* A chain of two chains answers what the first does, else the second.     *)
LEMMA FirstOfChains ==
    ASSUME NEW s \in Seq(Fault), NEW t \in Seq(Fault)
    PROVE  /\ s \o t \in Seq(Fault)
           /\ FirstFault(s \o t) = IF FirstFault(s) = NoFault THEN FirstFault(t)
                                   ELSE FirstFault(s)
<1> DEFINE u == s \o t
<1>1. /\ u \in Seq(Fault) /\ Len(u) = Len(s) + Len(t)
      /\ DOMAIN u = 1..(Len(s) + Len(t)) /\ DOMAIN s = 1..Len(s) /\ DOMAIN t = 1..Len(t)
      /\ Len(s) \in Nat /\ Len(t) \in Nat
  OBVIOUS
<1>2. /\ \A i \in DOMAIN s : i \in DOMAIN u /\ u[i] = s[i]
      /\ \A i \in DOMAIN t : Len(s) + i \in DOMAIN u /\ u[Len(s) + i] = t[i]
  OBVIOUS
<1>3. \A i \in DOMAIN u : i \in DOMAIN s \/ \E j \in DOMAIN t : i = Len(s) + j
  <2> TAKE i \in DOMAIN u
  <2>1. i \in DOMAIN s \/ i - Len(s) \in DOMAIN t
    BY <1>1
  <2> QED
    BY <1>1, <2>1
<1> HIDE DEF u
<1>4. CASE FirstFault(s) # NoFault
  <2>1. PICK i \in DOMAIN s : /\ s[i] # NoFault /\ FirstFault(s) = s[i]
                              /\ \A j \in DOMAIN s : j < i => s[j] = NoFault
    BY <1>4, FaultOrNone
  <2>2. \A j \in DOMAIN u : j < i => u[j] = NoFault
    BY <1>1, <1>2, <2>1
  <2>3. FirstFault(u) = u[i]
    BY <1>1, <1>2, <2>1, <2>2, LeastIsFirst
  <2> QED
    BY <1>1, <1>2, <1>4, <2>1, <2>3 DEF u
<1>5. CASE FirstFault(s) = NoFault /\ FirstFault(t) # NoFault
  <2>1. PICK i \in DOMAIN t : /\ t[i] # NoFault /\ FirstFault(t) = t[i]
                              /\ \A j \in DOMAIN t : j < i => t[j] = NoFault
    BY <1>5, FaultOrNone
  <2>2. \A j \in DOMAIN s : s[j] = NoFault
    BY <1>5, NoneIff
  <2>3. ASSUME NEW j \in DOMAIN u, j < Len(s) + i
        PROVE  u[j] = NoFault
    BY <1>1, <1>2, <1>3, <2>1, <2>2, <2>3
  <2>4. FirstFault(u) = u[Len(s) + i]
    BY <1>1, <1>2, <2>1, <2>3, LeastIsFirst
  <2> QED
    BY <1>1, <1>2, <1>5, <2>1, <2>4 DEF u
<1>6. CASE FirstFault(s) = NoFault /\ FirstFault(t) = NoFault
  <2>1. \A i \in DOMAIN u : u[i] = NoFault
    BY <1>2, <1>3, <1>6, NoneIff
  <2> QED
    BY <1>1, <1>6, <2>1, NoneIff DEF u
<1> QED
  BY <1>4, <1>5, <1>6
-----------------------------------------------------------------------------
(* The checks.                                                             *)

LEMMA IdentifierCheck ==
    ASSUME NEW kit \in Kits, NEW kind \in Kinds, NEW n
    PROVE  /\ ValidateIdentifier(kit, kind, n) \in Fault
           /\ n \in Identifiers /\ ValidateIdentifier(kit, kind, n) = NoFault =>
                  n \in WellFormed /\ ~TooLong(kit, n)
<1>1. ValidateIdentifier(kit, kind, n) \in Fault
  BY DEF ValidateIdentifier, Fault, Kinds, Whys, NoFault
<1>2. ASSUME n \in Identifiers, ValidateIdentifier(kit, kind, n) = NoFault
      PROVE  n \in WellFormed /\ ~TooLong(kit, n)
  <2>1. Size[kit][n] \in Nat
    BY <1>2, NamesAssumption
  <2>2. Size[kit][n] # 0 => 0 < Size[kit][n]
    BY <2>1
  <2> QED
    BY <1>2, <2>2 DEF ValidateIdentifier, NoFault
<1> QED
  BY <1>1, <1>2

(* What the kits' measures come to where they agree on what is too long.   *)
LEMMA SameVerdict ==
    ASSUME NEW kind \in Kinds, NEW n \in Identifiers, TooLong("rust", n) <=> TooLong("ts", n)
    PROVE  ValidateIdentifier("rust", kind, n) = ValidateIdentifier("ts", kind, n)
<1>1. Size["rust"][n] \in Nat /\ Size["ts"][n] \in Nat
  BY NamesAssumption DEF Kits
<1>2. /\ Size["rust"][n] = 0 <=> Size["ts"][n] = 0
      /\ 0 < Size["rust"][n] <=> 0 < Size["ts"][n]
  BY <1>1, NamesAssumption
<1>3. CASE Size["rust"][n] = 0
  <2>1. \A kit \in Kits : ~TooLong(kit, n) /\ ~(0 < Size[kit][n]) /\ Size[kit][n] = 0
    BY <1>1, <1>2, <1>3, LimitsAssumption DEF TooLong, Kits
  <2> QED
    BY <2>1, Zenon DEF ValidateIdentifier, Kits
<1>4. CASE Size["rust"][n] # 0
  BY <1>2, <1>4, Zenon DEF ValidateIdentifier
<1> QED
  BY <1>3, <1>4

LEMMA CountCheck ==
    ASSUME NEW kit \in Kits, NEW count \in Nat
    PROVE  /\ AssertColumnCount(kit, count) \in Fault
           /\ AssertColumnCount(kit, count) = NoFault => count \in 1..MaxColumns[kit]
<1>1. MaxColumns[kit] \in Nat
  BY LimitsAssumption
<1>2. AssertColumnCount(kit, count) \in Fault
  BY DEF AssertColumnCount, Fault, Kinds, Whys, NoFault
<1>3. AssertColumnCount(kit, count) = NoFault => ~(count < 1) /\ ~(count > MaxColumns[kit])
  BY DEF AssertColumnCount, NoFault
<1> QED
  BY <1>1, <1>2, <1>3

LEMMA SmallChecks ==
    /\ \A n : AssertNotReserved(n) \in Fault
    /\ \A columns, i : NotRepeated(columns, i) \in Fault
    /\ \A type : RustTypeFault(type) \in Fault /\ TsTypeFault(type) \in Fault
    /\ \A columns : Unreadable(columns) \in Fault
BY DEF AssertNotReserved, NotRepeated, RustTypeFault, TsTypeFault, Unreadable, Fault, Kinds, Whys, NoFault

LEMMA PairOfChecks ==
    ASSUME NEW a \in Fault, NEW b \in Fault
    PROVE  /\ FirstFault(<<a, b>>) \in Fault
           /\ FirstFault(<<a, b>>) = NoFault <=> a = NoFault /\ b = NoFault
<1> DEFINE s == <<a, b>>
<1>1. s \in Seq(Fault) /\ DOMAIN s = {1, 2} /\ s[1] = a /\ s[2] = b
  OBVIOUS
<1> HIDE DEF s
<1>2. FirstFault(s) \in Fault /\ (FirstFault(s) = NoFault <=> a = NoFault /\ b = NoFault)
  BY <1>1, FirstFaultType, NoneIff
<1> QED
  BY <1>2 DEF s

LEMMA TripleOfChecks ==
    ASSUME NEW a \in Fault, NEW b \in Fault, NEW c \in Fault
    PROVE  /\ FirstFault(<<a, b, c>>) \in Fault
           /\ FirstFault(<<a, b, c>>) = NoFault <=> a = NoFault /\ b = NoFault /\ c = NoFault
<1> DEFINE s == <<a, b, c>>
<1>1. s \in Seq(Fault) /\ DOMAIN s = {1, 2, 3} /\ s[1] = a /\ s[2] = b /\ s[3] = c
  OBVIOUS
<1> HIDE DEF s
<1>2. /\ FirstFault(s) \in Fault
      /\ FirstFault(s) = NoFault <=> a = NoFault /\ b = NoFault /\ c = NoFault
  BY <1>1, FirstFaultType, NoneIff
<1> QED
  BY <1>2 DEF s

LEMMA ColumnCheck ==
    ASSUME NEW columns, NEW i
    PROVE  /\ RustColumnCheck(columns, i) \in Fault /\ TsColumnCheck(columns, i) \in Fault
           /\ RustColumnCheck(columns, i) = NoFault <=>
                  /\ ValidateIdentifier("rust", "column", columns[i].name) = NoFault
                  /\ NotRepeated(columns, i) = NoFault
                  /\ RustTypeFault(columns[i].type) = NoFault
<1>1. /\ ValidateIdentifier("rust", "column", columns[i].name) \in Fault
      /\ ValidateIdentifier("ts", "column", columns[i].name) \in Fault
  BY IdentifierCheck DEF Kinds, Kits
<1> QED
  BY <1>1, SmallChecks, TripleOfChecks DEF RustColumnCheck, TsColumnCheck

LEMMA KnownCheck ==
    ASSUME NEW kind \in Kinds, NEW columns, NEW n
    PROVE  /\ RustKnown(kind, columns, n) \in Fault
           /\ RustKnown(kind, columns, n) = NoFault <=>
                  ValidateIdentifier("rust", "column", n) = NoFault /\ n \in NamesOf(columns)
<1> DEFINE known == IF n \in NamesOf(columns) THEN NoFault ELSE <<kind, "unknown">>
<1>1. ValidateIdentifier("rust", "column", n) \in Fault /\ known \in Fault
  BY IdentifierCheck DEF Fault, Kinds, Whys, Kits
<1>2. known = NoFault <=> n \in NamesOf(columns)
  BY DEF NoFault
<1>3. RustKnown(kind, columns, n) = FirstFault(<<ValidateIdentifier("rust", "column", n), known>>)
  BY DEF RustKnown
<1> HIDE DEF known
<1> QED
  BY <1>1, <1>2, <1>3, PairOfChecks

LEMMA CallerCheckType ==
    ASSUME NEW kit \in Kits, NEW i
    PROVE  CallerCheck(kit, i) \in Fault
<1>1. ValidateIdentifier(kit, "column", Caller[i].name) \in Fault
  BY IdentifierCheck DEF Kinds, Kits
<1> QED
  BY <1>1, SmallChecks, PairOfChecks DEF CallerCheck
-----------------------------------------------------------------------------
(* Rust.  The chain of a specification, in its five parts.                 *)

HeadChecks(columns) ==
    <<Unreadable(columns), ValidateIdentifier("rust", "table", form.name), AssertColumnCount("rust", Len(columns))>>
ColumnChecks(columns) == [i \in DOMAIN columns |-> RustColumnCheck(columns, i)]
OrderChecks(columns)  == [i \in DOMAIN form.order |-> RustKnown("order_by", columns, form.order[i])]
IndexChecks == [i \in DOMAIN form.indexes |-> ValidateIdentifier("rust", "index", form.indexes[i])]
TtlChecks(columns) == <<RustTtlCheck(columns)>>
RustFault(columns) ==
    FirstFault(HeadChecks(columns) \o ColumnChecks(columns) \o OrderChecks(columns)
               \o IndexChecks \o TtlChecks(columns))

LEMMA RustChains ==
    ASSUME FormOK, NEW columns \in Seq(Column)
    PROVE  /\ HeadChecks(columns) \in Seq(Fault) /\ ColumnChecks(columns) \in Seq(Fault)
           /\ OrderChecks(columns) \in Seq(Fault) /\ IndexChecks \in Seq(Fault)
           /\ TtlChecks(columns) \in Seq(Fault)
<1>1. /\ Len(columns) \in Nat /\ DOMAIN columns = 1..Len(columns)
      /\ Len(form.order) \in Nat /\ DOMAIN form.order = 1..Len(form.order)
      /\ Len(form.indexes) \in Nat /\ DOMAIN form.indexes = 1..Len(form.indexes)
  BY DEF FormOK
<1>2. HeadChecks(columns) \in Seq(Fault)
  <2>1. /\ ValidateIdentifier("rust", "table", form.name) \in Fault
        /\ AssertColumnCount("rust", Len(columns)) \in Fault /\ Unreadable(columns) \in Fault
    BY <1>1, IdentifierCheck, CountCheck, SmallChecks DEF Kinds, Kits
  <2> QED
    BY <2>1 DEF HeadChecks
<1>3. \A i \in 1..Len(columns) : RustColumnCheck(columns, i) \in Fault
  BY ColumnCheck
<1>4. ColumnChecks(columns) \in Seq(Fault)
  BY <1>1, <1>3 DEF ColumnChecks
<1>5. OrderChecks(columns) \in Seq(Fault)
  <2>1. \A i \in 1..Len(form.order) : RustKnown("order_by", columns, form.order[i]) \in Fault
    BY KnownCheck DEF Kinds, Kits
  <2> QED
    BY <1>1, <2>1 DEF OrderChecks
<1>6. IndexChecks \in Seq(Fault)
  <2>1. \A i \in 1..Len(form.indexes) : ValidateIdentifier("rust", "index", form.indexes[i]) \in Fault
    BY IdentifierCheck DEF Kinds, Kits
  <2> QED
    BY <1>1, <2>1 DEF IndexChecks
<1>7. RustTtlCheck(columns) \in Fault
  <2>1. RustKnown("ttl", columns, form.ttl.column) \in Fault
    BY KnownCheck DEF Kinds, Kits
  <2> QED
    BY <2>1 DEF RustTtlCheck, Fault
<1>8. TtlChecks(columns) \in Seq(Fault)
  BY <1>7 DEF TtlChecks
<1> QED
  BY <1>2, <1>4, <1>5, <1>6, <1>8

LEMMA RustCreateIs ==
    ASSUME NEW columns
    PROVE  RustCreate(columns) = IF RustFault(columns) = NoFault
                                 THEN Render(columns, RustTtl(columns))
                                 ELSE Refuse(RustFault(columns))
BY DEF RustCreate, RustFault, HeadChecks, ColumnChecks, OrderChecks, IndexChecks, TtlChecks

LEMMA RustFaultParts ==
    ASSUME FormOK, NEW columns \in Seq(Column)
    PROVE  /\ RustFault(columns) = NoFault <=>
                  /\ FirstFault(HeadChecks(columns)) = NoFault
                  /\ FirstFault(ColumnChecks(columns)) = NoFault
                  /\ FirstFault(OrderChecks(columns)) = NoFault
                  /\ FirstFault(IndexChecks) = NoFault
                  /\ FirstFault(TtlChecks(columns)) = NoFault
           /\ LET fault == FirstFault(HeadChecks(columns) \o ColumnChecks(columns))
              IN  fault # NoFault => RustFault(columns) = fault
<1> DEFINE two == HeadChecks(columns) \o ColumnChecks(columns)
           three == two \o OrderChecks(columns)
           four == three \o IndexChecks
<1>1. two \in Seq(Fault) /\ (FirstFault(two) = NoFault <=>
        FirstFault(HeadChecks(columns)) = NoFault /\ FirstFault(ColumnChecks(columns)) = NoFault)
  BY RustChains, FirstOfChains
<1> HIDE DEF two
<1>2. /\ three \in Seq(Fault)
      /\ FirstFault(three) = NoFault <=>
             FirstFault(two) = NoFault /\ FirstFault(OrderChecks(columns)) = NoFault
      /\ FirstFault(two) # NoFault => FirstFault(three) = FirstFault(two)
  BY <1>1, RustChains, FirstOfChains
<1> HIDE DEF three
<1>3. /\ four \in Seq(Fault)
      /\ FirstFault(four) = NoFault <=>
             FirstFault(three) = NoFault /\ FirstFault(IndexChecks) = NoFault
      /\ FirstFault(three) # NoFault => FirstFault(four) = FirstFault(three)
  BY <1>2, RustChains, FirstOfChains
<1> HIDE DEF four
<1>4. LET all == FirstFault(four \o TtlChecks(columns)) IN
      /\ all = NoFault <=>
             FirstFault(four) = NoFault /\ FirstFault(TtlChecks(columns)) = NoFault
      /\ FirstFault(four) # NoFault => all = FirstFault(four)
  BY <1>3, RustChains, FirstOfChains
<1>5. RustFault(columns) = FirstFault(four \o TtlChecks(columns))
  BY DEF RustFault, two, three, four
<1>6. FirstFault(two) # NoFault => RustFault(columns) = FirstFault(two)
  BY <1>2, <1>3, <1>4, <1>5
<1> QED
  BY <1>1, <1>2, <1>3, <1>4, <1>5, <1>6 DEF two

(* What the chain leaves of a specification that it lets pass.             *)
LEMMA RustChecked ==
    ASSUME FormOK, NEW columns \in Seq(Column), RustFault(columns) = NoFault
    PROVE  /\ Unreadable(columns) = NoFault
           /\ AssertColumnCount("rust", Len(columns)) = NoFault
           /\ \A i \in DOMAIN columns : RustColumnCheck(columns, i) = NoFault
           /\ \A i \in DOMAIN form.order : form.order[i] \in NamesOf(columns)
           /\ \A i \in DOMAIN form.indexes : ValidateIdentifier("rust", "index", form.indexes[i]) = NoFault
           /\ form.ttl # NoTtl => form.ttl.column \in NamesOf(columns)
<1>1. /\ ValidateIdentifier("rust", "table", form.name) \in Fault
      /\ AssertColumnCount("rust", Len(columns)) \in Fault /\ Unreadable(columns) \in Fault
  <2>1. Len(columns) \in Nat
    OBVIOUS
  <2> QED
    BY <2>1, IdentifierCheck, CountCheck, SmallChecks DEF Kinds, Kits
<1>2. Unreadable(columns) = NoFault /\ AssertColumnCount("rust", Len(columns)) = NoFault
  <2>1. FirstFault(<<Unreadable(columns), ValidateIdentifier("rust", "table", form.name),
                     AssertColumnCount("rust", Len(columns))>>) = NoFault
    BY RustFaultParts DEF HeadChecks
  <2> QED
    BY <1>1, <2>1, TripleOfChecks
<1>3. \A i \in DOMAIN columns : RustColumnCheck(columns, i) = NoFault
  <2>1. \A i \in DOMAIN ColumnChecks(columns) : ColumnChecks(columns)[i] = NoFault
    BY RustChains, RustFaultParts, NoneIff
  <2> QED
    BY <2>1 DEF ColumnChecks
<1>4. \A i \in DOMAIN form.order : RustKnown("order_by", columns, form.order[i]) = NoFault
  <2>1. \A i \in DOMAIN OrderChecks(columns) : OrderChecks(columns)[i] = NoFault
    BY RustChains, RustFaultParts, NoneIff
  <2> QED
    BY <2>1 DEF OrderChecks
<1>5. \A i \in DOMAIN form.indexes : ValidateIdentifier("rust", "index", form.indexes[i]) = NoFault
  <2>1. \A i \in DOMAIN IndexChecks : IndexChecks[i] = NoFault
    BY RustChains, RustFaultParts, NoneIff
  <2> QED
    BY <2>1 DEF IndexChecks
<1>6. RustTtlCheck(columns) = NoFault
  <2>1. \A i \in DOMAIN TtlChecks(columns) : TtlChecks(columns)[i] = NoFault
    BY RustChains, RustFaultParts, NoneIff
  <2> QED
    BY <2>1 DEF TtlChecks
<1> QED
  BY <1>2, <1>3, <1>4, <1>5, <1>6, KnownCheck DEF RustTtlCheck, Kinds, Kits
-----------------------------------------------------------------------------
(* Columns.                                                                *)

LEMMA DistinctColumns ==
    ASSUME NEW columns \in Seq(Column), \A i \in DOMAIN columns : NotRepeated(columns, i) = NoFault
    PROVE  /\ \A i, j \in DOMAIN columns : columns[i].name = columns[j].name => i = j
           /\ IsFiniteSet(NamesOf(columns))
           /\ Cardinality(NamesOf(columns)) = Len(columns)
<1>1. DOMAIN columns = 1..Len(columns) /\ Len(columns) \in Nat
  OBVIOUS
<1>2. \A i, j \in DOMAIN columns : j < i => columns[j].name # columns[i].name
  <2> SUFFICES ASSUME NEW i \in DOMAIN columns, NEW j \in DOMAIN columns, j < i
               PROVE  columns[j].name # columns[i].name
    OBVIOUS
  <2>1. j \in 1..(i - 1)
    BY <1>1
  <2>2. NotRepeated(columns, i) = NoFault
    OBVIOUS
  <2> QED
    BY <2>1, <2>2 DEF NotRepeated, NoFault
<1>3. ASSUME NEW i \in DOMAIN columns, NEW j \in DOMAIN columns, columns[i].name = columns[j].name
      PROVE  i = j
  <2>1. i \in Nat /\ j \in Nat /\ ~(i < j) /\ ~(j < i)
    BY <1>1, <1>2, <1>3
  <2> QED
    BY <2>1
<1> DEFINE name == [i \in 1..Len(columns) |-> columns[i].name]
<1>4. name \in Surjection(1..Len(columns), NamesOf(columns))
  BY <1>1 DEF Surjection, NamesOf
<1>5. name \in Injection(1..Len(columns), NamesOf(columns))
  BY <1>1, <1>3, <1>4 DEF Injection, IsInjective, Surjection
<1>6. IsFiniteSet(1..Len(columns)) /\ Cardinality(1..Len(columns)) = Len(columns)
  BY <1>1, FS_Interval
<1> QED
  BY <1>3, <1>4, <1>5, <1>6, FS_Surjection

LEMMA RenderedColumns ==
    ASSUME NEW columns \in Seq(Column), NEW ttl
    PROVE  /\ Len(Render(columns, ttl).columns) = Len(columns)
           /\ DOMAIN Render(columns, ttl).columns = DOMAIN columns
           /\ \A i \in DOMAIN columns :
                  Render(columns, ttl).columns[i] =
                      [name |-> columns[i].name, type |-> ChType(columns[i].type)]
           /\ NamesOf(Render(columns, ttl).columns) = NamesOf(columns)
BY DEF Render, NamesOf

LEMMA TypeCheck ==
    ASSUME NEW type \in Type, type.core # "Decimal", RustTypeFault(type) = NoFault
    PROVE  /\ ChType(type).base # "Decimal" /\ ChType(type).precision <= 9
           /\ IsDateTime64(type) <=> ChType(type).base = "DateTime64"
BY DEF Type, Cores, Scalars, ChType, RustTypeFault, IsDateTime64, NoFault

LEMMA ColumnNamed ==
    ASSUME NEW columns, NEW n \in NamesOf(columns)
    PROVE  \E i \in DOMAIN columns : columns[i].name = n /\ ColumnOf(columns, n) = columns[i]
BY DEF NamesOf, ColumnOf

(* What passes the chain renders a sound table.                            *)
LEMMA RustCreateSound ==
    ASSUME FormOK, NEW columns \in Seq(Column), Rendered(RustCreate(columns))
    PROVE  Sound(RustCreate(columns))
<1> DEFINE table == Render(columns, RustTtl(columns))
<1>1. RustFault(columns) = NoFault /\ RustCreate(columns) = table
  BY RustCreateIs DEF Rendered, Refuse
<1>2. /\ Unreadable(columns) = NoFault
      /\ AssertColumnCount("rust", Len(columns)) = NoFault
      /\ \A i \in DOMAIN columns : RustColumnCheck(columns, i) = NoFault
      /\ \A i \in DOMAIN form.order : form.order[i] \in NamesOf(columns)
      /\ \A i \in DOMAIN form.indexes : ValidateIdentifier("rust", "index", form.indexes[i]) = NoFault
      /\ form.ttl # NoTtl => form.ttl.column \in NamesOf(columns)
  BY <1>1, RustChecked
<1>3. \A i \in DOMAIN columns :
         /\ ValidateIdentifier("rust", "column", columns[i].name) = NoFault
         /\ NotRepeated(columns, i) = NoFault
         /\ RustTypeFault(columns[i].type) = NoFault
  BY <1>2, ColumnCheck
<1>4. /\ \A i, j \in DOMAIN columns : columns[i].name = columns[j].name => i = j
      /\ Cardinality(NamesOf(columns)) = Len(columns)
  BY <1>3, DistinctColumns
<1>5. Len(columns) \in 1..MaxColumns["rust"]
  <2>1. Len(columns) \in Nat
    OBVIOUS
  <2> QED
    BY <1>2, <2>1, CountCheck DEF Kits
<1>6. \A i \in DOMAIN columns :
         /\ columns[i].type \in Type /\ columns[i].name \in Identifiers
         /\ columns[i].type.core # "Decimal"
  <2>1. \A i \in DOMAIN columns : columns[i] \in Column
    OBVIOUS
  <2>2. ~(\E i \in DOMAIN columns : columns[i].type.core = "Decimal")
    BY <1>2 DEF Unreadable, NoFault
  <2> QED
    BY <2>1, <2>2 DEF Column
<1>7. \A i \in DOMAIN columns :
         /\ ChType(columns[i].type).base # "Decimal" /\ ChType(columns[i].type).precision <= 9
         /\ IsDateTime64(columns[i].type) <=> ChType(columns[i].type).base = "DateTime64"
  BY <1>3, <1>6, TypeCheck
<1>8. NamesOf(columns) \subseteq {n \in WellFormed : ~TooLong("rust", n)}
  BY <1>3, <1>6, IdentifierCheck DEF NamesOf, Kinds, Kits
<1>9. ToSet(form.indexes) \subseteq {n \in WellFormed : ~TooLong("rust", n)}
  <2>1. \A i \in DOMAIN form.indexes : form.indexes[i] \in Identifiers
    BY DEF FormOK, Identifiers
  <2> QED
    BY <1>2, <2>1, IdentifierCheck DEF ToSet, Kinds, Kits
<1>10. ToSet(form.order) \subseteq NamesOf(columns)
  BY <1>2 DEF ToSet
<1>11. ASSUME RustTtl(columns) # NoTtl
       PROVE  /\ RustTtl(columns).clauses # {}
              /\ RustTtl(columns).column \in NamesOf(columns)
              /\ RustTtl(columns).wrapped <=>
                     ColumnOf(table.columns, RustTtl(columns).column).type.base = "DateTime64"
  <2> DEFINE n == form.ttl.column
  <2>1. /\ form.ttl # NoTtl /\ form.ttl.clauses # {}
        /\ RustTtl(columns) = [column |-> n, clauses |-> form.ttl.clauses,
                               wrapped |-> IsDateTime64(ColumnOf(columns, n).type)]
    BY <1>11 DEF RustTtl, RenderTtl
  <2>2. n \in NamesOf(columns) /\ n \in NamesOf(table.columns)
    BY <1>2, <2>1, RenderedColumns
  <2>3. PICK i \in DOMAIN columns : columns[i].name = n /\ ColumnOf(columns, n) = columns[i]
    BY <2>2, ColumnNamed
  <2>4. PICK j \in DOMAIN columns :
           table.columns[j].name = n /\ ColumnOf(table.columns, n) = table.columns[j]
    BY <2>2, ColumnNamed, RenderedColumns
  <2>5. table.columns[j] = [name |-> columns[j].name, type |-> ChType(columns[j].type)]
    BY RenderedColumns
  <2>6. i = j
    BY <1>4, <2>3, <2>4, <2>5
  <2>7. ColumnOf(table.columns, n).type.base = ChType(columns[i].type).base
    BY <2>4, <2>5, <2>6
  <2> QED
    BY <1>7, <2>1, <2>2, <2>3, <2>7
<1>12. table.ttl = RustTtl(columns) /\ table.indexes = form.indexes /\ table.order = form.order
  BY DEF Render
<1>13. /\ Len(table.columns) = Len(columns) /\ DOMAIN table.columns = DOMAIN columns
       /\ \A i \in DOMAIN columns : table.columns[i].type = ChType(columns[i].type)
       /\ NamesOf(table.columns) = NamesOf(columns)
  <2>1. \A i \in DOMAIN columns :
           table.columns[i] = [name |-> columns[i].name, type |-> ChType(columns[i].type)]
    BY RenderedColumns
  <2>2. /\ Len(table.columns) = Len(columns) /\ DOMAIN table.columns = DOMAIN columns
        /\ NamesOf(table.columns) = NamesOf(columns)
    BY RenderedColumns
  <2> HIDE DEF table
  <2>3. ASSUME NEW i \in DOMAIN columns
        PROVE  table.columns[i].type = ChType(columns[i].type)
    <3>1. table.columns[i] = [name |-> columns[i].name, type |-> ChType(columns[i].type)]
      BY <2>1
    <3> QED
      BY <3>1
  <2> QED
    BY <2>2, <2>3
<1> HIDE DEF table
<1> QED
  BY <1>1, <1>4, <1>5, <1>7, <1>8, <1>9, <1>10, <1>11, <1>12, <1>13 DEF Sound
-----------------------------------------------------------------------------
(* The forms.                                                              *)

LEMMA FormStep == FormOK /\ [Next]_vars => FormOK'
<1> SUFFICES ASSUME FormOK, [Next]_vars PROVE FormOK'
  OBVIOUS
<1>1. ASSUME NEW n \in Names, NEW t \in Types, Declare("mandatory", n, t)
      PROVE  FormOK'
  <2>1. [name |-> n, type |-> t] \in Column
    BY TypesAssumption DEF Column, Identifiers
  <2>2. Append(form.mandatory, [name |-> n, type |-> t]) \in Seq(Column)
    BY <2>1 DEF FormOK
  <2> QED
    BY <1>1, <2>1, <2>2 DEF Declare, FillIn, FormOK
<1>2. ASSUME NEW n \in Names, NEW t \in Types, Declare("promoted", n, t)
      PROVE  FormOK'
  <2>1. [name |-> n, type |-> t] \in Column
    BY TypesAssumption DEF Column, Identifiers
  <2>2. Append(form.promoted, [name |-> n, type |-> t]) \in Seq(Column)
    BY <2>1 DEF FormOK
  <2> QED
    BY <1>2, <2>1, <2>2 DEF Declare, FillIn, FormOK
<1>3. ASSUME NEW n \in Names, OrderBy(n)
      PROVE  FormOK'
  <2>1. Append(form.order, n) \in Seq(Names)
    BY DEF FormOK
  <2> QED
    BY <1>3, <2>1 DEF OrderBy, FillIn, FormOK
<1>4. ASSUME NEW n \in Names, AddIndex(n)
      PROVE  FormOK'
  <2>1. Append(form.indexes, n) \in Seq(Names)
    BY DEF FormOK
  <2> QED
    BY <1>4, <2>1 DEF AddIndex, FillIn, FormOK
<1>5. ASSUME NEW n \in Names, Reserve({n})
      PROVE  FormOK'
  BY <1>5 DEF Reserve, FillIn, FormOK, Identifiers
<1>6. ASSUME NEW n \in Names, NEW clauses \in SUBSET {"delete"}, Expire(n, clauses)
      PROVE  FormOK'
  BY <1>6 DEF Expire, FillIn, FormOK
<1>7. CASE UNCHANGED vars
  BY <1>7 DEF vars, FormOK
<1> QED
  BY <1>1, <1>2, <1>3, <1>4, <1>5, <1>6, <1>7 DEF Next

LEMMA FormInvariance == Spec => []FormOK
<1>1. Init => FormOK
  BY DEF Init, Blank, NoTtl, FormOK, Identifiers, DefaultReserved
<1> QED
  BY <1>1, FormStep, PTL DEF Spec

LEMMA CallerColumns ==
    ASSUME FormOK
    PROVE  Caller \in Seq(Column) /\ Caller \o <<Attrs, Raw>> \in Seq(Column)
<1>1. Attrs \in Column /\ Raw \in Column
  BY DEF Attrs, Raw, Column, Type, Cores, Scalars, Identifiers, DefaultReserved
<1> QED
  BY <1>1 DEF Caller, FormOK
-----------------------------------------------------------------------------
(* Whatever the specification and whatever the limits, the Rust kit        *)
(* renders sound tables only, a flexible table with its two appended       *)
(* columns and a replaced reserved set included.                           *)
THEOREM RustRendersSoundTables == Spec => []RustRendersSound
<1>1. ASSUME FormOK, Rendered(RustFlexible)
      PROVE  RustFlexible = RustCreate(Caller \o <<Attrs, Raw>>)
  BY <1>1 DEF RustFlexible, Rendered, Refuse
<1>2. FormOK => RustRendersSound
  BY <1>1, CallerColumns, RustCreateSound DEF RustRendersSound
<1> QED
  BY <1>2, FormInvariance, PTL
-----------------------------------------------------------------------------
(* TypeScript.                                                             *)

TsChecks ==
    <<ValidateIdentifier("ts", "table", form.name), AssertColumnCount("ts", Len(Caller))>>
    \o [i \in DOMAIN Caller |-> TsColumnCheck(Caller, i)]

LEMMA TsFromSpecIs ==
    TsFromSpec = IF FirstFault(TsChecks) = NoFault THEN ToCreateTableSql(Caller)
                 ELSE Refuse(FirstFault(TsChecks))
BY DEF TsFromSpec, TsChecks

(* What both kits measure alike they judge alike.                          *)
LEMMA CallerVerdicts ==
    ASSUME FormOK, NamesMeasureAlike
    PROVE  /\ ValidateIdentifier("rust", "table", form.name)
                = ValidateIdentifier("ts", "table", form.name)
           /\ \A i \in DOMAIN Caller :
                  ValidateIdentifier("rust", "column", Caller[i].name)
                    = ValidateIdentifier("ts", "column", Caller[i].name)
           /\ CountsAlike =>
                  AssertColumnCount("rust", Len(Caller)) = AssertColumnCount("ts", Len(Caller))
<1>1. form.name \in Identifiers /\ (TooLong("rust", form.name) <=> TooLong("ts", form.name))
  BY DEF FormOK, Identifiers, NamesMeasureAlike
<1>2. ASSUME NEW i \in DOMAIN Caller
      PROVE  ValidateIdentifier("rust", "column", Caller[i].name)
               = ValidateIdentifier("ts", "column", Caller[i].name)
  <2>1. Caller[i] \in Column
    BY CallerColumns
  <2>2. Caller[i].name \in Identifiers
    BY <2>1 DEF Column
  <2>3. TooLong("rust", Caller[i].name) <=> TooLong("ts", Caller[i].name)
    BY DEF NamesMeasureAlike, NamesOf
  <2> QED
    BY <2>2, <2>3, SameVerdict DEF Kinds
<1>3. CountsAlike =>
          AssertColumnCount("rust", Len(Caller)) = AssertColumnCount("ts", Len(Caller))
  BY Zenon DEF CountsAlike, AssertColumnCount
<1> QED
  BY <1>1, <1>2, <1>3, SameVerdict DEF Kinds

(* Reading a portable specification cannot fail, and its columns are       *)
(* checked alike, so the kits meet the same first fault up to there.       *)
LEMMA SameFaults ==
    ASSUME FormOK, NamesMeasureAlike, CountsAlike,
           \A i \in DOMAIN Caller : TsTypeFault(Caller[i].type) = NoFault
    PROVE  FirstFault(HeadChecks(Caller) \o ColumnChecks(Caller)) = FirstFault(TsChecks)
<1> DEFINE head == <<ValidateIdentifier("rust", "table", form.name), AssertColumnCount("rust", Len(Caller))>>
           each == ColumnChecks(Caller)
<1>1. \A i \in DOMAIN Caller : Caller[i].type.core \in Scalars \cup {"Map"}
  BY DEF TsTypeFault, NoFault
<1>2. /\ Unreadable(Caller) = NoFault
      /\ \A i \in DOMAIN Caller : RustTypeFault(Caller[i].type) = NoFault
  BY <1>1 DEF Unreadable, RustTypeFault, Scalars
<1>3. [i \in DOMAIN Caller |-> TsColumnCheck(Caller, i)] = each
  <2>1. ASSUME NEW i \in DOMAIN Caller
        PROVE  TsColumnCheck(Caller, i) = RustColumnCheck(Caller, i)
    <3>1. ValidateIdentifier("rust", "column", Caller[i].name)
            = ValidateIdentifier("ts", "column", Caller[i].name)
      BY CallerVerdicts
    <3>2. TsTypeFault(Caller[i].type) = NoFault /\ RustTypeFault(Caller[i].type) = NoFault
      BY <1>2
    <3> QED
      BY <3>1, <3>2 DEF TsColumnCheck, RustColumnCheck
  <2> QED
    BY <2>1 DEF ColumnChecks
<1>4. /\ ValidateIdentifier("rust", "table", form.name) \in Fault
      /\ AssertColumnCount("rust", Len(Caller)) \in Fault
  BY CallerColumns, IdentifierCheck, CountCheck DEF Kinds, Kits
<1>5. head \in Seq(Fault) /\ <<NoFault>> \in Seq(Fault) /\ each \in Seq(Fault)
  BY <1>4, CallerColumns, RustChains DEF Fault
<1>6. HeadChecks(Caller) = <<NoFault>> \o head
  BY <1>2 DEF HeadChecks
<1>7. FirstFault(<<NoFault>>) = NoFault
  <2> DEFINE s == <<NoFault>>
  <2>1. s \in Seq(Fault) /\ \A i \in DOMAIN s : s[i] = NoFault
    BY <1>5
  <2> HIDE DEF s
  <2>2. FirstFault(s) = NoFault
    BY <2>1, NoneIff
  <2> QED
    BY <2>2 DEF s
<1> DEFINE lead == <<NoFault>> \o head
<1> HIDE DEF head, each
<1>8. lead \in Seq(Fault) /\ FirstFault(lead) = FirstFault(head)
  BY <1>5, <1>7, FirstOfChains
<1> HIDE DEF lead
<1>9. FirstFault(lead \o each) = FirstFault(head \o each)
  BY <1>5, <1>8, FirstOfChains
<1>10. /\ ValidateIdentifier("rust", "table", form.name) = ValidateIdentifier("ts", "table", form.name)
       /\ AssertColumnCount("rust", Len(Caller)) = AssertColumnCount("ts", Len(Caller))
  BY CallerVerdicts
<1>11. head = <<ValidateIdentifier("ts", "table", form.name), AssertColumnCount("ts", Len(Caller))>>
  BY <1>10 DEF head
<1> QED
  BY <1>3, <1>6, <1>9, <1>11 DEF TsChecks, each, lead

(* What TypeScript leaves to the caller is no fault in Rust either.        *)
LEMMA PortableRest ==
    ASSUME FormOK, NamesMeasureAlike, CountsAlike, Portable(NamesOf(Caller)),
           FirstFault(TsChecks) = NoFault
    PROVE  RustFault(Caller) = NoFault
<1>1. \A i \in DOMAIN Caller : TsTypeFault(Caller[i].type) = NoFault
  BY DEF Portable
<1>2. /\ HeadChecks(Caller) \in Seq(Fault) /\ ColumnChecks(Caller) \in Seq(Fault)
      /\ OrderChecks(Caller) \in Seq(Fault) /\ IndexChecks \in Seq(Fault)
      /\ TtlChecks(Caller) \in Seq(Fault)
  BY CallerColumns, RustChains
<1>3. FirstFault(HeadChecks(Caller)) = NoFault /\ FirstFault(ColumnChecks(Caller)) = NoFault
  BY <1>1, <1>2, SameFaults, FirstOfChains
<1>4. \A i \in DOMAIN Caller : ValidateIdentifier("rust", "column", Caller[i].name) = NoFault
  <2>1. \A i \in DOMAIN Caller : RustColumnCheck(Caller, i) = NoFault
    <3>1. \A i \in DOMAIN ColumnChecks(Caller) : ColumnChecks(Caller)[i] = NoFault
      BY <1>2, <1>3, NoneIff
    <3> QED
      BY <3>1 DEF ColumnChecks
  <2> QED
    BY <2>1, ColumnCheck
<1>5. ASSUME NEW n \in NamesOf(Caller), NEW kind \in Kinds
      PROVE  RustKnown(kind, Caller, n) = NoFault
  BY <1>4, KnownCheck DEF NamesOf
<1>6. FirstFault(OrderChecks(Caller)) = NoFault
  <2>1. \A i \in DOMAIN form.order : form.order[i] \in NamesOf(Caller)
    BY DEF Portable, ToSet
  <2>2. \A i \in DOMAIN OrderChecks(Caller) : OrderChecks(Caller)[i] = NoFault
    BY <1>5, <2>1 DEF OrderChecks, Kinds, Kits
  <2> QED
    BY <1>2, <2>2, NoneIff
<1>7. FirstFault(IndexChecks) = NoFault
  <2>1. \A i \in DOMAIN IndexChecks : IndexChecks[i] = NoFault
    BY DEF IndexChecks, Portable
  <2> QED
    BY <1>2, <2>1, NoneIff
<1>8. FirstFault(TtlChecks(Caller)) = NoFault
  <2>1. RustTtlCheck(Caller) = NoFault
    BY <1>5 DEF RustTtlCheck, Portable, Kinds, Kits
  <2>2. \A i \in DOMAIN TtlChecks(Caller) : TtlChecks(Caller)[i] = NoFault
    BY <2>1 DEF TtlChecks
  <2> QED
    BY <1>2, <2>2, NoneIff
<1> QED
  BY <1>3, <1>6, <1>7, <1>8, CallerColumns, RustFaultParts

(* Of a portable specification whose names and number of columns exceed    *)
(* the limits of both kits or of neither, each in its own units, both kits *)
(* render the same plain table or refuse it for the same reason, the first *)
(* that either of them meets.                                              *)
THEOREM PlainTablesRenderAlike ==
    Spec => [](NamesMeasureAlike /\ CountsAlike /\ Portable(NamesOf(Caller))
                   => RustCreate(Caller) = TsFromSpec)
<1>1. ASSUME FormOK, NamesMeasureAlike, CountsAlike, Portable(NamesOf(Caller))
      PROVE  RustCreate(Caller) = TsFromSpec
  <2>1. FirstFault(HeadChecks(Caller) \o ColumnChecks(Caller)) = FirstFault(TsChecks)
    BY <1>1, SameFaults DEF Portable
  <2>2. CASE FirstFault(TsChecks) # NoFault
    <3>1. RustFault(Caller) = FirstFault(TsChecks)
      BY <1>1, <2>1, <2>2, CallerColumns, RustFaultParts
    <3> QED
      BY <2>2, <3>1, RustCreateIs, TsFromSpecIs
  <2>3. CASE FirstFault(TsChecks) = NoFault
    <3>1. RustCreate(Caller) = Render(Caller, RustTtl(Caller))
      BY <1>1, <2>3, PortableRest, RustCreateIs
    <3>2. TsFromSpec = Render(Caller, RenderTtl(Caller))
      BY <1>1, <2>3, TsFromSpecIs DEF ToCreateTableSql, Portable
    <3>3. RustTtl(Caller) = RenderTtl(Caller)
      BY <1>1 DEF RustTtl, RenderTtl, Portable, NoTtl
    <3> QED
      BY <3>1, <3>2, <3>3
  <2> QED
    BY <2>2, <2>3
<1> QED
  BY <1>1, FormInvariance, PTL
-----------------------------------------------------------------------------
(* Flexible tables.  Assigned one by one to an empty object, columns of    *)
(* different names stay where they are.                                    *)

AssignFold == INSTANCE Folding WITH Step <- Assign

Distinct(columns) == \A i, j \in DOMAIN columns : columns[i].name = columns[j].name => i = j

LEMMA AssignIsFold ==
    ASSUME NEW s
    PROVE  FoldLeft(Assign, << >>, s) = AssignFold!Fold(<< >>, s)
BY DEF AssignFold!Fold, FoldLeft, MapThenFoldSet, AssignFold!FoldLeft, AssignFold!MapThenFoldSet,
       Max, AssignFold!Max

LEMMA AssignSteps ==
    /\ FoldLeft(Assign, << >>, << >>) = << >>
    /\ \A s \in Seq(Column), c \in Column :
           FoldLeft(Assign, << >>, Append(s, c)) = Assign(FoldLeft(Assign, << >>, s), c)
<1>1. FoldLeft(Assign, << >>, << >>) = << >>
  BY AssignIsFold, AssignFold!FoldEmpty
<1>2. ASSUME NEW s \in Seq(Column), NEW c \in Column
      PROVE  FoldLeft(Assign, << >>, Append(s, c)) = Assign(FoldLeft(Assign, << >>, s), c)
  <2>1. AssignFold!Fold(<< >>, Append(s, c)) = Assign(AssignFold!Fold(<< >>, s), c)
    BY AssignFold!FoldAppend
  <2> QED
    BY <2>1, AssignIsFold
<1> QED
  BY <1>1, <1>2

LEMMA DistinctPrefix ==
    ASSUME NEW s \in Seq(Column), NEW c \in Column, Distinct(Append(s, c))
    PROVE  Distinct(s) /\ c.name \notin NamesOf(s)
<1> DEFINE t == Append(s, c)
<1>1. /\ Len(s) \in Nat /\ DOMAIN s = 1..Len(s) /\ DOMAIN t = 1..(Len(s) + 1)
      /\ t[Len(s) + 1] = c /\ \A i \in DOMAIN s : t[i] = s[i]
  OBVIOUS
<1>2. \A i, j \in DOMAIN t : t[i].name = t[j].name => i = j
  BY DEF Distinct
<1> HIDE DEF t
<1>3. Distinct(s)
  BY <1>1, <1>2 DEF Distinct
<1>4. ASSUME c.name \in NamesOf(s)
      PROVE  FALSE
  <2>1. PICK i \in DOMAIN s : s[i].name = c.name
    BY <1>4 DEF NamesOf
  <2>2. i \in DOMAIN t /\ Len(s) + 1 \in DOMAIN t /\ i # Len(s) + 1
    BY <1>1
  <2> QED
    BY <1>1, <1>2, <2>1, <2>2
<1> QED
  BY <1>3, <1>4

LEMMA AssignKeeps ==
    ASSUME NEW columns \in Seq(Column), Distinct(columns)
    PROVE  FoldLeft(Assign, << >>, columns) = columns
<1> DEFINE Kept == {s \in Seq(Column) : Distinct(s) => FoldLeft(Assign, << >>, s) = s}
<1>1. << >> \in Kept
  BY AssignSteps
<1>2. ASSUME NEW s \in Kept, NEW c \in Column
      PROVE  Append(s, c) \in Kept
  <2> SUFFICES ASSUME Distinct(Append(s, c)) PROVE FoldLeft(Assign, << >>, Append(s, c)) = Append(s, c)
    OBVIOUS
  <2>1. s \in Seq(Column) /\ Distinct(s) /\ c.name \notin NamesOf(s)
    BY DistinctPrefix
  <2>2. FoldLeft(Assign, << >>, s) = s
    BY <2>1
  <2> QED
    BY <2>1, <2>2, AssignSteps DEF Assign
<1>3. Kept = Seq(Column)
  <2>1. Kept \in SUBSET Seq(Column)
    OBVIOUS
  <2> HIDE DEF Kept
  <2> QED
    BY <1>1, <1>2, <2>1, AssignFold!SequenceInduction
<1> QED
  BY <1>3

(* As many names as columns: no two columns share one.                     *)
LEMMA CountedApart ==
    ASSUME NEW columns \in Seq(Column), Cardinality(NamesOf(columns)) = Len(columns)
    PROVE  Distinct(columns)
<1> DEFINE name == [i \in 1..Len(columns) |-> columns[i].name]
<1>1. DOMAIN columns = 1..Len(columns) /\ Len(columns) \in Nat
  OBVIOUS
<1>2. name \in Surjection(1..Len(columns), NamesOf(columns))
  BY <1>1 DEF Surjection, NamesOf
<1>3. IsFiniteSet(1..Len(columns)) /\ Cardinality(1..Len(columns)) = Len(columns)
  <2>1. ASSUME NEW n \in Nat
        PROVE  IsFiniteSet(1..n) /\ Cardinality(1..n) = n
    <3>1. 1 \in Int /\ n \in Int /\ (IF 1 > n THEN 0 ELSE n - 1 + 1) = n
      OBVIOUS
    <3> QED
      BY <3>1, FS_Interval
  <2> HIDE DEF name
  <2> QED
    BY <1>1, <2>1
<1>4. name \in Injection(1..Len(columns), NamesOf(columns))
  <2> HIDE DEF name
  <2> QED
    BY <1>2, <1>3, FS_Surjection
<1>5. \A i, j \in 1..Len(columns) : name[i] = name[j] => i = j
  BY <1>4 DEF Injection, IsInjective
<1> QED
  BY <1>1, <1>5 DEF Distinct

All == Caller \o <<Attrs, Raw>>

LEMMA AllColumns ==
    ASSUME FormOK
    PROVE  /\ Caller \in Seq(Column) /\ All \in Seq(Column) /\ Len(Caller) \in Nat
           /\ DOMAIN Caller = 1..Len(Caller) /\ Len(All) = Len(Caller) + 2
           /\ DOMAIN All = 1..(Len(Caller) + 2)
           /\ \A i \in DOMAIN Caller : i \in DOMAIN All /\ All[i] = Caller[i]
           /\ All[Len(Caller) + 1] = Attrs /\ All[Len(Caller) + 2] = Raw
           /\ NamesOf(All) = NamesOf(Caller) \cup DefaultReserved
<1>1. Caller \in Seq(Column) /\ All \in Seq(Column) /\ Attrs \in Column /\ Raw \in Column
  BY CallerColumns DEF All, Attrs, Raw, Column, Type, Cores, Scalars, Identifiers, DefaultReserved
<1>2. /\ Len(Caller) \in Nat /\ DOMAIN Caller = 1..Len(Caller) /\ Len(All) = Len(Caller) + 2
      /\ DOMAIN All = 1..(Len(Caller) + 2)
      /\ \A i \in DOMAIN Caller : i \in DOMAIN All /\ All[i] = Caller[i]
      /\ All[Len(Caller) + 1] = Attrs /\ All[Len(Caller) + 2] = Raw
  BY <1>1 DEF All
<1>3. \A i \in DOMAIN All : i \in DOMAIN Caller \/ i = Len(Caller) + 1 \/ i = Len(Caller) + 2
  BY <1>2
<1>4. Attrs.name = "attrs" /\ Raw.name = "raw"
  BY DEF Attrs, Raw
<1>5. NamesOf(Caller) \cup DefaultReserved \subseteq NamesOf(All)
  BY <1>2, <1>4 DEF NamesOf, DefaultReserved
<1>6. NamesOf(All) \subseteq NamesOf(Caller) \cup DefaultReserved
  BY <1>2, <1>3, <1>4 DEF NamesOf, DefaultReserved
<1> QED
  BY <1>1, <1>2, <1>5, <1>6

(* The checks of a flexible table leave its columns apart.                 *)
LEMMA AllApart ==
    ASSUME FormOK, EachOnce, form.reserved = DefaultReserved,
           NEW kit \in Kits, \A i \in DOMAIN Caller : CallerCheck(kit, i) = NoFault
    PROVE  Distinct(All)
<1>1. Distinct(Caller)
  BY AllColumns, CountedApart DEF EachOnce
<1>2. \A i \in DOMAIN Caller : Caller[i].name \notin DefaultReserved
  <2> SUFFICES ASSUME NEW i \in DOMAIN Caller PROVE Caller[i].name \notin DefaultReserved
    OBVIOUS
  <2>1. ValidateIdentifier(kit, "column", Caller[i].name) \in Fault /\ AssertNotReserved(Caller[i].name) \in Fault
    BY IdentifierCheck, SmallChecks DEF Kinds, Kits
  <2>2. AssertNotReserved(Caller[i].name) = NoFault
    BY <2>1, PairOfChecks DEF CallerCheck
  <2> QED
    BY <2>2 DEF AssertNotReserved, NoFault
<1>3. Attrs.name = "attrs" /\ Raw.name = "raw"
  BY DEF Attrs, Raw
<1> SUFFICES ASSUME NEW i \in DOMAIN All, NEW j \in DOMAIN All, All[i].name = All[j].name
             PROVE  i = j
  BY DEF Distinct
<1>4. /\ i \in DOMAIN Caller \/ i = Len(Caller) + 1 \/ i = Len(Caller) + 2
      /\ j \in DOMAIN Caller \/ j = Len(Caller) + 1 \/ j = Len(Caller) + 2
  BY AllColumns
<1>5. ASSUME NEW k \in DOMAIN Caller
      PROVE  All[k].name = Caller[k].name /\ All[k].name # "attrs" /\ All[k].name # "raw"
  BY <1>2, AllColumns DEF DefaultReserved
<1>6. CASE i \in DOMAIN Caller /\ j \in DOMAIN Caller
  BY <1>1, <1>5, <1>6 DEF Distinct
<1>7. CASE ~(i \in DOMAIN Caller /\ j \in DOMAIN Caller)
  <2>1. All[Len(Caller) + 1].name = "attrs" /\ All[Len(Caller) + 2].name = "raw"
    BY <1>3, AllColumns
  <2> QED
    BY <1>4, <1>5, <1>7, <2>1
<1> QED
  BY <1>6, <1>7

(* Whatever the specification, a flexible table keeps the caller's columns *)
(* in their places with their types, and attrs and raw after them.         *)
THEOREM FlexibleTablesKeepColumns == Spec => []FlexibleKeepsColumns
<1>1. ASSUME NEW columns \in Seq(Column), NEW ttl
      PROVE  Render(columns, ttl).columns = Render(columns, NoTtl).columns
  BY DEF Render
<1>2. ASSUME FormOK, Rendered(RustFlexible)
      PROVE  RustFlexible.columns = Render(All, NoTtl).columns
  <2>1. RustFlexible = RustCreate(All)
    BY <1>2 DEF RustFlexible, Rendered, Refuse, All
  <2>2. RustCreate(All) = Render(All, RustTtl(All))
    BY <1>2, <2>1, RustCreateIs DEF Rendered, Refuse
  <2> QED
    BY <1>1, <1>2, <2>1, <2>2, AllColumns
<1>3. ASSUME FormOK, Rendered(TsFlexible), EachOnce, form.reserved = DefaultReserved
      PROVE  TsFlexible.columns = Render(All, NoTtl).columns
  <2> DEFINE types == [i \in DOMAIN Caller |-> TsTypeFault(Caller[i].type)]
             table == <<ValidateIdentifier("ts", "table", form.name)>>
             names == [i \in DOMAIN Caller |-> CallerCheck("ts", i)]
  <2>1. /\ FirstFault(types \o table \o names) = NoFault
        /\ TsFlexible = ToCreateTableSql(FoldLeft(Assign, << >>, All))
    BY <1>3 DEF TsFlexible, Rendered, Refuse, All
  <2>2. DOMAIN Caller = 1..Len(Caller) /\ Len(Caller) \in Nat
    BY <1>3, AllColumns
  <2>3. types \in Seq(Fault)
    BY <2>2, SmallChecks
  <2>4. table \in Seq(Fault)
    BY IdentifierCheck DEF Kinds, Kits
  <2>5. names \in Seq(Fault) /\ DOMAIN names = DOMAIN Caller
    BY <2>2, CallerCheckType DEF Kits
  <2>6. \A i \in DOMAIN names : names[i] = NoFault
    <3> HIDE DEF types, table, names
    <3> QED
      BY <2>1, <2>3, <2>4, <2>5, FirstOfChains, NoneIff
  <2>7. \A i \in DOMAIN Caller : CallerCheck("ts", i) = NoFault
    BY <2>6
  <2>8. FoldLeft(Assign, << >>, All) = All
    BY <1>3, <2>7, AllApart, AllColumns, AssignKeeps DEF Kits
  <2>9. ToCreateTableSql(All) = Render(All, RenderTtl(All))
    BY <1>3, <2>1, <2>8 DEF ToCreateTableSql, Rendered, Refuse
  <2> QED
    BY <1>1, <1>3, <2>1, <2>8, <2>9, AllColumns
<1>4. FormOK => FlexibleKeepsColumns
  BY <1>2, <1>3 DEF FlexibleKeepsColumns, All, Kits
<1> QED
  BY <1>4, FormInvariance, PTL
-----------------------------------------------------------------------------
(* Flexible tables, in both kits.  The checks that either makes, those on  *)
(* which they differ set apart: none of them fails on a portable           *)
(* specification.                                                          *)

FlexibleChecks(kit) ==
    <<ValidateIdentifier(kit, "table", form.name)>> \o [i \in DOMAIN Caller |-> CallerCheck(kit, i)]
TypeChecks == [i \in DOMAIN Caller |-> TsTypeFault(Caller[i].type)]

LEMMA FlexibleChains ==
    ASSUME FormOK, NEW kit \in Kits
    PROVE  /\ <<ValidateIdentifier(kit, "table", form.name)>> \in Seq(Fault)
           /\ [i \in DOMAIN Caller |-> CallerCheck(kit, i)] \in Seq(Fault)
           /\ TypeChecks \in Seq(Fault) /\ FlexibleChecks(kit) \in Seq(Fault)
<1>1. DOMAIN Caller = 1..Len(Caller) /\ Len(Caller) \in Nat
  BY AllColumns
<1>2. <<ValidateIdentifier(kit, "table", form.name)>> \in Seq(Fault)
  BY IdentifierCheck DEF Kinds
<1>3. [i \in DOMAIN Caller |-> CallerCheck(kit, i)] \in Seq(Fault)
  BY <1>1, CallerCheckType
<1>4. TypeChecks \in Seq(Fault)
  BY <1>1, SmallChecks DEF TypeChecks
<1> QED
  BY <1>2, <1>3, <1>4, FirstOfChains DEF FlexibleChecks

(* Checks that pass can be left out.                                       *)
LEMMA PassingPrefix ==
    ASSUME NEW s \in Seq(Fault), NEW t \in Seq(Fault), \A i \in DOMAIN s : s[i] = NoFault
    PROVE  FirstFault(s \o t) = FirstFault(t)
BY NoneIff, FirstOfChains

LEMMA FlexibleFaults ==
    ASSUME FormOK, \A i \in DOMAIN Caller : TsTypeFault(Caller[i].type) = NoFault
    PROVE  /\ RustFlexible = IF FirstFault(FlexibleChecks("rust")) = NoFault THEN RustCreate(All)
                             ELSE Refuse(FirstFault(FlexibleChecks("rust")))
           /\ TsFlexible = IF FirstFault(FlexibleChecks("ts")) = NoFault
                           THEN ToCreateTableSql(FoldLeft(Assign, << >>, All))
                           ELSE Refuse(FirstFault(FlexibleChecks("ts")))
<1> DEFINE table == <<ValidateIdentifier("rust", "table", form.name)>>
           names == [i \in DOMAIN Caller |-> CallerCheck("rust", i)]
           tsTable == <<ValidateIdentifier("ts", "table", form.name)>>
           tsNames == [i \in DOMAIN Caller |-> CallerCheck("ts", i)]
<1>1. /\ table \in Seq(Fault) /\ names \in Seq(Fault)
      /\ tsTable \in Seq(Fault) /\ tsNames \in Seq(Fault)
      /\ TypeChecks \in Seq(Fault) /\ <<NoFault>> \in Seq(Fault)
  BY FlexibleChains DEF Fault, Kits
<1>2. Unreadable(Caller) = NoFault
  BY DEF Unreadable, TsTypeFault, NoFault, Scalars
<1>3. FirstFault(<<Unreadable(Caller), ValidateIdentifier("rust", "table", form.name)>> \o names)
        = FirstFault(FlexibleChecks("rust"))
  <2>1. <<Unreadable(Caller), ValidateIdentifier("rust", "table", form.name)>> = <<NoFault>> \o table
    BY <1>2
  <2>2. (<<NoFault>> \o table) \o names = <<NoFault>> \o (table \o names)
    BY <1>1
  <2>3. table \o names \in Seq(Fault)
    BY <1>1
  <2> DEFINE s == <<NoFault>>
  <2>4. s \in Seq(Fault) /\ \A i \in DOMAIN s : s[i] = NoFault
    BY <1>1
  <2> HIDE DEF s, table, names
  <2>5. FirstFault(s \o (table \o names)) = FirstFault(table \o names)
    BY <2>3, <2>4, PassingPrefix
  <2> QED
    BY <2>1, <2>2, <2>5 DEF FlexibleChecks, s, table, names
<1>4. FirstFault(TypeChecks \o tsTable \o tsNames) = FirstFault(FlexibleChecks("ts"))
  <2>1. \A i \in DOMAIN TypeChecks : TypeChecks[i] = NoFault
    BY DEF TypeChecks
  <2> HIDE DEF tsTable, tsNames
  <2>2. /\ TypeChecks \o tsTable \o tsNames = TypeChecks \o (tsTable \o tsNames)
        /\ tsTable \o tsNames \in Seq(Fault)
    BY <1>1
  <2>3. FirstFault(TypeChecks \o (tsTable \o tsNames)) = FirstFault(tsTable \o tsNames)
    BY <1>1, <2>1, <2>2, PassingPrefix
  <2> QED
    BY <2>2, <2>3 DEF FlexibleChecks, tsTable, tsNames
<1> QED
  BY <1>3, <1>4 DEF RustFlexible, TsFlexible, All, TypeChecks

(* With attrs and raw within the limits, what passes the checks of a       *)
(* flexible table passes those of the plain one it becomes.                *)
LEMMA FlexibleRest ==
    ASSUME FormOK, Portable(NamesOf(Caller) \cup DefaultReserved), AppendedFit, Distinct(All),
           FirstFault(FlexibleChecks("rust")) = NoFault
    PROVE  RustFault(All) = NoFault
<1>1. /\ HeadChecks(All) \in Seq(Fault) /\ ColumnChecks(All) \in Seq(Fault)
      /\ OrderChecks(All) \in Seq(Fault) /\ IndexChecks \in Seq(Fault)
      /\ TtlChecks(All) \in Seq(Fault)
  BY AllColumns, RustChains
<1>2. /\ ValidateIdentifier("rust", "table", form.name) = NoFault
      /\ \A i \in DOMAIN Caller : CallerCheck("rust", i) = NoFault
  <2> DEFINE table == <<ValidateIdentifier("rust", "table", form.name)>>
             names == [i \in DOMAIN Caller |-> CallerCheck("rust", i)]
  <2>1. table \in Seq(Fault) /\ names \in Seq(Fault)
    BY FlexibleChains DEF Kits
  <2>2. 1 \in DOMAIN table /\ table[1] = ValidateIdentifier("rust", "table", form.name)
    OBVIOUS
  <2>3. DOMAIN names = DOMAIN Caller /\ \A i \in DOMAIN Caller : names[i] = CallerCheck("rust", i)
    OBVIOUS
  <2>4. FirstFault(table \o names) = NoFault
    BY DEF FlexibleChecks
  <2> HIDE DEF table, names
  <2>5. FirstFault(table) = NoFault /\ FirstFault(names) = NoFault
    BY <2>1, <2>4, FirstOfChains
  <2>6. (\A i \in DOMAIN table : table[i] = NoFault) /\ (\A i \in DOMAIN names : names[i] = NoFault)
    BY <2>1, <2>5, NoneIff
  <2> QED
    BY <2>2, <2>3, <2>6
<1>3. \A n \in DefaultReserved : ValidateIdentifier("rust", "column", n) = NoFault
  <2> SUFFICES ASSUME NEW n \in DefaultReserved PROVE ValidateIdentifier("rust", "column", n) = NoFault
    OBVIOUS
  <2>1. /\ n \in WellFormed /\ ~TooLong("rust", n)
        /\ Size["rust"][n] \in Nat /\ Size["rust"][n] > 0
    BY NamesAssumption DEF AppendedFit, Kits
  <2>2. Size["rust"][n] # 0
    BY <2>1
  <2> QED
    BY <2>1, <2>2, Zenon DEF ValidateIdentifier
<1>4. \A n \in NamesOf(All) : ValidateIdentifier("rust", "column", n) = NoFault
  <2>1. ASSUME NEW i \in DOMAIN Caller
        PROVE  ValidateIdentifier("rust", "column", Caller[i].name) = NoFault
    <3>1. /\ ValidateIdentifier("rust", "column", Caller[i].name) \in Fault
          /\ AssertNotReserved(Caller[i].name) \in Fault
      BY IdentifierCheck, SmallChecks DEF Kinds, Kits
    <3>2. CallerCheck("rust", i) = NoFault
      BY <1>2
    <3> QED
      BY <3>1, <3>2, PairOfChecks DEF CallerCheck
  <2> QED
    BY <1>3, <2>1, AllColumns DEF NamesOf
<1>5. ASSUME NEW i \in DOMAIN All
      PROVE  All[i].type.core \in Scalars \cup {"Map"}
  <2>1. i \in DOMAIN Caller \/ i = Len(Caller) + 1 \/ i = Len(Caller) + 2
    BY AllColumns
  <2>2. Attrs.type.core = "Map" /\ Raw.type.core = "String"
    BY DEF Attrs, Raw
  <2>3. CASE i \in DOMAIN Caller
    <3>1. TsTypeFault(Caller[i].type) = NoFault /\ All[i] = Caller[i]
      BY <2>3, AllColumns DEF Portable
    <3> QED
      BY <3>1 DEF TsTypeFault, NoFault
  <2>4. CASE i = Len(Caller) + 1
    BY <2>2, <2>4, AllColumns
  <2>5. CASE i = Len(Caller) + 2
    BY <2>2, <2>5, AllColumns DEF Scalars
  <2> QED
    BY <2>1, <2>3, <2>4, <2>5
<1>6. FirstFault(HeadChecks(All)) = NoFault
  <2>1. Unreadable(All) = NoFault
    BY <1>5 DEF Unreadable, Scalars
  <2>2. AssertColumnCount("rust", Len(All)) = NoFault
    <3>1. /\ Len(All) \in Nat /\ Len(All) >= 1 /\ Len(All) <= MaxColumns["rust"]
          /\ MaxColumns["rust"] \in Nat
      BY AllColumns, LimitsAssumption DEF AppendedFit, Kits
    <3>2. ~(Len(All) < 1) /\ ~(Len(All) > MaxColumns["rust"])
      BY <3>1
    <3> QED
      BY <3>2, Zenon DEF AssertColumnCount
  <2>3. NoFault \in Fault
    BY DEF Fault
  <2> QED
    BY <1>2, <2>1, <2>2, <2>3, TripleOfChecks DEF HeadChecks
<1>7. FirstFault(ColumnChecks(All)) = NoFault
  <2>1. ASSUME NEW i \in DOMAIN All
        PROVE  RustColumnCheck(All, i) = NoFault
    <3>1. ValidateIdentifier("rust", "column", All[i].name) = NoFault
      BY <1>4 DEF NamesOf
    <3>2. NotRepeated(All, i) = NoFault
      <4> SUFFICES ASSUME NEW j \in 1..(i - 1), All[j].name = All[i].name PROVE FALSE
        BY DEF NotRepeated
      <4>1. j \in DOMAIN All /\ j # i
        BY AllColumns
      <4> QED
        BY <4>1 DEF Distinct
    <3>3. RustTypeFault(All[i].type) = NoFault
      BY <1>5 DEF RustTypeFault, Scalars
    <3> QED
      BY <3>1, <3>2, <3>3, ColumnCheck
  <2>2. \A i \in DOMAIN ColumnChecks(All) : ColumnChecks(All)[i] = NoFault
    BY <2>1 DEF ColumnChecks
  <2> QED
    BY <1>1, <2>2, NoneIff
<1>8. ASSUME NEW n \in NamesOf(Caller) \cup DefaultReserved, NEW kind \in Kinds
      PROVE  RustKnown(kind, All, n) = NoFault
  BY <1>4, AllColumns, KnownCheck
<1>9. FirstFault(OrderChecks(All)) = NoFault
  <2>1. \A i \in DOMAIN form.order : form.order[i] \in NamesOf(Caller) \cup DefaultReserved
    BY DEF Portable, ToSet
  <2>2. \A i \in DOMAIN OrderChecks(All) : OrderChecks(All)[i] = NoFault
    BY <1>8, <2>1 DEF OrderChecks, Kinds, Kits
  <2> QED
    BY <1>1, <2>2, NoneIff
<1>10. FirstFault(IndexChecks) = NoFault
  <2>1. \A i \in DOMAIN IndexChecks : IndexChecks[i] = NoFault
    BY DEF IndexChecks, Portable
  <2> QED
    BY <1>1, <2>1, NoneIff
<1>11. FirstFault(TtlChecks(All)) = NoFault
  <2>1. RustTtlCheck(All) = NoFault
    BY <1>8 DEF RustTtlCheck, Portable, Kinds, Kits
  <2>2. \A i \in DOMAIN TtlChecks(All) : TtlChecks(All)[i] = NoFault
    BY <2>1 DEF TtlChecks
  <2> QED
    BY <1>1, <2>2, NoneIff
<1> QED
  BY <1>6, <1>7, <1>9, <1>10, <1>11, AllColumns, RustFaultParts

(* Kits that measure a form's names alike make the same flexible checks.   *)
LEMMA SameFlexibleChecks ==
    ASSUME FormOK, NamesMeasureAlike
    PROVE  FlexibleChecks("rust") = FlexibleChecks("ts")
<1>1. ValidateIdentifier("rust", "table", form.name) = ValidateIdentifier("ts", "table", form.name)
  BY CallerVerdicts
<1>2. \A i \in DOMAIN Caller : CallerCheck("rust", i) = CallerCheck("ts", i)
  BY CallerVerdicts DEF CallerCheck
<1>3. [i \in DOMAIN Caller |-> CallerCheck("rust", i)] = [i \in DOMAIN Caller |-> CallerCheck("ts", i)]
  BY <1>2
<1> QED
  BY <1>1, <1>3 DEF FlexibleChecks

(* Of a portable specification whose names are too long for both kits or   *)
(* for neither, both render the same table or refuse it for the same       *)
(* reason: a plain one when its columns, too, are too many for both or for *)
(* neither, and a flexible one when attrs and raw are reserved, each       *)
(* column is named once and there is room for both.                        *)
THEOREM KitsAlwaysRenderAlike == Spec => []KitsRenderAlike
<1>1. ASSUME FormOK, NamesMeasureAlike, Portable(NamesOf(Caller) \cup DefaultReserved), EachOnce,
             form.reserved = DefaultReserved, AppendedFit
      PROVE  RustFlexible = TsFlexible
  <2>1. /\ \A i \in DOMAIN Caller : TsTypeFault(Caller[i].type) = NoFault
        /\ FlexibleChecks("ts") = FlexibleChecks("rust")
    BY <1>1, SameFlexibleChecks DEF Portable
  <2>2. CASE FirstFault(FlexibleChecks("rust")) # NoFault
    BY <1>1, <2>1, <2>2, FlexibleFaults
  <2>3. CASE FirstFault(FlexibleChecks("rust")) = NoFault
    <3>1. \A i \in DOMAIN Caller : CallerCheck("rust", i) = NoFault
      <4> DEFINE names == [i \in DOMAIN Caller |-> CallerCheck("rust", i)]
      <4>1. names \in Seq(Fault) /\ <<ValidateIdentifier("rust", "table", form.name)>> \in Seq(Fault)
        BY <1>1, FlexibleChains DEF Kits
      <4>2. FirstFault(<<ValidateIdentifier("rust", "table", form.name)>> \o names) = NoFault
        BY <2>3 DEF FlexibleChecks
      <4>3. DOMAIN names = DOMAIN Caller /\ \A i \in DOMAIN Caller : names[i] = CallerCheck("rust", i)
        OBVIOUS
      <4> HIDE DEF names
      <4>4. \A i \in DOMAIN names : names[i] = NoFault
        BY <4>1, <4>2, FirstOfChains, NoneIff
      <4> QED
        BY <4>3, <4>4
    <3>2. Distinct(All)
      BY <1>1, <3>1, AllApart DEF Kits
    <3>3. FoldLeft(Assign, << >>, All) = All
      BY <1>1, <3>2, AllColumns, AssignKeeps
    <3>4. RustFault(All) = NoFault
      BY <1>1, <2>3, <3>2, FlexibleRest
    <3>5. RustFlexible = Render(All, RustTtl(All))
      BY <1>1, <2>1, <2>3, <3>4, FlexibleFaults, RustCreateIs
    <3>6. form.ttl # NoTtl => form.ttl.clauses # {} /\ form.ttl.column \in NamesOf(All)
      BY <1>1, AllColumns DEF Portable
    <3>7. TsFlexible = Render(All, RenderTtl(All))
      BY <1>1, <2>1, <2>3, <3>3, <3>6, FlexibleFaults DEF ToCreateTableSql
    <3>8. RustTtl(All) = RenderTtl(All)
      BY <3>6 DEF RustTtl, RenderTtl, NoTtl
    <3> QED
      BY <3>5, <3>7, <3>8
  <2> QED
    BY <2>2, <2>3
<1>2. /\ FormOK
      /\ NamesMeasureAlike /\ CountsAlike /\ Portable(NamesOf(Caller)) => RustCreate(Caller) = TsFromSpec
      => KitsRenderAlike
  BY <1>1 DEF KitsRenderAlike
<1> QED
  BY <1>2, FormInvariance, PlainTablesRenderAlike, PTL
=============================================================================
