----------------------- MODULE SchemaLifecycleProofs -----------------------
(***************************************************************************)
(* The safety of SchemaLifecycle for every set of tables, columns,         *)
(* processes and specifications and every bound on the passes, faults and  *)
(* outside DDL.  Two facts carry it: a declared column of a table with a   *)
(* steady snapshot is on the server or still to be added, and a pass of    *)
(* the gate has a moment of its own to show for every table it visited.    *)
(***************************************************************************)
EXTENDS SchemaLifecycle, TLAPS

(* The server never shows a type as a kit spells it.                       *)
ServerSpelled ==
    \A t \in Tables, n \in Names : live[t][n] # Absent => live[t][n].spelling = "server"

(* With a steady snapshot nothing of the specification is forgotten.       *)
Covers(e) ==
    epc[e] \in {"alter", "done"} /\ steady[e] =>
        \A i \in DOMAIN SpecOf[e] :
            \/ live[TableOf[e]][SpecOf[e][i].name] # Absent
            \/ epc[e] = "alter" /\ i \in missing[e]
CoverInv == \A e \in Evolvers : Covers(e)

(* While a pass runs its history holds the present, and in it the pass has *)
(* a warrant for each table behind it.                                     *)
Warranted(i) ==
    (\A d \in drift : d.table # Expected[i].table) => Expected[i].table \in matched
PresentInv ==
    gpc = "scan" => MatchingNow \subseteq matched /\ ExpectedTables \ MatchingNow \subseteq drifted
WarrantInv ==
    gpc \in {"scan", "ok"} =>
        /\ \A d \in drift : d.table \in drifted
        /\ \A i \in DOMAIN Expected : i < at => Warranted(i)
        /\ gpc = "ok" => at > Len(Expected)

IInv == TypeOK /\ ServerSpelled /\ CoverInv /\ PresentInv /\ WarrantInv

(* What a step that only grows the schema does to it.                      *)
Grows == \A t \in Tables, n \in Names : live[t][n] # Absent => live'[t][n] = live[t][n]
-----------------------------------------------------------------------------
(* The types of columns.                                                   *)

LEMMA CanonicalType ==
    ASSUME NEW type \in Type
    PROVE  /\ Canonical(type) \in Type /\ Canonical(type).spelling = "server"
           /\ Canonical(type).base = type.base /\ Canonical(type) # Absent
BY BasesAssumption DEF Canonical, Type, Absent

LEMMA TypeIsPresent ==
    ASSUME NEW type \in Type
    PROVE  type # Absent
BY BasesAssumption DEF Type, Absent

LEMMA TypeInType ==
    ASSUME NEW spec \in Seq(Column), NEW n \in Declared(spec)
    PROVE  TypeIn(spec, n) \in Type
<1>1. PICK i \in DOMAIN spec : spec[i].name = n
  BY DEF Declared
<1> DEFINE k == CHOOSE j \in DOMAIN spec : spec[j].name = n
<1>2. k \in DOMAIN spec
  BY <1>1
<1> HIDE DEF k
<1>3. spec[k] \in Column
  BY <1>2
<1>4. spec[k].type \in Type
  BY <1>3 DEF Column
<1> QED
  BY <1>4 DEF TypeIn, k

LEMMA DeclaredNames ==
    ASSUME NEW spec \in Seq(Column)
    PROVE  /\ Declared(spec) \subseteq Names
           /\ \A i \in DOMAIN spec : spec[i] \in Column /\ spec[i].name \in Names
<1>1. \A i \in DOMAIN spec : spec[i] \in Column
  OBVIOUS
<1> QED
  BY <1>1 DEF Declared, Column
-----------------------------------------------------------------------------
(* What the statements do to the schema.                                   *)

LEMMA CreateTableEffect ==
    ASSUME SchemaTypeOK, ServerSpelled, NEW t \in Tables, NEW spec \in Seq(Column),
           CreateTable(t, spec)
    PROVE  SchemaTypeOK' /\ ServerSpelled' /\ Grows
<1>1. CASE Exists(t)
  BY <1>1 DEF CreateTable, SchemaTypeOK, ServerSpelled, Grows
<1>2. CASE ~Exists(t)
  <2> DEFINE new == [n \in Names |->
                 IF n \in Declared(spec) THEN Canonical(TypeIn(spec, n)) ELSE Absent]
  <2>1. live' = [live EXCEPT ![t] = new]
    BY <1>2 DEF CreateTable
  <2>2. /\ new \in [Names -> Type \cup {Absent}]
        /\ \A n \in Names : new[n] # Absent => new[n].spelling = "server"
    BY TypeInType, CanonicalType
  <2>3. \A n \in Names : live[t][n] = Absent
    BY <1>2 DEF Exists
  <2> HIDE DEF new
  <2> QED
    BY <2>1, <2>2, <2>3 DEF SchemaTypeOK, ServerSpelled, Grows
<1> QED
  BY <1>1, <1>2

LEMMA AddColumnEffect ==
    ASSUME SchemaTypeOK, ServerSpelled, NEW t \in Tables, NEW c \in Column,
           AddColumn(t, c)
    PROVE  /\ SchemaTypeOK' /\ ServerSpelled' /\ Grows
           /\ live'[t][c.name] # Absent
<1> DEFINE type == Canonical(c.type)
<1>1. c.name \in Names /\ type \in Type /\ type.spelling = "server" /\ type # Absent
  BY CanonicalType DEF Column
<1> HIDE DEF type
<1>2. CASE live[t][c.name] = Absent
  <2>1. live' = [live EXCEPT ![t][c.name] = type]
    BY <1>2 DEF AddColumn, type
  <2> QED
    BY <1>1, <1>2, <2>1 DEF SchemaTypeOK, ServerSpelled, Grows
<1>3. CASE live[t][c.name] # Absent
  BY <1>3 DEF AddColumn, SchemaTypeOK, ServerSpelled, Grows
<1> QED
  BY <1>2, <1>3

LEMMA OutsideEffect ==
    ASSUME SchemaTypeOK, ServerSpelled, NEW t \in Tables,
           \/ DropTable(t)
           \/ \E n \in Names : DropColumn(t, n) \/ \E b \in Bases : RetypeColumn(t, n, b)
    PROVE  SchemaTypeOK' /\ ServerSpelled'
<1>1. CASE DropTable(t)
  BY <1>1 DEF DropTable, SchemaTypeOK, ServerSpelled
<1>2. ASSUME NEW n \in Names, DropColumn(t, n)
      PROVE  SchemaTypeOK' /\ ServerSpelled'
  BY <1>2 DEF DropColumn, SchemaTypeOK, ServerSpelled
<1>3. ASSUME NEW n \in Names, NEW b \in Bases, RetypeColumn(t, n, b)
      PROVE  SchemaTypeOK' /\ ServerSpelled'
  <2> DEFINE type == [live[t][n] EXCEPT !.base = b]
  <2>1. type \in Type /\ type.spelling = "server"
    BY <1>3 DEF RetypeColumn, SchemaTypeOK, ServerSpelled, Type, Absent
  <2>2. live' = [live EXCEPT ![t][n] = type]
    BY <1>3 DEF RetypeColumn, SchemaTypeOK
  <2> HIDE DEF type
  <2> QED
    BY <2>1, <2>2 DEF SchemaTypeOK, ServerSpelled
<1> QED
  BY <1>1, <1>2, <1>3
-----------------------------------------------------------------------------
(* What a step does to the schema: it only grows, or an operator acts.     *)

LEMMA EvolverTypes ==
    ASSUME NEW e \in Evolvers
    PROVE  /\ TableOf[e] \in Tables /\ SpecOf[e] \in Seq(Column)
           /\ \A i \in DOMAIN SpecOf[e] :
                  /\ i \in Nat /\ SpecOf[e][i] \in Column
                  /\ SpecOf[e][i].name \in Names
<1>1. TableOf[e] \in Tables /\ SpecOf[e] \in Seq(Column)
  BY EvolversAssumption
<1>2. \A i \in DOMAIN SpecOf[e] : i \in Nat
  BY <1>1
<1> QED
  BY <1>1, <1>2, DeclaredNames

LEMMA EvolveGrows ==
    ASSUME SchemaTypeOK, ServerSpelled, EvolutionTypeOK, NEW e \in Evolvers, Evolve(e)
    PROVE  SchemaTypeOK' /\ ServerSpelled' /\ Grows
<1>1. CASE Provision(e)
  BY <1>1, EvolverTypes, CreateTableEffect DEF Provision
<1>2. CASE Alter(e)
  <2>1. PICK i \in DOMAIN SpecOf[e] : AddColumn(TableOf[e], SpecOf[e][i])
    BY <1>2 DEF Alter, AlterAddColumn, EvolutionTypeOK
  <2> QED
    BY <2>1, EvolverTypes, AddColumnEffect
<1>3. CASE Fetch(e) \/ AlterRefused(e) \/ Evolved(e)
  BY <1>3 DEF Fetch, AlterRefused, Evolved, SchemaTypeOK, ServerSpelled, Grows
<1> QED
  BY <1>1, <1>2, <1>3 DEF Evolve

LEMMA FaultsGrow ==
    ASSUME SchemaTypeOK, ServerSpelled, EvolutionTypeOK, EvolutionFaults
    PROVE  SchemaTypeOK' /\ ServerSpelled' /\ Grows
<1>1. ASSUME NEW c \in late, LandAlter(c)
      PROVE  SchemaTypeOK' /\ ServerSpelled' /\ Grows
  <2>1. c.table \in Tables /\ c.column \in Column
    BY DEF EvolutionTypeOK
  <2> QED
    BY <1>1, <2>1, AddColumnEffect DEF LandAlter, AlterAddColumn
<1>2. CASE UNCHANGED live
  BY <1>2 DEF SchemaTypeOK, ServerSpelled, Grows
<1> QED
  BY <1>1, <1>2 DEF EvolutionFaults, AbortEvolution, GiveUpAlter, LoseAlter

LEMMA ActGrows ==
    ASSUME TypeOK, ServerSpelled, Act \/ UNCHANGED vars
    PROVE  /\ SchemaTypeOK' /\ ServerSpelled'
           /\ Grows \/ (OperatorDdl /\ ddl' = ddl + 1)
<1>1. SchemaTypeOK /\ EvolutionTypeOK
  BY DEF TypeOK
<1>2. CASE \E e \in Evolvers : Evolve(e)
  BY <1>1, <1>2, EvolveGrows
<1>3. CASE EvolutionFaults
  BY <1>1, <1>3, FaultsGrow
<1>4. CASE Gate \/ UNCHANGED vars
  BY <1>1, <1>4 DEF Gate, StartPass, Visit, Report, FetchFails, vars,
     SchemaTypeOK, ServerSpelled, Grows
<1>5. CASE OperatorDdl
  BY <1>1, <1>5, OutsideEffect DEF OperatorDdl
<1> QED
  BY <1>2, <1>3, <1>4, <1>5 DEF Act
-----------------------------------------------------------------------------
(* Type correctness.                                                       *)

LEMMA TablesExpected ==
    /\ ExpectedTables \subseteq Tables
    /\ \A i \in DOMAIN Expected :
           Expected[i].table \in Tables /\ Expected[i].columns \in Seq(Column)
<1>1. \A i \in DOMAIN Expected :
          Expected[i].table \in Tables /\ Expected[i].columns \in Seq(Column)
  <2> DEFINE Entries == [table : Tables, columns : Seq(Column)]
  <2>1. Expected \in Seq(Entries)
    BY ExpectedAssumption
  <2> HIDE DEF Entries
  <2>2. \A i \in DOMAIN Expected : Expected[i] \in Entries
    BY <2>1
  <2> QED
    BY <2>2 DEF Entries
<1> QED
  BY <1>1 DEF ExpectedTables

LEMMA DriftType ==
    ASSUME NEW t \in Tables, NEW spec \in Seq(Column), NEW columns
    PROVE  /\ DriftOf(t, spec, columns) \subseteq Drift
           /\ \A d \in DriftOf(t, spec, columns) : d.table = t
BY DeclaredNames DEF DriftOf, MissingColumns, Mismatches, ExtraColumns, Entry, Drift, Kinds

LEMMA FailType ==
    ASSUME EvolutionTypeOK, NEW e \in Evolvers, FailE(e)
    PROVE  /\ epc' \in [Evolvers -> {"idle", "fetch", "alter", "done", "err"}]
           /\ missing' \in [Evolvers -> SUBSET Nat]
           /\ \A d \in Evolvers : missing'[d] \subseteq DOMAIN SpecOf[d]
           /\ steady' \in [Evolvers -> BOOLEAN]
<1>1. epc' \in [Evolvers -> {"idle", "fetch", "alter", "done", "err"}]
  BY DEF EvolutionTypeOK, FailE, GotoE
<1>2. /\ missing' \in [Evolvers -> SUBSET Nat]
      /\ \A d \in Evolvers : missing'[d] \subseteq DOMAIN SpecOf[d]
  BY DEF EvolutionTypeOK, FailE
<1>3. steady' \in [Evolvers -> BOOLEAN]
  BY DEF EvolutionTypeOK, FailE
<1> QED
  BY <1>1, <1>2, <1>3

LEMMA EvolutionTypeStep ==
    ASSUME EvolutionTypeOK, NEW e \in Evolvers,
           Evolve(e) \/ AbortEvolution(e) \/ GiveUpAlter(e)
    PROVE  EvolutionTypeOK'
<1>1. CASE Provision(e)
  BY <1>1 DEF Provision, EvolutionTypeOK, GotoE
<1>2. CASE Fetch(e)
  <2>1. /\ DiffColumns(SpecOf[e], live[TableOf[e]]) \subseteq DOMAIN SpecOf[e]
        /\ DOMAIN SpecOf[e] \subseteq Nat
    BY EvolverTypes DEF DiffColumns
  <2> QED
    BY <1>2, <2>1 DEF Fetch, EvolutionTypeOK, GotoE
<1>3. CASE Alter(e)
  <2>1. PICK i \in missing[e] : missing' = [missing EXCEPT ![e] = @ \ {i}]
    BY <1>3 DEF Alter
  <2>2. /\ missing' \in [Evolvers -> SUBSET Nat]
        /\ \A d \in Evolvers : missing'[d] \subseteq DOMAIN SpecOf[d]
    BY <2>1 DEF EvolutionTypeOK
  <2> QED
    BY <1>3, <2>2 DEF Alter, EvolutionTypeOK
<1>4. CASE AlterRefused(e) \/ AbortEvolution(e)
  BY <1>4, FailType DEF AlterRefused, AbortEvolution, EvolutionTypeOK
<1>5. CASE Evolved(e)
  BY <1>5 DEF Evolved, EvolutionTypeOK, GotoE
<1>6. CASE GiveUpAlter(e)
  <2>1. PICK i \in DOMAIN SpecOf[e] :
            late' = late \cup {[table |-> TableOf[e], column |-> SpecOf[e][i]]}
    BY <1>6 DEF GiveUpAlter, EvolutionTypeOK
  <2>2. late' \subseteq [table : Tables, column : Column]
    BY <2>1, EvolverTypes DEF EvolutionTypeOK
  <2> QED
    BY <1>6, <2>2, FailType DEF GiveUpAlter, EvolutionTypeOK
<1> QED
  BY <1>1, <1>2, <1>3, <1>4, <1>5, <1>6 DEF Evolve

LEMMA TypeStep ==
    ASSUME TypeOK, ServerSpelled, [Next]_vars
    PROVE  TypeOK' /\ ServerSpelled'
<1>1. SchemaTypeOK' /\ ServerSpelled'
  BY ActGrows DEF Next
<1>2. EvolutionTypeOK'
  <2>0. EvolutionTypeOK
    BY DEF TypeOK
  <2>1. ASSUME NEW e \in Evolvers, Evolve(e) \/ AbortEvolution(e) \/ GiveUpAlter(e)
        PROVE  EvolutionTypeOK'
    BY <2>0, <2>1, EvolutionTypeStep
  <2>2. ASSUME NEW c \in late, LandAlter(c) \/ LoseAlter(c)
        PROVE  EvolutionTypeOK'
    BY <2>0, <2>2 DEF LandAlter, LoseAlter, EvolutionTypeOK
  <2>3. CASE OperatorDdl
    <3>1. steady' \in [Evolvers -> BOOLEAN]
      BY <2>0, <2>3 DEF OperatorDdl, NoteDrops, EvolutionTypeOK
    <3> QED
      BY <2>0, <2>3, <3>1 DEF OperatorDdl, NoteDrops, EvolutionTypeOK
  <2>4. CASE UNCHANGED evolverVars
    BY <2>0, <2>4 DEF evolverVars, EvolutionTypeOK
  <2> QED
    BY <2>1, <2>2, <2>3, <2>4 DEF Next, Act, EvolutionFaults, vars
<1>3. GateTypeOK'
  <2>0. GateTypeOK /\ Len(Expected) \in Nat /\ DOMAIN Expected = 1..Len(Expected)
    BY ExpectedAssumption DEF TypeOK
  <2>1. CASE Visit
    <3>1. at \in DOMAIN Expected
      BY <2>0, <2>1 DEF Visit, GateTypeOK
    <3>2. drift' \subseteq Drift
      BY <2>0, <2>1, <3>1, TablesExpected, DriftType DEF Visit, GateTypeOK
    <3> QED
      BY <2>0, <2>1, <3>2 DEF Visit, GateTypeOK
  <2>2. CASE StartPass \/ Report \/ FetchFails
    BY <2>0, <2>2 DEF StartPass, Report, FetchFails, GateTypeOK
  <2>3. CASE UNCHANGED gateVars
    BY <2>0, <2>3 DEF gateVars, GateTypeOK
  <2> QED
    BY <2>1, <2>2, <2>3 DEF Next, Act, OperatorDdl, Gate, vars
<1>4. ddl' \in Nat
  BY DEF TypeOK, Next, Act, OperatorDdl, vars
<1>5. matched' \subseteq Tables /\ drifted' \subseteq Tables
  BY TablesExpected DEF TypeOK, Next, Watch, MatchingNow, vars, history
<1> QED
  BY <1>1, <1>2, <1>3, <1>4, <1>5 DEF TypeOK
-----------------------------------------------------------------------------
(* What a process knows of its table.                                      *)

LEMMA CoversFrame ==
    ASSUME NEW e \in Evolvers, Covers(e), epc'[e] = epc[e], missing'[e] = missing[e],
           steady'[e] => /\ steady[e]
                         /\ \A n \in Names : live[TableOf[e]][n] # Absent
                                            => live'[TableOf[e]][n] # Absent
    PROVE  Covers(e)'
BY EvolverTypes DEF Covers

LEMMA OthersUntouched ==
    ASSUME EvolutionTypeOK, NEW d \in Evolvers,
           Evolve(d) \/ AbortEvolution(d) \/ GiveUpAlter(d), NEW e \in Evolvers \ {d}
    PROVE  epc'[e] = epc[e] /\ missing'[e] = missing[e] /\ steady'[e] = steady[e]
BY DEF EvolutionTypeOK, Evolve, Provision, Fetch, Alter, AlterRefused, Evolved,
   AbortEvolution, GiveUpAlter, FailE, GotoE

LEMMA CoversOwnStep ==
    ASSUME TypeOK, ServerSpelled, NEW e \in Evolvers, Covers(e),
           Evolve(e) \/ AbortEvolution(e) \/ GiveUpAlter(e)
    PROVE  Covers(e)'
<1>0. /\ epc \in [Evolvers -> {"idle", "fetch", "alter", "done", "err"}]
      /\ DOMAIN missing = Evolvers /\ DOMAIN steady = Evolvers
      /\ SchemaTypeOK /\ EvolutionTypeOK
  BY DEF TypeOK, EvolutionTypeOK
<1>1. CASE Provision(e) \/ AlterRefused(e) \/ AbortEvolution(e) \/ GiveUpAlter(e)
  <2>1. epc'[e] \in {"fetch", "err"}
    BY <1>0, <1>1 DEF Provision, AlterRefused, AbortEvolution, GiveUpAlter, FailE, GotoE
  <2> QED
    BY <2>1 DEF Covers
<1>2. CASE Fetch(e)
  <2>1. /\ epc'[e] = "alter" /\ live' = live
        /\ missing'[e] = DiffColumns(SpecOf[e], live[TableOf[e]])
    BY <1>0, <1>2 DEF Fetch, GotoE
  <2> QED
    BY <2>1 DEF Covers, DiffColumns
<1>3. CASE Alter(e)
  <2>1. PICK i \in missing[e] : /\ AddColumn(TableOf[e], SpecOf[e][i])
                                /\ missing' = [missing EXCEPT ![e] = @ \ {i}]
    BY <1>3 DEF Alter, AlterAddColumn
  <2>2. i \in DOMAIN SpecOf[e]
    BY DEF TypeOK, EvolutionTypeOK
  <2>3. Grows /\ live'[TableOf[e]][SpecOf[e][i].name] # Absent
    BY <1>0, <2>1, <2>2, EvolverTypes, AddColumnEffect
  <2>4. epc' = epc /\ steady' = steady /\ missing'[e] = missing[e] \ {i}
    BY <1>0, <1>3, <2>1 DEF Alter
  <2> QED
    BY <1>3, <2>3, <2>4, EvolverTypes DEF Covers, Alter, Grows
<1>4. CASE Evolved(e)
  <2>1. epc'[e] = "done" /\ steady' = steady /\ live' = live
    BY <1>0, <1>4 DEF Evolved, GotoE
  <2> QED
    BY <1>4, <2>1 DEF Covers, Evolved
<1> QED
  BY <1>1, <1>2, <1>3, <1>4 DEF Evolve

LEMMA CoverStep ==
    ASSUME TypeOK, ServerSpelled, CoverInv, [Next]_vars
    PROVE  CoverInv'
<1> SUFFICES ASSUME NEW e \in Evolvers
             PROVE  Covers(e)'
  BY DEF CoverInv
<1>1. /\ Covers(e) /\ SchemaTypeOK /\ EvolutionTypeOK
      /\ Grows \/ OperatorDdl
      /\ TableOf[e] \in Tables
  BY ActGrows, EvolverTypes DEF CoverInv, TypeOK, Next
<1>2. CASE OperatorDdl
  <2>1. /\ epc' = epc /\ missing' = missing
        /\ steady'[e] = (steady[e] /\ \A n \in Names :
               live[TableOf[e]][n] # Absent => live'[TableOf[e]][n] # Absent)
    BY <1>2 DEF OperatorDdl, NoteDrops
  <2> QED
    BY <1>1, <2>1, CoversFrame
<1>3. ASSUME Grows, epc'[e] = epc[e], missing'[e] = missing[e], steady'[e] = steady[e]
      PROVE  Covers(e)'
  BY <1>1, <1>3, CoversFrame DEF Grows
<1>4. ASSUME NEW d \in Evolvers, Evolve(d) \/ AbortEvolution(d) \/ GiveUpAlter(d), Grows
      PROVE  Covers(e)'
  <2>1. CASE d = e
    BY <1>1, <1>4, <2>1, CoversOwnStep
  <2>2. CASE d # e
    BY <1>1, <1>3, <1>4, <2>2, OthersUntouched
  <2> QED
    BY <2>1, <2>2
<1>5. ASSUME UNCHANGED <<epc, missing, steady>>, Grows
      PROVE  Covers(e)'
  BY <1>3, <1>5
<1>6. \/ \E d \in Evolvers : Evolve(d) \/ AbortEvolution(d) \/ GiveUpAlter(d)
      \/ UNCHANGED <<epc, missing, steady>>
      \/ OperatorDdl
  BY DEF Next, Act, EvolutionFaults, LandAlter, LoseAlter, evolverVars, vars
<1> QED
  BY <1>1, <1>2, <1>4, <1>5, <1>6
-----------------------------------------------------------------------------
(* What a pass of the gate may say.                                        *)

LEMMA SpecForExpected ==
    ASSUME NEW i \in DOMAIN Expected
    PROVE  SpecFor(Expected[i].table) = Expected[i].columns
<1> DEFINE k == CHOOSE j \in DOMAIN Expected : Expected[j].table = Expected[i].table
<1>1. k \in DOMAIN Expected /\ Expected[k].table = Expected[i].table
  OBVIOUS
<1> HIDE DEF k
<1>2. k = i
  BY <1>1, ExpectedAssumption
<1> QED
  BY <1>2 DEF SpecFor, k

(* A visit reports nothing of a table exactly when the table matches.      *)
LEMMA VisitIsExact ==
    ASSUME TypeOK, ServerSpelled, NEW i \in DOMAIN Expected
    PROVE  DriftOf(Expected[i].table, Expected[i].columns, live[Expected[i].table]) = {}
             <=> Matching(Expected[i].table)
<1> DEFINE t == Expected[i].table
           spec == Expected[i].columns
<1>1. /\ t \in Tables /\ spec \in Seq(Column) /\ SpecFor(t) = spec
      /\ Declared(spec) \subseteq Names
  BY TablesExpected, SpecForExpected, DeclaredNames
<1>2. spec # << >>
  BY ExpectedAssumption
<1>3. Declared(spec) # {}
  <2> HIDE DEF spec
  <2>1. Len(spec) \in Nat \ {0} /\ DOMAIN spec = 1..Len(spec)
    BY <1>1, <1>2
  <2>2. 1 \in DOMAIN spec
    BY <2>1
  <2> QED
    BY <2>2 DEF Declared
<1>4. \A n \in Names : live[t][n] # Absent =>
          live[t][n] \in Type /\ live[t][n].spelling = "server"
  BY <1>1 DEF TypeOK, SchemaTypeOK, ServerSpelled
<1> HIDE DEF t, spec
<1>5. ASSUME NEW n \in Declared(spec)
      PROVE  live[t][n] = Canonical(TypeIn(spec, n)) <=>
                 live[t][n] # Absent /\ SameType(live[t][n], TypeIn(spec, n))
  <2>1. n \in Names /\ TypeIn(spec, n) \in Type
    BY <1>1, TypeInType
  <2>2. CASE live[t][n] = Absent
    BY <2>1, <2>2, CanonicalType
  <2>3. CASE live[t][n] # Absent
    BY <1>4, <2>1, <2>3, CanonicalType DEF SameType, Type, Canonical
  <2> QED
    BY <2>2, <2>3
<1>6. Matching(t) <=>
          /\ \A n \in Declared(spec) :
                 live[t][n] # Absent /\ SameType(live[t][n], TypeIn(spec, n))
          /\ \A n \in Names \ Declared(spec) : live[t][n] = Absent
  BY <1>1, <1>5 DEF Matching
<1>7. DriftOf(t, spec, live[t]) = {} <=>
          /\ ~\A n \in Names : live[t][n] = Absent
          /\ \A n \in Declared(spec) : live[t][n] # Absent
          /\ \A n \in Declared(spec) :
                 live[t][n] # Absent => SameType(live[t][n], TypeIn(spec, n))
          /\ \A n \in Names \ Declared(spec) : live[t][n] = Absent
  BY DEF DriftOf, MissingColumns, Mismatches, ExtraColumns
<1> QED
  BY <1>1, <1>3, <1>6, <1>7 DEF t, spec

LEMMA PresentStep ==
    ASSUME TypeOK, PresentInv, [Next]_vars
    PROVE  PresentInv'
<1>1. CASE Watch
  BY <1>1 DEF Watch, PresentInv
<1>2. CASE UNCHANGED vars
  BY <1>2 DEF vars, gateVars, history, PresentInv, MatchingNow, Matching
<1> QED
  BY <1>1, <1>2 DEF Next

(* A pass never loses a warrant while it runs or after it ended.           *)
LEMMA HistoryGrows ==
    ASSUME TypeOK, [Next]_vars, ~StartPass
    PROVE  matched \subseteq matched' /\ drifted \subseteq drifted'
<1>1. gpc' = "scan" => gpc = "scan"
  BY DEF Next, Act, Gate, Visit, Report, FetchFails, OperatorDdl, gateVars, vars
<1> QED
  BY <1>1 DEF Next, Watch, vars, history

LEMMA WarrantStep ==
    ASSUME TypeOK, ServerSpelled, PresentInv, WarrantInv, [Next]_vars
    PROVE  WarrantInv'
<1>0. /\ at \in Nat /\ Len(Expected) \in Nat /\ DOMAIN Expected = 1..Len(Expected)
  BY ExpectedAssumption DEF TypeOK, GateTypeOK
<1>1. CASE StartPass
  BY <1>0, <1>1 DEF StartPass, WarrantInv
<1>2. CASE Visit
  <2> DEFINE t == Expected[at].table
             new == DriftOf(t, Expected[at].columns, live[t])
  <2>1. /\ at \in DOMAIN Expected /\ t \in ExpectedTables
        /\ gpc = "scan" /\ gpc' = "scan" /\ live' = live
        /\ drift' = drift \cup new /\ at' = at + 1
    BY <1>0, <1>2 DEF Visit, ExpectedTables, GateTypeOK, TypeOK
  <2>2. matched \subseteq matched' /\ drifted \subseteq drifted'
    BY <1>2, HistoryGrows DEF Visit, StartPass
  <2>3. /\ \A d \in new : d.table = t
        /\ new = {} <=> Matching(t)
    BY <2>1, TablesExpected, DriftType, VisitIsExact
  <2>4. (Matching(t) => t \in matched) /\ (~Matching(t) => t \in drifted)
    BY <2>1 DEF PresentInv, MatchingNow
  <2> HIDE DEF t, new
  <2>5. \A d \in drift' : d.table \in drifted'
    BY <2>1, <2>2, <2>3, <2>4 DEF WarrantInv
  <2>6. ASSUME NEW i \in DOMAIN Expected, i < at'
        PROVE  Warranted(i)'
    <3>1. CASE i < at
      BY <2>1, <2>2, <3>1 DEF WarrantInv, Warranted
    <3>2. CASE i = at
      BY <2>1, <2>2, <2>3, <2>4, <3>2 DEF Warranted, t
    <3> QED
      BY <1>0, <2>1, <2>6, <3>1, <3>2
  <2> QED
    BY <2>1, <2>5, <2>6 DEF WarrantInv
<1>3. CASE Report
  <2>1. matched \subseteq matched' /\ drifted \subseteq drifted'
    BY <1>3, HistoryGrows DEF Report, StartPass
  <2> QED
    BY <1>0, <1>3, <2>1 DEF Report, WarrantInv, Warranted
<1>4. CASE FetchFails
  BY <1>4 DEF FetchFails, WarrantInv
<1>5. CASE UNCHANGED gateVars
  <2>1. CASE gpc \in {"scan", "ok"}
    <3>1. matched \subseteq matched' /\ drifted \subseteq drifted'
      BY <1>5, HistoryGrows DEF StartPass, gateVars
    <3> QED
      BY <1>5, <2>1, <3>1 DEF gateVars, WarrantInv, Warranted
  <2>2. CASE gpc \notin {"scan", "ok"}
    BY <1>5, <2>2 DEF gateVars, WarrantInv
  <2> QED
    BY <2>1, <2>2
<1> QED
  BY <1>1, <1>2, <1>3, <1>4, <1>5 DEF Next, Act, Gate, OperatorDdl, vars
-----------------------------------------------------------------------------
LEMMA IInvInit == Init => IInv
<1> SUFFICES ASSUME Init PROVE IInv
  OBVIOUS
<1>1. SchemaTypeOK /\ ServerSpelled
  BY DEF Init, SchemaInit, SchemaTypeOK, ServerSpelled
<1>2. EvolutionTypeOK
  BY DEF Init, EvolutionInit, EvolutionTypeOK
<1>3. GateTypeOK
  BY ExpectedAssumption DEF Init, GateInit, GateTypeOK
<1>4. CoverInv /\ PresentInv /\ WarrantInv
  BY DEF Init, EvolutionInit, GateInit, CoverInv, Covers, PresentInv, WarrantInv
<1> QED
  BY <1>1, <1>2, <1>3, <1>4 DEF Init, IInv, TypeOK

LEMMA IInvStep == IInv /\ [Next]_vars => IInv'
BY TypeStep, CoverStep, PresentStep, WarrantStep DEF IInv

LEMMA Invariance == Spec => []IInv
BY IInvInit, IInvStep, PTL DEF Spec

(* Every variable of the live schema, the processes and the gate keeps its *)
(* type.                                                                   *)
THEOREM TypeCorrect == Spec => []TypeOK
<1>1. IInv => TypeOK
  BY DEF IInv
<1> QED
  BY <1>1, Invariance, PTL

(* No step but an operator's own statement drops or retypes a column: not  *)
(* the provisioning of a table that exists, and not an ALTER, in time or   *)
(* late, of a column that another process added first.                     *)
THEOREM EvolutionIsAdditive == Spec => AdditiveOnly
<1>1. IInv /\ [Next]_vars => [ddl' = ddl => Grows]_vars
  <2> SUFFICES ASSUME IInv, [Next]_vars, ddl' = ddl
               PROVE  Grows
    OBVIOUS
  <2>1. ddl \in Nat /\ (Grows \/ ddl' = ddl + 1)
    BY ActGrows DEF IInv, TypeOK, Next
  <2> QED
    BY <2>1
<1> QED
  BY <1>1, Invariance, PTL DEF Spec, AdditiveOnly, Grows

(* A process that evolved its table finds every column it declares there,  *)
(* whatever other processes and late ALTERs did between its snapshot and   *)
(* its own ALTERs, unless a column was dropped after the snapshot.         *)
THEOREM EvolvedTablesCover == Spec => []EvolvedCovers
<1>1. IInv => EvolvedCovers
  <2> SUFFICES ASSUME IInv, NEW e \in Evolvers, epc[e] = "done", steady[e],
                      NEW n \in Declared(SpecOf[e])
               PROVE  live[TableOf[e]][n] # Absent
    BY DEF EvolvedCovers
  <2>1. PICK i \in DOMAIN SpecOf[e] : SpecOf[e][i].name = n
    BY DEF Declared
  <2> QED
    BY <2>1 DEF IInv, CoverInv, Covers
<1> QED
  BY <1>1, Invariance, PTL

(* A clean pass of the gate has a moment at which each expected table      *)
(* matched, a reported table one at which it did not, however the schema   *)
(* changes between the fetches of the pass.                                *)
THEOREM ReportsAreWarranted == Spec => []ReportIsWarranted
<1>1. IInv => ReportIsWarranted
  <2> SUFFICES ASSUME IInv, gpc = "ok"
               PROVE  ReportIsWarranted
    BY DEF ReportIsWarranted
  <2>1. /\ at \in Nat /\ Len(Expected) \in Nat
        /\ DOMAIN Expected = 1..Len(Expected) /\ at > Len(Expected)
    BY ExpectedAssumption DEF IInv, TypeOK, GateTypeOK, WarrantInv
  <2>2. ASSUME NEW t \in ExpectedTables, \A d \in drift : d.table # t
        PROVE  t \in matched
    <3>1. PICK i \in DOMAIN Expected : Expected[i].table = t
      BY DEF ExpectedTables
    <3> QED
      BY <2>1, <2>2, <3>1 DEF IInv, WarrantInv, Warranted
  <2>3. \A d \in drift : d.table \in drifted
    BY DEF IInv, WarrantInv
  <2> QED
    BY <2>2, <2>3 DEF ReportIsWarranted
<1> QED
  BY <1>1, Invariance, PTL
=============================================================================
