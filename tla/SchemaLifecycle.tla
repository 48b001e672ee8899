-------------------------- MODULE SchemaLifecycle --------------------------
(***************************************************************************)
(* Evolution, the drift gate and an operator's own DDL against one live    *)
(* schema, every server call interleaved with those of the others.         *)
(***************************************************************************)
EXTENDS SchemaEvolution, DriftGate

CONSTANT MaxDdl   \* bound on the operator's statements

ASSUME DdlAssumption == MaxDdl \in Nat

VARIABLES ddl,      \* the operator's statements so far
          matched,  \* the expected tables that matched at some moment of the pass
          drifted   \* those that did not match at some moment of the pass

history == <<matched, drifted>>
vars == <<live, evolverVars, gateVars, ddl, history>>

SpecFor(t) == Expected[CHOOSE i \in DOMAIN Expected : Expected[i].table = t].columns
ExpectedTables == {Expected[i].table : i \in DOMAIN Expected}

(* The live table is what the gate expects: the same columns, each of the  *)
(* type the specification gives it as the server spells it.                *)
Matching(t) ==
    \A n \in Names :
        live[t][n] = IF n \in Declared(SpecFor(t)) THEN Canonical(TypeIn(SpecFor(t), n))
                                                   ELSE Absent
MatchingNow == {t \in ExpectedTables : Matching(t)}

Init ==
    /\ SchemaInit /\ EvolutionInit /\ GateInit
    /\ ddl = 0 /\ matched = {} /\ drifted = {}

OperatorDdl ==
    /\ ddl < MaxDdl
    /\ ddl' = ddl + 1
    /\ \E t \in Tables :
           \/ DropTable(t)
           \/ \E n \in Names : DropColumn(t, n) \/ \E b \in Bases : RetypeColumn(t, n, b)
    /\ NoteDrops
    /\ UNCHANGED gateVars

(* The history of the pass: what held at its start or since.               *)
Watch ==
    LET starts == gpc # "scan" /\ gpc' = "scan"
        runs   == gpc = "scan"
        rest   == ExpectedTables \ MatchingNow'
    IN  /\ matched' = IF starts THEN MatchingNow' ELSE IF runs THEN matched \cup MatchingNow' ELSE matched
        /\ drifted' = IF starts THEN rest ELSE IF runs THEN drifted \cup rest ELSE drifted

Act ==
    \/ (\E e \in Evolvers : Evolve(e)) /\ UNCHANGED <<gateVars, ddl>>
    \/ EvolutionFaults /\ UNCHANGED <<gateVars, ddl>>
    \/ Gate /\ UNCHANGED <<evolverVars, ddl>>
    \/ OperatorDdl

Next == Act /\ Watch

(* Processes run to their end and again: the caller evolves a tenant's     *)
(* table whenever it serves the tenant.                                    *)
Advance(e) == Evolve(e) /\ UNCHANGED <<gateVars, ddl>> /\ Watch

Spec == Init /\ [][Next]_vars /\ \A e \in Evolvers : WF_vars(Advance(e))
-----------------------------------------------------------------------------
(* Type correctness of every variable of the model. *)
TypeOK ==
    /\ SchemaTypeOK /\ EvolutionTypeOK /\ GateTypeOK
    /\ ddl \in Nat /\ matched \subseteq Tables /\ drifted \subseteq Tables

(* Evolution never drops or retypes a column, neither another process's nor *)
(* one an operator made: only the operator's own statement may.            *)
AdditiveOnly ==
    [][ddl' = ddl =>
           \A t \in Tables, n \in Names : live[t][n] # Absent => live'[t][n] = live[t][n]]_vars

(* A process that evolved its table finds every column it declares there,  *)
(* whatever the others added meanwhile, unless a column was dropped after  *)
(* the snapshot it worked from.                                            *)
EvolvedCovers ==
    \A e \in Evolvers : epc[e] = "done" /\ steady[e] =>
        \A n \in Declared(SpecOf[e]) : live[TableOf[e]][n] # Absent

(* Through any finite number of failed calls, late ALTERs and dropped or   *)
(* retyped columns, every column some process declares is on the server in *)
(* the end and stays there.                                                *)
EventuallyCovered ==
    <>[](\A e \in Evolvers : \A n \in Declared(SpecOf[e]) : live[TableOf[e]][n] # Absent)

(* A clean pass means that each expected table matched its specification   *)
(* at some moment of the pass; a report about a table means that there was *)
(* a moment when it did not.                                               *)
ReportIsWarranted ==
    gpc = "ok" =>
        /\ \A t \in ExpectedTables : (\A d \in drift : d.table # t) => t \in matched
        /\ \A d \in drift : d.table \in drifted
=============================================================================
