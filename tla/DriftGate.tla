----------------------------- MODULE DriftGate -----------------------------
(***************************************************************************)
(* The drift gate, check_drift (Rust) and checkClickHouseDrift             *)
(* (TypeScript): a pass visits the expected tables in order and compares   *)
(* each with its live columns, fetched by a call of its own.  Between two  *)
(* fetches the schema may change, so a pass is no snapshot of it.          *)
(***************************************************************************)
EXTENDS LiveSchema

CONSTANTS Expected,     \* the specifications of the gate, <<[table, columns], ...>>
          MaxPasses     \* bound on the passes

ASSUME ExpectedAssumption ==
    /\ Expected \in Seq([table : Tables, columns : Seq(Column)])
    /\ \A i, j \in DOMAIN Expected : Expected[i].table = Expected[j].table => i = j
    /\ \A i \in DOMAIN Expected :
           LET spec == Expected[i].columns IN
           /\ spec # << >>
           /\ \A j, k \in DOMAIN spec : spec[j].name = spec[k].name => j = k
    /\ MaxPasses \in Nat

VARIABLES
    gpc,     \* idle, scan, ok or err
    at,      \* the table the pass visits next
    drift,   \* the divergences it has reported
    passes

gateVars == <<gpc, at, drift, passes>>

Kinds == {"missing_table", "missing_column", "extra_column", "type_mismatch"}
NoColumn == "none"
Drift == [kind : Kinds, table : Tables, column : Names \cup {NoColumn}]

GateTypeOK ==
    /\ gpc \in {"idle", "scan", "ok", "err"}
    /\ at \in 1..(Len(Expected) + 1)
    /\ drift \subseteq Drift
    /\ passes \in Nat

GateInit == gpc = "idle" /\ at = 1 /\ drift = {} /\ passes = 0

(* Types are compared without their whitespace.                            *)
SameText(a, b) == a = b   \* mutant: types are compared as they are spelled
SameType(a, b) == a.base = b.base

TableTwice(kind, t, n) ==   \* mutant: the table is put where the column goes
    [kind |-> kind, table |-> t, column |-> t]
Entry(kind, t, n) == [kind |-> kind, table |-> t, column |-> n]

(* What one visit reports of table t, from the columns it fetched.         *)
MissingColumns(t, spec, columns) ==
    {Entry("missing_column", t, n) : n \in {m \in Declared(spec) : columns[m] = Absent}}
Mismatches(t, spec, columns) ==
    {Entry("type_mismatch", t, n) : n \in
        {m \in Declared(spec) : columns[m] # Absent /\ ~SameType(columns[m], TypeIn(spec, m))}}
ExtraColumns(t, spec, columns) ==
    {Entry("extra_column", t, n) : n \in {m \in Names \ Declared(spec) : columns[m] # Absent}}

DriftOf(t, spec, columns) ==
    IF \A n \in Names : columns[n] = Absent
    THEN {Entry("missing_table", t, NoColumn)}
    ELSE MissingColumns(t, spec, columns) \cup Mismatches(t, spec, columns)
             \cup ExtraColumns(t, spec, columns)

StartPass ==
    /\ passes < MaxPasses
    /\ gpc # "scan"
    /\ gpc' = "scan" /\ at' = 1 /\ drift' = {}
    /\ passes' = passes + 1
    /\ UNCHANGED live

Visit ==
    /\ gpc = "scan"
    /\ at <= Len(Expected)
    /\ drift' = drift \cup
           DriftOf(Expected[at].table, Expected[at].columns, live[Expected[at].table])
    /\ at' = at + 1
    /\ UNCHANGED <<live, gpc, passes>>

Report ==
    /\ gpc = "scan"
    /\ at > Len(Expected)
    /\ gpc' = "ok"
    /\ UNCHANGED <<live, at, drift, passes>>

(* A fetch fails and the pass returns the error alone.                     *)
FetchFails ==
    /\ gpc = "scan"
    /\ at <= Len(Expected)
    /\ gpc' = "err" /\ drift' = {}
    /\ UNCHANGED <<live, at, passes>>

Gate == StartPass \/ Visit \/ Report \/ FetchFails
=============================================================================
