-------------------------- MODULE SchemaEvolution --------------------------
(***************************************************************************)
(* Additive schema evolution of per-tenant tables: a process provisions a  *)
(* table, reads its live columns ONCE, and sends one ADD COLUMN per column *)
(* of its specification that was missing from that snapshot.  Processes    *)
(* with different specifications may grow the same table at once, and an   *)
(* ALTER given up by its process may still reach the server later.         *)
(***************************************************************************)
EXTENDS LiveSchema

CONSTANTS Evolvers,
          SpecOf,       \* SpecOf[e]: the columns process e declares, in order
          TableOf,      \* TableOf[e]: the table it grows
          MaxColumns,   \* SchemaLimits.max_columns: the columns of a table
          MaxAborts     \* bound on the calls that fail on the way

ASSUME EvolversAssumption ==
    /\ TableOf \in [Evolvers -> Tables]
    /\ SpecOf \in [Evolvers -> Seq(Column)]
    /\ \A e \in Evolvers :
           /\ Len(SpecOf[e]) \in 1..MaxColumns   \* assert_column_count
           /\ \A i, j \in DOMAIN SpecOf[e] : SpecOf[e][i].name = SpecOf[e][j].name => i = j
    /\ MaxColumns \in Nat /\ MaxAborts \in Nat

VARIABLES
    epc,      \* where process e is: idle, fetch, alter, done or err
    missing,  \* the columns it has still to add, by their places in its specification
    steady,   \* whether no column of its table was dropped since its snapshot
    late,     \* the ALTERs given up that may still reach the server
    aborts

evolverVars == <<epc, missing, steady, late, aborts>>

EvolutionTypeOK ==
    /\ epc \in [Evolvers -> {"idle", "fetch", "alter", "done", "err"}]
    /\ missing \in [Evolvers -> SUBSET Nat]
    /\ \A e \in Evolvers : missing[e] \subseteq DOMAIN SpecOf[e]
    /\ steady \in [Evolvers -> BOOLEAN]
    /\ late \subseteq [table : Tables, column : Column]
    /\ aborts \in Nat

EvolutionInit ==
    /\ epc = [e \in Evolvers |-> "idle"]
    /\ missing = [e \in Evolvers |-> {}]
    /\ steady = [e \in Evolvers |-> FALSE]
    /\ late = {}
    /\ aborts = 0

GotoE(e, where) == epc' = [epc EXCEPT ![e] = where]

(* A call that fails keeps nothing.                                        *)
FailE(e) ==
    /\ GotoE(e, "err")
    /\ missing' = [missing EXCEPT ![e] = {}]
    /\ steady' = [steady EXCEPT ![e] = FALSE]

(* The columns of a specification the snapshot lacks, compared by name.    *)
DiffLastOnly(spec, snapshot) ==   \* mutant: only the newest column is diffed
    {i \in {Len(spec)} : snapshot[spec[i].name] = Absent}
DiffColumns(spec, snapshot) ==
    {i \in DOMAIN spec : snapshot[spec[i].name] = Absent}

Provision(e) ==
    /\ epc[e] \in {"idle", "done", "err"}
    /\ CreateTable(TableOf[e], SpecOf[e])
    /\ GotoE(e, "fetch")
    /\ steady' = [steady EXCEPT ![e] = FALSE]
    /\ UNCHANGED <<missing, late, aborts>>

Fetch(e) ==
    /\ epc[e] = "fetch"
    /\ missing' = [missing EXCEPT ![e] = DiffColumns(SpecOf[e], live[TableOf[e]])]
    /\ steady' = [steady EXCEPT ![e] = TRUE]
    /\ GotoE(e, "alter")
    /\ UNCHANGED <<live, late, aborts>>

ModifyColumn(t, c) ==   \* mutant: the column is set to the declared type
    /\ Exists(t)
    /\ live' = [live EXCEPT ![t][c.name] = Canonical(c.type)]
AlterAddColumn(t, c) == AddColumn(t, c)

(* One ALTER per missing column, in the order of the specification.        *)
IsFirst(i, places) == i \in places /\ \A j \in places : i <= j

Alter(e) ==
    /\ epc[e] = "alter"
    /\ \E i \in missing[e] :
           /\ IsFirst(i, missing[e])
           /\ AlterAddColumn(TableOf[e], SpecOf[e][i])
           /\ missing' = [missing EXCEPT ![e] = @ \ {i}]
    /\ UNCHANGED <<epc, steady, late, aborts>>

(* The table was dropped under the process: the server refuses the ALTER.  *)
AlterRefused(e) ==
    /\ epc[e] = "alter"
    /\ missing[e] # {}
    /\ ~Exists(TableOf[e])
    /\ FailE(e)
    /\ UNCHANGED <<live, late, aborts>>

Evolved(e) ==
    /\ epc[e] = "alter"
    /\ missing[e] = {}
    /\ GotoE(e, "done")
    /\ UNCHANGED <<live, missing, steady, late, aborts>>

Evolve(e) ==
    Provision(e) \/ Fetch(e) \/ Alter(e) \/ AlterRefused(e) \/ Evolved(e)

(* A call fails with nothing outstanding.                                  *)
AbortEvolution(e) ==
    /\ aborts < MaxAborts
    /\ epc[e] \in {"fetch", "alter"}
    /\ aborts' = aborts + 1
    /\ FailE(e)
    /\ UNCHANGED <<live, late>>

(* The reply to an ALTER does not come: it may land after others have      *)
(* read, grown or dropped the table, or never.                             *)
GiveUpAlter(e) ==
    /\ aborts < MaxAborts
    /\ epc[e] = "alter"
    /\ aborts' = aborts + 1
    /\ \E i \in missing[e] :
           /\ IsFirst(i, missing[e])
           /\ late' = late \cup {[table |-> TableOf[e], column |-> SpecOf[e][i]]}
    /\ FailE(e)
    /\ UNCHANGED live

LandAlter(c) ==
    /\ AlterAddColumn(c.table, c.column)
    /\ late' = late \ {c}
    /\ UNCHANGED <<epc, missing, steady, aborts>>

LoseAlter(c) ==
    /\ late' = late \ {c}
    /\ UNCHANGED <<live, epc, missing, steady, aborts>>

EvolutionFaults ==
    \/ \E e \in Evolvers : AbortEvolution(e) \/ GiveUpAlter(e)
    \/ \E c \in late : LandAlter(c) \/ LoseAlter(c)

(* What an operator's DDL means to the processes: a snapshot older than a  *)
(* dropped column is stale.                                                *)
NoteDrops ==
    /\ steady' = [e \in Evolvers |->
           steady[e] /\ \A n \in Names :
               live[TableOf[e]][n] # Absent => live'[TableOf[e]][n] # Absent]
    /\ UNCHANGED <<epc, missing, late, aborts>>
=============================================================================
