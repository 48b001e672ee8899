----------------------------- MODULE LiveSchema -----------------------------
(***************************************************************************)
(* The tables of the ClickHouse server as system.columns shows them, with  *)
(* the DDL the kits send and the DDL an operator may send behind their     *)
(* back.  The server is external: it is modelled from the statements       *)
(* to_create_table_sql and alter_add_columns_sql render and from what      *)
(* fetch_columns is expected to return.                                    *)
(***************************************************************************)
EXTENDS Naturals, Sequences

CONSTANTS Tables,
          Names,   \* column names
          Bases    \* column types, up to how they are spelled

(* The server spells a type its own way: Map(String, String) for the       *)
(* Map(String,String) of a caller.                                         *)
Type == [base : Bases, spelling : {"kit", "server"}]
Canonical(type) == [base |-> type.base, spelling |-> "server"]
Absent == [base |-> "none", spelling |-> "none"]
Column == [name : Names, type : Type]

ASSUME BasesAssumption == "none" \notin Bases

VARIABLE live   \* live[t][n]: the type of column n of table t, or Absent

Exists(t) == \E n \in Names : live[t][n] # Absent

SchemaTypeOK == live \in [Tables -> [Names -> Type \cup {Absent}]]
SchemaInit == live = [t \in Tables |-> [n \in Names |-> Absent]]

(* A specification's columns, in order, as a map from names to types.      *)
Declared(spec) == {spec[i].name : i \in DOMAIN spec}
TypeIn(spec, n) == spec[CHOOSE i \in DOMAIN spec : spec[i].name = n].type

(* CREATE TABLE IF NOT EXISTS                                              *)
CreateTable(t, spec) ==
    live' = IF Exists(t) THEN live
            ELSE [live EXCEPT ![t] = [n \in Names |->
                     IF n \in Declared(spec) THEN Canonical(TypeIn(spec, n)) ELSE Absent]]

(* ALTER TABLE ADD COLUMN IF NOT EXISTS, of a table that exists            *)
AddColumn(t, c) ==
    /\ Exists(t)
    /\ live' = IF live[t][c.name] = Absent
               THEN [live EXCEPT ![t][c.name] = Canonical(c.type)] ELSE live

(* DDL from outside the kits: a table or a column dropped (not the last    *)
(* one of its table), a column retyped.                                    *)
DropTable(t) ==
    /\ Exists(t)
    /\ live' = [live EXCEPT ![t] = [n \in Names |-> Absent]]
DropColumn(t, n) ==
    /\ live[t][n] # Absent
    /\ \E m \in Names \ {n} : live[t][m] # Absent
    /\ live' = [live EXCEPT ![t][n] = Absent]
RetypeColumn(t, n, base) ==
    /\ live[t][n] # Absent /\ live[t][n].base # base
    /\ live' = [live EXCEPT ![t][n].base = base]
=============================================================================
