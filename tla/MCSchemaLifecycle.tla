------------------------- MODULE MCSchemaLifecycle -------------------------
(***************************************************************************)
(* Small instances of SchemaLifecycle: two processes whose specifications  *)
(* disagree grow one table, a third one has a table to itself, and the     *)
(* gate expects a column of each table.                                    *)
(***************************************************************************)
EXTENDS SchemaLifecycle, TLC

Col(n, b) == [name |-> n, type |-> [base |-> b, spelling |-> "kit"]]

MCTableOf == (1 :> "acme") @@ (2 :> "acme") @@ (3 :> "globex")
MCSpecOf == (1 :> <<Col("id", "String"), Col("plan", "String")>>)
            @@ (2 :> <<Col("plan", "Int64")>>)
            @@ (3 :> <<Col("id", "String")>>)

(* The gate has not heard of the id column of acme.                        *)
MCExpected == <<[table |-> "acme", columns |-> <<Col("plan", "String")>>],
                [table |-> "globex", columns |-> <<Col("id", "String")>>]>>
=============================================================================
