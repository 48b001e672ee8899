------------------------ MODULE MCMigrationPipeline ------------------------
(***************************************************************************)
(* A small instance of MigrationPipeline: one table and a view of it.      *)
(***************************************************************************)
EXTENDS MigrationPipeline

CONSTANTS a, v, g1, r1

ByName  == [o \in Objects |-> IF o = a THEN 0 ELSE 1]
OfTable == [w \in Views |-> {a}]
MCCalls == {<< <<a>>, << >> >>, << <<a>>, <<v>> >>}
=============================================================================
