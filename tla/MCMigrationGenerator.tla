------------------------ MODULE MCMigrationGenerator ------------------------
(***************************************************************************)
(* A small instance of MigrationGenerator: two processes, two tables and a *)
(* view of both, passed alone, together, and with the tables in either     *)
(* order.                                                                  *)
(***************************************************************************)
EXTENDS MigrationGenerator

CONSTANTS a, b, v, g1, g2

BothTables == (v :> {a, b})
MCCalls == {<< <<a>>, << >> >>, << <<b, a>>, << >> >>, << <<a, b>>, <<v>> >>}

(* Nothing tells the processes apart.                                      *)
Symmetry == Permutations(Generators)
=============================================================================
