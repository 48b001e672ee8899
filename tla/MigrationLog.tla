---------------------------- MODULE MigrationLog ----------------------------
(***************************************************************************)
(* What a forward-only migration runner promises, whatever interleaving,   *)
(* retry or lost reply produced it: the statements of a file take effect   *)
(* for the first time in order, a file is marked applied only when all of  *)
(* them have, and a file is touched only when every earlier file of the    *)
(* directory is marked.  Running a statement again is a stuttering step:   *)
(* the promise is at-least-once, never skipped and never out of order.     *)
(***************************************************************************)
EXTENDS Naturals

CONSTANTS Files,     \* the migration files that may ever be published
          Size,      \* Size[f]: the number of SQL statements of file f
          Position   \* Position[f]: the place of f in lexical order

VARIABLES dir,   \* the files published in the migrations directory
          ran,   \* the <<file, k>> whose k-th statement has taken effect
          done   \* the files marked in the bookkeeping table

vars == <<dir, ran, done>>

Earlier(f) == {g \in dir : Position[g] < Position[f]}

Init ==
    /\ dir = {}
    /\ ran = {}
    /\ done = {}

(* The directory is append-only: a new file sorts after the ones present.  *)
Publish(f) ==
    /\ f \notin dir
    /\ \A g \in dir : Position[g] < Position[f]
    /\ dir' = dir \cup {f}
    /\ UNCHANGED <<ran, done>>

RunStatement(f, k) ==
    /\ f \in dir
    /\ Earlier(f) \subseteq done
    /\ \A j \in 1..(k - 1) : <<f, j>> \in ran
    /\ ran' = ran \cup {<<f, k>>}
    /\ UNCHANGED <<dir, done>>

Mark(f) ==
    /\ f \in dir
    /\ Earlier(f) \subseteq done
    /\ \A k \in 1..Size[f] : <<f, k>> \in ran
    /\ done' = done \cup {f}
    /\ UNCHANGED <<dir, ran>>

Next ==
    \E f \in Files :
        \/ Publish(f)
        \/ \E k \in 1..Size[f] : RunStatement(f, k)
        \/ Mark(f)

Spec == Init /\ [][Next]_vars
=============================================================================
