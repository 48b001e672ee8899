---------------------------- MODULE MCTableDdl ----------------------------
(***************************************************************************)
(* Small instances of TableDdl: a good name, a bad one, one of other       *)
(* letters that is too long in bytes only, and the one that the flexible   *)
(* table reserves; a type of each kind the kits tell apart.  The Rust      *)
(* caller allows a column more than TypeScript does.                       *)
(***************************************************************************)
EXTENDS TableDdl

MCWellFormed == Identifiers \ {"bad-id", "wide"}
MCSize ==
    [kit \in Kits |-> [n \in Identifiers |->
        CASE n = "far_too_long"           -> 12
          [] n = "wide" /\ kit = "rust"   -> 10
          [] OTHER                        -> 6]]
MCMaxColumns == [kit \in Kits |-> IF kit = "rust" THEN 3 ELSE 2]
MCMaxIdentifierLength == [kit \in Kits |-> 8]
TwoColumns == [kit \in Kits |-> 2]

String == [wraps |-> << >>, core |-> "String", precision |-> 0]
Decimal == [wraps |-> << >>, core |-> "Decimal", precision |-> 0]
NullableTime == [wraps |-> <<"nullable">>, core |-> "DateTime64", precision |-> 0]
PreciseTime == [wraps |-> << >>, core |-> "datetime64", precision |-> 6]
TooPrecise == [wraps |-> <<"lowCardinality">>, core |-> "datetime64", precision |-> 12]

AllTypes == {String, Decimal, NullableTime, PreciseTime, TooPrecise}
=============================================================================
