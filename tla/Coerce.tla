------------------------------- MODULE Coerce -------------------------------
(***************************************************************************)
(* coerce_to_table (Rust) and coerceToTable (TypeScript): the members of a *)
(* document go to the columns of their names, the rest of it, flattened,   *)
(* to the catch-all column, and the document itself to raw.  Both kits are *)
(* given the same two caps.                                                *)
(***************************************************************************)
EXTENDS Flatten

CONSTANT Columns   \* the columns of the table

(* A table built by the kit has no column named __proto__.                 *)
ASSUME ColumnsAssumption == \A k \in Columns : k \in Seq(Symbols) /\ k # Proto

Key(word) == <<word>>
NoneReserved == {}   \* mutant: a member may land in a managed column
Reserved == {Key("attrs"), Key("raw")}

NoRow == [k \in {} |-> << >>]
Matchable == Columns \ Reserved
Matched == {i \in Top : doc[i].key \in Matchable}
Leftover == Top \ Matched
NameOf(i) == doc[i].key
OverflowKeys == {NameOf(i) : i \in Leftover}
(* The leftover object TypeScript builds by assignment, member by member.  *)
TsLeftover == {i \in Leftover : NameOf(i) # Proto}

RowOf(kit, attrs, hasAttrs) ==
    [k \in {NameOf(i) : i \in Matched}
           \cup (IF hasAttrs THEN {Key("attrs")} ELSE {}) \cup (Columns \cap {Key("raw")}) |->
        CASE k = Key("attrs") -> [flat |-> attrs]
          [] k = Key("raw") -> [text |-> Text(kit, 0)]
          [] OTHER -> [member |-> CHOOSE i \in Matched : NameOf(i) = k]]

(* Rust leaves attrs out of the row when nothing overflows.                *)
FlattensInput ==   \* mutant: attrs is flattened from the whole input
    RowOf("rust", RustFlatten(Top), Key("attrs") \in Columns /\ Leftover # {})
RustRow == RowOf("rust", RustFlatten(Leftover), Key("attrs") \in Columns /\ Leftover # {})
TsRow == RowOf("ts", TsFlatten(TsLeftover), Key("attrs") \in Columns)
-----------------------------------------------------------------------------
(* Every member of the input is found again: in the column of its name, or *)
(* leaf by leaf in attrs, whatever its name in Rust, and in TypeScript     *)
(* unless it would be assigned under __proto__ -- provided that the table  *)
(* has attrs, that no two leaves share a dotted key and that they are no   *)
(* more than MaxKeys.                                                      *)
LeavesOf(members) == {i \in Leaves : Chain(i)[1] \in members}
Unambiguous ==
    /\ Key("attrs") \in Columns
    /\ EveryLeafNamed
    /\ Cardinality(LeavesOf(Leftover)) <= MaxKeys
    /\ \A i, j \in LeavesOf(Leftover) : Dotted(i) = Dotted(j) => i = j
LeavesKept(kit) ==
    IF kit = "rust" THEN Leaves
    ELSE {i \in Leaves : Proto \notin {NameOf(Chain(i)[1]), Dotted(i)}}
NothingLost ==
    Unambiguous => \A kit \in {"rust", "ts"} :
        LET row == IF kit = "rust" THEN RustRow ELSE TsRow IN
        \A i \in LeavesKept(kit) :
            \/ [member |-> Chain(i)[1]] \in Range(row)
            \/ /\ NameOf(Chain(i)[1]) \in OverflowKeys
               /\ Dotted(i) \in DOMAIN row[Key("attrs")].flat
               /\ row[Key("attrs")].flat[Dotted(i)] = Text(kit, i)

(* The kits build the same row, of the documents they flatten alike that   *)
(* have no member __proto__ at the top, but for the attrs that only        *)
(* TypeScript adds when nothing overflows.                                 *)
CoerceAgrees ==
    OneOrder /\ EveryLeafNamed /\ NoLeafProto /\ ListedAlike /\ Proto \notin OverflowKeys =>
        TsRow = IF Key("attrs") \in Columns /\ Leftover = {}
                THEN Put(RustRow, Key("attrs"), [flat |-> NoKeys]) ELSE RustRow
=============================================================================
