----------------------------- MODULE MCFlatten -----------------------------
(***************************************************************************)
(* Small instances of Flatten and Coerce: keys that collide once dotted, a *)
(* key that is a column, one that is a managed column, the empty key, two  *)
(* array indices that sort otherwise as text, and __proto__.               *)
(***************************************************************************)
EXTENDS Coerce

KeyNone == << >>
KeyA == <<"a">>
KeyA9 == <<"a", ".", "9">>
Key9 == <<"9">>
Key10 == <<"10">>

DocumentKeys == {KeyNone, KeyA, KeyA9, Key9, Key10, Key("attrs"), Proto}
FlexibleColumns == {KeyA, Key("attrs"), Key("raw")}
ArrayIndex == [k \in {Key9, Key10} |-> IF k = Key9 THEN 9 ELSE 10]

(* Both kits sort these keys alike.                                        *)
SortedKeys == <<KeyNone, Key10, Key9, Proto, KeyA, KeyA9, Key("attrs")>>
SameRank == [kit \in {"rust", "ts"} |->
                [k \in Keys |-> CHOOSE n \in DOMAIN SortedKeys : SortedKeys[n] = k]]
=============================================================================
