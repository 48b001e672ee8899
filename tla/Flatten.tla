------------------------------ MODULE Flatten ------------------------------
(***************************************************************************)
(* flatten_record (Rust) and flattenRecord (TypeScript): a nested document *)
(* becomes a bounded map from dotted keys to text.  Both walk the document *)
(* depth first, the keys of a node in sorted order, and stop at MaxKeys    *)
(* entries.  They are compared with each other and with a definition that  *)
(* walks nothing.                                                          *)
(*                                                                         *)
(* A document is the sequence of its members in the order they were        *)
(* written, each under an earlier one; 0 is the root object.  A key is a   *)
(* sequence of symbols, the delimiter "." among them; every leaf has a     *)
(* text of its own.  A JavaScript object treats two kinds of keys apart:   *)
(* it lists the array indices first, and takes an assignment to __proto__  *)
(* for one to its prototype.                                               *)
(***************************************************************************)
EXTENDS Naturals, Sequences, FiniteSets, SequencesExt

CONSTANTS Keys,
          KeyRank,     \* KeyRank[kit][k]: where the kit's sort puts key k
          Index,       \* the number of each key that is an array index
          MaxDepth,    \* FlattenOptions.max_depth
          MaxKeys,     \* FlattenOptions.max_keys
          MaxMembers   \* bound on the members of a document

Symbols == {"a", "b", "9", "10", "id", "attrs", "raw", "__proto__", "."}
Proto   == <<"__proto__">>

ASSUME KeysAssumption ==
    /\ \A k \in Keys : k \in Seq(Symbols)
    /\ DOMAIN Index \subseteq Keys \ {Proto}
    /\ \A k, l \in DOMAIN Index : Index[k] \in Nat /\ (Index[k] = Index[l] => k = l)
    /\ KeyRank \in [{"rust", "ts"} -> [Keys -> Nat]]
    /\ \A kit \in {"rust", "ts"}, k, l \in Keys : KeyRank[kit][k] = KeyRank[kit][l] => k = l
    /\ MaxDepth \in Nat /\ MaxKeys \in Nat /\ MaxMembers \in Nat

VARIABLE doc

vars == <<doc>>

IsObject(i) == i \in {0} \cup {j \in DOMAIN doc : doc[j].kind = "object"}
Children(i) == {c \in DOMAIN doc : doc[c].parent = i}

Init == doc = << >>
AddMember(i, key, kind) ==
    /\ Len(doc) < MaxMembers
    /\ IsObject(i)
    /\ \A c \in Children(i) : doc[c].key # key
    /\ doc' = Append(doc, [parent |-> i, key |-> key, kind |-> kind])

Next == \E i \in 0..Len(doc), key \in Keys, kind \in {"leaf", "object"} : AddMember(i, key, kind)

Spec == Init /\ [][Next]_vars
-----------------------------------------------------------------------------
(* What both kits share.                                                   *)

Put(out, key, text) ==
    [k \in DOMAIN out \cup {key} |-> IF k = key THEN text ELSE out[k]]
(* out[key] = text in TypeScript.                                          *)
TsPut(out, key, text) == IF key = Proto THEN out ELSE Put(out, key, text)
Full(out) == Cardinality(DOMAIN out) >= MaxKeys
Written(kit, members) == SetToSortSeq(members, <)   \* mutant: insertion order
Sorted(kit, members) ==
    SetToSortSeq(members, LAMBDA c, d : KeyRank[kit][doc[c].key] < KeyRank[kit][doc[d].key])

(* No delimiter behind an empty prefix, be it the root's or that of an     *)
(* empty key under the root.                                               *)
Path(prefix, key) == IF prefix = << >> THEN key ELSE prefix \o <<".">> \o key

(* The order a map lists its members in: a serde_json map sorted, a        *)
(* JavaScript object its array indices by number and then the other keys   *)
(* as they were written.                                                   *)
IsIndex(c) == doc[c].key \in DOMAIN Index
Listed(kit, members) ==
    IF kit = "rust" THEN Sorted(kit, members)
    ELSE SetToSortSeq({c \in members : IsIndex(c)},
                      LAMBDA c, d : Index[doc[c].key] < Index[doc[d].key])
         \o SetToSortSeq({c \in members : ~IsIndex(c)}, <)

(* JSON text.                                                              *)
RECURSIVE Text(_, _)
Text(kit, i) ==
    LET order == Listed(kit, Children(i))
    IN  IF IsObject(i)
        THEN [members |-> [j \in DOMAIN order |-> <<doc[order[j]].key, Text(kit, order[j])>>]]
        ELSE [leaf |-> i]
-----------------------------------------------------------------------------
(* Rust: the caps are tested on entry to each value, the depth against the *)
(* value's own; a leaf without a key is dropped.                           *)

Shallower(depth) == depth < MaxDepth   \* mutant: the root counts as a level
Descends(depth) == depth <= MaxDepth

RECURSIVE RustInto(_, _, _, _)
RustMembers(prefix, members, depth, out) ==
    FoldLeft(LAMBDA acc, c : RustInto(Path(prefix, doc[c].key), c, depth, acc),
             out, Sorted("rust", members))
RustInto(prefix, i, depth, out) ==
    CASE Full(out) -> out
      [] ~Full(out) /\ IsObject(i) /\ Descends(depth) ->
             RustMembers(prefix, Children(i), depth + 1, out)
      [] OTHER -> IF prefix = << >> THEN out ELSE Put(out, prefix, Text("rust", i))

(* TypeScript: the caps are tested in the loop over a node's entries.      *)
TsEntry(i, depth) == IsObject(i) /\ depth < MaxDepth

RECURSIVE TsVisit(_, _, _, _)
TsVisit(members, prefix, depth, out) ==
    FoldLeft(LAMBDA acc, c :
                 LET path == Path(prefix, doc[c].key) IN
                 CASE Full(acc) -> acc
                   [] ~Full(acc) /\ TsEntry(c, depth) -> TsVisit(Children(c), path, depth + 1, acc)
                   [] OTHER -> TsPut(acc, path, Text("ts", c)),
             out, Sorted("ts", members))

(* Of an object with these members: the root's, or some of them.           *)
NoKeys == [k \in {} |-> << >>]
RustFlatten(members) == RustMembers(<< >>, members, 1, NoKeys)
TsFlatten(members) == TsVisit(members, << >>, 0, NoKeys)
-----------------------------------------------------------------------------
(* The definition without a walk: the members with no object below them    *)
(* that the depth cap lets the walk open, in the order of their key paths. *)

RECURSIVE Chain(_)
Chain(i) == IF i = 0 THEN << >> ELSE Append(Chain(doc[i].parent), i)

Leaves == {i \in DOMAIN doc : Len(Chain(i)) <= MaxDepth + 1
                              /\ (IsObject(i) => Len(Chain(i)) = MaxDepth + 1)}
Dotted(i) == FoldLeft(LAMBDA prefix, c : Path(prefix, doc[c].key), << >>, Chain(i))

Before(kit, i, j) ==
    LET p == Chain(i)
        q == Chain(j)
        n == CHOOSE m \in DOMAIN p \cap DOMAIN q : p[m] # q[m] /\ SubSeq(p, 1, m - 1) = SubSeq(q, 1, m - 1)
    IN  KeyRank[kit][doc[p[n]].key] < KeyRank[kit][doc[q[n]].key]

(* A dotted key survives when fewer than MaxKeys others come up before it, *)
(* but for __proto__ in TypeScript.                                        *)
Survivors(kit) ==
    LET before(k, l) == \E i \in Leaves : Dotted(i) = k /\
                            \A j \in Leaves : Dotted(j) = l => Before(kit, i, j)
        all == {Dotted(i) : i \in Leaves} \ (IF kit = "ts" THEN {Proto} ELSE {})
    IN  {k \in all : Cardinality({l \in all \ {k} : before(l, k)}) < MaxKeys}

OneOrder == KeyRank["rust"] = KeyRank["ts"]
EveryLeafNamed == \A i \in Leaves : Dotted(i) # << >>
NoLeafProto == \A i \in Leaves : Dotted(i) # Proto
ListedAlike ==
    \A i \in {0} \cup DOMAIN doc : Listed("ts", Children(i)) = Listed("rust", Children(i))
Top == Children(0)

(* The keys that survive the caps are the first MaxKeys of the document in *)
(* sorted order, each with the text of a leaf of that key -- whichever way *)
(* keys nest, collide once dotted, or were written; only __proto__ is      *)
(* passed over.                                                            *)
KeepsTheFirst ==
    /\ DOMAIN TsFlatten(Top) = Survivors("ts")
    /\ \A k \in Survivors("ts") :
           \E i \in Leaves : Dotted(i) = k /\ TsFlatten(Top)[k] = Text("ts", i)

(* The kits agree, on the keys and on the text, about every document whose *)
(* members JavaScript, too, lists in sorted order and where no leaf has a  *)
(* path of empty keys alone, which Rust takes for no path, or the dotted   *)
(* key __proto__, which TypeScript drops.                                  *)
KitsAgree ==
    OneOrder /\ EveryLeafNamed /\ NoLeafProto /\ ListedAlike =>
        RustFlatten(Top) = TsFlatten(Top)
=============================================================================
