---------------------------- MODULE TypeBridge -----------------------------
(***************************************************************************)
(* Code generation in both directions: the columns of a live table as a    *)
(* Rust row struct (introspect_row_struct), and a TableSpec as a           *)
(* TypeScript interface with Zod schemas (emit_ts_module), next to the     *)
(* schemas the TypeScript kit builds itself from the same specification.   *)
(*                                                                         *)
(* A type is a base and the wrappers around it, the outermost last; the    *)
(* server spells it as a text, here a sequence of names, brackets and      *)
(* commas.  A column's name is a sequence of letters.  A schema is known   *)
(* by the kinds of values it accepts.  The only steps write more columns,  *)
(* letters and wrappers.                                                   *)
(***************************************************************************)
EXTENDS Naturals, Sequences, FiniteSetsExt, SequencesExt

CONSTANTS Letters,   \* what names are spelled with
          Upper,     \* Upper[c]: the capital of a small letter
          Keywords,  \* the Rust keywords among the names
          Words,     \* what the texts of types are spelled with
          Types,     \* the texts of the types that wrap no other
          Keys,      \* the types of the keys of maps
          MaxSize    \* bound on the letters and wrappers of a table

Comma == ","
Heads == {"Nullable", "LowCardinality", "Array"}
Plain == [head : Heads]
Wrappers == Plain \cup [head : {"Map"}, key : Keys]

Bare(base) == [wraps |-> << >>, base |-> base]
String == <<"String">>

ASSUME LettersAssumption ==
    /\ "_" \in Letters /\ DOMAIN Upper \subseteq Letters \ {"_"}
    /\ \A c, d \in DOMAIN Upper :
           Upper[c] \notin DOMAIN Upper \cup {"1"} /\ (Upper[c] = Upper[d] => c = d)
ASSUME KeywordsAssumption == Keywords \subseteq Seq(Letters)
ASSUME WordsAssumption == Heads \cup {"Map", "(", Comma, ")"} \subseteq Words
ASSUME TypesAssumption ==
    \A base \in Types : base \in Seq(Words) \ {<< >>} /\ base[1] \notin Heads \cup {"Map"}
ASSUME KeysAssumption == Keys \subseteq [wraps : Seq(Plain), base : Types]
ASSUME BoundsAssumption == MaxSize \in Nat

VARIABLES columns,  \* the table's, each with a name, a type and a default
          size

vars == <<columns, size>>

LastColumn == columns[Len(columns)]
Init == columns = << >> /\ size = 0

Grow(bigger) == size < MaxSize /\ size' = size + 1 /\ columns' = bigger

Column(c, base) == [name |-> <<c>>, type |-> Bare(base), default |-> "none"]
Untouched == LastColumn.type = Bare(String) /\ LastColumn.default = "none"

(* Nothing relates a column's name to the rest of it, or to the rest of    *)
(* another: two names grow, or one column's type.                          *)
Declare(c, base) ==
    /\ c # "1"   \* is_valid_identifier
    /\ columns # << >> => Len(columns) = 1 /\ Untouched /\ base = String
    /\ Grow(Append(columns, Column(c, base)))
Spell(c) ==
    /\ columns # << >> /\ Untouched
    /\ Grow([columns EXCEPT ![Len(columns)].name = Append(@, c)])

Single == Len(columns) = 1 /\ Len(LastColumn.name) = 1
Wrap(w) == Single /\ Grow([columns EXCEPT ![1].type.wraps = Append(@, w)])
Default(expr) ==
    /\ Single /\ LastColumn.default = "none"
    /\ Grow([columns EXCEPT ![1].default = expr])

Next ==
    \/ \E c \in Letters : Spell(c) \/ \E base \in Types : Declare(c, base)
    \/ \E expr \in {"empty", "now()"} : Default(expr)
    \/ \E w \in Wrappers : Wrap(w)

Spec == Init /\ [][Next]_vars
-----------------------------------------------------------------------------
(* From the server's text to Rust.                                         *)

Enclose(text, w) == <<w.head, "(">> \o text \o <<")">>
KeyText(k) == FoldLeft(Enclose, k.base, k.wraps)
EncloseAny(text, w) == Enclose(IF w.head = "Map" THEN KeyText(w.key) \o <<Comma>> \o text ELSE text, w)
Text(t) == FoldLeft(EncloseAny, t.base, t.wraps)

Stripped(wrapper, text) ==
    Len(text) > 2 /\ text[1] = wrapper /\ text[2] = "(" /\ text[Len(text)] = ")"

Nest(depth, word) ==
    CASE word = "(" -> depth + 1
      [] word = ")" -> IF depth > 0 THEN depth - 1 ELSE 0
      [] OTHER      -> depth
Depth(text) == FoldLeft(Nest, 0, text)

FirstComma(inner) ==   \* mutant: brackets are not counted
    LET at == {i \in DOMAIN inner : inner[i] = Comma} IN IF at = {} THEN 0 ELSE Min(at)
TopCommas(inner) == {i \in DOMAIN inner : inner[i] = Comma /\ Depth(SubSeq(inner, 1, i)) = 0}
TopComma(inner) == LET at == TopCommas(inner) IN IF at = {} THEN 0 ELSE Min(at)

(* The brackets in a key's text match, and its commas are within brackets. *)
Closed(text) ==
    Depth(text) = 0 /\ \A i \in DOMAIN text : text[i] = Comma => Depth(SubSeq(text, 1, i)) > 0
ASSUME KeyTextsAssumption == \A k \in Keys : Closed(KeyText(k))

RustScalar(base) ==
    CASE base = "Bool"    -> "bool" [] base = "UInt8"  -> "u8"  [] base = "UInt16" -> "u16"
      [] base = "UInt32"  -> "u32"  [] base = "UInt64" -> "u64" [] base = "Int8"   -> "i8"
      [] base = "Int16"   -> "i16"  [] base = "Int32"  -> "i32" [] base = "Int64"  -> "i64"
      [] base = "Float32" -> "f32"  [] base = "Float64" -> "f64"
      [] OTHER            -> "String"

Of(head, args) == [head |-> head, args |-> args]
Leaf(head) == Of(head, << >>)

ChTypeToRust[text \in Seq(Words)] ==
    LET inner == SubSeq(text, 3, Len(text) - 1)
        comma == TopComma(inner)
    IN  CASE Stripped("Nullable", text) -> Of("Option", <<ChTypeToRust[inner]>>)
          [] Stripped("LowCardinality", text) -> ChTypeToRust[inner]
          [] Stripped("Array", text) -> Of("Vec", <<ChTypeToRust[inner]>>)
          [] Stripped("Map", text) /\ comma > 0 ->
                 Of("HashMap", <<ChTypeToRust[SubSeq(inner, 1, comma - 1)],
                                 ChTypeToRust[SubSeq(inner, comma + 1, Len(inner))]>>)
          [] OTHER -> Leaf(RustScalar(text[1]))

RustField(name) == IF name \in Keywords THEN <<"r#">> \o name ELSE name
RowStruct(pairs) ==
    [i \in DOMAIN pairs |->
        [ident |-> RustField(pairs[i].name), rename |-> RustField(pairs[i].name) # pairs[i].name,
         column |-> pairs[i].name, type |-> ChTypeToRust[pairs[i].text]]]

IntrospectRowStruct(table) ==
    RowStruct([i \in DOMAIN table |-> [name |-> table[i].name, text |-> Text(table[i].type)]])
-----------------------------------------------------------------------------
(* From a TableSpec to TypeScript.                                         *)

Up(c) == IF c \in DOMAIN Upper THEN Upper[c] ELSE c

KeepsCase(name) == SelectSeq(name, LAMBDA c : c # "_")   \* mutant: no letter is raised
Camel(acc, c) ==
    IF c = "_" THEN [acc EXCEPT !.raise = acc.out # << >>]
    ELSE [out |-> Append(acc.out, IF acc.raise THEN Up(c) ELSE c), raise |-> FALSE]
ToCamelCase(name) == FoldLeft(Camel, [out |-> << >>, raise |-> FALSE], name).out

ToPascalCase(name) ==
    LET camel == ToCamelCase(name)
    IN  IF camel = << >> THEN camel ELSE <<Up(Head(camel))>> \o Tail(camel)

Texts   == {"String", "UUID", "Date", "DateTime", "DateTime64"}
Narrow  == {"Int8", "Int16", "Int32", "UInt8", "UInt16", "UInt32"}
Wide    == {"Int64", "UInt64"}
Floats  == {"Float32", "Float64"}
Scalars == Texts \cup Narrow \cup Wide \cup Floats \cup {"Bool", "JSON"}

(* The kinds of JSON values.                                               *)
Values == {"text", "whole", "fraction", "truth", "null", "texts", "text map", "object"}

TsScalar(s) ==
    CASE s \in Texts -> {"text"} [] s = "Bool" -> {"truth"} [] s = "JSON" -> Values
      [] OTHER -> {"whole", "fraction"}
WideAsText(s) ==   \* mutant: 64-bit integers are strings in the schema alone
    IF s \in Texts \cup Wide THEN {"text"} ELSE TsScalar(s)
ZodScalar(s) ==
    CASE s \in Texts -> {"text"} [] s = "Bool" -> {"truth"} [] s = "JSON" -> Values
      [] OTHER -> {"whole", "fraction"}

(* The TypeScript kit: 64-bit integers are read as strings, the others     *)
(* must be whole, JSON is an object.                                       *)
KitScalar(s) ==
    CASE s \in Texts \cup Wide -> {"text"} [] s = "Bool" -> {"truth"}
      [] s = "JSON" -> {"text map", "object"} [] s \in Narrow -> {"whole"}
      [] OTHER -> {"whole", "fraction"}

(* What the type of a specification accepts, given what its base does.     *)
Core(t) == t.base[1]
Accept(values, w) ==
    CASE w.head = "Nullable" -> values \cup {"null"}
      [] w.head = "LowCardinality" -> values
      [] w.head = "Array" -> {"texts"}
      [] w.head = "Map" -> {"text map"}
Accepts(core, t) == FoldLeft(Accept, core, t.wraps)

TsType(t) == Accepts(TsScalar(Core(t)), t)
ZodType(t) == Accepts(ZodScalar(Core(t)), t)
ColumnFromTypeSpec(t) == Accepts(KitScalar(Core(t)), t)

AtTheTop(t) == t.wraps # << >> /\ Last(t.wraps).head = "Nullable"   \* mutant: LowCardinality is not seen through
IsNullable(t) ==
    \E i \in DOMAIN t.wraps :
        /\ t.wraps[i].head = "Nullable"
        /\ \A j \in DOMAIN t.wraps : j > i => t.wraps[j].head = "LowCardinality"

RowInterface(table) ==
    [i \in DOMAIN table |->
        [field |-> ToCamelCase(table[i].name), optional |-> IsNullable(table[i].type),
         values |-> TsType(table[i].type)]]

ZodObject(table, insert) ==
    [i \in DOMAIN table |->
        [field |-> ToCamelCase(table[i].name), values |-> ZodType(table[i].type),
         optional |-> insert /\ table[i].default # "none"]]

(* The TypeScript kit's own schemas keep the columns' names; an empty      *)
(* default counts as none there.                                           *)
KitSchema(table, insert) ==
    [i \in DOMAIN table |->
        [field |-> table[i].name, values |-> ColumnFromTypeSpec(table[i].type),
         optional |-> insert /\ table[i].default = "now()"]]
-----------------------------------------------------------------------------
(* The types a TableSpec may name: arrays and maps hold strings.           *)
Allowed(t) ==
    /\ Core(t) \in Scalars
    /\ \A i \in DOMAIN t.wraps :
           /\ t.wraps[i].head \in {"Array", "Map"} => i = 1 /\ t.base = String
           /\ t.wraps[i].head = "Map" => t.wraps[i].key = Bare(String)

(* The row a type calls for: the same shape, LowCardinality left out.      *)
Shape(row, w) ==
    CASE w.head = "Nullable" -> Of("Option", <<row>>)
      [] w.head = "LowCardinality" -> row
      [] w.head = "Array" -> Of("Vec", <<row>>)
KeyRow(k) == FoldLeft(Shape, Leaf(RustScalar(Core(k))), k.wraps)
ShapeAny(row, w) == IF w.head = "Map" THEN Of("HashMap", <<KeyRow(w.key), row>>) ELSE Shape(row, w)
RowType(t) == FoldLeft(ShapeAny, Leaf(RustScalar(Core(t))), t.wraps)

(* The Rust row, read off the server's text, has the shape of the live     *)
(* type at every depth, whatever parameters its parts carry, and names     *)
(* every column as the table does.                                         *)
RowStructFaithful ==
    \A i \in DOMAIN columns :
        LET field == IntrospectRowStruct(columns)[i] IN
        /\ field.type = RowType(columns[i].type)
        /\ field.column = columns[i].name
        /\ field.rename \/ field.ident = field.column

(* The bindings agree on which columns may be null: an Option in Rust, an  *)
(* optional field and null in the interface, null in the emitted schema    *)
(* and in the kit's.  (JSON admits null everywhere but in the kit.)        *)
NullsAgree ==
    \A i \in DOMAIN columns :
        LET t == columns[i].type
            null == IntrospectRowStruct(columns)[i].type.head = "Option"
        IN  Allowed(t) /\ Core(t) # "JSON" =>
                /\ RowInterface(columns)[i].optional <=> null
                /\ \A values \in {TsType(t), ZodType(t), ColumnFromTypeSpec(t)} :
                       "null" \in values <=> null

(* What the kit's schemas accept the emitted ones accept, column by        *)
(* column, and the interface says so; they take fractions and any JSON     *)
(* besides.  The kits differ on 64-bit integers and empty defaults.        *)
EmittedAcceptsKitRows ==
    \A i \in DOMAIN columns :
        LET t == columns[i].type IN
        Allowed(t) =>
            /\ RowInterface(columns)[i].values = ZodObject(columns, FALSE)[i].values
            /\ \A insert \in BOOLEAN :
                   LET emitted == ZodObject(columns, insert)[i]
                       kit     == KitSchema(columns, insert)[i]
                   IN  /\ columns[i].default # "empty" => emitted.optional = kit.optional
                       /\ Core(t) \notin Wide =>
                              /\ kit.values \subseteq emitted.values
                              /\ Core(t) # "JSON" => emitted.values \ kit.values \subseteq {"fraction"}

(* Two columns, or two tables, keep names of their own in TypeScript when  *)
(* both are in snake case: small letters and digits that start with a      *)
(* letter, a small letter behind every underscore.                         *)
Snake(name) ==
    /\ name[1] \in DOMAIN Upper
    /\ \A i \in DOMAIN name : name[i] \in DOMAIN Upper \cup {"1", "_"}
    /\ \A i \in DOMAIN name : name[i] = "_" => i < Len(name) /\ name[i + 1] \in DOMAIN Upper
SnakeNamesApart ==
    \A i, j \in DOMAIN columns :
        LET a == columns[i].name
            b == columns[j].name
        IN  Snake(a) /\ Snake(b) /\ a # b =>
                ToCamelCase(a) # ToCamelCase(b) /\ ToPascalCase(a) # ToPascalCase(b)
=============================================================================
