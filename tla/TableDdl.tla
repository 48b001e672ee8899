------------------------------ MODULE TableDdl ------------------------------
(***************************************************************************)
(* From a specification supplied at run time to CREATE TABLE, in both      *)
(* kits: the plain table (to_create_table_sql, clickhouseTableFromSpec)    *)
(* and the flexible one (flexible_table, flexibleTable), which appends     *)
(* attrs and raw to the caller's columns.  A kit returns the first fault   *)
(* it meets or the table it renders.                                       *)
(*                                                                         *)
(* A form is what a caller fills in; the only steps fill in more of it.    *)
(***************************************************************************)
EXTENDS Naturals, Sequences, FiniteSets, SequencesExt

Kits == {"rust", "ts"}

CONSTANTS Names,                \* what a caller may give for a column's name
          TableNames,           \* what a caller may give for the table's
          Size,                 \* Size[kit][n]: the length of name n, in bytes
                                \* in Rust, in UTF-16 units in TypeScript
          WellFormed,           \* the names of letters, digits and underscores
          Types,                \* the column types a caller may ask for
          MaxColumns, MaxIdentifierLength,   \* SchemaLimits of each kit: in Rust
                                \* the caller's, in TypeScript the default ones
          MaxChoices            \* bound on the entries of a form

Scalars == {"String", "DateTime64"}
Cores   == Scalars \cup {"Map", "datetime64", "Decimal"}
Type    == {t \in [wraps : Seq({"nullable", "lowCardinality"}), core : Cores, precision : Nat] :
                t.core # "datetime64" => t.precision = 0}

DefaultReserved == {"attrs", "raw"}
Identifiers == Names \cup TableNames \cup DefaultReserved

(* The names a JavaScript object does not keep as a member where it was    *)
(* written, __proto__ and those of digits only, are not among them.        *)
ASSUME NamesAssumption ==
    /\ DefaultReserved \subseteq WellFormed /\ WellFormed \subseteq Identifiers
    /\ "__proto__" \notin Identifiers
    /\ Size \in [Kits -> [Identifiers -> Nat]]
    /\ \A n \in Identifiers : Size["rust"][n] = 0 <=> Size["ts"][n] = 0
    /\ \A n \in WellFormed : Size["rust"][n] = Size["ts"][n] /\ Size["rust"][n] > 0
ASSUME TypesAssumption == \A t \in Types : t \in Type
ASSUME LimitsAssumption ==
    {MaxColumns, MaxIdentifierLength} \subseteq [Kits -> Nat] /\ MaxChoices \in Nat

VARIABLES form, choices

vars == <<form, choices>>

NoTtl == [column |-> "none", clauses |-> {}]

Blank(n) == [name |-> n, mandatory |-> << >>, promoted |-> << >>, reserved |-> DefaultReserved,
             order |-> << >>, indexes |-> << >>, ttl |-> NoTtl]

Init == (\E n \in TableNames : form = Blank(n)) /\ choices = 0

FillIn(field, value) ==
    /\ choices < MaxChoices
    /\ choices' = choices + 1
    /\ form' = [form EXCEPT ![field] = value]

Declare(part, n, t) == FillIn(part, Append(form[part], [name |-> n, type |-> t]))
OrderBy(n) == FillIn("order", Append(form.order, n))
AddIndex(n) == FillIn("indexes", Append(form.indexes, n))
(* The caller's own reserved names replace the default ones.               *)
Reserve(names) == form.reserved = DefaultReserved /\ FillIn("reserved", names)
Expire(n, clauses) == form.ttl = NoTtl /\ FillIn("ttl", [column |-> n, clauses |-> clauses])

Next ==
    \/ \E n \in Names : \/ \E part \in {"mandatory", "promoted"}, t \in Types : Declare(part, n, t)
                        \/ OrderBy(n) \/ AddIndex(n)
                        \/ Reserve({n})
                        \/ \E clauses \in SUBSET {"delete"} : Expire(n, clauses)

Spec == Init /\ [][Next]_vars
-----------------------------------------------------------------------------
(* The checks of the safety core.  A fault is a pair of what and why.      *)

NoFault == << >>
FirstFault(checks) ==
    LET failed == {i \in DOMAIN checks : checks[i] # NoFault}
    IN  IF failed = {} THEN NoFault ELSE checks[Min(failed)]

TooLong(kit, n) == Size[kit][n] > MaxIdentifierLength[kit]

ValidateIdentifier(kit, kind, n) ==
    CASE Size[kit][n] = 0 -> <<kind, "empty">>
      [] TooLong(kit, n)  -> <<kind, "too long">>
      [] 0 < Size[kit][n] /\ ~TooLong(kit, n) /\ n \notin WellFormed -> <<kind, "invalid">>
      [] OTHER            -> NoFault

AssertColumnCount(kit, count) ==
    CASE count < 1               -> <<"table", "no columns">>
      [] count > MaxColumns[kit] -> <<"table", "too many columns">>
      [] OTHER                   -> NoFault

AssertNotReserved(n) == IF n \in form.reserved THEN <<"column", "reserved">> ELSE NoFault

NotRepeated(columns, i) ==
    IF \E j \in 1..(i - 1) : columns[j].name = columns[i].name
    THEN <<"column", "duplicate">> ELSE NoFault

(* The rendered type, DateTime64 being short for DateTime64(3).            *)
ChType(type) ==
    [wraps |-> type.wraps,
     base |-> IF type.core = "datetime64" THEN "DateTime64" ELSE type.core,
     precision |-> IF type.core = "DateTime64" THEN 3 ELSE type.precision]

BareOnly(type) == type.core = "DateTime64" /\ type.wraps = << >>   \* mutant: wrappers hide it
IsDateTime64(type) == type.core \in {"DateTime64", "datetime64"}

(* Rust: a type that is not allowed cannot be read; a precision can.       *)
RustTypeFault(type) ==
    IF type.core = "datetime64" /\ type.precision > 9 THEN <<"type", "precision">> ELSE NoFault
Unreadable(columns) ==
    IF \E i \in DOMAIN columns : columns[i].type.core = "Decimal"
    THEN <<"type", "disallowed">> ELSE NoFault

(* TypeScript has no parametrised DateTime64 in its allowlist.             *)
TsTypeFault(type) ==
    IF type.core \in Scalars \cup {"Map"} THEN NoFault ELSE <<"type", "disallowed">>
-----------------------------------------------------------------------------
(* Rendering.                                                              *)

NamesOf(columns) == {columns[i].name : i \in DOMAIN columns}
ColumnOf(columns, n) == columns[CHOOSE i \in DOMAIN columns : columns[i].name = n]

RenderTtl(columns) ==
    IF form.ttl = NoTtl THEN NoTtl
    ELSE [column |-> form.ttl.column, clauses |-> form.ttl.clauses,
          wrapped |-> IsDateTime64(ColumnOf(columns, form.ttl.column).type)]

Render(columns, ttl) ==
    [columns |-> [i \in DOMAIN columns |->
                     [name |-> columns[i].name, type |-> ChType(columns[i].type)]],
     indexes |-> form.indexes, order |-> form.order, ttl |-> ttl]

Refuse(fault) == [fault |-> fault]
Rendered(result) == "fault" \notin DOMAIN result
-----------------------------------------------------------------------------
(* Rust.                                                                   *)

DuplicatesPass(columns, i) ==   \* mutant: names are not compared
    FirstFault(<<ValidateIdentifier("rust", "column", columns[i].name), RustTypeFault(columns[i].type)>>)
RustColumnCheck(columns, i) ==
    FirstFault(<<ValidateIdentifier("rust", "column", columns[i].name),
                 NotRepeated(columns, i),
                 RustTypeFault(columns[i].type)>>)

RustKnown(kind, columns, n) ==
    FirstFault(<<ValidateIdentifier("rust", "column", n),
                 IF n \in NamesOf(columns) THEN NoFault ELSE <<kind, "unknown">>>>)

RustTtlCheck(columns) ==
    IF form.ttl = NoTtl THEN NoFault ELSE RustKnown("ttl", columns, form.ttl.column)

(* A policy without a clause renders no TTL.                               *)
RustTtl(columns) == IF form.ttl.clauses = {} THEN NoTtl ELSE RenderTtl(columns)

RustCreate(columns) ==
    LET fault == FirstFault(
            <<Unreadable(columns), ValidateIdentifier("rust", "table", form.name),
              AssertColumnCount("rust", Len(columns))>>
            \o [i \in DOMAIN columns |-> RustColumnCheck(columns, i)]
            \o [i \in DOMAIN form.order |-> RustKnown("order_by", columns, form.order[i])]
            \o [i \in DOMAIN form.indexes |-> ValidateIdentifier("rust", "index", form.indexes[i])]
            \o <<RustTtlCheck(columns)>>)
    IN  IF fault = NoFault THEN Render(columns, RustTtl(columns)) ELSE Refuse(fault)

Attrs == [name |-> "attrs", type |-> [wraps |-> << >>, core |-> "Map", precision |-> 0]]
Raw   == [name |-> "raw", type |-> [wraps |-> << >>, core |-> "String", precision |-> 0]]
Caller == form.mandatory \o form.promoted

NameOnly(kit, i) == ValidateIdentifier(kit, "column", Caller[i].name)   \* mutant: no name is reserved
CallerCheck(kit, i) ==
    FirstFault(<<ValidateIdentifier(kit, "column", Caller[i].name), AssertNotReserved(Caller[i].name)>>)

RustFlexible ==
    LET fault == FirstFault(<<Unreadable(Caller), ValidateIdentifier("rust", "table", form.name)>>
                            \o [i \in DOMAIN Caller |-> CallerCheck("rust", i)])
    IN  IF fault = NoFault THEN RustCreate(Caller \o <<Attrs, Raw>>) ELSE Refuse(fault)
-----------------------------------------------------------------------------
(* TypeScript: the columns are an object, where a name assigned again      *)
(* keeps its place and takes the new value.                                *)

Assign(object, c) ==
    IF c.name \in NamesOf(object)
    THEN [i \in DOMAIN object |-> IF object[i].name = c.name THEN c ELSE object[i]]
    ELSE Append(object, c)

ToCreateTableSql(columns) ==
    IF form.ttl # NoTtl /\ form.ttl.column \notin NamesOf(columns)
    THEN Refuse(<<"ttl", "unknown">>) ELSE Render(columns, RenderTtl(columns))

TsColumnCheck(columns, i) ==
    FirstFault(<<ValidateIdentifier("ts", "column", columns[i].name),
                 NotRepeated(columns, i),
                 TsTypeFault(columns[i].type)>>)

TsFromSpec ==
    LET fault == FirstFault(
            <<ValidateIdentifier("ts", "table", form.name), AssertColumnCount("ts", Len(Caller))>>
            \o [i \in DOMAIN Caller |-> TsColumnCheck(Caller, i)])
    IN  IF fault = NoFault THEN ToCreateTableSql(Caller) ELSE Refuse(fault)

(* The caller's columns come from columnFromTypeSpec.                      *)
TsFlexible ==
    LET fault == FirstFault([i \in DOMAIN Caller |-> TsTypeFault(Caller[i].type)]
                            \o <<ValidateIdentifier("ts", "table", form.name)>>
                            \o [i \in DOMAIN Caller |-> CallerCheck("ts", i)])
    IN  IF fault = NoFault THEN ToCreateTableSql(FoldLeft(Assign, << >>, Caller \o <<Attrs, Raw>>))
                           ELSE Refuse(fault)
-----------------------------------------------------------------------------
(* What the kits promise of a rendered table, told by the table alone:     *)
(* between one and MaxColumns columns, each named once by a safe name of a *)
(* length within the limit, of allowed types, sorted and expired by        *)
(* columns it has; a DateTime64 expires only through toDateTime.           *)
Sound(table) ==
    LET names == NamesOf(table.columns) IN
    /\ Len(table.columns) \in 1..MaxColumns["rust"]
    /\ Cardinality(names) = Len(table.columns)
    /\ names \cup ToSet(table.indexes) \subseteq {n \in WellFormed : ~TooLong("rust", n)}
    /\ \A i \in DOMAIN table.columns :
           table.columns[i].type.base # "Decimal" /\ table.columns[i].type.precision <= 9
    /\ ToSet(table.order) \subseteq names
    /\ table.ttl # NoTtl =>
           /\ table.ttl.clauses # {}
           /\ table.ttl.column \in names
           /\ table.ttl.wrapped <=> ColumnOf(table.columns, table.ttl.column).type.base = "DateTime64"

(* No specification makes the Rust kit render a table that is not sound,   *)
(* whether it goes there directly or as a flexible table whose caller      *)
(* replaced the reserved names.                                            *)
RustRendersSound == \A table \in {RustCreate(Caller), RustFlexible} : Rendered(table) => Sound(table)

(* What TypeScript leaves to the caller: it sorts, indexes and expires by  *)
(* what it is given, and knows fewer types.                                *)
Portable(names) ==
    /\ \A i \in DOMAIN Caller : TsTypeFault(Caller[i].type) = NoFault
    /\ ToSet(form.order) \subseteq names
    /\ \A i \in DOMAIN form.indexes : ValidateIdentifier("rust", "index", form.indexes[i]) = NoFault
    /\ form.ttl # NoTtl => form.ttl.clauses # {} /\ form.ttl.column \in names
EachOnce == Cardinality(NamesOf(Caller)) = Len(Caller)
(* The kits measure names in different units and against different limits. *)
NamesMeasureAlike ==
    \A n \in {form.name} \cup NamesOf(Caller) : TooLong("rust", n) <=> TooLong("ts", n)
CountsAlike == Len(Caller) > MaxColumns["rust"] <=> Len(Caller) > MaxColumns["ts"]
(* The appended columns are within the limits, which only Rust applies.    *)
AppendedFit ==
    /\ Len(Caller) + 2 <= MaxColumns["rust"]
    /\ \A n \in DefaultReserved : ~TooLong("rust", n)

(* Of a portable specification whose table and column names are too long   *)
(* for both kits or for neither, and whose columns are too many for both   *)
(* or for neither, the kits render the same table or meet the same fault   *)
(* first; of a flexible one too, however many, when it names no column     *)
(* twice, still reserves attrs and raw, and leaves them within the limits. *)
KitsRenderAlike ==
    NamesMeasureAlike =>
        /\ Portable(NamesOf(Caller)) /\ CountsAlike => RustCreate(Caller) = TsFromSpec
        /\ Portable(NamesOf(Caller) \cup DefaultReserved) /\ EachOnce
           /\ form.reserved = DefaultReserved /\ AppendedFit
           => RustFlexible = TsFlexible

(* In a flexible table attrs and raw keep their types, and every column of *)
(* the caller its place and its type: always in Rust, in TypeScript unless *)
(* the caller named a column twice or gave up the reserved names.          *)
FlexibleKeepsColumns ==
    \A kit \in Kits :
        LET table == IF kit = "rust" THEN RustFlexible ELSE TsFlexible
            columns == Caller \o <<Attrs, Raw>>
        IN  Rendered(table) /\ (kit = "ts" => EachOnce /\ form.reserved = DefaultReserved)
            => table.columns = Render(columns, NoTtl).columns

(* The documentation of the safety core: the runtime constructors bound    *)
(* the number of columns, so an unbounded table is impossible.             *)
BoundedColumns ==
    \A kit \in Kits :
        \A table \in IF kit = "rust" THEN {RustCreate(Caller), RustFlexible}
                                     ELSE {TsFromSpec, TsFlexible} :
            Rendered(table) => Len(table.columns) <= MaxColumns[kit]
=============================================================================
