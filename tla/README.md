# Verification of clickhouse-kit

clickhouse-kit is two packages that share one design: a TypeScript package for
tables that developers author and a Rust crate for tables that customers define
at run time. Both talk to a ClickHouse server through a client the caller
brings. This directory models what in it is hard to test: the steps of several
processes against one server and one directory, what a crash leaves behind, and
where the two implementations of one function part.

Run everything from this directory: `tlc -workers 2 -config X.cfg M` for a run
of the table below, `tlapm M.tla` for the proofs of `Folding` and of each module `M`
whose name ends in `Proofs`.

## 1. Inventory

### Components

| component | code | state | operations | module |
|---|---|---|---|---|
| migration runner | `crates/clickhouse-kit/src/migrate.rs`, `src/migrate.ts` | the `_ch_migrations` table; a result record per pass | ensure, discover, fetch applied, apply, record | `MigrationRunner` |
| statement splitter | the same two files | none | split a file into statements, quote its name | `SqlSplit` |
| migration generator | `src/generate.ts` | numbered `.sql` files and `_journal.json` | load, number, emit, save | `MigrationGenerator`; with the runner `MigrationPipeline` |
| schema evolution | `evolve.rs`, `evolve.ts` | the live table | diff, ALTER ADD COLUMN | `SchemaEvolution` |
| drift gate | `drift.rs`, `check.ts` | the report of a pass | fetch and compare each table | `DriftGate` |
| live introspection | `introspect.rs` | none | fetch columns, generate a row struct | `SchemaEvolution`, `TypeBridge` |
| flatten and coerce | `flatten.rs`, `flatten.ts` | none | flatten a document, route it to columns | `Flatten`, `Coerce` |
| executor seam | `client.rs` | none | command, fetch strings, fetch columns | how the others call the server |
| table specification and DDL | `table.rs`, `kit.ts`, `runtime.ts` | none | validate, render CREATE TABLE | `TableDdl`; its effect in `LiveSchema` |
| safety core | `safety.rs`, `safety.ts` | none | identifier and type allowlists, limits | `TableDdl` |
| flexible tables | `flexible.rs`, `flexible.ts` | none | add `attrs` and `raw` | `TableDdl` |
| code generation | `codegen.rs` | none | types and names across languages | `TypeBridge` |
| zod schemas | `kit.ts`, `safety.ts`, `runtime.ts` | none | a validator per table | `TypeBridge`, in part |
| version sync, release | `scripts/sync-versions.mjs`, workflows | versions in the manifests | check, write | not modelled |
| index files, CI, parity corpus | | | | not modelled |

### How they interact

The generator writes the directory that the runner reads, and nothing else
connects them: no lock, no shared state, and the runner reads no journal. The
runner, evolution and the gate meet at the server. Each of their calls is an
`await` of its own, so every state they read may be stale at the next call. The
splitter stands between a file and the commands of the runner. Code generation
reads what the server says of a table, or a specification, and writes source
text that other programs compile against. Flatten and coerce are pure; they feed rows to a table whose columns evolution may be
changing.

### What is hard, and what makes each component correct

- **Runner.** Two passes at once; a crash between a statement and the record; a
  statement refused in the middle of a file; a command that arrives after its
  pass is over; two kits that sort a directory differently. Correct: a recorded
  file has run completely and in order, nothing runs before what precedes it,
  a pass that returns Ok tells the truth, everything is recorded in the end.
- **Generator.** No write is atomic and the journal is written once, last. Two
  calls may read the same directory. Correct: what the journal names exists and
  is whole, a number is fresh, a view's file sorts after those of its tables, an
  object is written twice only because a call was cut short.
- **Evolution.** A diff is stale when its ALTERs are sent. Correct: additive
  whatever the interleaving and however late an ALTER lands, complete unless
  someone dropped a column, and complete in the end even then.
- **Generator and runner together.** A file is listed as soon as it is opened. The
  runner executes whatever part of it is there, because a crash left no more or
  because the write is still going on, and records it. Correct, until a pass reads a
  file in the middle of its write: the two are the runner over a directory that only
  grows at its end, the server refuses nothing but what was cut off, and what the
  journal names is created. A pass that does read one too early harms that file's
  object and what needs it, and nothing else.
- **Gate.** A pass is one fetch per table and no snapshot. Correct: what it
  reports was true at some moment of the pass.
- **Splitter.** It knows no SQL. Correct: it sends what the server would read. The
  record of a file names the file.
- **Code generation.** Three languages describe one column. Correct: the shape, the
  nulls and the values they accept agree, and names stay apart.
- **Tables.** Two implementations of one chain of checks, which measure names in
  different units and against different limits; two columns appended behind the
  caller's. Correct: what is rendered is sound, the kits agree where their measures
  do, no column is lost.
- **Flatten, coerce.** Two caps, keys that collide, empty keys, keys that a
  JavaScript object lists elsewhere or does not keep. Correct: the kits agree but
  for those, the caps keep the first keys, nothing is lost otherwise.

The hazards, each with the line where it bites and the properties that would
catch it, are in `PROJECT.json`.

## 2. Modules

| module | EXTENDS | what it is |
|---|---|---|
| `MigrationLog` | | abstract: publish, run a statement, mark a file |
| `MigrationRunner` | | the passes of both kits; implements `MigrationLog` |
| `MigrationRunnerProofs` | `MigrationRunner` | its theorems, and how often a statement runs |
| `MigrationGenerator` | | the calls of the generator |
| `MigrationGeneratorProofs` | `MigrationGenerator` | its theorems |
| `MigrationPipeline` | `MigrationGenerator` | the generator's calls and a runner's passes over one directory; implements `MigrationRunner` |
| `MigrationPipelineProofs` | `MigrationPipeline`, `MigrationGeneratorProofs` | that it does, and what a pass finds in the directory and on the server |
| `LiveSchema` | | the server's tables and the DDL on them |
| `SchemaEvolution` | `LiveSchema` | processes that grow a table |
| `DriftGate` | `LiveSchema` | the passes of the gate |
| `SchemaLifecycle` | `SchemaEvolution`, `DriftGate` | both, with an operator's DDL |
| `SchemaLifecycleProofs` | `SchemaLifecycle` | its theorems |
| `SqlSplit` | | the two splitters and the server's reading |
| `SqlSplitProofs` | `SqlSplit` | its theorems |
| `Flatten` | | the two walks and a definition without a walk |
| `Coerce` | `Flatten` | the routing of members to columns |
| `TableDdl` | | both kits' way from a specification to CREATE TABLE |
| `TableDdlProofs` | `TableDdl` | its theorems |
| `TypeBridge` | | both directions of code generation |
| `TypeBridgeProofs` | `TypeBridge` | its theorems |
| `Folding` | | the equations of a fold and induction on sequences, for any step; `SqlSplitProofs`, `TableDdlProofs` and `TypeBridgeProofs` instantiate it |
| `MC*` | | instances for TLC |

Comments that begin with `mutant:` mark operators that stand for a bug: nothing
uses them, and putting one in the place of the operator below it must break the
property named in `PROJECT.json`.

### MigrationRunner

State: the directory (`dir`), the server (`tracked`, `rows`, `executed`,
`objects`), the commands given up by their pass (`orphans`), and for each runner
`pc` and the locals of `run_migrations`: `discovered`, `seen` (the applied
filenames), `skipped`, `applied`, and `file` and `stmt`, where the two loops
are. One action per server call or file operation: `EnsureTable`, `Discover`,
`FetchApplied`, `Skip`, `Open`, `Execute`, `Rejected` (an error of the server
ends the pass: `?` in Rust, an exception in TypeScript), `Record`, `Finish`.
`RustPass` and `TsPass` differ in the order of the first three, as the code
does, and in `Rank`, the order in which the kit sorts files. `Abort` is an error
or a crash with nothing outstanding, `GiveUp` one with a command on its way,
which later `Land`s or is `Lose`d. Data is abstracted to this: a statement is
known by the objects it needs, those it makes, and whether it may run again when
they exist (a plain CREATE may not, a CREATE IF NOT EXISTS may).

### MigrationGenerator

State: the files (a number and an object each), those whose text is not whole
(`torn`), the journal and whether it is not whole either (`unread`), and per
process the locals of the call. One action per file operation: `LoadJournal` or
`LoadFails`, `ListFiles`, two for each write, since `writeFileSync` opens and empties
the file before it fills it: `OpenFile` and `Emit` per file, `OpenJournal` and
`Save` at the end, or `NothingToSave`; `Skip` is the branch of `emit` for a captured
name. In between the file is there and not whole, for other calls to see. Two
overlapping writes of the journal may leave the longer text's tail behind the
shorter one (`Save`). `Throw` is a stop after any step, in the middle of a write
too. `LastNumber` stands for 9999,
the last number the four-digit pattern matches. A cut-off journal makes every call
throw until someone deletes it (`DiscardJournal`); what earlier calls returned no
longer counts then, so they go back to `idle`.

### MigrationPipeline

One generator process and one runner. The generator's half is
`MigrationGenerator` itself; the runner's is `Run == INSTANCE MigrationRunner`, its
directory being a function of the generator's files. `Publish` opens a file,
`WriteOn` brings some of its text, `EndsWrite` the rest, `Dies` is a crash or an
exception. What a reader finds is the whole CREATE, nothing the splitter would
return (`empty`), a CREATE without its last clauses (`short`), or a text the server
refuses (`broken`): `text` says it of the file under way, and `fate` of each file
what it holds once its write is over. `fate` is a prophecy variable, chosen when the
file is opened and met by the steps that end the write: the runner's module knows a
file by its name and the text it keeps, and the name is there first.

A pass that comes to a file before its write is over reads what is there
(`OpenUnfinished`), runs it and records the file's name (`RecordMisread`); when
that text is not the one the file keeps, the file is in `misread` for good. All
other steps of the pass are the runner's (`Proceed`), those of a pass that finds
there already what the file will keep included. `MaxMisreads` bounds the files read
so; past the bound a pass waits for the write to end, as it also would if it came a
moment later. `ImplementsRunner` says that until there is such a file every
behaviour of the two is one of the runner with `AppendOnly`. The two invariants hold
with such files too and except just the object that is harmed; `JournalledIsCreated`
excepts behaviours with such a file, since a view refused behind it stops every
later pass. Hand-authored files and overlapping calls are left to
`MigrationGenerator`.

### LiveSchema, SchemaEvolution, DriftGate, SchemaLifecycle

`live[t][n]` is a type or `Absent`; a type has a base and a spelling, because
the server spells types its own way and `normalize_type` exists for that reason.
An evolving process is provisioned, fetches the columns once, diffs, and sends
one ALTER per missing column, in the order of the specification, each a step
(`missing` is the set of positions still to be added, of which the least is next). The
gate fetches one table per step.
A call may fail, or give up an ALTER that lands later or never (`GiveUpAlter`,
`LandAlter`, `LoseAlter`). An operator drops or retypes columns at any time. `steady`, `matched` and
`drifted` are history: whether a process's snapshot is older than a dropped
column, and which tables did or did not match at some moment of the pass.

### SqlSplit, TableDdl, TypeBridge, Flatten, Coerce

Pure functions. The only steps of these modules write the input, token by token,
choice by choice or member by member, so that TLC meets every input up to the
bound; the properties compare the code's function with an independent
definition, or the two kits with each other, on each.
A specification is a name, columns, reserved names, and what it sorts, indexes
and expires by; a kit's answer is the first fault it meets or the table it
renders. A name has a length in each kit, since `safety.rs` counts bytes and
`safety.ts` UTF-16 units, which differ for names of other letters; and each kit has
its limits, Rust those of the caller (`SchemaLimits`), TypeScript always the default
ones, as neither `clickhouseTableFromSpec` nor `flexibleTable` takes any. `KitsRenderAlike`
compares the specifications that both judge alike, too long and too many included.
A JavaScript object is a sequence of named columns in which a second
assignment keeps the place and changes the value; the names that such an object
treats otherwise, the valid `__proto__` and those of digits only, are left out, as
are the raw fragments (engine, partition, settings, defaults) and time zones.
A token is a word, a quote, `--`, `;` or a space; quotes inside literals are not
escaped. A file's name is words, quotes and backslashes.
In `TypeBridge` a type is a base and the wrappers around it, the outermost last (a
`Map` is a wrapper of its values that carries the type of its keys), and the server
spells it as a sequence of words, brackets and commas, from which
`ChTypeToRust` strips wrappers and splits at commas as the code does. TypeScript
types and Zod schemas are the sets of kinds of JSON values they accept. Names are
spelled out letter by letter, since their conversion is what can go wrong. The
layout of the emitted source, `emit_ts_module` included, is left out.
Keys are sequences of symbols, so that dotted keys collide where they
would; values are told apart by which leaf they come from. A JavaScript object lists
its array indices first, by number (`Index`), and then the other keys as they were
written, a `serde_json` map sorts them (`Listed`): that is the order in the text of an
object past the depth cap and in `raw`. An assignment to `__proto__` adds no
member in TypeScript (`TsPut`, `TsLeftover`) and does in Rust. `undefined` (not
JSON) and the numeric formats of the two languages are left out. Where
`coerceToTable` flattens with default caps and `coerce_to_table` with the
caller's, the model gives both the same ones.

## 3. Runs

| run | shows | bounds and why they are enough |
|---|---|---|
| `runner_concurrent` | types; the order of a pass; what a record and an Ok mean, lexical order, bounded repetition, implements `MigrationLog`; everything published is recorded | a Rust and a TypeScript runner, 2 files of 2 statements, 2 faults with late commands: a crash in the retry of a crash; fair passes |
| `pipeline` | implements `MigrationRunner` until a file is read in the middle of its write; the server refuses only what was read cut off or needs such a file's table; an Ok pass has created what is journalled, and in the end everything is, but for such files | a table and a view of it, 2 calls, 1 fault of the generator, within any write, 1 failed pass, 1 file read in the middle of its write: an object emitted twice, a journal lost, a pass over half of a call's files, a table recorded from an empty file and then its view refused |
| `runner_reapply` | violated: two runners re-apply a recorded file | no faults at all |
| `runner_locale` | violated: TypeScript's order is not lexical | one runner |
| `generator` | types; the journal under concurrent calls; freshness, wholeness, dependencies, capture of calls that do not overlap | 2 interchangeable processes, 3 calls over 3 argument lists, 2 faults, 1 hand-written file |
| `schema` | additive; complete, and complete in the end; reports are warranted | 2 processes with overlapping, conflicting specifications of one table and one with a table of its own, 1 failure or late ALTER, 1 statement of an operator, 1 pass of the gate over both tables |
| `sql_split` | when the splitters are right, and the record of a file name | all files of at most 6 tokens and line ends: a literal, a comment, two statements; all names of at most 6 letters |
| `sql_trailing_comment` | violated: a comment sent as a statement | 4 tokens |
| `bindings` | Rust rows have the shape of the live table; nulls agree; emitted schemas accept what the kit's do; snake-case names stay apart | all types of up to 5 wrappers around 8 bases, some with parameters that hold commas and brackets, and maps with a plain and a wrapped key; all pairs of names of 6 letters together, over two letters, a capital, a digit and the underscore |
| `documents` | the caps keep the first keys; the kits agree; nothing is lost | all documents of 4 members over 7 keys: one is empty, one collides with a nested path, one is a column, one is named like a managed column, two are array indices that sort otherwise as text, one is `__proto__`; both caps are reached |
| `tables` | what Rust renders is sound; the kits agree; no column is lost | 4 choices: up to 4 columns where Rust allows 3 and TypeScript 2, of 5 types, with a bad, a long, a repeated and a reserved name, and one too long in bytes only |
| `tables_unbounded` | violated: `flexibleTable` does not count columns | the limit lowered to 2 |

Two processes show every pairwise interference of the runner and of the
generator: their shared state is only ever added to, and a third process adds no
kind of step. The symmetry of `generator` is over its two processes, which
differ in nothing. `CHECK_DEADLOCK FALSE` is set where the bounded run ends by
itself: the generator's calls are used up, the input is complete.

The properties of the generator that two overlapping calls do break are stated
of histories in which no two calls have overlapped (`overlapped`, a history
variable): nothing locks the directory and nothing in the code says that two
calls may run at once.

**Fairness.** `FairSpec` of the runner and `PipelineSpec`: weak fairness of a
runner's steps, which are its awaits and the start of the next pass. The async
runtime drives a pass to its end; that a pass which failed is followed by another
one is what both kits rely on ("it is retried on the next run",
`src/migrate.ts:107-108`). Nothing is assumed of late commands, of faults (they are
finitely many), of deployments or of calls of the generator. `Spec` of
`SchemaLifecycle`: weak fairness of each evolving process, which are its awaits and
its next call; the kit holds no loop of its own, so that the caller evolves a
tenant's table again when it serves the tenant again is the assumption, and
`EventuallyCovered` the only property that uses it. It is what the additive path is
for: whatever went wrong, the next call repairs. Nothing is assumed of the gate or
of the operator, whose statements are finitely many.

### Findings

The four violated runs are disagreements of the code with what a comment or a
doc says; each is quoted in `PROJECT.json`.

1. A pass reads the applied set once, so two concurrent passes re-apply.
2. `localeCompare` is not lexical order, and not the Rust runner's.
3. `flexibleTable` has no column limit although it is said to own the bound.
4. The TypeScript splitter sends a trailing comment as a statement.

Observations without a run, which the same modules show under other constants:

- With statements that may not run twice (`again` FALSE in the instance)
  `EventuallyRecorded` fails: a crash between a plain `CREATE TABLE` and the record
  leaves a file whose first statement the server refuses in every later pass.
- A table file cut off behind its columns is a valid `CREATE TABLE`. It runs and is
  recorded, the generator emits the table again, and that file changes nothing,
  since the table exists: it stays without its TTL and settings, and the gate, which
  compares columns, does not see it. A broken file stops every later pass
  (`JournalledIsCreated` excepts it) until someone removes it.
- A pass that runs while the generator writes may read a file empty, record it and
  return Ok: its object is never created, since the file counts as applied, and a view
  behind it is refused in every pass. A file read without its last clauses loses them
  for good. Without the exceptions for `misread` all properties of `pipeline` fail.
- Overlapping calls of the generator may write one file name twice; when a pass has
  recorded the first version, the second never runs.
- Of a name of letters outside ASCII one kit may say that it is too long and the other
  that it is invalid; both refuse it. Under limits other than the default ones Rust
  refuses tables that TypeScript renders, and the reverse.
- Of an object past the depth cap with the keys `9` and `10`, or with keys not written
  in sorted order, the kits store two texts, and so of such a document in `raw`:
  without `ListedAlike` `KitsAgree` and `CoerceAgrees` fail. A member `__proto__` at the
  top of a document, or a leaf whose whole path it is, reaches `attrs` in Rust and is
  lost in TypeScript.
- The emitted schemas read 64-bit integers as numbers, the kit's as strings, as the
  server sends them by default. The emitted interface has `field?` for a nullable
  column where the emitted schema requires the field. Emitted fields are in camel
  case, the rows of the server and the kit's own schemas in the columns' spelling.
- `split_top_comma` counts the brackets within quotes too: a map whose key is an
  `Enum` with a bracket in a name is split in the wrong place, or not at all, and
  becomes a `String` in the row struct. `KeyTextsAssumption` leaves such keys out.
- An empty `default` is none in TypeScript; in Rust it makes the field optional.
- `a_1` and `a1`, `a` and `_a` become one field; the column `_` becomes a field
  without a name. The list of Rust keywords lacks the reserved ones (`try`, `yield`),
  and `r#self`, `r#super` and `r#crate` are not legal.
- With `LastNumber = 2` `DependenciesFirst` fails: the pattern `/^(\d{4})_/` does
  not recognise file 10000, so numbers repeat after migration 9999.
- Without `EveryLeafNamed` `KitsAgree` fails: a leaf under the empty key survives
  in TypeScript and not in Rust. Without `OneOrder` it fails too: UTF-16 order and
  byte order differ above U+FFFF, and then keep different keys at the cap.
- Without `EachOnce` or `DefaultReserved` `FlexibleKeepsColumns` fails for
  TypeScript: a column assigned twice is replaced without an error.
- A TTL policy without a clause renders a bare `TTL` in TypeScript, nothing in
  Rust; a parametrised `DateTime64` is a type of the Rust kit alone.
- Two specifications, each within the column limit, grow one table past it:
  evolution counts no columns in either kit.

## 4. Proofs

`MigrationRunnerProofs` proves, for any runners, kits, files, statements, orders
and numbers of faults, of `Spec`: `TypeOK`, `RecordedMeansRun`,
`StatementsInOrder`, `PassOrder` and `OkMeansRecorded` without assumptions
beyond the types of the constants; `LexicalOrder` and the refinement of
`MigrationLog` assuming `AppendOnly` (a new file sorts last) and `OneOrder` (the
kits sort alike); `NoReapply` assuming a lone runner and no late commands.
`runner_locale` and `runner_reapply` show that such assumptions are needed, and
`pipeline` shows that the generator and a lone runner meet them, which
`MigrationPipelineProofs` proves.

None of these invariants is inductive. `RecordedMeansRun` says nothing of the
pass about to record; `StatementsInOrder` nothing of the command about to run,
which may belong to a pass that ended long ago. The strengthening `IInv` adds, of
every command that may still reach the server, that all statements above it have
run: `ExecInv` for the passes, `OrphanInv` for the late commands. It is stable
because `executed` and `rows` only grow (`Monotone`). `ResultInv` relates a pass's
lists to its snapshot: what it skipped it saw, what it applied it did not see, so
the two lists are disjoint. The argument goes by way of `ServerStep`: a step runs
one statement whose predecessors have run, records one file that has run, or
leaves the server alone (`NextIsServerStep`), and from there the server's part of
`IInv` needs no look at the runners.

For `LexicalOrder`, `LexInv` adds that every file that is outstanding or has begun
has all earlier files of the directory recorded. `AppendOnly` keeps it when a file
is published, `OneOrder` when a pass opens one. The refinement follows: `Execute`
and a late statement are `RunStatement` or, when it has run before, a stutter,
`Record` and a late INSERT are `Mark` or a stutter. `SoloInv` says of a lone runner
that past the fetch its snapshot and its own list are the records.

### Reruns

`MigrationRunnerProofs` also proves `RerunsPaidFor`, for any finite number of runners and
any bound on the faults, of behaviours in which the server refuses nothing: a pass
that ends because the server refused a statement costs repetitions that no fault
paid for, so `NothingRefused` is needed, and it is what holds in the instance too.
The invariant keeps accounts of each statement: the times it ran and the commands
for it that may still land are at most the runners that will not run it again
(`Spent`: past it, or the file is recorded and known to be) and the faults so far.
A pass that executes a statement becomes spent; a pass that fails leaves that set,
and the fault pays for it.

### Generator

`MigrationGeneratorProofs` proves all eight invariants of the run `generator` for
any processes, tables, views, calls and bounds. `CopyInv` is about a call's own
copy of the journal and holds however calls interleave: it names files that are
there, each object once, which gives `JournalledFilesExist` and
`JournalNamesEachOnce` whenever a copy is written back. The rest is about calls that
do not overlap: `AloneInv` says that one call at a time is under way and that its
copy is the journal with what the call added, so a skip is right; `QueueInv` that a
view waits behind its tables; `CountInv` that an object has a file for nothing only
when it is captured (`Paid`), in the journal or in the copy to be written. Two parts
are about writes under way: the file being written is the last one (`WriteIsLast`),
and while the journal is empty, what earlier calls captured is in the copy about to
replace it (`CapturedKept`).

Numbers are fresh as long as those in the directory have the four digits the
pattern reads (`InRange`): migration 10000 is invisible to the next call, and with
small numbers TLC finds the repetition. `NumbersAreFresh` and `TablesComeFirst` are
stated under `InRange`; `NumbersFit` proves `InRange` itself from `Room(m)`, that the
numbers which at most `MaxCalls` calls of at most `m` statements and the
hand-written files take up are within `LastNumber`, and `FreshAndOrdered`
puts the two together. The instances of `generator` and `pipeline` have that room.

### Pipeline

`PipelineImplementsRunner` proves, with `Room(m)`, that until a pass reads a file in
the middle of its write the generator's calls and a runner's passes are a behaviour
of `MigrationRunner` under `AppendOnly`: a file is published with a number above all
others (`NumberIsFresh`), which the runner's order of names respects because names
begin with the digits (`SpotOrder`). A step that opens a file is the runner's
`Publish` of a name and its `fate`; the rest of a write changes nothing that the
runner's module sees.

The other two theorems hold also after such a read, when the runner's own
theorems no longer apply, so the module proves an invariant of its own over both
machines: `ListInv`, that a pass has listed all files numbered below one it listed, and
that what it skipped or applied is recorded; `TurnInv`, that it is at the first file of
what is left of its list, has made the object of a whole file when it is past its
statement, and that a file it reads as other than it stays is in `misread`; `MadeInv`, that the
object of a recorded whole file is on the server unless the file is in `misread`.
`PassSteps` lists what the runner's steps come to, `ProceedStep`, `MisreadStep` and
`GenerateStep` show the invariant kept. `OnlyBrokenFilesRefused` follows with
`DependenciesFirst` (what a CREATE needs was made by a file below it, and what is
below a file that runs is recorded), and `OkPassesCreateJournalled` with
`JournalledFilesWhole`.

### Schema

`SchemaLifecycleProofs` proves the three invariants and the action property of the
run `schema` for any tables, processes, specifications and bounds. `EvolvedCovers` is
not inductive; `CoverInv` adds that while a process is altering, each column it
declares is on the server or among those it has yet to add, as long as no column
was dropped since its snapshot. For the gate, `WarrantInv` says the same of every
table already visited as the report says of all, and `PresentInv` that the history
of a running pass includes the present. `ServerSpelled`, that the server never keeps a
kit's spelling of a type, is what makes comparing a live type with a declared one
mean anything.

### Tables

`TableDdlProofs` proves the three invariants of the run `tables` for names, types and
limits of any size and specifications of any length. `RustRendersSound` and
`PlainTablesRenderAlike`, the first half of `KitsRenderAlike`, rest on `FirstOfChains`:
a chain of checks made of two answers what the first does, else the second. Compared
part by part, the two kits' chains differ only where a portable specification cannot
fail, or where the kits measure differently: `NamesMeasureAlike` and `CountsAlike` say
of a specification that its names and the number of its columns are over the limit
of both kits or of neither. With them, a name that is too long is so in both, and one that is
not is empty, invalid or good in both. The proof needs that only the parametrised `DateTime64` carries a precision, as
the type of the specification says (`safety.rs`), and of lengths that a well-formed
name, being ASCII, has one length in both units and that only the empty name has
none; these are assumptions on `Types` and `Size`.

A flexible table in TypeScript is an object to which columns are assigned one by one,
a fold. `AssignKeeps` is the induction over it: columns of different names stay
where they are put. With it `FlexibleTablesKeepColumns` and the flexible half of
`KitsAlwaysRenderAlike` need the checks alone. The latter asks that the two appended
columns be within the limits (`AppendedFit`), since Rust checks the grown
specification and TypeScript the caller's.

### Folds and induction

The library states induction over numbers with an operator as a parameter, which no
backend can instantiate. `Folding` states it with a set instead: `SetInduction` (a set
of numbers with 0 that is closed under successor is all of them, since a least counter-
example exists) and from it `SequenceInduction`. `FoldLeft` of the community modules is
itself a recursion, over sets of positions; `Folding` shows that the recursion has a
solution (`StepsExist`), from which `FoldEmpty`, `FoldAppend` and `FoldConcat` follow,
for the constant operator `Step`. A module that folds instantiates `Folding` with each
of its steps, which is why the steps of the folds in `SqlSplit`, `TableDdl` and
`TypeBridge` are named operators.

### Splitter

`SqlSplitProofs` proves the three invariants of the run `sql_split` for files and names
of any length. Splitter and server both fold over the text, so each claim is an
induction, over the tokens of a line (`RustLines`, `TsLines`) and then over the lines
(`AllTexts`): cut at its semicolons, what the kit has kept so far is what the server has
gathered (`Got`), both the complete statements and the one under way.
The premises (no `--` or `;` in a literal; for TypeScript every comment on a line of
its own) are what keeps the two in step at every token, and `sql_trailing_comment`
shows that without the second they part. `RecordsNameTheirFiles` follows the two ways
of escaping a quote letter by letter: after each letter of the name the server's reader
has read it back and holds nothing (`NamesBack`).

### Code generation

`TypeBridgeProofs` proves the four invariants of the run `bindings` for types wrapped
to any depth, bases and keys of any text, and names of any length.

- The parser calls itself on what is within the brackets, so it is first shown to be a
  function at all: `ChTypeToRustReads` builds it from approximations on texts of
  bounded length, which agree because what is within is shorter.
- `TextsAreRead` says that parsing inverts the server's spelling, an induction on the
  wrappers. What it needs of one wrapper is in `PlainReads` (the brackets of a
  wrapper are the first and the last of its text) and `MapReads` (the first comma
  outside brackets is the one behind the key). `RowStructsAreFaithful` follows.
- `BindingsAgreeOnNulls` meets in `IsNullable`: the row is an `Option` exactly when the
  outermost wrapper other than `LowCardinality` is `Nullable` (`NullableRows`), and so
  null is in a schema (`NullValues`), unless the core admits it anyway.
- `EmittedSchemasAcceptKitRows` compares the scalars case by case; wrapping both sides
  alike widens no gap (`GapsStay`).
- `SnakeNamesStayApart`: what `to_camel_case` has written, and whether it is about to
  raise a letter, determine the letters read, the last one first (`SameAdded`), since a
  raised letter is none that a name in snake case has. So two beginnings of such names
  in the same state are the same (`StatesApart`).

TLC checked each inductive invariant on the instance of its run before it was proved.

### What the proofs assume

The types of the constants, each named in the module that declares them; `AppendOnly`
and `OneOrder`, a lone runner, `NothingRefused`, `Room(m)` where said above; for the
pipeline one generator process without hand-written files and one runner, a finite
set of objects and an order of their names that begins at 0. The last three
are what the pipeline is; overlapping calls and hand-written files are the generator's
own module. Of `TypeBridge`: capitals are neither small letters nor digits and differ
when the letters do (`LettersAssumption`); no base begins with the name of a wrapper
(`TypesAssumption`); keys hold no maps (`KeysAssumption`), and in the text of a key
brackets match and commas are within brackets (`KeyTextsAssumption`), which holds of
every key without a bracket in quotes.

## 5. Only model-checked

`EventuallyRecorded`, `JournalledIsCreated` and `EventuallyCovered`: liveness is out of
the prover's reach. `KeepsTheFirst`, `KitsAgree`, `NothingLost` and `CoerceAgrees`: the
walks of `Flatten` and the texts of its documents are recursive operators over a tree
that carry the map written so far through every call. The backends do not expand
recursive operators, and as a function, the form in which the recursion of `TypeBridge`
is proved about, such a walk has no domain that TLC could still test a map against.

## 6. Not modelled

Static type inference is the TypeScript compiler's, the parsing of a value a
library's. The CI workflows, the index files and the parity corpus have no state or
algorithm of the kit's own. The version script rewrites manifest texts with regular
expressions once per release and is checked in CI; it belongs to neither kit. Of the
modelled parts: SQL is never built character by character; the server runs each
statement atomically; a CREATE of the evolving caller is not lost on its way, only
its ALTERs are; nobody drops objects behind the runner's back.

## 7. Plan

Done, in this order: the runner and its abstract log, its proofs, the generator,
schema evolution and the gate, the splitters, flatten and coerce, tables; then the
generator and the runner composed, late ALTERs and convergence of evolution, the
record of a file name, code generation; then the proofs of the generator, of the
reruns, of the schema, of the pipeline and of what the Rust kit renders; then folds,
and with them the proofs of the splitters, of flexible tables and of code generation.
Next:

1. What holds of the runner when the server does refuse: a bound on the repetitions
   that counts refusals, and the abstract log without `OneOrder`.
2. The walks of `Flatten` with what is written as a sequence of entries, so that they
   are functions on a set, and `KitsAgree` by an induction on the document.
