------------------------- MODULE MCMigrationRunner -------------------------
(***************************************************************************)
(* Small instances of MigrationRunner: one or two runners, two files of    *)
(* two statements over one table.                                          *)
(***************************************************************************)
EXTENDS MigrationRunner

CONSTANTS r1, r2, f1, f2, t

OnlyRust == [r \in Runners |-> "rust"]
OnlyTs   == [r \in Runners |-> "ts"]
OneEach  == [r \in Runners |-> IF r = r1 THEN "rust" ELSE "ts"]

CreateIfAbsent == [needs |-> {}, makes |-> {t}, again |-> TRUE]
Insert == [needs |-> {t}, makes |-> {}, again |-> TRUE]

(* Statements the server never refuses: CREATE TABLE IF NOT EXISTS, as the *)
(* generator emits, before the table is written.                           *)
SafeDdl == [f \in Files |-> <<CreateIfAbsent, Insert>>]

Bytes == [f \in Files |-> IF f = f1 THEN 1 ELSE 2]
(* localeCompare puts '_' before '.', bytes the reverse: f1 and f2 stand   *)
(* for 0001_events.sql and 0001_events_mv.sql.                             *)
Locale == [f \in Files |-> IF f = f1 THEN 2 ELSE 1]

SameOrder   == [kit \in Kits |-> Bytes]
LocaleOrder == [kit \in Kits |-> IF kit = "rust" THEN Bytes ELSE Locale]
=============================================================================
