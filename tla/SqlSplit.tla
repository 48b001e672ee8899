------------------------------ MODULE SqlSplit ------------------------------
(***************************************************************************)
(* split_sql_statements (Rust) and splitSqlStatements (TypeScript): how a  *)
(* migration file becomes the statements the runner sends one by one.      *)
(* Neither knows SQL: both work on lines and on the characters -- and ; .  *)
(* They are compared with the server's own reading of the same text.       *)
(*                                                                         *)
(* A file is a sequence of lines of tokens: a word, a quote that opens or  *)
(* closes a literal, the -- of a comment, a ; and white space.  Statements *)
(* are compared without their white space.  The name of a file is written  *)
(* likewise, and read back from the literal that records it.               *)
(***************************************************************************)
EXTENDS Naturals, Sequences, SequencesExt

CONSTANT MaxTokens   \* bound on the tokens and line ends of a file or its name

ASSUME MaxTokensAssumption == MaxTokens \in Nat

Token == {"word", "quote", "--", ";", "space"}

Letter == {"word", "quote", "backslash"}

VARIABLES sql,   \* the text of the file, written token by token
          name   \* its name, likewise

vars == <<sql, name>>

Size == Len(FlattenSeq(sql)) + Len(sql) - 1

Init == sql = << << >> >> /\ name = << >>
Write(token) ==
    /\ Size < MaxTokens /\ name = << >>
    /\ UNCHANGED name
    /\ sql' = [sql EXCEPT ![Len(sql)] = Append(@, token)]
NewLine ==
    /\ Size < MaxTokens /\ name = << >>
    /\ UNCHANGED name
    /\ sql' = Append(sql, << >>)

(* Nothing relates a file's name to its text: one or the other is written. *)
NameIt(letter) ==
    /\ Size = 0 /\ Len(name) < MaxTokens
    /\ name' = Append(name, letter)
    /\ UNCHANGED sql

Next ==
    \/ NewLine
    \/ \E token \in Token : Write(token)
    \/ \E letter \in Letter : NameIt(letter)

Spec == Init /\ [][Next]_vars
-----------------------------------------------------------------------------
(* Splitting, common to both kits: the text is cut at each semicolon and   *)
(* the empty fragments are dropped.  White space never counts.             *)

CutAt(acc, t) ==
    CASE t = ";"     -> [done |-> Append(acc.done, acc.part), part |-> << >>]
      [] t = "space" -> acc
      [] OTHER       -> [acc EXCEPT !.part = Append(@, t)]
NonEmpty(parts) == SelectSeq(parts, LAMBDA p : p # << >>)

Fragments(tokens) ==
    LET cut == FoldLeft(CutAt, [done |-> << >>, part |-> << >>], tokens)
    IN  NonEmpty(Append(cut.done, cut.part))
-----------------------------------------------------------------------------
(* Rust: each line is cut at its first --.                                 *)

CutAtLast(line) ==   \* mutant: rfind for find
    IF Contains(line, "--") THEN SubSeq(line, 1, SelectLastInSeq(line, LAMBDA t : t = "--") - 1)
                            ELSE line
CutComment(line) ==
    IF Contains(line, "--") THEN SubSeq(line, 1, SelectInSeq(line, LAMBDA t : t = "--") - 1)
                            ELSE line

RustKeep(kept, line) == kept \o CutComment(line)
RustStatements(text) == Fragments(FoldLeft(RustKeep, << >>, text))

(* TypeScript: a line that starts with -- is dropped, any other one kept.  *)

StartsAtMargin(line) == line # << >> /\ Head(line) = "--"   \* mutant: no trimStart
IsCommentLine(line) ==
    \E i \in DOMAIN line : line[i] = "--" /\ \A j \in 1..(i - 1) : line[j] = "space"

TsKeep(kept, line) == IF IsCommentLine(line) THEN kept ELSE kept \o line
TsStatements(text) == Fragments(FoldLeft(TsKeep, << >>, text))
-----------------------------------------------------------------------------
(* The server's reading: a comment runs from a -- outside a literal to the *)
(* end of its line, and a ; ends a statement outside both.                 *)

Blank == [done |-> << >>, part |-> << >>, quoted |-> FALSE, comment |-> FALSE, fresh |-> TRUE,
          plain |-> TRUE, tail |-> FALSE]

(* fresh: the line holds white space only, so far.  plain: no literal so   *)
(* far held a -- or a ; .  tail: some comment stood behind something else  *)
(* on its line.                                                            *)
ReadToken(acc, t) ==
    IF acc.comment \/ t = "space" THEN acc
    ELSE LET next == [acc EXCEPT !.fresh = FALSE] IN
         CASE t = "quote" -> [next EXCEPT !.quoted = ~@, !.part = Append(@, t)]
           [] t # "quote" /\ acc.quoted -> [next EXCEPT !.part = Append(@, t), !.plain = @ /\ t = "word"]
           [] t = "--" /\ ~acc.quoted -> [next EXCEPT !.comment = TRUE, !.tail = @ \/ ~acc.fresh]
           [] t = ";" /\ ~acc.quoted -> [next EXCEPT !.done = Append(@, acc.part), !.part = << >>]
           [] t = "word" /\ ~acc.quoted -> [next EXCEPT !.part = Append(@, t)]

ReadLine(acc, line) == FoldLeft(ReadToken, [acc EXCEPT !.comment = FALSE, !.fresh = TRUE], line)
Read(text) == FoldLeft(ReadLine, Blank, text)

ServerStatements(text) == NonEmpty(Append(Read(text).done, Read(text).part))

(* Every literal is closed and holds neither a comment mark nor a ; .      *)
PlainLiterals(text) == Read(text).plain /\ ~Read(text).quoted
WholeLineComments(text) == ~Read(text).tail
-----------------------------------------------------------------------------
(* The record of an applied file: its name between quotes, a quote in it   *)
(* doubled (Rust) or after a backslash (TypeScript).                       *)

Quoted(escape, t) == IF t = "quote" THEN escape ELSE <<t>>
RustQuote(record, t) == record \o Quoted(<<"quote", "quote">>, t)
TsQuote(record, t)   == record \o Quoted(<<"backslash", "quote">>, t)

RustRecord(text) == FoldLeft(RustQuote, << >>, text)
FirstQuoteOnly(text) ==   \* mutant: the regular expression is not global
    IF Contains(text, "quote") THEN InsertAt(text, SelectInSeq(text, LAMBDA t : t = "quote"), "backslash")
                               ELSE text
TsRecord(text) == FoldLeft(TsQuote, << >>, text)

(* The server's reading of the text between the outer quotes: a quote is   *)
(* doubled or escaped, a lone one ends the literal too soon; a backslash   *)
(* stands for itself only before another one.                              *)
ReadLetter(acc, t) ==
    IF ~acc.ok THEN acc
    ELSE CASE acc.held = << >> /\ t = "word" -> [acc EXCEPT !.text = Append(@, t)]
           [] acc.held = << >> /\ t # "word" -> [acc EXCEPT !.held = <<t>>]
           [] acc.held = <<t>> -> [acc EXCEPT !.held = << >>, !.text = Append(@, t)]
           [] acc.held = <<"backslash">> /\ t # "backslash" ->
                  [acc EXCEPT !.held = << >>, !.text = Append(@, IF t = "quote" THEN t ELSE "escape")]
           [] acc.held = <<"quote">> /\ t # "quote" -> [acc EXCEPT !.ok = FALSE]
Unquoted(text) ==
    LET read == FoldLeft(ReadLetter, [ok |-> TRUE, held |-> << >>, text |-> << >>], text)
    IN  IF read.ok /\ read.held = << >> THEN read.text ELSE <<"refused">>
-----------------------------------------------------------------------------
(* When no literal holds a -- or a ; the Rust splitter sends exactly the   *)
(* statements the server would read, wherever the comments stand.          *)
RustReadsAsServer == PlainLiterals(sql) => RustStatements(sql) = ServerStatements(sql)

(* The TypeScript splitter does when, besides, every comment has a line of *)
(* its own.                                                                *)
TsReadsAsServer ==
    PlainLiterals(sql) /\ WholeLineComments(sql) => TsStatements(sql) = ServerStatements(sql)

(* The documentation of splitSqlStatements: comments are stripped, so that *)
(* a fragment that is only a trailing comment does not become a statement. *)
NoCommentOnlyStatement ==
    \A i \in DOMAIN TsStatements(sql) : Head(TsStatements(sql)[i]) # "--"

(* A pass skips the files whose names _ch_migrations returns: the name the *)
(* server stores is the name in the directory, with either kit's escaping, *)
(* unless a backslash is in it.                                            *)
RecordNamesTheFile ==
    ~Contains(name, "backslash") => Unquoted(RustRecord(name)) = name /\ Unquoted(TsRecord(name)) = name
=============================================================================
