--------------------------- MODULE SqlSplitProofs ---------------------------
(***************************************************************************)
(* What the splitters of SqlSplit send and what the records of applied     *)
(* files say, for files and names of any length.  Every reading is a fold  *)
(* over the text, so each claim is an induction over it, by the equations  *)
(* of module Folding: what the kit has gathered so far is what the server  *)
(* has, one token, line or letter at a time.                               *)
(***************************************************************************)
EXTENDS SqlSplit, TLAPS, WellFoundedInduction

CutFold    == INSTANCE Folding WITH Step <- CutAt
RustFold   == INSTANCE Folding WITH Step <- RustKeep
TsFold     == INSTANCE Folding WITH Step <- TsKeep
TokenFold  == INSTANCE Folding WITH Step <- ReadToken
LineFold   == INSTANCE Folding WITH Step <- ReadLine
RustQuotes == INSTANCE Folding WITH Step <- RustQuote
TsQuotes   == INSTANCE Folding WITH Step <- TsQuote
LetterFold == INSTANCE Folding WITH Step <- ReadLetter

Line == Seq(Token)
Text == Seq(Line)

TextOK == sql \in Text /\ sql # << >> /\ name \in Seq(Letter)

LEMMA TextInvariance == Spec => []TextOK
<1>1. Init => TextOK
  BY DEF Init, TextOK, Text, Line
<1>2. TextOK /\ [Next]_vars => TextOK'
  <2> SUFFICES ASSUME TextOK, [Next]_vars PROVE TextOK'
    OBVIOUS
  <2>1. ASSUME NEW token \in Token, Write(token)
        PROVE  TextOK'
    <3>1. Len(sql) \in DOMAIN sql /\ sql[Len(sql)] \in Line
      BY DEF TextOK, Text
    <3>2. Append(sql[Len(sql)], token) \in Line
      BY <3>1 DEF Line
    <3>3. sql' = [sql EXCEPT ![Len(sql)] = Append(sql[Len(sql)], token)] /\ name' = name
      BY <2>1 DEF Write
    <3> QED
      BY <3>1, <3>2, <3>3 DEF TextOK, Text
  <2>2. ASSUME NewLine
        PROVE  TextOK'
    <3>1. << >> \in Line
      BY DEF Line
    <3> QED
      BY <2>2, <3>1 DEF NewLine, TextOK, Text
  <2>3. ASSUME NEW letter \in Letter, NameIt(letter)
        PROVE  TextOK'
    BY <2>3 DEF NameIt, TextOK
  <2>4. CASE UNCHANGED vars
    BY <2>4 DEF vars, TextOK
  <2> QED
    BY <2>1, <2>2, <2>3, <2>4 DEF Next
<1> QED
  BY <1>1, <1>2, PTL DEF Spec
-----------------------------------------------------------------------------
(* The folds of the model are those of the instances.                      *)

LEMMA CutIsFold ==
    ASSUME NEW base, NEW s PROVE FoldLeft(CutAt, base, s) = CutFold!Fold(base, s)
BY DEF CutFold!Fold, FoldLeft, MapThenFoldSet, CutFold!FoldLeft, CutFold!MapThenFoldSet, Max, CutFold!Max

LEMMA RustIsFold ==
    ASSUME NEW base, NEW s PROVE FoldLeft(RustKeep, base, s) = RustFold!Fold(base, s)
BY DEF RustFold!Fold, FoldLeft, MapThenFoldSet, RustFold!FoldLeft, RustFold!MapThenFoldSet, Max, RustFold!Max

LEMMA TsIsFold ==
    ASSUME NEW base, NEW s PROVE FoldLeft(TsKeep, base, s) = TsFold!Fold(base, s)
BY DEF TsFold!Fold, FoldLeft, MapThenFoldSet, TsFold!FoldLeft, TsFold!MapThenFoldSet, Max, TsFold!Max

LEMMA TokensAreFold ==
    ASSUME NEW base, NEW s PROVE FoldLeft(ReadToken, base, s) = TokenFold!Fold(base, s)
BY DEF TokenFold!Fold, FoldLeft, MapThenFoldSet, TokenFold!FoldLeft, TokenFold!MapThenFoldSet, Max, TokenFold!Max

LEMMA LinesAreFold ==
    ASSUME NEW base, NEW s PROVE FoldLeft(ReadLine, base, s) = LineFold!Fold(base, s)
BY DEF LineFold!Fold, FoldLeft, MapThenFoldSet, LineFold!FoldLeft, LineFold!MapThenFoldSet, Max, LineFold!Max

LEMMA RustQuotesAreFold ==
    ASSUME NEW base, NEW s PROVE FoldLeft(RustQuote, base, s) = RustQuotes!Fold(base, s)
BY DEF RustQuotes!Fold, FoldLeft, MapThenFoldSet, RustQuotes!FoldLeft, RustQuotes!MapThenFoldSet, Max, RustQuotes!Max

LEMMA TsQuotesAreFold ==
    ASSUME NEW base, NEW s PROVE FoldLeft(TsQuote, base, s) = TsQuotes!Fold(base, s)
BY DEF TsQuotes!Fold, FoldLeft, MapThenFoldSet, TsQuotes!FoldLeft, TsQuotes!MapThenFoldSet, Max, TsQuotes!Max

LEMMA LettersAreFold ==
    ASSUME NEW base, NEW s PROVE FoldLeft(ReadLetter, base, s) = LetterFold!Fold(base, s)
BY DEF LetterFold!Fold, FoldLeft, MapThenFoldSet, LetterFold!FoldLeft, LetterFold!MapThenFoldSet, Max, LetterFold!Max
-----------------------------------------------------------------------------
(* The record of a file's name, read back.                                 *)

Unread == [ok |-> TRUE, held |-> << >>, text |-> << >>]
ReadBack(record) == FoldLeft(ReadLetter, Unread, record)

LEMMA ReadOn ==
    ASSUME NEW s \in Seq(Letter)
    PROVE  /\ ReadBack(<< >>) = Unread
           /\ \A a \in Letter : ReadBack(s \o <<a>>) = ReadLetter(ReadBack(s), a)
           /\ \A a, b \in Letter : ReadBack(s \o <<a, b>>) = ReadLetter(ReadLetter(ReadBack(s), a), b)
<1>1. ReadBack(<< >>) = Unread
  BY LettersAreFold, LetterFold!FoldEmpty DEF ReadBack
<1>2. \A t \in Seq(Letter) : \A a \in Letter : ReadBack(Append(t, a)) = ReadLetter(ReadBack(t), a)
  <2> SUFFICES ASSUME NEW t \in Seq(Letter), NEW a \in Letter
               PROVE  ReadBack(Append(t, a)) = ReadLetter(ReadBack(t), a)
    OBVIOUS
  <2>1. LetterFold!Fold(Unread, Append(t, a)) = ReadLetter(LetterFold!Fold(Unread, t), a)
    BY LetterFold!FoldAppend
  <2> QED
    BY <2>1, LettersAreFold DEF ReadBack
<1>3. \A a \in Letter : s \o <<a>> = Append(s, a) /\ Append(s, a) \in Seq(Letter)
  OBVIOUS
<1>4. \A a, b \in Letter : s \o <<a, b>> = Append(Append(s, a), b)
  OBVIOUS
<1> QED
  BY <1>1, <1>2, <1>3, <1>4

LEMMA Recording ==
    /\ RustRecord(<< >>) = << >> /\ TsRecord(<< >>) = << >>
    /\ \A s \in Seq(Letter), t \in Letter :
           /\ RustRecord(Append(s, t)) = RustQuote(RustRecord(s), t)
           /\ TsRecord(Append(s, t)) = TsQuote(TsRecord(s), t)
<1>1. RustRecord(<< >>) = << >> /\ TsRecord(<< >>) = << >>
  BY RustQuotesAreFold, TsQuotesAreFold, RustQuotes!FoldEmpty, TsQuotes!FoldEmpty DEF RustRecord, TsRecord
<1> SUFFICES ASSUME NEW s \in Seq(Letter), NEW t \in Letter
             PROVE  /\ RustRecord(Append(s, t)) = RustQuote(RustRecord(s), t)
                    /\ TsRecord(Append(s, t)) = TsQuote(TsRecord(s), t)
  BY <1>1
<1>2. RustQuotes!Fold(<< >>, Append(s, t)) = RustQuote(RustQuotes!Fold(<< >>, s), t)
  BY RustQuotes!FoldAppend
<1>3. TsQuotes!Fold(<< >>, Append(s, t)) = TsQuote(TsQuotes!Fold(<< >>, s), t)
  BY TsQuotes!FoldAppend
<1> QED
  BY <1>2, <1>3, RustQuotesAreFold, TsQuotesAreFold DEF RustRecord, TsRecord

(* A record without a backslash of its own reads back letter by letter.    *)
Back(record, s) ==
    record \in Seq(Letter) /\ ReadBack(record) = [ok |-> TRUE, held |-> << >>, text |-> s]

LEMMA LetterBack ==
    ASSUME NEW s \in Seq(Letter), NEW record, Back(record, s),
           NEW t \in Letter, t # "backslash"
    PROVE  Back(RustQuote(record, t), Append(s, t)) /\ Back(TsQuote(record, t), Append(s, t))
<1> DEFINE now == [ok |-> TRUE, held |-> << >>, text |-> s]
           then == [ok |-> TRUE, held |-> << >>, text |-> Append(s, t)]
<1>1. record \in Seq(Letter) /\ ReadBack(record) = now
  BY DEF Back
<1>2. CASE t = "word"
  <2>1. RustQuote(record, t) = record \o <<t>> /\ TsQuote(record, t) = record \o <<t>>
    BY <1>2 DEF RustQuote, TsQuote, Quoted
  <2>2. ReadLetter(now, t) = then
    BY <1>2 DEF ReadLetter
  <2>3. record \o <<t>> \in Seq(Letter)
    BY <1>1
  <2> HIDE DEF now, then
  <2>4. ReadBack(record \o <<t>>) = then
    BY <1>1, <2>2, ReadOn
  <2> QED
    BY <2>1, <2>3, <2>4 DEF Back, then
<1>3. CASE t = "quote"
  <2>1. /\ RustQuote(record, t) = record \o <<"quote", "quote">>
        /\ TsQuote(record, t) = record \o <<"backslash", "quote">>
    BY <1>3 DEF RustQuote, TsQuote, Quoted
  <2>2. "quote" \in Letter /\ "backslash" \in Letter
    BY DEF Letter
  <2>3. ReadLetter(ReadLetter(now, "quote"), "quote") = then
    <3>1. ReadLetter(now, "quote") = [ok |-> TRUE, held |-> <<"quote">>, text |-> s]
      BY DEF ReadLetter
    <3>2. ReadLetter([ok |-> TRUE, held |-> <<"quote">>, text |-> s], "quote") = then
      BY <1>3 DEF ReadLetter
    <3> QED
      BY <3>1, <3>2
  <2>4. ReadLetter(ReadLetter(now, "backslash"), "quote") = then
    <3>1. ReadLetter(now, "backslash") = [ok |-> TRUE, held |-> <<"backslash">>, text |-> s]
      BY DEF ReadLetter
    <3>2. ReadLetter([ok |-> TRUE, held |-> <<"backslash">>, text |-> s], "quote") = then
      BY <1>3 DEF ReadLetter
    <3> QED
      BY <3>1, <3>2
  <2> HIDE DEF now, then
  <2>5. /\ ReadBack(record \o <<"quote", "quote">>) = then
        /\ ReadBack(record \o <<"backslash", "quote">>) = then
    BY <1>1, <2>2, <2>3, <2>4, ReadOn
  <2>6. /\ record \o <<"quote", "quote">> \in Seq(Letter)
        /\ record \o <<"backslash", "quote">> \in Seq(Letter)
    BY <1>1, <2>2
  <2> QED
    BY <2>1, <2>5, <2>6 DEF Back, then
<1> QED
  BY <1>2, <1>3 DEF Letter

LEMMA NamesBack ==
    ASSUME NEW s \in Seq(Letter), ~Contains(s, "backslash")
    PROVE  Back(RustRecord(s), s) /\ Back(TsRecord(s), s)
<1> DEFINE Fine == {u \in Seq(Letter) : ~Contains(u, "backslash") =>
                        Back(RustRecord(u), u) /\ Back(TsRecord(u), u)}
<1>1. << >> \in Fine
  <2>1. << >> \in Seq(Letter)
    OBVIOUS
  <2>2. ReadBack(<< >>) = Unread
    BY <2>1, ReadOn
  <2>3. Back(<< >>, << >>)
    BY <2>1, <2>2 DEF Back, Unread
  <2> QED
    BY <2>1, <2>3, Recording
<1>2. ASSUME NEW u \in Fine, NEW t \in Letter
      PROVE  Append(u, t) \in Fine
  <2> SUFFICES ASSUME ~Contains(Append(u, t), "backslash")
               PROVE  Back(RustRecord(Append(u, t)), Append(u, t)) /\ Back(TsRecord(Append(u, t)), Append(u, t))
    OBVIOUS
  <2>1. u \in Seq(Letter) /\ Len(u) \in Nat /\ Len(Append(u, t)) = Len(u) + 1
    OBVIOUS
  <2>2. (\A i \in 1..Len(u) : Append(u, t)[i] = u[i]) /\ Append(u, t)[Len(u) + 1] = t
    OBVIOUS
  <2>3. ~Contains(u, "backslash") /\ t # "backslash"
    BY <2>1, <2>2 DEF Contains
  <2>4. Back(RustRecord(u), u) /\ Back(TsRecord(u), u)
    BY <2>3
  <2> HIDE DEF Fine
  <2> QED
    BY <2>1, <2>3, <2>4, LetterBack, Recording
<1>3. Fine = Seq(Letter)
  <2>1. Fine \in SUBSET Seq(Letter)
    OBVIOUS
  <2> HIDE DEF Fine
  <2> QED
    BY <1>1, <1>2, <2>1, LetterFold!SequenceInduction
<1> QED
  BY <1>3

(* Whatever the name of a file, as long as no backslash is in it, the name *)
(* the server stores is the name in the directory, with either kit's       *)
(* escaping: a pass finds the files it recorded.                           *)
THEOREM RecordsNameTheirFiles == Spec => []RecordNamesTheFile
<1>1. ASSUME NEW s, NEW record, Back(record, s)
      PROVE  Unquoted(record) = s
  <2>1. FoldLeft(ReadLetter, Unread, record) = [ok |-> TRUE, held |-> << >>, text |-> s]
    BY <1>1 DEF Back, ReadBack
  <2>2. Unquoted(record) = LET read == FoldLeft(ReadLetter, Unread, record)
                           IN  IF read.ok /\ read.held = << >> THEN read.text ELSE <<"refused">>
    BY DEF Unquoted, Unread
  <2> QED
    BY <2>1, <2>2
<1>2. TextOK => RecordNamesTheFile
  BY <1>1, NamesBack DEF TextOK, RecordNamesTheFile
<1> QED
  BY <1>2, TextInvariance, PTL
-----------------------------------------------------------------------------
(* What the Rust kit leaves of a line, as the line grows.                  *)

LEMMA FirstMark ==
    ASSUME NEW line \in Line, NEW k \in 1..Len(line), line[k] = "--",
           \A j \in 1..(k - 1) : line[j] # "--"
    PROVE  CutComment(line) = SubSeq(line, 1, k - 1)
<1> DEFINE marks == {i \in 1..Len(line) : line[i] = "--"}
<1>1. Len(line) \in Nat /\ k \in marks /\ \A i \in marks : i \in Nat
  BY DEF Line
<1>2. \A i \in marks : k <= i
  <2> SUFFICES ASSUME NEW i \in marks, i < k PROVE FALSE
    BY <1>1
  <2>1. i \in 1..(k - 1)
    BY <1>1
  <2> QED
    BY <2>1
<1> HIDE DEF marks
<1>3. Min(marks) = k
  <2>1. \A i \in marks : (\A y \in marks : i <= y) => i = k
    BY <1>1, <1>2
  <2> QED
    BY <1>1, <1>2, <2>1 DEF Min
<1>4. SelectInSeq(line, LAMBDA t : t = "--") = k
  BY <1>1, <1>3 DEF SelectInSeq, marks
<1> QED
  BY <1>1, <1>4 DEF CutComment, Contains

LEMMA CutGrows ==
    ASSUME NEW line \in Line, NEW t \in Token
    PROVE  /\ CutComment(line) \in Line
           /\ Contains(Append(line, t), "--") <=> Contains(line, "--") \/ t = "--"
           /\ CutComment(Append(line, t)) =
                  IF Contains(line, "--") THEN CutComment(line)
                  ELSE IF t = "--" THEN line ELSE Append(line, t)
<1> DEFINE more == Append(line, t)
<1>1. /\ Len(line) \in Nat /\ more \in Line /\ Len(more) = Len(line) + 1
      /\ more[Len(line) + 1] = t /\ \A i \in 1..Len(line) : more[i] = line[i]
  BY DEF Line
<1>2. SubSeq(more, 1, Len(line)) = line
  BY DEF Line
<1>3. \A k \in 1..Len(line) : SubSeq(more, 1, k - 1) = SubSeq(line, 1, k - 1)
  BY DEF Line
<1>4. \A k \in 1..Len(line) : SubSeq(line, 1, k - 1) \in Line
  BY DEF Line
<1> HIDE DEF more
<1>5. Contains(more, "--") <=> Contains(line, "--") \/ t = "--"
  BY <1>1 DEF Contains
<1>6. CASE ~Contains(line, "--") /\ t # "--"
  BY <1>5, <1>6 DEF CutComment, more
<1>7. CASE ~Contains(line, "--") /\ t = "--"
  <2>1. /\ Len(line) + 1 \in 1..Len(more) /\ more[Len(line) + 1] = "--"
        /\ \A j \in 1..((Len(line) + 1) - 1) : more[j] # "--"
    BY <1>1, <1>7 DEF Contains
  <2>2. CutComment(more) = SubSeq(more, 1, (Len(line) + 1) - 1)
    BY <1>1, <2>1, FirstMark
  <2>3. (Len(line) + 1) - 1 = Len(line)
    BY <1>1
  <2> QED
    BY <1>2, <1>5, <1>7, <2>2, <2>3 DEF CutComment, more
<1>8. CASE Contains(line, "--")
  <2> DEFINE Before == {n \in Nat : n <= Len(line) => \/ \A j \in 1..n : line[j] # "--"
                                      \/ \E k \in 1..n : line[k] = "--" /\ \A j \in 1..(k - 1) : line[j] # "--"}
  <2>1. 0 \in Before
    OBVIOUS
  <2>2. ASSUME NEW n \in Before
        PROVE  n + 1 \in Before
    <3> SUFFICES ASSUME n + 1 <= Len(line)
                 PROVE  \/ \A j \in 1..(n + 1) : line[j] # "--"
                        \/ \E k \in 1..(n + 1) : line[k] = "--" /\ \A j \in 1..(k - 1) : line[j] # "--"
      OBVIOUS
    <3>1. n \in Nat /\ n <= Len(line) /\ \A j \in 1..(n + 1) : j \in 1..n \/ j = n + 1
      BY <1>1
    <3>2. CASE \A j \in 1..n : line[j] # "--"
      BY <3>1, <3>2
    <3>3. CASE \E k \in 1..n : line[k] = "--" /\ \A j \in 1..(k - 1) : line[j] # "--"
      BY <3>1, <3>3
    <3> QED
      BY <3>1, <3>2, <3>3
  <2>3. Before = Nat
    <3>1. Before \in SUBSET Nat /\ \A n \in Before : n + 1 \in Before
      BY <2>2
    <3> HIDE DEF Before
    <3> QED
      BY <2>1, <3>1, CutFold!SetInduction
  <2>4. Len(line) \in Before
    BY <1>1, <2>3
  <2>5. PICK k \in 1..Len(line) : line[k] = "--" /\ \A j \in 1..(k - 1) : line[j] # "--"
    BY <1>1, <1>8, <2>4 DEF Contains
  <2>6. CutComment(line) = SubSeq(line, 1, k - 1)
    BY <2>5, FirstMark
  <2>7. k \in 1..Len(more) /\ more[k] = "--" /\ \A j \in 1..(k - 1) : more[j] # "--"
    BY <1>1, <2>5
  <2>8. CutComment(more) = SubSeq(more, 1, k - 1)
    BY <1>1, <2>7, FirstMark
  <2> QED
    BY <1>3, <1>4, <1>5, <1>8, <2>6, <2>8 DEF more
<1> QED
  BY <1>6, <1>7, <1>8
-----------------------------------------------------------------------------
(* The server, token by token.  Got is what a splitter can know of it.     *)

Reading == [done : Seq(Line), part : Line, quoted : BOOLEAN, comment : BOOLEAN, fresh : BOOLEAN,
            plain : BOOLEAN, tail : BOOLEAN]
Got(acc) == [done |-> acc.done, part |-> acc.part]

LEMMA ReadTokenType ==
    ASSUME NEW acc \in Reading, NEW t \in Token
    PROVE  ReadToken(acc, t) \in Reading
<1> DEFINE next == [acc EXCEPT !.fresh = FALSE]
<1>1. /\ acc.done \in Seq(Line) /\ acc.part \in Line /\ acc.quoted \in BOOLEAN
      /\ acc.comment \in BOOLEAN /\ acc.tail \in BOOLEAN /\ acc.plain \in BOOLEAN
  BY DEF Reading
<1>2. Append(acc.part, t) \in Line /\ Append(acc.done, acc.part) \in Seq(Line) /\ << >> \in Line
  BY <1>1 DEF Line
<1>3. next \in Reading
  BY DEF Reading
<1>4. CASE acc.comment \/ t = "space"
  BY <1>4 DEF ReadToken
<1>5. CASE ~acc.comment /\ t = "quote"
  <2>1. ReadToken(acc, t) = [next EXCEPT !.quoted = ~@, !.part = Append(@, t)]
    BY <1>5 DEF ReadToken
  <2> QED
    BY <1>1, <1>2, <2>1 DEF Reading
<1>6. CASE ~acc.comment /\ t # "quote" /\ t # "space" /\ acc.quoted
  <2>1. ReadToken(acc, t) = [next EXCEPT !.part = Append(@, t), !.plain = @ /\ t = "word"]
    BY <1>6 DEF ReadToken
  <2> QED
    BY <1>1, <1>2, <2>1 DEF Reading
<1>7. CASE ~acc.comment /\ ~acc.quoted /\ t = "--"
  <2>1. ReadToken(acc, t) = [next EXCEPT !.comment = TRUE, !.tail = @ \/ ~acc.fresh]
    BY <1>7 DEF ReadToken
  <2> QED
    BY <1>1, <1>2, <2>1 DEF Reading
<1>8. CASE ~acc.comment /\ ~acc.quoted /\ t = ";"
  <2>1. ReadToken(acc, t) = [next EXCEPT !.done = Append(@, acc.part), !.part = << >>]
    BY <1>8 DEF ReadToken
  <2> QED
    BY <1>1, <1>2, <2>1 DEF Reading
<1>9. CASE ~acc.comment /\ ~acc.quoted /\ t = "word"
  <2>1. ReadToken(acc, t) = [next EXCEPT !.part = Append(@, t)]
    BY <1>9 DEF ReadToken
  <2> QED
    BY <1>1, <1>2, <2>1 DEF Reading
<1> QED
  BY <1>4, <1>5, <1>6, <1>7, <1>8, <1>9 DEF Token

(* One token: outside comments, while literals are plain, the server does  *)
(* with every other token what the splitters do, and a -- begins a comment.*)
LEMMA OneToken ==
    ASSUME NEW acc \in Reading, NEW t \in Token, NEW b, b = ReadToken(acc, t)
    PROVE  /\ b.plain => acc.plain
           /\ acc.tail => b.tail
           /\ b.fresh <=> acc.fresh /\ (acc.comment \/ t = "space")
           /\ acc.comment => b = acc
           /\ ~acc.comment /\ t # "--" /\ b.plain => ~b.comment /\ Got(b) = CutAt(Got(acc), t)
           /\ ~acc.comment /\ t = "--" /\ b.plain =>
                  b.comment /\ Got(b) = Got(acc) /\ (b.tail <=> acc.tail \/ ~acc.fresh)
           /\ b.fresh => b = acc
<1> DEFINE next == [acc EXCEPT !.fresh = FALSE]
<1>4. CASE acc.comment \/ t = "space"
  <2>1. b = acc
    BY <1>4 DEF ReadToken
  <2> QED
    BY <1>4, <2>1 DEF CutAt, Got
<1>5. CASE ~acc.comment /\ t = "quote"
  <2>1. b = [next EXCEPT !.quoted = ~@, !.part = Append(@, t)]
    BY <1>5 DEF ReadToken
  <2> QED
    BY <1>5, <2>1 DEF Reading, CutAt, Got
<1>6. CASE ~acc.comment /\ t # "quote" /\ t # "space" /\ acc.quoted
  <2>1. b = [next EXCEPT !.part = Append(@, t), !.plain = @ /\ t = "word"]
    BY <1>6 DEF ReadToken
  <2>2. /\ b.part = Append(acc.part, t) /\ b.done = acc.done /\ b.comment = acc.comment
        /\ b.fresh = FALSE /\ b.tail = acc.tail /\ b.plain = (acc.plain /\ t = "word")
    BY <2>1 DEF Reading
  <2> QED
    BY <1>6, <2>2 DEF CutAt, Got
<1>7. CASE ~acc.comment /\ ~acc.quoted /\ t = "--"
  <2>1. b = [next EXCEPT !.comment = TRUE, !.tail = @ \/ ~acc.fresh]
    BY <1>7 DEF ReadToken
  <2> QED
    BY <1>7, <2>1 DEF Reading, CutAt, Got
<1>8. CASE ~acc.comment /\ ~acc.quoted /\ t = ";"
  <2>1. b = [next EXCEPT !.done = Append(@, acc.part), !.part = << >>]
    BY <1>8 DEF ReadToken
  <2> QED
    BY <1>8, <2>1 DEF Reading, CutAt, Got
<1>9. CASE ~acc.comment /\ ~acc.quoted /\ t = "word"
  <2>1. b = [next EXCEPT !.part = Append(@, t)]
    BY <1>9 DEF ReadToken
  <2> QED
    BY <1>9, <2>1 DEF Reading, CutAt, Got
<1> QED
  BY <1>4, <1>5, <1>6, <1>7, <1>8, <1>9 DEF Token
-----------------------------------------------------------------------------
(* A line.                                                                 *)

LEMMA OneMoreToken ==
    ASSUME NEW line \in Line, NEW t \in Token
    PROVE  /\ \A acc : FoldLeft(ReadToken, acc, << >>) = acc
           /\ \A acc : FoldLeft(ReadToken, acc, Append(line, t)) = ReadToken(FoldLeft(ReadToken, acc, line), t)
           /\ \A got : FoldLeft(CutAt, got, << >>) = got
           /\ \A got : FoldLeft(CutAt, got, Append(line, t)) = CutAt(FoldLeft(CutAt, got, line), t)
<1>1. ASSUME NEW acc
      PROVE  /\ FoldLeft(ReadToken, acc, << >>) = acc
             /\ FoldLeft(ReadToken, acc, Append(line, t)) = ReadToken(FoldLeft(ReadToken, acc, line), t)
  <2>1. TokenFold!Fold(acc, Append(line, t)) = ReadToken(TokenFold!Fold(acc, line), t)
    BY TokenFold!FoldAppend DEF Line
  <2> QED
    BY <2>1, TokensAreFold, TokenFold!FoldEmpty
<1>2. ASSUME NEW got
      PROVE  /\ FoldLeft(CutAt, got, << >>) = got
             /\ FoldLeft(CutAt, got, Append(line, t)) = CutAt(FoldLeft(CutAt, got, line), t)
  <2>1. CutFold!Fold(got, Append(line, t)) = CutAt(CutFold!Fold(got, line), t)
    BY CutFold!FoldAppend DEF Line
  <2> QED
    BY <2>1, CutIsFold, CutFold!FoldEmpty
<1> QED
  BY <1>1, <1>2

(* While its literals are plain, the server's comment begins at the first  *)
(* -- of a line, and up to there it gathers what the Rust kit keeps.       *)
RustLine(acc, line) ==
    LET a == FoldLeft(ReadToken, acc, line) IN
    /\ a \in Reading
    /\ a.plain => /\ acc.plain
                  /\ a.comment <=> Contains(line, "--")
                  /\ FoldLeft(CutAt, Got(acc), CutComment(line)) = Got(a)

LEMMA RustLineGrows ==
    ASSUME NEW acc \in Reading, NEW line \in Line, RustLine(acc, line), NEW t \in Token
    PROVE  RustLine(acc, Append(line, t))
<1> DEFINE more == Append(line, t)
           a == FoldLeft(ReadToken, acc, line)
           b == FoldLeft(ReadToken, acc, more)
           marked == Contains(line, "--")
<1>1. b = ReadToken(a, t)
  BY OneMoreToken
<1>2. /\ a \in Reading
      /\ a.plain => /\ acc.plain /\ (a.comment <=> marked)
                    /\ FoldLeft(CutAt, Got(acc), CutComment(line)) = Got(a)
  BY DEF RustLine
<1>3. /\ Contains(more, "--") <=> marked \/ t = "--"
      /\ CutComment(more) = IF marked THEN CutComment(line) ELSE IF t = "--" THEN line ELSE more
  BY CutGrows
<1>4. FoldLeft(CutAt, Got(acc), more) = CutAt(FoldLeft(CutAt, Got(acc), line), t)
  BY OneMoreToken
<1>5. ~marked => CutComment(line) = line
  BY DEF CutComment
<1> HIDE DEF a, b, more, marked
<1>6. b \in Reading
  BY <1>1, <1>2, ReadTokenType
<1>7. /\ b.plain => a.plain
      /\ a.comment => b = a
      /\ ~a.comment /\ t # "--" /\ b.plain => ~b.comment /\ Got(b) = CutAt(Got(a), t)
      /\ ~a.comment /\ t = "--" /\ b.plain => b.comment /\ Got(b) = Got(a)
  BY <1>1, <1>2, OneToken
<1>8. ASSUME b.plain
      PROVE  /\ acc.plain
             /\ b.comment <=> Contains(more, "--")
             /\ FoldLeft(CutAt, Got(acc), CutComment(more)) = Got(b)
  <2>1. acc.plain /\ (a.comment <=> marked) /\ FoldLeft(CutAt, Got(acc), CutComment(line)) = Got(a)
    BY <1>2, <1>7, <1>8
  <2>2. CASE marked
    BY <1>3, <1>7, <2>1, <2>2
  <2>3. CASE ~marked /\ t = "--"
    BY <1>3, <1>5, <1>7, <1>8, <2>1, <2>3
  <2>4. CASE ~marked /\ t # "--"
    BY <1>3, <1>4, <1>5, <1>7, <1>8, <2>1, <2>4
  <2> QED
    BY <2>2, <2>3, <2>4
<1> QED
  BY <1>6, <1>8 DEF RustLine, b, more

LEMMA RustLines ==
    ASSUME NEW acc \in Reading, ~acc.comment, NEW line \in Line
    PROVE  RustLine(acc, line)
<1> DEFINE Fine == {l \in Line : RustLine(acc, l)}
<1>1. << >> \in Fine
  <2>1. << >> \in Line /\ ~Contains(<< >>, "--")
    BY DEF Line, Contains
  <2>2. CutComment(<< >>) = << >>
    BY <2>1 DEF CutComment
  <2>3. FoldLeft(ReadToken, acc, << >>) = acc /\ FoldLeft(CutAt, Got(acc), << >>) = Got(acc)
    BY TokensAreFold, CutIsFold, TokenFold!FoldEmpty, CutFold!FoldEmpty
  <2> QED
    BY <2>1, <2>2, <2>3 DEF RustLine
<1>2. ASSUME NEW l \in Fine, NEW t \in Token
      PROVE  Append(l, t) \in Fine
  BY RustLineGrows DEF Line
<1>3. Fine = Line
  <2>1. Fine \in SUBSET Seq(Token)
    BY DEF Line
  <2> HIDE DEF Fine
  <2> QED
    BY <1>1, <1>2, <2>1, CutFold!SequenceInduction DEF Line
<1> QED
  BY <1>3

(* While its literals are plain and no comment stands behind something     *)
(* else, a line is a comment in whole, of which the server gathers         *)
(* nothing, or has none, and the server gathers all of it.                 *)
AllSpace(line) == \A i \in DOMAIN line : line[i] = "space"

TsLine(acc, line) ==
    LET a == FoldLeft(ReadToken, acc, line) IN
    /\ a \in Reading
    /\ a.plain => acc.plain
    /\ acc.tail => a.tail
    /\ a.fresh <=> AllSpace(line)
    /\ a.fresh => ~a.comment /\ Got(a) = Got(acc)
    /\ a.plain /\ ~a.tail =>
           IF IsCommentLine(line) THEN a.comment /\ Got(a) = Got(acc)
                                  ELSE ~a.comment /\ FoldLeft(CutAt, Got(acc), line) = Got(a)

LEMMA CommentLineGrows ==
    ASSUME NEW line \in Line, NEW t \in Token
    PROVE  /\ AllSpace(Append(line, t)) <=> AllSpace(line) /\ t = "space"
           /\ IsCommentLine(Append(line, t)) <=> IsCommentLine(line) \/ (AllSpace(line) /\ t = "--")
           /\ IsCommentLine(line) => ~AllSpace(line)
<1> DEFINE more == Append(line, t)
<1>1. /\ Len(line) \in Nat /\ DOMAIN line = 1..Len(line) /\ DOMAIN more = 1..(Len(line) + 1)
      /\ more[Len(line) + 1] = t /\ \A i \in 1..Len(line) : more[i] = line[i]
  BY DEF Line
<1> HIDE DEF more
<1>2. AllSpace(more) <=> AllSpace(line) /\ t = "space"
  BY <1>1 DEF AllSpace
<1>3. IsCommentLine(line) => IsCommentLine(more)
  BY <1>1 DEF IsCommentLine
<1>4. AllSpace(line) /\ t = "--" => IsCommentLine(more)
  BY <1>1 DEF IsCommentLine, AllSpace
<1>5. ASSUME IsCommentLine(more), ~IsCommentLine(line)
      PROVE  AllSpace(line) /\ t = "--"
  <2>1. PICK i \in DOMAIN more : more[i] = "--" /\ \A j \in 1..(i - 1) : more[j] = "space"
    BY <1>5 DEF IsCommentLine
  <2>2. CASE i = Len(line) + 1
    BY <1>1, <2>1, <2>2 DEF AllSpace
  <2>3. CASE i \in 1..Len(line)
    BY <1>1, <1>5, <2>1, <2>3 DEF IsCommentLine
  <2> QED
    BY <1>1, <2>2, <2>3
<1>6. IsCommentLine(line) => ~AllSpace(line)
  BY DEF IsCommentLine, AllSpace
<1> QED
  BY <1>2, <1>3, <1>4, <1>5, <1>6 DEF more

LEMMA TsLineGrows ==
    ASSUME NEW acc \in Reading, NEW line \in Line, TsLine(acc, line), NEW t \in Token
    PROVE  TsLine(acc, Append(line, t))
<1> DEFINE more == Append(line, t)
           a == FoldLeft(ReadToken, acc, line)
           b == FoldLeft(ReadToken, acc, more)
<1>1. b = ReadToken(a, t)
  BY OneMoreToken
<1>2. /\ a \in Reading
      /\ a.plain => acc.plain
      /\ acc.tail => a.tail
      /\ a.fresh <=> AllSpace(line)
      /\ a.fresh => ~a.comment /\ Got(a) = Got(acc)
      /\ a.plain /\ ~a.tail =>
             IF IsCommentLine(line) THEN a.comment /\ Got(a) = Got(acc)
                                    ELSE ~a.comment /\ FoldLeft(CutAt, Got(acc), line) = Got(a)
  BY DEF TsLine
<1>3. FoldLeft(CutAt, Got(acc), more) = CutAt(FoldLeft(CutAt, Got(acc), line), t)
  BY OneMoreToken
<1>4. /\ AllSpace(more) <=> AllSpace(line) /\ t = "space"
      /\ IsCommentLine(more) <=> IsCommentLine(line) \/ (AllSpace(line) /\ t = "--")
      /\ IsCommentLine(line) => ~AllSpace(line)
  BY CommentLineGrows
<1> HIDE DEF a, b, more
<1>5. b \in Reading
  BY <1>1, <1>2, ReadTokenType
<1>6. /\ b.plain => a.plain
      /\ a.tail => b.tail
      /\ b.fresh <=> a.fresh /\ (a.comment \/ t = "space")
      /\ a.comment => b = a
      /\ ~a.comment /\ t # "--" /\ b.plain => ~b.comment /\ Got(b) = CutAt(Got(a), t)
      /\ ~a.comment /\ t = "--" /\ b.plain =>
             b.comment /\ Got(b) = Got(a) /\ (b.tail <=> a.tail \/ ~a.fresh)
      /\ b.fresh => b = a
  BY <1>1, <1>2, OneToken
<1>7. /\ b.plain => acc.plain
      /\ acc.tail => b.tail
      /\ b.fresh <=> AllSpace(more)
      /\ b.fresh => ~b.comment /\ Got(b) = Got(acc)
  BY <1>2, <1>4, <1>6
<1>8. ASSUME b.plain, ~b.tail
      PROVE  IF IsCommentLine(more) THEN b.comment /\ Got(b) = Got(acc)
                                    ELSE ~b.comment /\ FoldLeft(CutAt, Got(acc), more) = Got(b)
  <2>1. a.plain /\ ~a.tail
    BY <1>2, <1>5, <1>6, <1>8 DEF Reading
  <2>2. CASE IsCommentLine(line)
    BY <1>2, <1>4, <1>6, <2>1, <2>2
  <2>3. CASE ~IsCommentLine(line) /\ t # "--"
    <3>1. ~a.comment /\ FoldLeft(CutAt, Got(acc), line) = Got(a)
      BY <1>2, <2>1, <2>3
    <3>2. ~b.comment /\ Got(b) = CutAt(Got(a), t)
      BY <1>6, <1>8, <2>3, <3>1
    <3> QED
      BY <1>3, <1>4, <2>3, <3>1, <3>2
  <2>4. CASE ~IsCommentLine(line) /\ t = "--"
    <3>1. ~a.comment
      BY <1>2, <2>1, <2>4
    <3>2. b.comment /\ Got(b) = Got(a) /\ (b.tail <=> a.tail \/ ~a.fresh)
      BY <1>6, <1>8, <2>4, <3>1
    <3>3. a.fresh
      BY <1>8, <3>2
    <3> QED
      BY <1>2, <1>4, <2>4, <3>2, <3>3
  <2> QED
    BY <2>2, <2>3, <2>4
<1> QED
  BY <1>5, <1>7, <1>8 DEF TsLine, b, more

LEMMA TsLines ==
    ASSUME NEW acc \in Reading, ~acc.comment, acc.fresh, NEW line \in Line
    PROVE  TsLine(acc, line)
<1> DEFINE Fine == {l \in Line : TsLine(acc, l)}
<1>1. << >> \in Fine
  <2>1. << >> \in Line /\ AllSpace(<< >>) /\ ~IsCommentLine(<< >>)
    BY DEF Line, AllSpace, IsCommentLine
  <2>2. FoldLeft(ReadToken, acc, << >>) = acc /\ FoldLeft(CutAt, Got(acc), << >>) = Got(acc)
    BY TokensAreFold, CutIsFold, TokenFold!FoldEmpty, CutFold!FoldEmpty
  <2> QED
    BY <2>1, <2>2 DEF TsLine
<1>2. ASSUME NEW l \in Fine, NEW t \in Token
      PROVE  Append(l, t) \in Fine
  BY TsLineGrows DEF Line
<1>3. Fine = Line
  <2>1. Fine \in SUBSET Seq(Token)
    BY DEF Line
  <2> HIDE DEF Fine
  <2> QED
    BY <1>1, <1>2, <2>1, CutFold!SequenceInduction DEF Line
<1> QED
  BY <1>3
-----------------------------------------------------------------------------
(* A text.                                                                 *)

LEMMA OneMoreLine ==
    ASSUME NEW text \in Text, NEW line \in Line
    PROVE  /\ Read(<< >>) = Blank
           /\ FoldLeft(RustKeep, << >>, << >>) = << >> /\ FoldLeft(TsKeep, << >>, << >>) = << >>
           /\ Read(Append(text, line)) = ReadLine(Read(text), line)
           /\ FoldLeft(RustKeep, << >>, Append(text, line)) = RustKeep(FoldLeft(RustKeep, << >>, text), line)
           /\ FoldLeft(TsKeep, << >>, Append(text, line)) = TsKeep(FoldLeft(TsKeep, << >>, text), line)
<1>1. LineFold!Fold(Blank, Append(text, line)) = ReadLine(LineFold!Fold(Blank, text), line)
  BY LineFold!FoldAppend DEF Text
<1>2. RustFold!Fold(<< >>, Append(text, line)) = RustKeep(RustFold!Fold(<< >>, text), line)
  BY RustFold!FoldAppend DEF Text
<1>3. TsFold!Fold(<< >>, Append(text, line)) = TsKeep(TsFold!Fold(<< >>, text), line)
  BY TsFold!FoldAppend DEF Text
<1>4. /\ Read(<< >>) = Blank
      /\ FoldLeft(RustKeep, << >>, << >>) = << >> /\ FoldLeft(TsKeep, << >>, << >>) = << >>
  BY LinesAreFold, RustIsFold, TsIsFold, LineFold!FoldEmpty, RustFold!FoldEmpty, TsFold!FoldEmpty DEF Read
<1>5. Read(Append(text, line)) = ReadLine(Read(text), line)
  BY <1>1, LinesAreFold DEF Read
<1> QED
  BY <1>2, <1>3, <1>4, <1>5, RustIsFold, TsIsFold

(* A line goes on from what was cut before it.                             *)
LEMMA CutOn ==
    ASSUME NEW s \in Line, NEW t \in Line
    PROVE  \A got : FoldLeft(CutAt, got, s \o t) = FoldLeft(CutAt, FoldLeft(CutAt, got, s), t)
<1> SUFFICES ASSUME NEW got
             PROVE  FoldLeft(CutAt, got, s \o t) = FoldLeft(CutAt, FoldLeft(CutAt, got, s), t)
  OBVIOUS
<1>1. CutFold!Fold(got, s \o t) = CutFold!Fold(CutFold!Fold(got, s), t)
  BY CutFold!FoldConcat DEF Line
<1> QED
  BY <1>1, CutIsFold

LEMMA NextLine ==
    ASSUME NEW acc \in Reading
    PROVE  LET start == [acc EXCEPT !.comment = FALSE, !.fresh = TRUE] IN
           /\ start \in Reading /\ ~start.comment /\ start.fresh /\ Got(start) = Got(acc)
           /\ start.plain = acc.plain /\ start.tail = acc.tail
BY DEF Reading, Got

(* What both kits have kept of a text, against what the server has read.   *)
RustText(text) ==
    LET kept == FoldLeft(RustKeep, << >>, text) IN
    /\ Read(text) \in Reading /\ kept \in Line
    /\ Read(text).plain => FoldLeft(CutAt, Got(Blank), kept) = Got(Read(text))

TsText(text) ==
    LET kept == FoldLeft(TsKeep, << >>, text) IN
    /\ Read(text) \in Reading /\ kept \in Line
    /\ Read(text).plain /\ ~Read(text).tail => FoldLeft(CutAt, Got(Blank), kept) = Got(Read(text))

LEMMA RustTextGrows ==
    ASSUME NEW text \in Text, RustText(text), NEW line \in Line
    PROVE  RustText(Append(text, line))
<1> DEFINE acc == Read(text)
           kept == FoldLeft(RustKeep, << >>, text)
           start == [acc EXCEPT !.comment = FALSE, !.fresh = TRUE]
           now == FoldLeft(ReadToken, start, line)
<1>1. /\ acc \in Reading /\ kept \in Line
      /\ acc.plain => FoldLeft(CutAt, Got(Blank), kept) = Got(acc)
  BY DEF RustText
<1>2. Read(Append(text, line)) = now
  BY OneMoreLine DEF ReadLine
<1>3. FoldLeft(RustKeep, << >>, Append(text, line)) = kept \o CutComment(line)
  BY OneMoreLine DEF RustKeep
<1> HIDE DEF acc, kept
<1>4. /\ start \in Reading /\ ~start.comment /\ Got(start) = Got(acc)
      /\ start.plain = acc.plain
  BY <1>1, NextLine
<1> HIDE DEF start
<1>5. RustLine(start, line)
  BY <1>4, RustLines
<1>6. CutComment(line) \in Line /\ kept \o CutComment(line) \in Line
  <2>1. "word" \in Token
    BY DEF Token
  <2>2. CutComment(line) \in Line
    BY <2>1, CutGrows
  <2> QED
    BY <1>1, <2>2 DEF Line
<1>7. /\ now \in Reading
      /\ now.plain => start.plain /\ FoldLeft(CutAt, Got(start), CutComment(line)) = Got(now)
  BY <1>5 DEF RustLine
<1> HIDE DEF now
<1>8. now.plain => FoldLeft(CutAt, Got(Blank), kept \o CutComment(line)) = Got(now)
  BY <1>1, <1>4, <1>6, <1>7, CutOn
<1> QED
  BY <1>2, <1>3, <1>6, <1>7, <1>8 DEF RustText

LEMMA TsTextGrows ==
    ASSUME NEW text \in Text, TsText(text), NEW line \in Line
    PROVE  TsText(Append(text, line))
<1> DEFINE acc == Read(text)
           kept == FoldLeft(TsKeep, << >>, text)
           start == [acc EXCEPT !.comment = FALSE, !.fresh = TRUE]
           now == FoldLeft(ReadToken, start, line)
           later == FoldLeft(TsKeep, << >>, Append(text, line))
<1>1. /\ acc \in Reading /\ kept \in Line
      /\ acc.plain /\ ~acc.tail => FoldLeft(CutAt, Got(Blank), kept) = Got(acc)
  BY DEF TsText
<1>2. Read(Append(text, line)) = now
  BY OneMoreLine DEF ReadLine
<1>3. later = IF IsCommentLine(line) THEN kept ELSE kept \o line
  BY OneMoreLine DEF TsKeep
<1> HIDE DEF acc, kept, later
<1>4. /\ start \in Reading /\ ~start.comment /\ start.fresh /\ Got(start) = Got(acc)
      /\ start.plain = acc.plain /\ start.tail = acc.tail
  BY <1>1, NextLine
<1> HIDE DEF start
<1>5. TsLine(start, line)
  BY <1>4, TsLines
<1>6. later \in Line
  <2>1. kept \o line \in Line
    BY <1>1 DEF Line
  <2> QED
    BY <1>1, <1>3, <2>1
<1>7. /\ now \in Reading
      /\ now.plain => start.plain
      /\ start.tail => now.tail
      /\ now.plain /\ ~now.tail =>
             IF IsCommentLine(line) THEN now.comment /\ Got(now) = Got(start)
                                    ELSE ~now.comment /\ FoldLeft(CutAt, Got(start), line) = Got(now)
  BY <1>5 DEF TsLine
<1> HIDE DEF now
<1>8. ASSUME now.plain, ~now.tail
      PROVE  FoldLeft(CutAt, Got(Blank), later) = Got(now)
  <2>1. FoldLeft(CutAt, Got(Blank), kept) = Got(start)
    BY <1>1, <1>4, <1>7, <1>8
  <2>2. CASE IsCommentLine(line)
    BY <1>3, <1>7, <1>8, <2>1, <2>2
  <2>3. CASE ~IsCommentLine(line)
    BY <1>1, <1>3, <1>7, <1>8, <2>1, <2>3, CutOn
  <2> QED
    BY <2>2, <2>3
<1> QED
  BY <1>2, <1>6, <1>7, <1>8 DEF TsText, later

LEMMA AllTexts ==
    ASSUME NEW text \in Text
    PROVE  RustText(text) /\ TsText(text)
<1> DEFINE Fine == {u \in Text : RustText(u) /\ TsText(u)}
<1>1. << >> \in Fine
  <2>1. << >> \in Text /\ << >> \in Line /\ Blank \in Reading
    BY DEF Text, Line, Blank, Reading
  <2>2. FoldLeft(CutAt, Got(Blank), << >>) = Got(Blank)
    BY CutIsFold, CutFold!FoldEmpty
  <2>3. /\ Read(<< >>) = Blank
        /\ FoldLeft(RustKeep, << >>, << >>) = << >> /\ FoldLeft(TsKeep, << >>, << >>) = << >>
    BY <2>1, OneMoreLine
  <2> QED
    BY <2>1, <2>2, <2>3 DEF RustText, TsText
<1>2. ASSUME NEW u \in Fine, NEW line \in Line
      PROVE  Append(u, line) \in Fine
  <2>1. u \in Text /\ Append(u, line) \in Text
    BY DEF Text
  <2> QED
    BY <2>1, RustTextGrows, TsTextGrows
<1>3. Fine = Text
  <2>1. Fine \in SUBSET Seq(Line)
    BY DEF Text
  <2> HIDE DEF Fine
  <2> QED
    BY <1>1, <1>2, <2>1, CutFold!SequenceInduction DEF Text
<1> QED
  BY <1>3

LEMMA FragmentsOf ==
    ASSUME NEW tokens, NEW text, FoldLeft(CutAt, Got(Blank), tokens) = Got(Read(text))
    PROVE  Fragments(tokens) = ServerStatements(text)
<1>1. Got(Blank) = [done |-> << >>, part |-> << >>]
  BY DEF Got, Blank
<1>2. Fragments(tokens) = NonEmpty(Append(FoldLeft(CutAt, Got(Blank), tokens).done,
                                          FoldLeft(CutAt, Got(Blank), tokens).part))
  BY <1>1 DEF Fragments
<1>3. Got(Read(text)).done = Read(text).done /\ Got(Read(text)).part = Read(text).part
  BY DEF Got
<1> QED
  BY <1>2, <1>3 DEF ServerStatements

(* For a file of any length: if no literal holds a -- or a ; the Rust kit  *)
(* sends exactly the statements the server would read, wherever the        *)
(* comments stand.                                                         *)
THEOREM RustSplitsAsServer == Spec => []RustReadsAsServer
<1>1. ASSUME TextOK, Read(sql).plain
      PROVE  RustStatements(sql) = ServerStatements(sql)
  BY <1>1, AllTexts, FragmentsOf DEF TextOK, RustText, RustStatements
<1>2. TextOK => RustReadsAsServer
  BY <1>1 DEF RustReadsAsServer, PlainLiterals
<1> QED
  BY <1>2, TextInvariance, PTL

(* The TypeScript kit does too, if every comment has a line of its own.    *)
THEOREM TsSplitsAsServer == Spec => []TsReadsAsServer
<1>1. ASSUME TextOK, Read(sql).plain, ~Read(sql).tail
      PROVE  TsStatements(sql) = ServerStatements(sql)
  BY <1>1, AllTexts, FragmentsOf DEF TextOK, TsText, TsStatements
<1>2. TextOK => TsReadsAsServer
  BY <1>1 DEF TsReadsAsServer, PlainLiterals, WholeLineComments
<1> QED
  BY <1>2, TextInvariance, PTL
=============================================================================
