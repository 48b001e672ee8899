-------------------------- MODULE TypeBridgeProofs --------------------------
(***************************************************************************)
(* The bindings of TypeBridge agree, for types wrapped to any depth and    *)
(* names of any length.  The text of a type, the row and the values it     *)
(* calls for are folds over its wrappers, so each claim is an induction    *)
(* over them, by the equations of module Folding; ChTypeToRust is a        *)
(* recursion on the length of the text.                                    *)
(***************************************************************************)
EXTENDS TypeBridge, TLAPS, WellFoundedInduction

PlainTextFold == INSTANCE Folding WITH Step <- Enclose
TextFold      == INSTANCE Folding WITH Step <- EncloseAny
NestFold      == INSTANCE Folding WITH Step <- Nest
PlainRowFold  == INSTANCE Folding WITH Step <- Shape
RowFold       == INSTANCE Folding WITH Step <- ShapeAny
AcceptFold    == INSTANCE Folding WITH Step <- Accept
CamelFold     == INSTANCE Folding WITH Step <- Camel

Type    == [wraps : Seq(Wrappers), base : Types]
Name    == Seq(Letters) \ {<< >>}

ColumnsOK == columns \in Seq([name : Name, type : Type, default : {"none", "empty", "now()"}])

LEMMA Replaced ==
    ASSUME NEW S, NEW s \in Seq(S), NEW i \in DOMAIN s, NEW v \in S
    PROVE  [s EXCEPT ![i] = v] \in Seq(S)
OBVIOUS

LEMMA FirstAndLast ==
    ASSUME NEW S, NEW s \in Seq(S), s # << >>
    PROVE  /\ 1 \in DOMAIN s /\ s[1] \in S
           /\ Len(s) \in DOMAIN s /\ s[Len(s)] \in S
OBVIOUS

LEMMA ColumnsInvariance == Spec => []ColumnsOK
<1> DEFINE Columns == [name : Name, type : Type, default : {"none", "empty", "now()"}]
<1>1. Init => ColumnsOK
  BY DEF Init, ColumnsOK
<1>2. ColumnsOK /\ [Next]_vars => ColumnsOK'
  <2> SUFFICES ASSUME ColumnsOK, [Next]_vars PROVE ColumnsOK'
    OBVIOUS
  <2>0. columns \in Seq(Columns)
    BY DEF ColumnsOK
  <2>1. ASSUME NEW c \in Letters, NEW base \in Types, Declare(c, base)
        PROVE  ColumnsOK'
    <3>1. <<c>> \in Name /\ Bare(base) \in Type
      BY DEF Name, Type, Bare
    <3>2. Column(c, base) \in Columns
      BY <3>1 DEF Column
    <3>3. columns' = Append(columns, Column(c, base))
      BY <2>1 DEF Declare, Grow
    <3> QED
      BY <2>0, <3>2, <3>3 DEF ColumnsOK
  <2>2. ASSUME NEW c \in Letters, Spell(c)
        PROVE  ColumnsOK'
    <3> DEFINE n == Len(columns)
    <3>1. n \in DOMAIN columns /\ columns[n] \in Columns
      <4> HIDE DEF Columns
      <4> QED
        BY <2>0, <2>2, FirstAndLast DEF Spell
    <3>2. Append(columns[n].name, c) \in Name
      BY <3>1 DEF Name
    <3>3. columns' = [columns EXCEPT ![n] = [columns[n] EXCEPT !.name = Append(columns[n].name, c)]]
      BY <2>2 DEF Spell, Grow
    <3>4. [columns[n] EXCEPT !.name = Append(columns[n].name, c)] \in Columns
      BY <3>1, <3>2
    <3> QED
      BY <2>0, <3>1, <3>3, <3>4, Replaced, Zenon DEF ColumnsOK
  <2>3. ASSUME NEW w \in Wrappers, Wrap(w)
        PROVE  ColumnsOK'
    <3>1. 1 \in DOMAIN columns /\ columns[1] \in Columns
      <4> HIDE DEF Columns
      <4>1. columns # << >>
        BY <2>3 DEF Wrap, Single
      <4> QED
        BY <2>0, <4>1, FirstAndLast
    <3> DEFINE t == columns[1].type
    <3>2. t \in Type /\ Append(t.wraps, w) \in Seq(Wrappers)
      BY <3>1 DEF Type
    <3>3. [t EXCEPT !.wraps = Append(t.wraps, w)] \in Type
      BY <3>2 DEF Type
    <3>4. columns' = [columns EXCEPT ![1] = [columns[1] EXCEPT !.type = [t EXCEPT !.wraps = Append(t.wraps, w)]]]
      BY <2>3 DEF Wrap, Grow
    <3>5. [columns[1] EXCEPT !.type = [t EXCEPT !.wraps = Append(t.wraps, w)]] \in Columns
      BY <3>1, <3>3
    <3> QED
      BY <2>0, <3>1, <3>4, <3>5, Replaced, Zenon DEF ColumnsOK
  <2>4. ASSUME NEW expr \in {"empty", "now()"}, Default(expr)
        PROVE  ColumnsOK'
    <3>1. 1 \in DOMAIN columns /\ columns[1] \in Columns
      <4> HIDE DEF Columns
      <4>1. columns # << >>
        BY <2>4 DEF Default, Single
      <4> QED
        BY <2>0, <4>1, FirstAndLast
    <3>2. columns' = [columns EXCEPT ![1] = [columns[1] EXCEPT !.default = expr]]
      BY <2>4 DEF Default, Grow
    <3>3. [columns[1] EXCEPT !.default = expr] \in Columns
      BY <3>1
    <3> QED
      BY <2>0, <3>1, <3>2, <3>3, Replaced, Zenon DEF ColumnsOK
  <2>5. CASE UNCHANGED vars
    BY <2>5 DEF vars, ColumnsOK
  <2> QED
    BY <2>1, <2>2, <2>3, <2>4, <2>5 DEF Next
<1> QED
  BY <1>1, <1>2, PTL DEF Spec
-----------------------------------------------------------------------------
(* ChTypeToRust is defined by a recursion on the text: what is within the  *)
(* wrapper is shorter.                                                     *)

Inner(text) == SubSeq(text, 3, Len(text) - 1)
MapKey(inner)   == SubSeq(inner, 1, TopComma(inner) - 1)
MapValue(inner) == SubSeq(inner, TopComma(inner) + 1, Len(inner))

(* The body of the definition, with rust for the function itself.          *)
ReadType(rust, text) ==
    LET inner == SubSeq(text, 3, Len(text) - 1)
        comma == TopComma(inner)
    IN  CASE Stripped("Nullable", text) -> Of("Option", <<rust[inner]>>)
          [] Stripped("LowCardinality", text) -> rust[inner]
          [] Stripped("Array", text) -> Of("Vec", <<rust[inner]>>)
          [] Stripped("Map", text) /\ comma > 0 ->
                 Of("HashMap", <<rust[SubSeq(inner, 1, comma - 1)],
                                 rust[SubSeq(inner, comma + 1, Len(inner))]>>)
          [] OTHER -> Leaf(RustScalar(text[1]))

LEMMA TopCommaRange ==
    ASSUME NEW inner \in Seq(Words)
    PROVE  TopComma(inner) = 0 \/ TopComma(inner) \in DOMAIN inner
<1> DEFINE at == TopCommas(inner)
<1>1. at \subseteq DOMAIN inner
  BY DEF TopCommas
<1>2. ASSUME at # {} PROVE Min(at) \in at
  <2> HIDE DEF at
  <2> DEFINE Less == OpToRel(<, Nat)
  <2>0. at \subseteq Nat
    BY <1>1
  <2>1. PICK least \in at : \A m \in at : ~(<<m, least>> \in Less)
    BY <1>2, <2>0, NatLessThanWellFounded, WFMin, Zenon
  <2>2. \A m \in at : least <= m
    <3> SUFFICES ASSUME NEW m \in at, m < least PROVE FALSE
      BY <2>0
    <3>1. <<m, least>> \in Less
      BY <2>0, Zenon DEF OpToRel
    <3> QED
      BY <2>1, <3>1
  <2> HIDE DEF Less
  <2> QED
    BY <2>2 DEF Min
<1>3. TopComma(inner) = IF at = {} THEN 0 ELSE Min(at)
  BY DEF TopComma
<1> HIDE DEF at
<1> QED
  BY <1>1, <1>2, <1>3

LEMMA Part ==
    ASSUME NEW S, NEW s \in Seq(S), NEW a \in Nat \ {0}, NEW b \in Nat, b <= Len(s)
    PROVE  /\ SubSeq(s, a, b) \in Seq(S)
           /\ Len(SubSeq(s, a, b)) = IF a <= b THEN b - a + 1 ELSE 0
           /\ \A i \in 1..Len(SubSeq(s, a, b)) : SubSeq(s, a, b)[i] = s[a + i - 1]
OBVIOUS

LEMMA ShorterParts ==
    ASSUME NEW text \in Seq(Words), NEW w, Stripped(w, text)
    PROVE  /\ Inner(text) \in Seq(Words) /\ Len(Inner(text)) < Len(text)
           /\ TopComma(Inner(text)) > 0 =>
                 /\ MapKey(Inner(text)) \in Seq(Words) /\ Len(MapKey(Inner(text))) < Len(text)
                 /\ MapValue(Inner(text)) \in Seq(Words) /\ Len(MapValue(Inner(text))) < Len(text)
<1> DEFINE inner == Inner(text)
<1>0. Len(text) > 2 /\ Len(text) \in Nat
  BY DEF Stripped
<1>1. inner \in Seq(Words) /\ Len(inner) = Len(text) - 3 /\ Len(inner) \in Nat
  <2> DEFINE n == Len(text) - 1
  <2>1. n \in Nat /\ n <= Len(text) /\ 2 <= n
    BY <1>0
  <2> HIDE DEF n
  <2>2. SubSeq(text, 3, n) \in Seq(Words) /\ Len(SubSeq(text, 3, n)) = IF 3 <= n THEN n - 3 + 1 ELSE 0
    BY <2>1, Part
  <2>3. Len(SubSeq(text, 3, n)) = n - 2
    BY <2>1, <2>2
  <2> QED
    BY <1>0, <2>1, <2>2, <2>3 DEF Inner, n
<1>2. ASSUME TopComma(inner) > 0
      PROVE  /\ MapKey(inner) \in Seq(Words) /\ Len(MapKey(inner)) < Len(text)
             /\ MapValue(inner) \in Seq(Words) /\ Len(MapValue(inner)) < Len(text)
  <2> HIDE DEF inner
  <2> DEFINE c == TopComma(inner)
  <2>1. c \in 1..Len(inner)
    BY <1>0, <1>1, <1>2, TopCommaRange
  <2> HIDE DEF c
  <2>2. SubSeq(inner, 1, c - 1) \in Seq(Words) /\ Len(SubSeq(inner, 1, c - 1)) <= Len(inner)
    BY <1>1, <2>1
  <2>3. SubSeq(inner, c + 1, Len(inner)) \in Seq(Words) /\ Len(SubSeq(inner, c + 1, Len(inner))) <= Len(inner)
    BY <1>1, <2>1
  <2> QED
    BY <1>0, <1>1, <2>2, <2>3 DEF MapKey, MapValue, c
<1> QED
  BY <1>0, <1>1, <1>2

(* The body looks at rust only below its argument.                         *)
LEMMA ReadsBelow ==
    ASSUME NEW text \in Seq(Words), NEW f, NEW g,
           \A t \in Seq(Words) : Len(t) < Len(text) => f[t] = g[t]
    PROVE  ReadType(f, text) = ReadType(g, text)
<1> DEFINE inner == Inner(text)
<1>1. ASSUME NEW w, Stripped(w, text)
      PROVE  /\ f[inner] = g[inner]
             /\ TopComma(inner) > 0 => f[MapKey(inner)] = g[MapKey(inner)] /\ f[MapValue(inner)] = g[MapValue(inner)]
  BY <1>1, ShorterParts
<1>2. \A rust : ReadType(rust, text) =
         CASE Stripped("Nullable", text) -> Of("Option", <<rust[inner]>>)
           [] Stripped("LowCardinality", text) -> rust[inner]
           [] Stripped("Array", text) -> Of("Vec", <<rust[inner]>>)
           [] Stripped("Map", text) /\ TopComma(inner) > 0 ->
                  Of("HashMap", <<rust[MapKey(inner)], rust[MapValue(inner)]>>)
           [] OTHER -> Leaf(RustScalar(text[1]))
  BY DEF ReadType, Inner, MapKey, MapValue
<1> DEFINE N == Stripped("Nullable", text)
           L == Stripped("LowCardinality", text)
           A == Stripped("Array", text)
           M == Stripped("Map", text) /\ TopComma(inner) > 0
<1>3. /\ N \/ L \/ A => f[inner] = g[inner]
      /\ M => f[MapKey(inner)] = g[MapKey(inner)] /\ f[MapValue(inner)] = g[MapValue(inner)]
  BY <1>1
<1>4. ~(N /\ L) /\ ~(N /\ A) /\ ~(N /\ M) /\ ~(L /\ A) /\ ~(L /\ M) /\ ~(A /\ M)
  BY DEF Stripped
<1> HIDE DEF inner, N, L, A, M
<1>5. \A rust : ReadType(rust, text) =
         CASE N -> Of("Option", <<rust[inner]>>)
           [] L -> rust[inner]
           [] A -> Of("Vec", <<rust[inner]>>)
           [] M -> Of("HashMap", <<rust[MapKey(inner)], rust[MapValue(inner)]>>)
           [] OTHER -> Leaf(RustScalar(text[1]))
  BY <1>2 DEF N, L, A, M
<1>6. CASE N
  BY <1>3, <1>4, <1>5, <1>6
<1>7. CASE L
  BY <1>3, <1>4, <1>5, <1>7
<1>8. CASE A
  BY <1>3, <1>4, <1>5, <1>8
<1>9. CASE M
  BY <1>3, <1>4, <1>5, <1>9
<1>10. CASE ~N /\ ~L /\ ~A /\ ~M
  BY <1>5, <1>10, Zenon
<1> QED
  BY <1>6, <1>7, <1>8, <1>9, <1>10

Good(g, n) == \A t \in Seq(Words) : Len(t) < n => g[t] = ReadType(g, t)

LEMMA GoodExists == \A n \in Nat : \E g : Good(g, n)
<1> DEFINE Fine == {n \in Nat : \E g : Good(g, n)}
<1>1. 0 \in Fine
  <2>1. \A t \in Seq(Words) : ~(Len(t) < 0)
    OBVIOUS
  <2> QED
    BY <2>1 DEF Good
<1>2. ASSUME NEW n \in Fine
      PROVE  n + 1 \in Fine
  <2>1. PICK g : Good(g, n)
    OBVIOUS
  <2> DEFINE h == [t \in Seq(Words) |-> ReadType(g, t)]
  <2>2. \A t \in Seq(Words) : h[t] = ReadType(g, t)
    OBVIOUS
  <2> HIDE DEF h
  <2>3. ASSUME NEW text \in Seq(Words), Len(text) < n + 1
        PROVE  h[text] = ReadType(h, text)
    <3>1. \A t \in Seq(Words) : Len(t) < Len(text) => Len(t) < n
      BY <2>3
    <3>2. \A t \in Seq(Words) : Len(t) < Len(text) => h[t] = g[t]
      BY <2>1, <2>2, <3>1 DEF Good
    <3>3. ReadType(h, text) = ReadType(g, text)
      BY <3>2, ReadsBelow
    <3> QED
      BY <2>2, <3>3
  <2>4. Good(h, n + 1)
    BY <2>3 DEF Good
  <2> QED
    BY <2>4
<1>3. Fine = Nat
  <2>1. Fine \in SUBSET Nat /\ \A n \in Fine : n + 1 \in Fine
    BY <1>2
  <2> HIDE DEF Fine
  <2> QED
    BY <1>1, <2>1, TextFold!SetInduction
<1> QED
  BY <1>3

LEMMA GoodAgree ==
    ASSUME NEW g, NEW h, NEW n \in Nat, NEW m \in Nat, n <= m, Good(g, n), Good(h, m)
    PROVE  \A t \in Seq(Words) : Len(t) < n => g[t] = h[t]
<1> DEFINE Fine == {k \in Nat : k <= n => \A t \in Seq(Words) : Len(t) < k => g[t] = h[t]}
<1>1. 0 \in Fine
  <2>1. \A t \in Seq(Words) : ~(Len(t) < 0)
    OBVIOUS
  <2> QED
    BY <2>1
<1>2. ASSUME NEW k \in Fine
      PROVE  k + 1 \in Fine
  <2> SUFFICES ASSUME k + 1 <= n, NEW text \in Seq(Words), Len(text) < k + 1
               PROVE  g[text] = h[text]
    OBVIOUS
  <2>1. /\ k \in Nat /\ k <= n /\ Len(text) < n /\ Len(text) < m
        /\ \A t \in Seq(Words) : Len(t) < Len(text) => Len(t) < k
    OBVIOUS
  <2>2. \A t \in Seq(Words) : Len(t) < Len(text) => g[t] = h[t]
    BY <2>1
  <2>3. ReadType(g, text) = ReadType(h, text)
    <3> HIDE DEF Fine
    <3> QED
      BY <2>2, ReadsBelow
  <2> QED
    BY <2>1, <2>3 DEF Good
<1>3. Fine = Nat
  <2>1. Fine \in SUBSET Nat /\ \A k \in Fine : k + 1 \in Fine
    BY <1>2
  <2> HIDE DEF Fine
  <2> QED
    BY <1>1, <2>1, TextFold!SetInduction
<1>4. n \in Fine
  <2> HIDE DEF Fine
  <2> QED
    BY <1>3
<1>5. n <= n
  OBVIOUS
<1> QED
  BY <1>4, <1>5

(* So the recursion has a solution.                                        *)
THEOREM ChTypeToRustReads ==
    \A text \in Seq(Words) : ChTypeToRust[text] = ReadType(ChTypeToRust, text)
<1> DEFINE G(n) == CHOOSE g : Good(g, n)
           f == [text \in Seq(Words) |-> G(Len(text) + 1)[text]]
<1>1. \A n \in Nat : Good(G(n), n)
  BY GoodExists
<1>2. \A text \in Seq(Words) : f[text] = G(Len(text) + 1)[text]
  OBVIOUS
<1> HIDE DEF G, f
<1>3. ASSUME NEW text \in Seq(Words)
      PROVE  f[text] = ReadType(f, text)
  <2> DEFINE n == Len(text) + 1
             g == G(n)
  <2>1. n \in Nat /\ Len(text) < n
    OBVIOUS
  <2>2. Good(g, n)
    BY <1>1, <2>1
  <2>3. ASSUME NEW t \in Seq(Words), Len(t) < Len(text)
        PROVE  f[t] = g[t]
    <3> DEFINE k == Len(t) + 1
    <3>1. k \in Nat /\ k <= n /\ Len(t) < k
      BY <2>3
    <3> HIDE DEF n, k
    <3>2. \A u \in Seq(Words) : Len(u) < k => G(k)[u] = g[u]
      BY <1>1, <2>1, <2>2, <3>1, GoodAgree
    <3>3. G(k)[t] = g[t]
      BY <3>1, <3>2
    <3> QED
      BY <1>2, <3>3 DEF k
  <2>4. f[text] = g[text]
    BY <1>2
  <2>5. g[text] = ReadType(g, text)
    BY <2>1, <2>2 DEF Good
  <2> HIDE DEF g
  <2>6. ReadType(f, text) = ReadType(g, text)
    BY <2>3, ReadsBelow
  <2> QED
    BY <2>4, <2>5, <2>6
<1>4. f = [text \in Seq(Words) |-> ReadType(f, text)]
  <2> DEFINE r == [text \in Seq(Words) |-> ReadType(f, text)]
  <2>1. DOMAIN f = Seq(Words) /\ DOMAIN r = Seq(Words)
    BY DEF f
  <2>2. \A text \in Seq(Words) : f[text] = r[text]
    BY <1>3
  <2>3. f = [text \in DOMAIN f |-> f[text]] /\ r = [text \in DOMAIN r |-> r[text]]
    BY DEF f
  <2> HIDE DEF r
  <2>4. f = r
    BY <2>1, <2>2, <2>3
  <2> QED
    BY <2>4 DEF r
<1>5. ChTypeToRust = CHOOSE h : h = [text \in Seq(Words) |-> ReadType(h, text)]
  BY DEF ChTypeToRust, ReadType
<1>6. ChTypeToRust = [text \in Seq(Words) |-> ReadType(ChTypeToRust, text)]
  BY <1>4, <1>5
<1>7. \A text \in Seq(Words) :
         [u \in Seq(Words) |-> ReadType(ChTypeToRust, u)][text] = ReadType(ChTypeToRust, text)
  OBVIOUS
<1> QED
  BY <1>6, <1>7, Zenon
-----------------------------------------------------------------------------
(* What the function makes of a base and of each wrapper.                  *)

LEMMA BaseReads ==
    ASSUME NEW base \in Types
    PROVE  base \in Seq(Words) /\ ChTypeToRust[base] = Leaf(RustScalar(base[1]))
<1>1. base \in Seq(Words) /\ base[1] \notin {"Nullable", "LowCardinality", "Array", "Map"}
  BY TypesAssumption DEF Heads
<1>2. ChTypeToRust[base] = ReadType(ChTypeToRust, base)
  BY <1>1, ChTypeToRustReads
<1>3. /\ ~Stripped("Nullable", base) /\ ~Stripped("LowCardinality", base)
      /\ ~Stripped("Array", base) /\ ~Stripped("Map", base)
  BY <1>1 DEF Stripped
<1>4. ReadType(ChTypeToRust, base) = Leaf(RustScalar(base[1]))
  BY <1>3, Zenon DEF ReadType
<1> QED
  BY <1>1, <1>2, <1>4

LEMMA Enclosed ==
    ASSUME NEW text \in Seq(Words), NEW w, w.head \in Words
    PROVE  /\ Enclose(text, w) \in Seq(Words)
           /\ \A v : Stripped(v, Enclose(text, w)) <=> v = w.head
           /\ Inner(Enclose(text, w)) = text
<1> DEFINE h == w.head
           e == <<h, "(">> \o text \o <<")">>
<1> HIDE DEF h
<1>0. h \in Words /\ "(" \in Words /\ ")" \in Words
  <2>1. h \in Words
    BY DEF h
  <2>2. "(" \in Words /\ ")" \in Words
    BY WordsAssumption
  <2> QED
    BY <2>1, <2>2
<1>1. /\ h \in Words /\ e \in Seq(Words) /\ Len(e) = Len(text) + 3 /\ Len(text) \in Nat
      /\ e[1] = h /\ e[2] = "(" /\ e[Len(text) + 3] = ")"
      /\ \A i \in 1..Len(text) : e[i + 2] = text[i]
  <2>1. <<h, "(">> \in Seq(Words) /\ <<")">> \in Seq(Words)
    BY <1>0
  <2> DEFINE a == <<h, "(">> \o text
  <2>2. /\ a \in Seq(Words) /\ Len(a) = Len(text) + 2 /\ Len(text) \in Nat
        /\ a[1] = h /\ a[2] = "(" /\ \A i \in 1..Len(text) : a[i + 2] = text[i]
    BY <1>0, <2>1
  <2> HIDE DEF a
  <2>3. /\ a \o <<")">> \in Seq(Words) /\ Len(a \o <<")">>) = Len(a) + 1
        /\ (a \o <<")">>)[Len(a) + 1] = ")" /\ \A i \in 1..Len(a) : (a \o <<")">>)[i] = a[i]
    BY <2>1, <2>2
  <2>4. e = a \o <<")">>
    BY DEF a
  <2> HIDE DEF e
  <2>5. \A i \in 1..Len(text) : i + 2 \in 1..Len(a)
    BY <2>2
  <2>6. 1 \in 1..Len(a) /\ 2 \in 1..Len(a) /\ Len(a) + 1 = Len(text) + 3
    BY <2>2
  <2> QED
    BY <1>0, <2>2, <2>3, <2>4, <2>5, <2>6
<1>2. \A v : Stripped(v, e) <=> v = h
  <2> HIDE DEF e
  <2>1. Len(e) > 2 /\ e[Len(e)] = ")"
    BY <1>1
  <2> QED
    BY <1>1, <2>1 DEF Stripped
<1>3. Inner(e) = text
  <2> HIDE DEF e
  <2> DEFINE n == Len(e) - 1
  <2>1. n \in Nat /\ n <= Len(e) /\ n = Len(text) + 2
    BY <1>1
  <2> HIDE DEF n
  <2>2. /\ SubSeq(e, 3, n) \in Seq(Words)
        /\ Len(SubSeq(e, 3, n)) = IF 3 <= n THEN n - 3 + 1 ELSE 0
        /\ \A i \in 1..Len(SubSeq(e, 3, n)) : SubSeq(e, 3, n)[i] = e[3 + i - 1]
    BY <1>1, <2>1, Part
  <2>3. Len(SubSeq(e, 3, n)) = Len(text)
    BY <1>1, <2>1, <2>2
  <2>4. \A i \in 1..Len(text) : SubSeq(e, 3, n)[i] = text[i]
    <3> SUFFICES ASSUME NEW i \in 1..Len(text) PROVE SubSeq(e, 3, n)[i] = text[i]
      OBVIOUS
    <3>1. SubSeq(e, 3, n)[i] = e[3 + i - 1] /\ 3 + i - 1 = i + 2
      BY <2>2, <2>3
    <3> QED
      BY <1>1, <3>1
  <2> DEFINE part == SubSeq(e, 3, n)
  <2> HIDE DEF part
  <2>5. part \in Seq(Words) /\ Len(part) = Len(text) /\ \A i \in 1..Len(text) : part[i] = text[i]
    BY <2>2, <2>3, <2>4 DEF part
  <2>6. part = text
    BY <2>5
  <2> QED
    BY <2>6 DEF part, n, Inner
<1> QED
  BY <1>1, <1>2, <1>3 DEF h, Enclose

(* Nullable, LowCardinality and Array.                                     *)
LEMMA PlainReads ==
    ASSUME NEW text \in Seq(Words), NEW w \in Plain
    PROVE  /\ Enclose(text, w) \in Seq(Words)
           /\ ChTypeToRust[Enclose(text, w)] = Shape(ChTypeToRust[text], w)
<1> DEFINE e == Enclose(text, w)
<1>1. w.head \in {"Nullable", "LowCardinality", "Array"} /\ w.head \in Words
  <2>1. w.head \in Heads
    BY DEF Plain
  <2>2. w.head \in {"Nullable", "LowCardinality", "Array"}
    BY <2>1 DEF Heads
  <2> QED
    BY <2>1, <2>2, WordsAssumption
<1>2. e \in Seq(Words) /\ (\A v : Stripped(v, e) <=> v = w.head) /\ Inner(e) = text
  BY <1>1, Enclosed
<1> HIDE DEF e
<1>3. ChTypeToRust[e] = ReadType(ChTypeToRust, e)
  BY <1>2, ChTypeToRustReads
<1>4. /\ Stripped("Nullable", e) <=> w.head = "Nullable"
      /\ Stripped("LowCardinality", e) <=> w.head = "LowCardinality"
      /\ Stripped("Array", e) <=> w.head = "Array"
      /\ ~Stripped("Map", e)
  BY <1>1, <1>2
<1>5. ReadType(ChTypeToRust, e) = Shape(ChTypeToRust[text], w)
  <2>1. CASE w.head = "Nullable"
    BY <1>2, <1>4, <2>1 DEF ReadType, Inner, Shape
  <2>2. CASE w.head = "LowCardinality"
    BY <1>2, <1>4, <2>2 DEF ReadType, Inner, Shape
  <2>3. CASE w.head = "Array"
    BY <1>2, <1>4, <2>3 DEF ReadType, Inner, Shape
  <2> QED
    BY <1>1, <2>1, <2>2, <2>3
<1> QED
  BY <1>2, <1>3, <1>5 DEF e

LEMMA SameSequence ==
    ASSUME NEW S, NEW s \in Seq(S), NEW t \in Seq(S), Len(s) = Len(t), \A i \in 1..Len(s) : s[i] = t[i]
    PROVE  s = t
OBVIOUS

LEMMA Joined ==
    ASSUME NEW S, NEW s \in Seq(S), NEW t \in Seq(S)
    PROVE  /\ s \o t \in Seq(S) /\ Len(s \o t) = Len(s) + Len(t)
           /\ \A i \in 1..Len(s) : (s \o t)[i] = s[i]
           /\ \A i \in 1..Len(t) : (s \o t)[Len(s) + i] = t[i]
OBVIOUS

(* Within a map: the key, a comma, the value.                              *)
Pair(q, k, text) ==
    /\ q \in Seq(Words) /\ Len(q) = Len(k) + 1 + Len(text)
    /\ \A i \in 1..Len(k) : q[i] = k[i]
    /\ q[Len(k) + 1] = Comma
    /\ \A i \in 1..Len(text) : q[Len(k) + 1 + i] = text[i]

LEMMA PairShape ==
    ASSUME NEW k \in Seq(Words), NEW text \in Seq(Words)
    PROVE  Pair(k \o <<Comma>> \o text, k, text)
<1>1. ASSUME NEW c \in Seq(Words), Len(c) = 1, c[1] = Comma
      PROVE  Pair((k \o c) \o text, k, text)
  <2> DEFINE a == k \o c
             q == a \o text
  <2>1. a \in Seq(Words) /\ Len(a) = Len(k) + Len(c)
    BY Joined
  <2>2. /\ \A i \in 1..Len(k) : a[i] = k[i]
        /\ \A i \in 1..Len(c) : a[Len(k) + i] = c[i]
    BY Joined
  <2> HIDE DEF a
  <2>3. q \in Seq(Words) /\ Len(q) = Len(a) + Len(text)
    BY <2>1, Joined
  <2>4. /\ \A i \in 1..Len(a) : q[i] = a[i]
        /\ \A i \in 1..Len(text) : q[Len(a) + i] = text[i]
    BY <2>1, Joined
  <2> HIDE DEF q
  <2>5. Len(k) \in Nat /\ Len(text) \in Nat /\ Len(a) = Len(k) + 1 /\ 1 \in 1..Len(c)
    <3>1. Len(k) \in Nat /\ Len(text) \in Nat
      OBVIOUS
    <3> QED
      BY <1>1, <2>1, <3>1
  <2>6. a[Len(k) + 1] = Comma
    BY <1>1, <2>2, <2>5
  <2>7. Len(k) + 1 \in 1..Len(a) /\ \A i \in 1..Len(k) : i \in 1..Len(a)
    BY <2>5
  <2>8. \A i \in 1..Len(k) : q[i] = k[i]
    BY <2>2, <2>4, <2>7
  <2>9. q[Len(k) + 1] = Comma
    BY <2>4, <2>6, <2>7
  <2>10. \A i \in 1..Len(text) : q[Len(k) + 1 + i] = text[i]
    BY <2>4, <2>5
  <2>11. Len(q) = Len(k) + 1 + Len(text)
    BY <2>3, <2>5
  <2>12. Pair(q, k, text)
    BY <2>3, <2>8, <2>9, <2>10, <2>11 DEF Pair
  <2> QED
    BY <2>12 DEF q, a
<1> DEFINE comma == <<Comma>>
<1>2. Comma \in Words
  BY WordsAssumption
<1>3. comma \in Seq(Words)
  BY <1>2
<1>4. Len(comma) = 1 /\ comma[1] = Comma
  OBVIOUS
<1> HIDE DEF comma
<1>5. Pair((k \o comma) \o text, k, text)
  BY <1>1, <1>3, <1>4
<1> QED
  BY <1>5 DEF comma

LEMMA SameStart ==
    ASSUME NEW S, NEW s \in Seq(S), NEW t \in Seq(S), NEW m \in Nat, m <= Len(s), m <= Len(t),
           \A i \in 1..m : s[i] = t[i]
    PROVE  SubSeq(s, 1, m) = SubSeq(t, 1, m)
<1> DEFINE u == SubSeq(s, 1, m)
           v == SubSeq(t, 1, m)
<1>1. u \in Seq(S) /\ Len(u) = m /\ \A i \in 1..m : u[i] = s[i]
  OBVIOUS
<1>2. v \in Seq(S) /\ Len(v) = m /\ \A i \in 1..m : v[i] = t[i]
  OBVIOUS
<1> HIDE DEF u, v
<1>3. \A i \in 1..m : u[i] = v[i]
  BY <1>1, <1>2
<1>4. u = v
  BY <1>1, <1>2, <1>3, SameSequence
<1> QED
  BY <1>4 DEF u, v

LEMMA WholeStart == ASSUME NEW S, NEW s \in Seq(S) PROVE SubSeq(s, 1, Len(s)) = s
OBVIOUS

LEMMA PairCut ==
    ASSUME NEW k \in Seq(Words), NEW text \in Seq(Words), Closed(k), NEW q, Pair(q, k, text)
    PROVE  TopComma(q) = Len(k) + 1 /\ MapKey(q) = k /\ MapValue(q) = text
<1> DEFINE n == Len(k)
<1>1. q \in Seq(Words) /\ Len(q) = n + 1 + Len(text)
  BY DEF Pair
<1>2. n \in Nat /\ Len(text) \in Nat
  OBVIOUS
<1>3. (\A i \in 1..n : q[i] = k[i]) /\ q[n + 1] = Comma
  BY DEF Pair
<1>4. \A i \in 1..Len(text) : q[n + 1 + i] = text[i]
  BY DEF Pair
<1>5. DOMAIN k = 1..n /\ DOMAIN q = 1..Len(q)
  BY <1>1
<1> HIDE DEF n
<1>6. \A m \in 1..n : SubSeq(q, 1, m) = SubSeq(k, 1, m)
  <2> SUFFICES ASSUME NEW m \in 1..n PROVE SubSeq(q, 1, m) = SubSeq(k, 1, m)
    OBVIOUS
  <2>1. m \in Nat /\ m <= Len(q) /\ m <= n
    BY <1>1, <1>2
  <2>2. m <= Len(k)
    BY <2>1 DEF n
  <2>3. \A i \in 1..m : i \in 1..n
    BY <1>2, <2>1
  <2>4. \A i \in 1..m : q[i] = k[i]
    BY <1>3, <2>3
  <2> QED
    BY <1>1, <2>1, <2>2, <2>4, SameStart
<1>7. SubSeq(q, 1, n + 1) = Append(k, Comma)
  <2> DEFINE t == Append(k, Comma)
  <2>1. t \in Seq(Words) /\ Len(t) = Len(k) + 1 /\ t[Len(k) + 1] = Comma /\ \A j \in 1..Len(k) : t[j] = k[j]
    <3>1. Comma \in Words
      BY WordsAssumption
    <3> QED
      BY <3>1
  <2> HIDE DEF t
  <2>2. Len(t) = n + 1 /\ t[n + 1] = Comma
    BY <2>1 DEF n
  <2>3. n + 1 \in Nat /\ n + 1 <= Len(q) /\ n + 1 <= Len(t)
    BY <1>1, <1>2, <2>2
  <2>4. \A j \in 1..n : t[j] = k[j]
    BY <2>1 DEF n
  <2>5. \A j \in 1..(n + 1) : j \in 1..n \/ j = n + 1
    BY <1>2
  <2>6. \A j \in 1..(n + 1) : q[j] = t[j]
    BY <1>3, <2>2, <2>4, <2>5
  <2>7. SubSeq(q, 1, n + 1) = SubSeq(t, 1, n + 1)
    BY <1>1, <2>1, <2>3, <2>6, SameStart
  <2>8. SubSeq(t, 1, n + 1) = t
    BY <2>1, <2>2, WholeStart
  <2> QED
    BY <2>7, <2>8 DEF t
<1>8. Depth(SubSeq(q, 1, n + 1)) = 0
  <2>1. Comma \in Words
    BY WordsAssumption
  <2>2. NestFold!Fold(0, Append(k, Comma)) = Nest(NestFold!Fold(0, k), Comma)
    BY <2>1, NestFold!FoldAppend
  <2>3. \A s : FoldLeft(Nest, 0, s) = NestFold!Fold(0, s)
    BY DEF NestFold!Fold, FoldLeft, MapThenFoldSet, NestFold!FoldLeft, NestFold!MapThenFoldSet, Max, NestFold!Max
  <2>4. Depth(Append(k, Comma)) = Nest(Depth(k), Comma)
    BY <2>2, <2>3 DEF Depth
  <2>5. Nest(Depth(k), Comma) = Depth(k)
    BY Zenon DEF Nest, Comma
  <2> QED
    BY <1>7, <2>4, <2>5 DEF Closed
<1>9. n + 1 \in TopCommas(q)
  <2>1. n + 1 \in DOMAIN q
    BY <1>1, <1>2, <1>5
  <2> QED
    BY <1>3, <1>8, <2>1 DEF TopCommas
<1>10. \A m \in TopCommas(q) : n + 1 <= m
  <2> SUFFICES ASSUME NEW m \in TopCommas(q), ~(n + 1 <= m) PROVE FALSE
    OBVIOUS
  <2>1. m \in DOMAIN q /\ q[m] = Comma /\ Depth(SubSeq(q, 1, m)) = 0
    BY DEF TopCommas
  <2>2. m \in 1..n
    BY <1>1, <1>2, <1>5, <2>1
  <2>3. k[m] = Comma /\ Depth(SubSeq(k, 1, m)) = 0 /\ m \in DOMAIN k
    BY <1>3, <1>5, <1>6, <2>1, <2>2
  <2>4. Depth(SubSeq(k, 1, m)) > 0
    BY <2>3 DEF Closed
  <2> QED
    BY <2>3, <2>4
<1>11. TopComma(q) = n + 1
  <2>1. TopCommas(q) \subseteq Nat
    BY <1>5 DEF TopCommas
  <2>2. Min(TopCommas(q)) = n + 1
    BY <1>2, <1>9, <1>10, <2>1 DEF Min
  <2> QED
    BY <1>9, <2>2 DEF TopComma
<1>12. MapKey(q) = k
  <2>1. n <= Len(q) /\ n <= Len(k) /\ n + 1 - 1 = n
    <3>1. n <= Len(q) /\ n + 1 - 1 = n
      BY <1>1, <1>2
    <3>2. n <= Len(k)
      BY <1>2 DEF n
    <3> QED
      BY <3>1, <3>2
  <2>2. SubSeq(q, 1, n) = SubSeq(k, 1, n)
    BY <1>1, <1>2, <1>3, <2>1, SameStart
  <2>3. SubSeq(k, 1, n) = k
    BY WholeStart DEF n
  <2>4. MapKey(q) = SubSeq(q, 1, TopComma(q) - 1)
    BY DEF MapKey
  <2>5. TopComma(q) - 1 = n
    BY <1>2, <1>11
  <2> QED
    BY <2>2, <2>3, <2>4, <2>5
<1>13. MapValue(q) = text
  <2> DEFINE a == n + 2
             b == Len(q)
             s == SubSeq(q, a, b)
  <2>1. a \in Nat \ {0} /\ b \in Nat /\ b <= Len(q) /\ b = n + 1 + Len(text) /\ n + 1 + 1 = a
    BY <1>1, <1>2
  <2>2. a = n + 2
    OBVIOUS
  <2> HIDE DEF a, b
  <2>3. s \in Seq(Words) /\ Len(s) = IF a <= b THEN b - a + 1 ELSE 0
    BY <1>1, <2>1, Part
  <2>4. \A i \in 1..Len(s) : s[i] = q[a + i - 1]
    BY <1>1, <2>1, Part
  <2> HIDE DEF s
  <2>5. Len(s) = Len(text)
    BY <1>2, <2>1, <2>2, <2>3
  <2>6. \A i \in 1..Len(s) : s[i] = text[i]
    <3> SUFFICES ASSUME NEW i \in 1..Len(s) PROVE s[i] = text[i]
      OBVIOUS
    <3>1. a + i - 1 = n + 1 + i /\ i \in 1..Len(text)
      BY <1>2, <2>2, <2>5
    <3> QED
      BY <1>4, <2>4, <3>1
  <2>7. s = text
    BY <2>3, <2>5, <2>6, SameSequence
  <2> QED
    BY <1>11, <2>1, <2>7 DEF MapValue, s, b
<1> QED
  BY <1>11, <1>12, <1>13 DEF n

(* Map, around a key and a value.                                          *)
LEMMA MapReads ==
    ASSUME NEW text \in Seq(Words), NEW w \in [head : {"Map"}, key : Keys],
           KeyText(w.key) \in Seq(Words), ChTypeToRust[KeyText(w.key)] = KeyRow(w.key)
    PROVE  /\ EncloseAny(text, w) \in Seq(Words)
           /\ ChTypeToRust[EncloseAny(text, w)] = ShapeAny(ChTypeToRust[text], w)
<1> DEFINE k == KeyText(w.key)
           q == k \o <<Comma>> \o text
           e == Enclose(q, w)
<1>1. w.head = "Map" /\ w.key \in Keys /\ "Map" \in Words
  BY WordsAssumption
<1>2. Closed(k)
  BY <1>1, KeyTextsAssumption
<1>3. q \in Seq(Words) /\ TopComma(q) = Len(k) + 1 /\ Len(k) \in Nat /\ MapKey(q) = k /\ MapValue(q) = text
  <2> HIDE DEF k
  <2>1. k \in Seq(Words)
    BY DEF k
  <2>2. Pair(q, k, text)
    BY <2>1, PairShape
  <2> HIDE DEF q
  <2>3. TopComma(q) = Len(k) + 1 /\ MapKey(q) = k /\ MapValue(q) = text
    BY <1>2, <2>1, <2>2, PairCut
  <2> QED
    BY <2>1, <2>2, <2>3 DEF Pair
<1>4. EncloseAny(text, w) = e
  BY <1>1 DEF EncloseAny
<1> HIDE DEF q, k
<1>5. e \in Seq(Words) /\ (\A v : Stripped(v, e) <=> v = "Map") /\ Inner(e) = q
  BY <1>1, <1>3, Enclosed
<1> HIDE DEF e
<1>6. ChTypeToRust[e] = ReadType(ChTypeToRust, e)
  BY <1>5, ChTypeToRustReads
<1>7. /\ ~Stripped("Nullable", e) /\ ~Stripped("LowCardinality", e) /\ ~Stripped("Array", e)
      /\ Stripped("Map", e) /\ TopComma(q) > 0
  BY <1>3, <1>5
<1>8. ReadType(ChTypeToRust, e) = Of("HashMap", <<ChTypeToRust[MapKey(q)], ChTypeToRust[MapValue(q)]>>)
  BY <1>5, <1>7 DEF ReadType, Inner, MapKey, MapValue
<1>9. ShapeAny(ChTypeToRust[text], w) = Of("HashMap", <<KeyRow(w.key), ChTypeToRust[text]>>)
  BY <1>1 DEF ShapeAny
<1>10. ChTypeToRust[k] = KeyRow(w.key)
  BY DEF k
<1> QED
  BY <1>3, <1>4, <1>5, <1>6, <1>8, <1>9, <1>10
-----------------------------------------------------------------------------
(* The folds of the model are those of the instances.                      *)

LEMMA PlainTextIsFold ==
    ASSUME NEW base, NEW s PROVE FoldLeft(Enclose, base, s) = PlainTextFold!Fold(base, s)
BY DEF PlainTextFold!Fold, FoldLeft, MapThenFoldSet, PlainTextFold!FoldLeft, PlainTextFold!MapThenFoldSet, Max, PlainTextFold!Max

LEMMA TextIsFold ==
    ASSUME NEW base, NEW s PROVE FoldLeft(EncloseAny, base, s) = TextFold!Fold(base, s)
BY DEF TextFold!Fold, FoldLeft, MapThenFoldSet, TextFold!FoldLeft, TextFold!MapThenFoldSet, Max, TextFold!Max

LEMMA PlainRowIsFold ==
    ASSUME NEW base, NEW s PROVE FoldLeft(Shape, base, s) = PlainRowFold!Fold(base, s)
BY DEF PlainRowFold!Fold, FoldLeft, MapThenFoldSet, PlainRowFold!FoldLeft, PlainRowFold!MapThenFoldSet, Max, PlainRowFold!Max

LEMMA RowIsFold ==
    ASSUME NEW base, NEW s PROVE FoldLeft(ShapeAny, base, s) = RowFold!Fold(base, s)
BY DEF RowFold!Fold, FoldLeft, MapThenFoldSet, RowFold!FoldLeft, RowFold!MapThenFoldSet, Max, RowFold!Max

LEMMA AcceptIsFold ==
    ASSUME NEW base, NEW s PROVE FoldLeft(Accept, base, s) = AcceptFold!Fold(base, s)
BY DEF AcceptFold!Fold, FoldLeft, MapThenFoldSet, AcceptFold!FoldLeft, AcceptFold!MapThenFoldSet, Max, AcceptFold!Max

LEMMA CamelIsFold ==
    ASSUME NEW base, NEW s PROVE FoldLeft(Camel, base, s) = CamelFold!Fold(base, s)
BY DEF CamelFold!Fold, FoldLeft, MapThenFoldSet, CamelFold!FoldLeft, CamelFold!MapThenFoldSet, Max, CamelFold!Max
-----------------------------------------------------------------------------
(* Rows.                                                                   *)

LEMMA KeyReads ==
    ASSUME NEW k \in Keys
    PROVE  KeyText(k) \in Seq(Words) /\ ChTypeToRust[KeyText(k)] = KeyRow(k)
<1> DEFINE base == k.base
           leaf == Leaf(RustScalar(base[1]))
           Reads(ws) == /\ PlainTextFold!Fold(base, ws) \in Seq(Words)
                        /\ ChTypeToRust[PlainTextFold!Fold(base, ws)] = PlainRowFold!Fold(leaf, ws)
           Fine == {ws \in Seq(Plain) : Reads(ws)}
<1>1. k.wraps \in Seq(Plain) /\ base \in Types
  BY KeysAssumption
<1>2. base \in Seq(Words) /\ ChTypeToRust[base] = leaf
  BY <1>1, BaseReads
<1> HIDE DEF base, leaf
<1>3. << >> \in Fine
  <2>1. << >> \in Seq(Plain)
    OBVIOUS
  <2>2. PlainTextFold!Fold(base, << >>) = base /\ PlainRowFold!Fold(leaf, << >>) = leaf
    BY PlainTextFold!FoldEmpty, PlainRowFold!FoldEmpty
  <2> QED
    BY <1>2, <2>1, <2>2
<1>4. ASSUME NEW ws \in Fine, NEW w \in Plain
      PROVE  Append(ws, w) \in Fine
  <2> DEFINE text == PlainTextFold!Fold(base, ws)
  <2>1. ws \in Seq(Plain) /\ Append(ws, w) \in Seq(Plain) /\ Reads(ws)
    OBVIOUS
  <2> HIDE DEF Fine
  <2>2. PlainTextFold!Fold(base, Append(ws, w)) = Enclose(text, w)
    BY <2>1, PlainTextFold!FoldAppend
  <2>3. PlainRowFold!Fold(leaf, Append(ws, w)) = Shape(PlainRowFold!Fold(leaf, ws), w)
    BY <2>1, PlainRowFold!FoldAppend
  <2>4. text \in Seq(Words) /\ ChTypeToRust[text] = PlainRowFold!Fold(leaf, ws)
    BY <2>1
  <2> HIDE DEF text
  <2>5. Enclose(text, w) \in Seq(Words) /\ ChTypeToRust[Enclose(text, w)] = Shape(ChTypeToRust[text], w)
    BY <2>4, PlainReads
  <2>6. Reads(Append(ws, w))
    BY <2>2, <2>3, <2>4, <2>5, Zenon
  <2> QED
    BY <2>1, <2>6 DEF Fine
<1>5. Fine = Seq(Plain)
  <2>1. Fine \in SUBSET Seq(Plain)
    OBVIOUS
  <2> HIDE DEF Fine
  <2> QED
    BY <1>3, <1>4, <2>1, PlainTextFold!SequenceInduction
<1>6. Reads(k.wraps)
  BY <1>1, <1>5
<1>7. KeyText(k) = PlainTextFold!Fold(base, k.wraps)
  BY PlainTextIsFold DEF KeyText, base
<1>8. KeyRow(k) = PlainRowFold!Fold(leaf, k.wraps)
  BY PlainRowIsFold DEF KeyRow, Core, leaf, base
<1> QED
  BY <1>6, <1>7, <1>8, Zenon

LEMMA WrapReads ==
    ASSUME NEW text \in Seq(Words), NEW w \in Wrappers
    PROVE  /\ EncloseAny(text, w) \in Seq(Words)
           /\ ChTypeToRust[EncloseAny(text, w)] = ShapeAny(ChTypeToRust[text], w)
<1>1. CASE w \in Plain
  <2>1. w.head # "Map"
    <3>1. w.head \in Heads
      BY <1>1 DEF Plain
    <3> QED
      BY <3>1 DEF Heads
  <2>2. EncloseAny(text, w) = Enclose(text, w) /\ \A row : ShapeAny(row, w) = Shape(row, w)
    BY <2>1 DEF EncloseAny, ShapeAny
  <2>3. Enclose(text, w) \in Seq(Words) /\ ChTypeToRust[Enclose(text, w)] = Shape(ChTypeToRust[text], w)
    BY <1>1, PlainReads
  <2> QED
    BY <2>2, <2>3
<1>2. CASE w \in [head : {"Map"}, key : Keys]
  <2>1. w.key \in Keys
    BY <1>2
  <2>2. KeyText(w.key) \in Seq(Words) /\ ChTypeToRust[KeyText(w.key)] = KeyRow(w.key)
    BY <2>1, KeyReads
  <2> QED
    BY <1>2, <2>2, MapReads
<1> QED
  BY <1>1, <1>2 DEF Wrappers

(* The parser inverts the server's spelling, however deep the type.        *)
THEOREM TextsAreRead ==
    ASSUME NEW t \in Type
    PROVE  ChTypeToRust[Text(t)] = RowType(t)
<1> DEFINE base == t.base
           leaf == Leaf(RustScalar(base[1]))
           Reads(ws) == /\ TextFold!Fold(base, ws) \in Seq(Words)
                        /\ ChTypeToRust[TextFold!Fold(base, ws)] = RowFold!Fold(leaf, ws)
           Fine == {ws \in Seq(Wrappers) : Reads(ws)}
<1>1. t.wraps \in Seq(Wrappers) /\ base \in Types
  BY DEF Type
<1>2. base \in Seq(Words) /\ ChTypeToRust[base] = leaf
  BY <1>1, BaseReads
<1> HIDE DEF base, leaf
<1>3. << >> \in Fine
  <2>1. << >> \in Seq(Wrappers)
    OBVIOUS
  <2>2. TextFold!Fold(base, << >>) = base /\ RowFold!Fold(leaf, << >>) = leaf
    BY TextFold!FoldEmpty, RowFold!FoldEmpty
  <2> QED
    BY <1>2, <2>1, <2>2
<1>4. ASSUME NEW ws \in Fine, NEW w \in Wrappers
      PROVE  Append(ws, w) \in Fine
  <2> DEFINE text == TextFold!Fold(base, ws)
  <2>1. ws \in Seq(Wrappers) /\ Append(ws, w) \in Seq(Wrappers) /\ Reads(ws)
    OBVIOUS
  <2> HIDE DEF Fine
  <2>2. TextFold!Fold(base, Append(ws, w)) = EncloseAny(text, w)
    BY <2>1, TextFold!FoldAppend
  <2>3. RowFold!Fold(leaf, Append(ws, w)) = ShapeAny(RowFold!Fold(leaf, ws), w)
    BY <2>1, RowFold!FoldAppend
  <2>4. text \in Seq(Words) /\ ChTypeToRust[text] = RowFold!Fold(leaf, ws)
    BY <2>1
  <2> HIDE DEF text
  <2>5. EncloseAny(text, w) \in Seq(Words) /\ ChTypeToRust[EncloseAny(text, w)] = ShapeAny(ChTypeToRust[text], w)
    BY <2>4, WrapReads
  <2>6. Reads(Append(ws, w))
    BY <2>2, <2>3, <2>4, <2>5, Zenon
  <2> QED
    BY <2>1, <2>6 DEF Fine
<1>5. Fine = Seq(Wrappers)
  <2>1. Fine \in SUBSET Seq(Wrappers)
    OBVIOUS
  <2> HIDE DEF Fine
  <2> QED
    BY <1>3, <1>4, <2>1, TextFold!SequenceInduction
<1>6. Reads(t.wraps)
  BY <1>1, <1>5
<1>7. Text(t) = TextFold!Fold(base, t.wraps)
  BY TextIsFold DEF Text, base
<1>8. RowType(t) = RowFold!Fold(leaf, t.wraps)
  BY RowIsFold DEF RowType, Core, leaf, base
<1> QED
  BY <1>6, <1>7, <1>8, Zenon

LEMMA FieldOf ==
    ASSUME ColumnsOK, NEW i \in DOMAIN columns
    PROVE  /\ columns[i].name \in Name /\ columns[i].type \in Type
           /\ columns[i].default \in {"none", "empty", "now()"}
           /\ IntrospectRowStruct(columns)[i] =
                 [ident |-> RustField(columns[i].name), rename |-> RustField(columns[i].name) # columns[i].name,
                  column |-> columns[i].name, type |-> RowType(columns[i].type)]
<1>1. /\ columns[i].name \in Name /\ columns[i].type \in Type
      /\ columns[i].default \in {"none", "empty", "now()"}
  <2> DEFINE Columns == [name : Name, type : Type, default : {"none", "empty", "now()"}]
  <2> HIDE DEF Columns
  <2>1. columns \in Seq(Columns)
    BY DEF ColumnsOK, Columns
  <2>2. columns[i] \in Columns
    BY <2>1
  <2> QED
    BY <2>2 DEF Columns
<1> DEFINE pairs == [j \in DOMAIN columns |-> [name |-> columns[j].name, text |-> Text(columns[j].type)]]
<1>2. DOMAIN pairs = DOMAIN columns /\ pairs[i].name = columns[i].name /\ pairs[i].text = Text(columns[i].type)
  OBVIOUS
<1>3. IntrospectRowStruct(columns) = RowStruct(pairs)
  BY DEF IntrospectRowStruct
<1> HIDE DEF pairs
<1>4. RowStruct(pairs)[i] =
         [ident |-> RustField(pairs[i].name), rename |-> RustField(pairs[i].name) # pairs[i].name,
          column |-> pairs[i].name, type |-> ChTypeToRust[pairs[i].text]]
  BY <1>2 DEF RowStruct
<1>5. ChTypeToRust[Text(columns[i].type)] = RowType(columns[i].type)
  BY <1>1, TextsAreRead
<1> QED
  BY <1>1, <1>2, <1>3, <1>4, <1>5, Zenon

(* For types wrapped to any depth and for any keys, the Rust row has the   *)
(* shape of the live table and names its columns.                          *)
THEOREM RowStructsAreFaithful == Spec => []RowStructFaithful
<1>1. ColumnsOK => RowStructFaithful
  <2> SUFFICES ASSUME ColumnsOK, NEW i \in DOMAIN columns
               PROVE  LET field == IntrospectRowStruct(columns)[i] IN
                      /\ field.type = RowType(columns[i].type)
                      /\ field.column = columns[i].name
                      /\ field.rename \/ field.ident = field.column
    BY DEF RowStructFaithful
  <2> DEFINE field == IntrospectRowStruct(columns)[i]
             name  == columns[i].name
  <2>1. field = [ident |-> RustField(name), rename |-> RustField(name) # name,
                 column |-> name, type |-> RowType(columns[i].type)]
    BY FieldOf
  <2> HIDE DEF field
  <2>2. field.type = RowType(columns[i].type) /\ field.column = name /\ field.ident = RustField(name)
    BY <2>1
  <2>3. field.rename = (RustField(name) # name)
    BY <2>1
  <2>4. field.rename \/ field.ident = field.column
    BY <2>2, <2>3, Zenon
  <2> QED
    BY <2>2, <2>4 DEF field
<1> QED
  BY <1>1, ColumnsInvariance, PTL
-----------------------------------------------------------------------------
(* Nulls.                                                                  *)

Around(ws, base) == [wraps |-> ws, base |-> base]

LEMMA HeadOf ==
    ASSUME NEW w \in Wrappers
    PROVE  w.head \in {"Nullable", "LowCardinality", "Array", "Map"}
<1>1. CASE w \in Plain
  <2>1. w.head \in Heads
    BY <1>1 DEF Plain
  <2> QED
    BY <2>1 DEF Heads
<1>2. CASE w \in [head : {"Map"}, key : Keys]
  BY <1>2
<1> QED
  BY <1>1, <1>2 DEF Wrappers

(* Only the outermost wrapper counts, but for LowCardinality.              *)
LEMMA NullableOutside ==
    ASSUME NEW base, NEW ws \in Seq(Wrappers), NEW w \in Wrappers
    PROVE  IsNullable(Around(Append(ws, w), base)) <=>
              w.head = "Nullable" \/ (w.head = "LowCardinality" /\ IsNullable(Around(ws, base)))
<1> DEFINE n == Len(ws)
           more == Append(ws, w)
           Opens(s, i) == /\ i \in DOMAIN s /\ s[i].head = "Nullable"
                          /\ \A j \in DOMAIN s : j > i => s[j].head = "LowCardinality"
<1>2. /\ n \in Nat /\ DOMAIN ws = 1..n /\ DOMAIN more = 1..(n + 1) /\ more[n + 1] = w
      /\ \A i \in 1..n : more[i] = ws[i]
  OBVIOUS
<1>3. \A s : IsNullable(Around(s, base)) <=> \E i : Opens(s, i)
  BY DEF IsNullable, Around
<1> HIDE DEF n, more
<1>4. ASSUME NEW i, Opens(more, i)
      PROVE  w.head = "Nullable" \/ (w.head = "LowCardinality" /\ \E j : Opens(ws, j))
  <2>1. CASE i = n + 1
    <3>1. more[i].head = "Nullable"
      BY <1>4
    <3>2. more[i] = w
      BY <1>2, <2>1
    <3> QED
      BY <3>1, <3>2
  <2>2. CASE i # n + 1
    <3>1. i \in 1..n /\ n + 1 > i /\ n + 1 \in DOMAIN more
      BY <1>2, <1>4, <2>2
    <3>2. w.head = "LowCardinality"
      BY <1>2, <1>4, <3>1
    <3>3. \A j \in 1..n : j \in DOMAIN more /\ more[j] = ws[j]
      BY <1>2
    <3>4. Opens(ws, i)
      BY <1>2, <1>4, <3>1, <3>3
    <3> QED
      BY <3>2, <3>4
  <2> QED
    BY <2>1, <2>2
<1>5. ASSUME w.head = "Nullable"
      PROVE  Opens(more, n + 1)
  BY <1>2, <1>5
<1>6. ASSUME w.head = "LowCardinality", NEW i, Opens(ws, i)
      PROVE  Opens(more, i)
  <2>1. i \in DOMAIN more /\ more[i].head = "Nullable"
    BY <1>2, <1>6
  <2>2. ASSUME NEW j \in DOMAIN more, j > i
        PROVE  more[j].head = "LowCardinality"
    <3>1. CASE j = n + 1
      BY <1>2, <1>6, <3>1
    <3>2. CASE j # n + 1
      <4>1. j \in DOMAIN ws /\ more[j] = ws[j]
        BY <1>2, <3>2
      <4> QED
        BY <1>6, <2>2, <4>1
    <3> QED
      BY <3>1, <3>2
  <2> QED
    BY <2>1, <2>2
<1>7. IsNullable(Around(more, base)) <=>
         w.head = "Nullable" \/ (w.head = "LowCardinality" /\ IsNullable(Around(ws, base)))
  <2> HIDE DEF Opens
  <2>1. ASSUME \E i : Opens(more, i)
        PROVE  w.head = "Nullable" \/ (w.head = "LowCardinality" /\ \E j : Opens(ws, j))
    BY <1>4, <2>1
  <2>2. ASSUME w.head = "Nullable" \/ (w.head = "LowCardinality" /\ \E j : Opens(ws, j))
        PROVE  \E i : Opens(more, i)
    BY <1>5, <1>6, <2>2
  <2> QED
    BY <1>3, <2>1, <2>2
<1> QED
  BY <1>7 DEF more

(* A claim about the wrappers of a type that holds of none and stays with  *)
(* one more holds of every type.                                           *)
LEMMA WrapInduction ==
    ASSUME NEW Fine \in SUBSET Seq(Wrappers), << >> \in Fine,
           \A ws \in Fine : \A w \in Wrappers : Append(ws, w) \in Fine
    PROVE  \A t \in Type : t.wraps \in Fine /\ t = Around(t.wraps, t.base)
<1>1. Fine = Seq(Wrappers)
  BY TextFold!SequenceInduction
<1>2. \A t \in Type : t.wraps \in Seq(Wrappers) /\ t = Around(t.wraps, t.base)
  BY DEF Type, Around
<1> QED
  BY <1>1, <1>2

LEMMA Unwrapped ==
    ASSUME NEW base, NEW core
    PROVE  /\ RowType(Around(<< >>, base)) = Leaf(RustScalar(base[1]))
           /\ Accepts(core, Around(<< >>, base)) = core
           /\ ~IsNullable(Around(<< >>, base))
<1>1. RowType(Around(<< >>, base)) = Leaf(RustScalar(base[1]))
  <2>1. RowFold!Fold(Leaf(RustScalar(base[1])), << >>) = Leaf(RustScalar(base[1]))
    BY RowFold!FoldEmpty
  <2> QED
    BY <2>1, RowIsFold DEF RowType, Core, Around
<1>2. Accepts(core, Around(<< >>, base)) = core
  <2>1. AcceptFold!Fold(core, << >>) = core
    BY AcceptFold!FoldEmpty
  <2> QED
    BY <2>1, AcceptIsFold DEF Accepts, Around
<1>3. ~IsNullable(Around(<< >>, base))
  BY DEF IsNullable, Around
<1> QED
  BY <1>1, <1>2, <1>3

LEMMA RowGrows ==
    ASSUME NEW base, NEW ws \in Seq(Wrappers), NEW w \in Wrappers
    PROVE  RowType(Around(Append(ws, w), base)) = ShapeAny(RowType(Around(ws, base)), w)
<1> DEFINE leaf == Leaf(RustScalar(base[1]))
<1>1. \A s : RowType(Around(s, base)) = RowFold!Fold(leaf, s)
  BY RowIsFold DEF RowType, Core, Around
<1> HIDE DEF leaf
<1>2. RowFold!Fold(leaf, Append(ws, w)) = ShapeAny(RowFold!Fold(leaf, ws), w)
  BY RowFold!FoldAppend
<1> QED
  BY <1>1, <1>2

LEMMA ValuesGrow ==
    ASSUME NEW core, NEW base, NEW ws \in Seq(Wrappers), NEW w \in Wrappers
    PROVE  Accepts(core, Around(Append(ws, w), base)) = Accept(Accepts(core, Around(ws, base)), w)
<1>1. \A s : Accepts(core, Around(s, base)) = AcceptFold!Fold(core, s)
  BY AcceptIsFold DEF Accepts, Around
<1>2. AcceptFold!Fold(core, Append(ws, w)) = Accept(AcceptFold!Fold(core, ws), w)
  BY AcceptFold!FoldAppend
<1> QED
  BY <1>1, <1>2

LEMMA NotAnOption == ASSUME NEW word PROVE RustScalar(word) # "Option"
BY DEF RustScalar

(* What a wrapper makes of a row and of the values.                        *)
LEMMA WrapperMakes ==
    ASSUME NEW w \in Wrappers, NEW row, NEW values
    PROVE  /\ w.head = "Nullable" =>
                 ShapeAny(row, w).head = "Option" /\ Accept(values, w) = values \cup {"null"}
           /\ w.head = "LowCardinality" =>
                 ShapeAny(row, w) = row /\ Accept(values, w) = values
           /\ w.head = "Array" =>
                 ShapeAny(row, w).head = "Vec" /\ Accept(values, w) = {"texts"}
           /\ w.head = "Map" =>
                 ShapeAny(row, w).head = "HashMap" /\ Accept(values, w) = {"text map"}
<1>1. w.head = "Nullable" => ShapeAny(row, w).head = "Option" /\ Accept(values, w) = values \cup {"null"}
  BY DEF ShapeAny, Shape, Accept, Of
<1>2. w.head = "LowCardinality" => ShapeAny(row, w) = row /\ Accept(values, w) = values
  BY DEF ShapeAny, Shape, Accept
<1>3. w.head = "Array" => ShapeAny(row, w).head = "Vec" /\ Accept(values, w) = {"texts"}
  BY DEF ShapeAny, Shape, Accept, Of
<1>4. w.head = "Map" => ShapeAny(row, w).head = "HashMap" /\ Accept(values, w) = {"text map"}
  BY DEF ShapeAny, Shape, Accept, Of
<1> QED
  BY <1>1, <1>2, <1>3, <1>4

(* A column is null in Rust where it is in the emitted interface.          *)
LEMMA NullableRows ==
    ASSUME NEW t \in Type
    PROVE  RowType(t).head = "Option" <=> IsNullable(t)
<1> DEFINE base == t.base
           Agrees(ws) == RowType(Around(ws, base)).head = "Option" <=> IsNullable(Around(ws, base))
           Fine == {ws \in Seq(Wrappers) : Agrees(ws)}
<1> HIDE DEF base
<1>1. << >> \in Fine
  <2>1. RowType(Around(<< >>, base)).head = RustScalar(base[1])
    BY Unwrapped DEF Leaf, Of
  <2>2. Agrees(<< >>)
    BY <2>1, NotAnOption, Unwrapped
  <2> QED
    BY <2>2
<1>2. ASSUME NEW ws \in Fine, NEW w \in Wrappers
      PROVE  Append(ws, w) \in Fine
  <2>1. ws \in Seq(Wrappers) /\ Append(ws, w) \in Seq(Wrappers) /\ Agrees(ws)
    OBVIOUS
  <2> HIDE DEF Fine
  <2> DEFINE row == RowType(Around(ws, base))
  <2>2. RowType(Around(Append(ws, w), base)) = ShapeAny(row, w)
    BY <2>1, RowGrows
  <2>3. IsNullable(Around(Append(ws, w), base)) <=>
           w.head = "Nullable" \/ (w.head = "LowCardinality" /\ IsNullable(Around(ws, base)))
    BY <2>1, NullableOutside
  <2>4. row.head = "Option" <=> IsNullable(Around(ws, base))
    BY <2>1
  <2> HIDE DEF row
  <2>5. /\ w.head = "Nullable" => ShapeAny(row, w).head = "Option"
        /\ w.head = "LowCardinality" => ShapeAny(row, w) = row
        /\ w.head = "Array" => ShapeAny(row, w).head = "Vec"
        /\ w.head = "Map" => ShapeAny(row, w).head = "HashMap"
    BY WrapperMakes
  <2>6. w.head \in {"Nullable", "LowCardinality", "Array", "Map"}
    BY HeadOf
  <2>7. ShapeAny(row, w).head = "Option" <=>
           w.head = "Nullable" \/ (w.head = "LowCardinality" /\ row.head = "Option")
    BY <2>5, <2>6
  <2>8. Agrees(Append(ws, w))
    BY <2>2, <2>3, <2>4, <2>7
  <2> QED
    BY <2>1, <2>8 DEF Fine
<1>3. t.wraps \in Fine /\ t = Around(t.wraps, base)
  <2>1. Fine \in SUBSET Seq(Wrappers)
    OBVIOUS
  <2> HIDE DEF Fine
  <2> QED
    BY <1>1, <1>2, <2>1, WrapInduction DEF base
<1> QED
  BY <1>3

(* So it is where null is a value of its schema, unless its core accepts   *)
(* null anyway.                                                            *)
LEMMA NullValues ==
    ASSUME NEW t \in Type, NEW core, "null" \notin core
    PROVE  "null" \in Accepts(core, t) <=> IsNullable(t)
<1> DEFINE base == t.base
           Agrees(ws) == "null" \in Accepts(core, Around(ws, base)) <=> IsNullable(Around(ws, base))
           Fine == {ws \in Seq(Wrappers) : Agrees(ws)}
<1> HIDE DEF base
<1>1. << >> \in Fine
  <2>1. Agrees(<< >>)
    BY Unwrapped
  <2> QED
    BY <2>1
<1>2. ASSUME NEW ws \in Fine, NEW w \in Wrappers
      PROVE  Append(ws, w) \in Fine
  <2>1. ws \in Seq(Wrappers) /\ Append(ws, w) \in Seq(Wrappers) /\ Agrees(ws)
    OBVIOUS
  <2> HIDE DEF Fine
  <2> DEFINE values == Accepts(core, Around(ws, base))
  <2>2. Accepts(core, Around(Append(ws, w), base)) = Accept(values, w)
    BY <2>1, ValuesGrow
  <2>3. IsNullable(Around(Append(ws, w), base)) <=>
           w.head = "Nullable" \/ (w.head = "LowCardinality" /\ IsNullable(Around(ws, base)))
    BY <2>1, NullableOutside
  <2>4. "null" \in values <=> IsNullable(Around(ws, base))
    BY <2>1
  <2> HIDE DEF values
  <2>5. /\ w.head = "Nullable" => Accept(values, w) = values \cup {"null"}
        /\ w.head = "LowCardinality" => Accept(values, w) = values
        /\ w.head = "Array" => Accept(values, w) = {"texts"}
        /\ w.head = "Map" => Accept(values, w) = {"text map"}
    BY WrapperMakes
  <2>6. w.head \in {"Nullable", "LowCardinality", "Array", "Map"}
    BY HeadOf
  <2>7. "null" \in Accept(values, w) <=>
           w.head = "Nullable" \/ (w.head = "LowCardinality" /\ "null" \in values)
    BY <2>5, <2>6
  <2>8. Agrees(Append(ws, w))
    BY <2>2, <2>3, <2>4, <2>7
  <2> QED
    BY <2>1, <2>8 DEF Fine
<1>3. t.wraps \in Fine /\ t = Around(t.wraps, base)
  <2>1. Fine \in SUBSET Seq(Wrappers)
    OBVIOUS
  <2> HIDE DEF Fine
  <2> QED
    BY <1>1, <1>2, <2>1, WrapInduction DEF base
<1> QED
  BY <1>3

LEMMA FieldsOf ==
    ASSUME NEW i \in DOMAIN columns, NEW insert \in BOOLEAN
    PROVE  /\ RowInterface(columns)[i].optional = IsNullable(columns[i].type)
           /\ RowInterface(columns)[i].values = TsType(columns[i].type)
           /\ ZodObject(columns, insert)[i].values = ZodType(columns[i].type)
           /\ ZodObject(columns, insert)[i].optional = (insert /\ columns[i].default # "none")
           /\ KitSchema(columns, insert)[i].values = ColumnFromTypeSpec(columns[i].type)
           /\ KitSchema(columns, insert)[i].optional = (insert /\ columns[i].default = "now()")
<1>1. /\ RowInterface(columns)[i].optional = IsNullable(columns[i].type)
      /\ RowInterface(columns)[i].values = TsType(columns[i].type)
  BY DEF RowInterface
<1>2. /\ ZodObject(columns, insert)[i].values = ZodType(columns[i].type)
      /\ ZodObject(columns, insert)[i].optional = (insert /\ columns[i].default # "none")
  BY DEF ZodObject
<1>3. /\ KitSchema(columns, insert)[i].values = ColumnFromTypeSpec(columns[i].type)
      /\ KitSchema(columns, insert)[i].optional = (insert /\ columns[i].default = "now()")
  BY DEF KitSchema
<1> QED
  BY <1>1, <1>2, <1>3

(* What the scalars of a specification accept.                             *)
LEMMA ScalarsAccept ==
    ASSUME NEW s \in Scalars
    PROVE  /\ TsScalar(s) = ZodScalar(s)
           /\ s # "JSON" => "null" \notin TsScalar(s) /\ "null" \notin ZodScalar(s) /\ "null" \notin KitScalar(s)
           /\ s \notin Wide =>
                 /\ KitScalar(s) \subseteq ZodScalar(s)
                 /\ s # "JSON" => ZodScalar(s) \ KitScalar(s) \subseteq {"fraction"}
<1>1. TsScalar(s) = ZodScalar(s)
  BY DEF TsScalar, ZodScalar
<1>2. CASE s \in Texts
  <2>1. TsScalar(s) = {"text"} /\ ZodScalar(s) = {"text"} /\ KitScalar(s) = {"text"}
    <3>1. s # "Bool" /\ s # "JSON" /\ s \notin Narrow
      BY <1>2 DEF Texts, Narrow
    <3> QED
      BY <1>2, <3>1 DEF TsScalar, ZodScalar, KitScalar
  <2> QED
    BY <1>1, <2>1
<1>3. CASE s \in Narrow
  <2>1. ZodScalar(s) = {"whole", "fraction"} /\ KitScalar(s) = {"whole"}
    <3>1. s # "Bool" /\ s # "JSON" /\ s \notin Texts /\ s \notin Wide
      BY <1>3 DEF Texts, Narrow, Wide
    <3> QED
      BY <1>3, <3>1 DEF ZodScalar, KitScalar
  <2> QED
    BY <1>1, <2>1
<1>4. CASE s \in Wide
  <2>1. ZodScalar(s) = {"whole", "fraction"} /\ KitScalar(s) = {"text"}
    <3>1. s # "Bool" /\ s # "JSON" /\ s \notin Texts /\ s \notin Narrow
      BY <1>4 DEF Texts, Narrow, Wide
    <3> QED
      BY <1>4, <3>1 DEF ZodScalar, KitScalar
  <2> QED
    BY <1>1, <1>4, <2>1
<1>5. CASE s \in Floats
  <2>1. ZodScalar(s) = {"whole", "fraction"} /\ KitScalar(s) = {"whole", "fraction"}
    <3>1. s # "Bool" /\ s # "JSON" /\ s \notin Texts /\ s \notin Narrow /\ s \notin Wide
      BY <1>5 DEF Texts, Narrow, Wide, Floats
    <3> QED
      BY <1>5, <3>1 DEF ZodScalar, KitScalar
  <2> QED
    BY <1>1, <2>1
<1>6. CASE s = "Bool"
  <2>1. ZodScalar(s) = {"truth"} /\ KitScalar(s) = {"truth"}
    <3>1. s # "JSON" /\ s \notin Texts /\ s \notin Narrow /\ s \notin Wide
      BY <1>6 DEF Texts, Narrow, Wide
    <3> QED
      BY <1>6, <3>1 DEF ZodScalar, KitScalar
  <2> QED
    BY <1>1, <2>1
<1>7. CASE s = "JSON"
  <2>1. ZodScalar(s) = Values /\ KitScalar(s) = {"text map", "object"}
    <3>1. s # "Bool" /\ s \notin Texts /\ s \notin Narrow /\ s \notin Wide
      BY <1>7 DEF Texts, Narrow, Wide
    <3> QED
      BY <1>7, <3>1 DEF ZodScalar, KitScalar
  <2> QED
    BY <1>1, <1>7, <2>1 DEF Values
<1> QED
  BY <1>2, <1>3, <1>4, <1>5, <1>6, <1>7 DEF Scalars

(* For types wrapped to any depth the bindings agree on what may be null.  *)
THEOREM BindingsAgreeOnNulls == Spec => []NullsAgree
<1>1. ColumnsOK => NullsAgree
  <2> SUFFICES ASSUME ColumnsOK, NEW i \in DOMAIN columns,
                      Allowed(columns[i].type), Core(columns[i].type) # "JSON"
               PROVE  LET t == columns[i].type
                          null == IntrospectRowStruct(columns)[i].type.head = "Option"
                      IN  /\ RowInterface(columns)[i].optional <=> null
                          /\ \A values \in {TsType(t), ZodType(t), ColumnFromTypeSpec(t)} :
                                 "null" \in values <=> null
    BY DEF NullsAgree
  <2> DEFINE t == columns[i].type
             null == IntrospectRowStruct(columns)[i].type.head = "Option"
             core == Core(t)
  <2>1. t \in Type /\ IntrospectRowStruct(columns)[i].type = RowType(t)
    <3> DEFINE field == IntrospectRowStruct(columns)[i]
               ident == RustField(columns[i].name)
               rename == RustField(columns[i].name) # columns[i].name
               row == RowType(t)
    <3>1. t \in Type /\ field = [ident |-> ident, rename |-> rename, column |-> columns[i].name, type |-> row]
      BY FieldOf
    <3> HIDE DEF t, field, ident, rename, row
    <3>2. t \in Type /\ field.type = row
      BY <3>1
    <3> QED
      BY <3>2 DEF field, row
  <2>2. core \in Scalars /\ core # "JSON"
    BY DEF Allowed
  <2>3. RowInterface(columns)[i].optional = IsNullable(t)
    BY FieldsOf
  <2>4. /\ TsType(t) = Accepts(TsScalar(core), t) /\ ZodType(t) = Accepts(ZodScalar(core), t)
        /\ ColumnFromTypeSpec(t) = Accepts(KitScalar(core), t)
    BY DEF TsType, ZodType, ColumnFromTypeSpec
  <2> HIDE DEF t, core
  <2>5. null <=> IsNullable(t)
    BY <2>1, NullableRows
  <2> HIDE DEF null
  <2>6. "null" \notin TsScalar(core) /\ "null" \notin ZodScalar(core) /\ "null" \notin KitScalar(core)
    BY <2>2, ScalarsAccept
  <2>7. /\ "null" \in TsType(t) <=> IsNullable(t)
        /\ "null" \in ZodType(t) <=> IsNullable(t)
        /\ "null" \in ColumnFromTypeSpec(t) <=> IsNullable(t)
    BY <2>1, <2>4, <2>6, NullValues
  <2>8. /\ RowInterface(columns)[i].optional <=> null
        /\ \A values \in {TsType(t), ZodType(t), ColumnFromTypeSpec(t)} : "null" \in values <=> null
    BY <2>3, <2>5, <2>7
  <2> QED
    BY <2>8 DEF t, null
<1> QED
  BY <1>1, ColumnsInvariance, PTL
-----------------------------------------------------------------------------
(* Values.                                                                 *)

(* Wrapping widens no gap between what two cores accept.                   *)
LEMMA GapsStay ==
    ASSUME NEW A, NEW B, NEW D, A \subseteq B, B \ A \subseteq D, NEW t \in Type
    PROVE  Accepts(A, t) \subseteq Accepts(B, t) /\ Accepts(B, t) \ Accepts(A, t) \subseteq D
<1> DEFINE base == t.base
           Close(ws) == /\ Accepts(A, Around(ws, base)) \subseteq Accepts(B, Around(ws, base))
                        /\ Accepts(B, Around(ws, base)) \ Accepts(A, Around(ws, base)) \subseteq D
           Fine == {ws \in Seq(Wrappers) : Close(ws)}
<1> HIDE DEF base
<1>1. << >> \in Fine
  <2>1. Accepts(A, Around(<< >>, base)) = A /\ Accepts(B, Around(<< >>, base)) = B
    BY Unwrapped
  <2> QED
    BY <2>1
<1>2. ASSUME NEW ws \in Fine, NEW w \in Wrappers
      PROVE  Append(ws, w) \in Fine
  <2>1. ws \in Seq(Wrappers) /\ Append(ws, w) \in Seq(Wrappers) /\ Close(ws)
    OBVIOUS
  <2> HIDE DEF Fine
  <2> DEFINE less == Accepts(A, Around(ws, base))
             more == Accepts(B, Around(ws, base))
  <2>2. /\ Accepts(A, Around(Append(ws, w), base)) = Accept(less, w)
        /\ Accepts(B, Around(Append(ws, w), base)) = Accept(more, w)
    BY <2>1, ValuesGrow
  <2>3. less \subseteq more /\ more \ less \subseteq D
    BY <2>1
  <2> HIDE DEF less, more
  <2>4. \A values :
           /\ w.head = "Nullable" => Accept(values, w) = values \cup {"null"}
           /\ w.head = "LowCardinality" => Accept(values, w) = values
           /\ w.head = "Array" => Accept(values, w) = {"texts"}
           /\ w.head = "Map" => Accept(values, w) = {"text map"}
    BY WrapperMakes
  <2>5. w.head \in {"Nullable", "LowCardinality", "Array", "Map"}
    BY HeadOf
  <2>6. Accept(less, w) \subseteq Accept(more, w) /\ Accept(more, w) \ Accept(less, w) \subseteq D
    BY <2>3, <2>4, <2>5
  <2>7. Close(Append(ws, w))
    BY <2>2, <2>6
  <2> QED
    BY <2>1, <2>7 DEF Fine
<1>3. t.wraps \in Fine /\ t = Around(t.wraps, base)
  <2>1. Fine \in SUBSET Seq(Wrappers)
    OBVIOUS
  <2> HIDE DEF Fine
  <2> QED
    BY <1>1, <1>2, <2>1, WrapInduction DEF base
<1> QED
  BY <1>3

(* For types wrapped to any depth the emitted schemas accept what the      *)
(* kit's do, and fractions and any JSON besides.                           *)
THEOREM EmittedSchemasAcceptKitRows == Spec => []EmittedAcceptsKitRows
<1>1. ColumnsOK => EmittedAcceptsKitRows
  <2> SUFFICES ASSUME ColumnsOK, NEW i \in DOMAIN columns, Allowed(columns[i].type)
               PROVE  LET t == columns[i].type IN
                      /\ RowInterface(columns)[i].values = ZodObject(columns, FALSE)[i].values
                      /\ \A insert \in BOOLEAN :
                             LET emitted == ZodObject(columns, insert)[i]
                                 kit     == KitSchema(columns, insert)[i]
                             IN  /\ columns[i].default # "empty" => emitted.optional = kit.optional
                                 /\ Core(t) \notin Wide =>
                                        /\ kit.values \subseteq emitted.values
                                        /\ Core(t) # "JSON" => emitted.values \ kit.values \subseteq {"fraction"}
    BY DEF EmittedAcceptsKitRows
  <2> DEFINE t == columns[i].type
             core == Core(t)
  <2>1. t \in Type /\ columns[i].default \in {"none", "empty", "now()"}
    BY FieldOf
  <2>2. core \in Scalars
    BY DEF Allowed
  <2>3. /\ TsType(t) = Accepts(TsScalar(core), t) /\ ZodType(t) = Accepts(ZodScalar(core), t)
        /\ ColumnFromTypeSpec(t) = Accepts(KitScalar(core), t)
    BY DEF TsType, ZodType, ColumnFromTypeSpec
  <2>4. RowInterface(columns)[i].values = TsType(t)
    BY FieldsOf
  <2>5. \A insert \in BOOLEAN :
           /\ ZodObject(columns, insert)[i].values = ZodType(t)
           /\ ZodObject(columns, insert)[i].optional = (insert /\ columns[i].default # "none")
           /\ KitSchema(columns, insert)[i].values = ColumnFromTypeSpec(t)
           /\ KitSchema(columns, insert)[i].optional = (insert /\ columns[i].default = "now()")
    BY FieldsOf
  <2> HIDE DEF t, core
  <2>6. /\ TsScalar(core) = ZodScalar(core)
        /\ core \notin Wide =>
              /\ KitScalar(core) \subseteq ZodScalar(core)
              /\ core # "JSON" => ZodScalar(core) \ KitScalar(core) \subseteq {"fraction"}
    BY <2>2, ScalarsAccept
  <2>7. RowInterface(columns)[i].values = ZodObject(columns, FALSE)[i].values
    BY <2>3, <2>4, <2>5, <2>6
  <2>8. ASSUME core \notin Wide
        PROVE  /\ ColumnFromTypeSpec(t) \subseteq ZodType(t)
               /\ core # "JSON" => ZodType(t) \ ColumnFromTypeSpec(t) \subseteq {"fraction"}
    <3> DEFINE D == IF core # "JSON" THEN {"fraction"} ELSE ZodScalar(core)
    <3>1. KitScalar(core) \subseteq ZodScalar(core) /\ ZodScalar(core) \ KitScalar(core) \subseteq D
      BY <2>6, <2>8
    <3> HIDE DEF D
    <3>2. /\ Accepts(KitScalar(core), t) \subseteq Accepts(ZodScalar(core), t)
          /\ Accepts(ZodScalar(core), t) \ Accepts(KitScalar(core), t) \subseteq D
      BY <2>1, <3>1, GapsStay
    <3> QED
      BY <2>3, <3>2 DEF D
  <2>9. ASSUME NEW insert \in BOOLEAN
        PROVE  /\ columns[i].default # "empty" =>
                     ZodObject(columns, insert)[i].optional = KitSchema(columns, insert)[i].optional
               /\ core \notin Wide =>
                     /\ KitSchema(columns, insert)[i].values \subseteq ZodObject(columns, insert)[i].values
                     /\ core # "JSON" =>
                           ZodObject(columns, insert)[i].values \ KitSchema(columns, insert)[i].values
                              \subseteq {"fraction"}
    <3>1. columns[i].default # "empty" => (columns[i].default # "none" <=> columns[i].default = "now()")
      BY <2>1
    <3>2. columns[i].default # "empty" =>
             ZodObject(columns, insert)[i].optional = KitSchema(columns, insert)[i].optional
      BY <2>5, <3>1, Zenon
    <3> QED
      BY <2>5, <2>8, <3>2
  <2> QED
    BY <2>7, <2>9 DEF t, core
<1> QED
  BY <1>1, ColumnsInvariance, PTL
-----------------------------------------------------------------------------
(* Names.                                                                  *)

Small == DOMAIN Upper
Chars == Letters \cup {Upper[c] : c \in Small}

(* What to_camel_case has written, and whether the next letter is raised.  *)
State(name) == CamelFold!Fold([out |-> << >>, raise |-> FALSE], name)

(* The beginnings of names in snake case.                                  *)
Begun(name) ==
    /\ name # << >> => name[1] \in Small
    /\ \A i \in DOMAIN name : name[i] \in Small \cup {"1", "_"}
    /\ \A i \in DOMAIN name : name[i] = "_" /\ i < Len(name) => name[i + 1] \in Small

(* A beginning shows its first letter, and its last when that is "_".      *)
Shows(state, name) ==
    /\ state = [out |-> state.out, raise |-> state.raise]
    /\ state.out \in Seq(Chars) /\ state.raise \in BOOLEAN
    /\ name = << >> => state.out = << >> /\ state.raise = FALSE
    /\ name # << >> => /\ state.out # << >> /\ state.out[1] = name[1]
                       /\ state.raise <=> name[Len(name)] = "_"

LEMMA Shown ==
    ASSUME NEW out \in Seq(Chars), NEW raise \in BOOLEAN, NEW name,
           name = << >> => out = << >> /\ raise = FALSE,
           name # << >> => out # << >> /\ out[1] = name[1] /\ (raise <=> name[Len(name)] = "_")
    PROVE  Shows([out |-> out, raise |-> raise], name)
BY DEF Shows

LEMMA StateEmpty == State(<< >>) = [out |-> << >>, raise |-> FALSE]
BY CamelFold!FoldEmpty DEF State

LEMMA StateAppend ==
    ASSUME NEW s \in Seq(Letters), NEW c \in Letters
    PROVE  State(Append(s, c)) = Camel(State(s), c)
BY CamelFold!FoldAppend DEF State

LEMMA SmallLetters == Small \subseteq Letters /\ "_" \notin Small /\ \A c \in Small : Up(c) = Upper[c]
BY LettersAssumption DEF Small, Up

LEMMA AppendParts ==
    ASSUME NEW S, NEW s \in Seq(S), NEW c \in S
    PROVE  /\ Append(s, c) \in Seq(S) /\ Append(s, c) # << >>
           /\ Len(s) \in Nat /\ DOMAIN s = 1..Len(s)
           /\ Len(Append(s, c)) = Len(s) + 1 /\ DOMAIN Append(s, c) = 1..(Len(s) + 1)
           /\ Append(s, c)[Len(s) + 1] = c /\ \A i \in DOMAIN s : Append(s, c)[i] = s[i]
           /\ s # << >> => 1 \in DOMAIN s /\ Len(s) \in DOMAIN s
           /\ s = << >> => Append(s, c)[1] = c
OBVIOUS

LEMMA Unappend ==
    ASSUME NEW S, NEW s \in Seq(S), s # << >>
    PROVE  \E t \in Seq(S), c \in S : s = Append(t, c)
<1> DEFINE n == Len(s) - 1
           t == [i \in 1..n |-> s[i]]
<1>1. n \in Nat /\ Len(s) = n + 1 /\ DOMAIN s = 1..(n + 1)
  OBVIOUS
<1> HIDE DEF n
<1>2. t \in Seq(S) /\ Len(t) = n /\ s[n + 1] \in S
  BY <1>1
<1>3. s = Append(t, s[n + 1])
  BY <1>1
<1> HIDE DEF t
<1> QED
  BY <1>2, <1>3

LEMMA SameAppend ==
    ASSUME NEW S, NEW s \in Seq(S), NEW t \in Seq(S), NEW c, NEW d, Append(s, c) = Append(t, d)
    PROVE  s = t /\ c = d
<1> DEFINE u == Append(s, c)
           v == Append(t, d)
<1>1. /\ Len(s) \in Nat /\ Len(u) = Len(s) + 1 /\ u[Len(s) + 1] = c
      /\ \A i \in 1..Len(s) : u[i] = s[i]
  OBVIOUS
<1>2. /\ Len(t) \in Nat /\ Len(v) = Len(t) + 1 /\ v[Len(t) + 1] = d
      /\ \A i \in 1..Len(t) : v[i] = t[i]
  OBVIOUS
<1>3. u = v
  OBVIOUS
<1> HIDE DEF u, v
<1>4. Len(s) = Len(t)
  BY <1>1, <1>2, <1>3
<1>5. c = d /\ \A i \in 1..Len(s) : s[i] = t[i]
  BY <1>1, <1>2, <1>3, <1>4
<1>6. s = t
  BY <1>4, <1>5
<1> QED
  BY <1>5, <1>6

LEMMA SamePrepend ==
    ASSUME NEW S, NEW u \in Seq(S), NEW v \in Seq(S), NEW x, NEW y, <<x>> \o u = <<y>> \o v
    PROVE  x = y /\ u = v
<1> DEFINE p == <<x>> \o u
           q == <<y>> \o v
<1>1. Len(u) \in Nat /\ Len(p) = Len(u) + 1 /\ p[1] = x /\ \A i \in 1..Len(u) : p[i + 1] = u[i]
  OBVIOUS
<1>2. Len(v) \in Nat /\ Len(q) = Len(v) + 1 /\ q[1] = y /\ \A i \in 1..Len(v) : q[i + 1] = v[i]
  OBVIOUS
<1>3. p = q
  OBVIOUS
<1> HIDE DEF p, q
<1>4. x = y /\ Len(u) = Len(v)
  BY <1>1, <1>2, <1>3
<1>5. ASSUME NEW i \in 1..Len(u)
      PROVE  u[i] = v[i]
  <2>1. p[i + 1] = u[i]
    BY <1>1
  <2>2. q[i + 1] = v[i]
    BY <1>2, <1>4
  <2> QED
    BY <1>3, <2>1, <2>2
<1>6. u = v
  BY <1>4, <1>5
<1> QED
  BY <1>4, <1>6

LEMMA SameTail ==
    ASSUME NEW S, NEW u \in Seq(S), NEW v \in Seq(S), u # << >>, v # << >>, u[1] = v[1], Tail(u) = Tail(v)
    PROVE  u = v
<1> DEFINE x == Tail(u)
           y == Tail(v)
<1>1. /\ Len(u) \in Nat /\ Len(u) > 0 /\ Len(x) = Len(u) - 1
      /\ \A i \in 1..Len(x) : x[i] = u[i + 1]
  OBVIOUS
<1>2. /\ Len(v) \in Nat /\ Len(v) > 0 /\ Len(y) = Len(v) - 1
      /\ \A i \in 1..Len(y) : y[i] = v[i + 1]
  OBVIOUS
<1>3. x = y
  OBVIOUS
<1> HIDE DEF x, y
<1>4. Len(u) = Len(v)
  BY <1>1, <1>2, <1>3
<1>5. ASSUME NEW k \in 1..Len(u)
      PROVE  u[k] = v[k]
  <2>1. CASE k = 1
    BY <2>1
  <2>2. CASE k # 1
    <3> DEFINE i == k - 1
    <3>1. i \in 1..Len(x) /\ i \in 1..Len(y) /\ i + 1 = k
      BY <1>1, <1>2, <1>4, <2>2
    <3> HIDE DEF i
    <3>2. x[i] = u[i + 1] /\ y[i] = v[i + 1]
      BY <1>1, <1>2, <3>1
    <3> QED
      BY <1>3, <3>1, <3>2
  <2> QED
    BY <2>1, <2>2
<1>6. u = v
  BY <1>4, <1>5
<1> QED
  BY <1>6

LEMMA NextWithin ==
    ASSUME NEW n \in Nat, NEW i \in 1..n, i < n
    PROVE  i + 1 \in 1..n
OBVIOUS

(* The beginnings of a beginning, and the letter behind it.                *)
LEMMA BegunShorter ==
    ASSUME NEW s \in Seq(Letters), NEW c \in Letters, Begun(Append(s, c))
    PROVE  /\ Begun(s) /\ c \in Small \cup {"1", "_"}
           /\ s = << >> => c \in Small
           /\ s # << >> /\ s[Len(s)] = "_" => c \in Small
<1> DEFINE t == Append(s, c)
           n == Len(s)
<1>1. /\ n \in Nat /\ DOMAIN s = 1..n /\ Len(t) = n + 1 /\ DOMAIN t = 1..(n + 1)
      /\ t[n + 1] = c /\ t # << >> /\ \A i \in 1..n : t[i] = s[i]
      /\ s # << >> => 1 \in 1..n /\ n \in 1..n
      /\ s = << >> => t[1] = c
  BY AppendParts
<1>2. /\ t # << >> => t[1] \in Small
      /\ \A i \in DOMAIN t : t[i] \in Small \cup {"1", "_"}
      /\ \A i \in DOMAIN t : t[i] = "_" /\ i < Len(t) => t[i + 1] \in Small
  BY DEF Begun
<1> HIDE DEF t
<1>3. \A i \in 1..(n + 1) : t[i] \in Small \cup {"1", "_"}
  BY <1>1, <1>2
<1>4. \A i \in 1..n : t[i] = "_" => t[i + 1] \in Small
  <2>1. \A i \in 1..n : i \in 1..(n + 1) /\ i < n + 1
    BY <1>1
  <2> QED
    BY <1>1, <1>2, <2>1
<1>5. \A i \in 1..n : s[i] \in Small \cup {"1", "_"}
  <2>1. 1..n \subseteq 1..(n + 1)
    BY <1>1
  <2> QED
    BY <1>1, <1>3, <2>1
<1>6. \A i \in 1..n : s[i] = "_" /\ i < n => s[i + 1] \in Small
  <2> SUFFICES ASSUME NEW i \in 1..n, s[i] = "_", i < n PROVE s[i + 1] \in Small
    OBVIOUS
  <2>0. n \in Nat
    BY <1>1
  <2> HIDE DEF n
  <2>1. i + 1 \in 1..n
    BY <2>0, NextWithin
  <2>2. \A k \in 1..n : t[k] = s[k]
    BY <1>1
  <2>3. t[i] = "_" /\ t[i + 1] = s[i + 1]
    BY <2>1, <2>2
  <2> QED
    BY <1>4, <2>3
<1>7. s # << >> => s[1] \in Small
  BY <1>1, <1>2
<1>8. Begun(s)
  BY <1>1, <1>5, <1>6, <1>7 DEF Begun
<1>9. c \in Small \cup {"1", "_"}
  <2>1. n + 1 \in 1..(n + 1)
    BY <1>1
  <2> QED
    BY <1>1, <1>3, <2>1
<1>10. s # << >> /\ s[n] = "_" => c \in Small
  BY <1>1, <1>4
<1> QED
  BY <1>1, <1>2, <1>8, <1>9, <1>10

LEMMA BegunShows == \A name \in Seq(Letters) : Begun(name) => Shows(State(name), name)
<1> DEFINE Fine == {name \in Seq(Letters) : Begun(name) => Shows(State(name), name)}
<1>1. << >> \in Fine
  <2>1. << >> \in Seq(Letters) /\ << >> \in Seq(Chars)
    OBVIOUS
  <2>2. Shows([out |-> << >>, raise |-> FALSE], << >>)
    BY <2>1, Shown
  <2> QED
    BY <2>1, <2>2, StateEmpty
<1>2. ASSUME NEW s \in Fine, NEW c \in Letters
      PROVE  Append(s, c) \in Fine
  <2>1. s \in Seq(Letters) /\ (Begun(s) => Shows(State(s), s))
    OBVIOUS
  <2>2. ASSUME Begun(Append(s, c))
        PROVE  Shows(State(Append(s, c)), Append(s, c))
    <3> DEFINE t == Append(s, c)
               out == State(s).out
               raise == State(s).raise
    <3>1. Begun(s) /\ (s = << >> => c \in Small)
      BY <2>1, <2>2, BegunShorter
    <3>2. State(t) = Camel(State(s), c)
      BY <2>1, StateAppend
    <3>3. State(s) = [out |-> out, raise |-> raise] /\ out \in Seq(Chars) /\ raise \in BOOLEAN
      BY <2>1, <3>1 DEF Shows
    <3>4. /\ s = << >> => out = << >>
          /\ s # << >> => out # << >> /\ out[1] = s[1]
      BY <2>1, <3>1 DEF Shows
    <3>5. t # << >> /\ t[Len(t)] = c /\ t[1] = IF s = << >> THEN c ELSE s[1]
      <4>1. /\ t # << >> /\ Len(t) = Len(s) + 1 /\ t[Len(s) + 1] = c
            /\ s = << >> => t[1] = c
            /\ \A i \in DOMAIN s : t[i] = s[i]
            /\ s # << >> => 1 \in DOMAIN s
        BY <2>1, AppendParts
      <4> HIDE DEF t
      <4> QED
        BY <4>1
    <3> HIDE DEF t, out, raise
    <3>6. CASE c = "_"
      <4>1. s # << >>
        BY <3>1, <3>6, SmallLetters
      <4>2. State(t) = [out |-> out, raise |-> TRUE]
        <5>1. State(t) = [State(s) EXCEPT !.raise = State(s).out # << >>]
          BY <3>2, <3>6 DEF Camel
        <5>2. out # << >> /\ State(s).out = out
          BY <3>4, <4>1 DEF out
        <5> QED
          BY <3>3, <5>1, <5>2
      <4>3. Shows([out |-> out, raise |-> TRUE], t)
        <5>1. t # << >> /\ t[Len(t)] = "_" /\ out # << >> /\ out[1] = t[1]
          BY <3>4, <3>5, <3>6, <4>1
        <5> QED
          BY <3>3, <5>1, Shown
      <4> QED
        BY <4>2, <4>3 DEF t
    <3>7. CASE c # "_"
      <4> DEFINE letter == IF raise THEN Up(c) ELSE c
      <4>1. State(t) = [out |-> Append(out, letter), raise |-> FALSE]
        BY <3>2, <3>7 DEF Camel, out, raise
      <4>2. letter \in Chars
        BY DEF Up, Chars, Small
      <4>3. s = << >> => letter = c
        BY <2>1, <3>1, <3>3 DEF Shows, raise
      <4> HIDE DEF letter
      <4>4. /\ Append(out, letter) \in Seq(Chars) /\ Append(out, letter) # << >>
            /\ out = << >> => Append(out, letter)[1] = letter
            /\ out # << >> => Append(out, letter)[1] = out[1]
        BY <3>3, <4>2, AppendParts
      <4>5. Append(out, letter)[1] = t[1]
        BY <3>4, <3>5, <4>3, <4>4
      <4> DEFINE more == Append(out, letter)
      <4> HIDE DEF more
      <4>6. State(t) = [out |-> more, raise |-> FALSE] /\ more \in Seq(Chars) /\ more # << >> /\ more[1] = t[1]
        BY <4>1, <4>4, <4>5 DEF more
      <4>7. Shows([out |-> more, raise |-> FALSE], t)
        <5>1. t # << >> /\ t[Len(t)] # "_"
          BY <3>5, <3>7
        <5> QED
          BY <4>6, <5>1, Shown
      <4> QED
        BY <4>6, <4>7 DEF t
    <3> QED
      BY <3>6, <3>7 DEF t
  <2> QED
    BY <2>1, <2>2, AppendParts
<1>3. Fine = Seq(Letters)
  <2>1. Fine \in SUBSET Seq(Letters)
    OBVIOUS
  <2> HIDE DEF Fine
  <2> QED
    BY <1>1, <1>2, <2>1, CamelFold!SequenceInduction
<1> QED
  BY <1>3

(* What one more letter adds to what is written.                           *)
Adds(state, c, more) ==
    /\ state = [out |-> state.out, raise |-> state.raise]
    /\ state.out \in Seq(Chars) /\ state.raise \in BOOLEAN
    /\ more.raise = (c = "_") /\ more.out # << >>
    /\ c = "_" => more.out = state.out /\ state.raise = FALSE
    /\ c # "_" => /\ state.raise => c \in Small
                  /\ more.out = Append(state.out, IF state.raise THEN Upper[c] ELSE c)
                  /\ c \in Small \cup {"1"}

LEMMA Written ==
    ASSUME NEW s \in Seq(Letters), NEW c \in Letters, Begun(Append(s, c))
    PROVE  Begun(s) /\ Adds(State(s), c, State(Append(s, c)))
<1> DEFINE t == Append(s, c)
           more == State(t)
           state == State(s)
           out == State(s).out
           raise == State(s).raise
<1>1. /\ Begun(s) /\ c \in Small \cup {"1", "_"} /\ (s = << >> => c \in Small)
      /\ s # << >> /\ s[Len(s)] = "_" => c \in Small
  BY BegunShorter
<1>2. t \in Seq(Letters) /\ t # << >> /\ t[Len(t)] = c
  BY AppendParts
<1>3. more = Camel(State(s), c)
  BY StateAppend
<1>4. Shows(State(s), s)
  BY <1>1, BegunShows
<1>5. Shows(more, t)
  BY <1>2, BegunShows
<1>6. more.raise = (c = "_") /\ more.out # << >>
  <2> HIDE DEF t, more
  <2> QED
    BY <1>2, <1>5 DEF Shows
<1>7. State(s) = [out |-> out, raise |-> raise] /\ out \in Seq(Chars) /\ raise \in BOOLEAN
  BY <1>4 DEF Shows
<1>8. (s = << >> => raise = FALSE) /\ (s # << >> => (raise <=> s[Len(s)] = "_"))
  BY <1>4 DEF Shows
<1>9. raise => c \in Small
  <2> HIDE DEF raise
  <2> QED
    BY <1>1, <1>8
<1>10. ASSUME c = "_"
       PROVE  more.out = out /\ raise = FALSE
  <2>1. more = [State(s) EXCEPT !.raise = State(s).out # << >>]
    BY <1>3, <1>10 DEF Camel
  <2> HIDE DEF raise, more
  <2>2. raise = FALSE
    BY <1>7, <1>9, <1>10, SmallLetters
  <2>3. more.out = out
    BY <1>7, <2>1
  <2> QED
    BY <2>2, <2>3
<1>11. ASSUME c # "_"
       PROVE  more.out = Append(out, IF raise THEN Upper[c] ELSE c)
  <2>1. more = [out |-> Append(out, IF raise THEN Up(c) ELSE c), raise |-> FALSE]
    BY <1>3, <1>11 DEF Camel
  <2>2. more.out = Append(out, IF raise THEN Up(c) ELSE c)
    <3> HIDE DEF more, out, raise
    <3> QED
      BY <2>1
  <2> HIDE DEF more, out, raise
  <2> QED
    BY <1>9, <2>2, SmallLetters
<1> HIDE DEF more, out, raise, t
<1>12. /\ state = [out |-> out, raise |-> raise]
       /\ out \in Seq(Chars) /\ raise \in BOOLEAN
       /\ more.raise = (c = "_") /\ more.out # << >>
       /\ c = "_" => more.out = out /\ raise = FALSE
       /\ c # "_" => /\ raise => c \in Small
                     /\ more.out = Append(out, IF raise THEN Upper[c] ELSE c)
                     /\ c \in Small \cup {"1"}
  BY <1>1, <1>6, <1>7, <1>9, <1>10, <1>11 DEF state
<1>13. Adds(state, c, more)
  BY <1>12, Zenon DEF Adds, out, raise, state
<1> QED
  BY <1>1, <1>13 DEF state, more, t

(* The letter and the state before it can be read off what is written.     *)
LEMMA SameAdded ==
    ASSUME NEW c, NEW d, NEW x, NEW y, NEW more, Adds(x, c, more), Adds(y, d, more)
    PROVE  c = d /\ x = y
<1>1. /\ x = [out |-> x.out, raise |-> x.raise] /\ x.out \in Seq(Chars) /\ x.raise \in BOOLEAN
      /\ y = [out |-> y.out, raise |-> y.raise] /\ y.out \in Seq(Chars) /\ y.raise \in BOOLEAN
  BY DEF Adds
<1>2. c = "_" <=> d = "_"
  <2>1. more.raise = (c = "_") /\ more.raise = (d = "_")
    BY DEF Adds
  <2> QED
    BY <2>1, Zenon
<1>3. c = d /\ x.out = y.out /\ x.raise = y.raise
  <2>1. CASE c = "_"
    <3>1. d = "_"
      BY <1>2, <2>1
    <3>2. more.out = x.out /\ x.raise = FALSE
      BY <2>1 DEF Adds
    <3>3. more.out = y.out /\ y.raise = FALSE
      BY <3>1 DEF Adds
    <3> QED
      BY <2>1, <3>1, <3>2, <3>3
  <2>2. CASE c # "_"
    <3> DEFINE left == IF x.raise THEN Upper[c] ELSE c
               right == IF y.raise THEN Upper[d] ELSE d
    <3>1. d # "_"
      BY <1>2, <2>2
    <3>2. more.out = Append(x.out, left) /\ c \in Small \cup {"1"} /\ (x.raise => c \in Small)
      BY <2>2 DEF Adds
    <3>3. more.out = Append(y.out, right) /\ d \in Small \cup {"1"} /\ (y.raise => d \in Small)
      BY <3>1 DEF Adds
    <3> HIDE DEF left, right
    <3>4. x.out \in Seq(Chars) /\ y.out \in Seq(Chars) /\ Append(x.out, left) = Append(y.out, right)
      BY <1>1, <3>2, <3>3
    <3>5. x.out = y.out /\ left = right
      BY <3>4, SameAppend
    <3>6. x.raise = y.raise /\ c = d
      BY <1>1, <3>2, <3>3, <3>5, LettersAssumption DEF left, right, Small
    <3> QED
      BY <3>5, <3>6
  <2> QED
    BY <2>1, <2>2
<1> QED
  BY <1>1, <1>3

(* No two beginnings are written alike.                                    *)
LEMMA StatesApart ==
    \A a, b \in Seq(Letters) : Begun(a) /\ Begun(b) /\ State(a) = State(b) => a = b
<1> DEFINE Alone(a) == \A b \in Seq(Letters) : Begun(a) /\ Begun(b) /\ State(a) = State(b) => a = b
           Fine == {a \in Seq(Letters) : Alone(a)}
<1>1. << >> \in Fine
  <2>1. << >> \in Seq(Letters)
    OBVIOUS
  <2>2. ASSUME NEW b \in Seq(Letters), Begun(b), State(<< >>) = State(b)
        PROVE  << >> = b
    <3>1. Shows(State(b), b) /\ State(b).out = << >>
      BY <2>2, BegunShows, StateEmpty
    <3> QED
      BY <3>1 DEF Shows
  <2> QED
    BY <2>1, <2>2
<1>2. ASSUME NEW s \in Fine, NEW c \in Letters
      PROVE  Append(s, c) \in Fine
  <2>1. s \in Seq(Letters) /\ Alone(s)
    OBVIOUS
  <2> HIDE DEF Fine
  <2>2. ASSUME NEW b \in Seq(Letters), Begun(Append(s, c)), Begun(b), State(Append(s, c)) = State(b)
        PROVE  Append(s, c) = b
    <3>1. Begun(s) /\ Adds(State(s), c, State(Append(s, c)))
      BY <2>1, <2>2, Written
    <3>2. b # << >>
      <4>1. State(b).out # << >>
        BY <2>2, <3>1 DEF Adds
      <4>2. State(<< >>).out = << >>
        BY StateEmpty
      <4> QED
        BY <4>1, <4>2
    <3>3. PICK t \in Seq(Letters), d \in Letters : b = Append(t, d)
      BY <3>2, Unappend
    <3>4. Begun(t) /\ Adds(State(t), d, State(Append(t, d)))
      BY <2>2, <3>3, Written
    <3>5. State(Append(s, c)) = State(Append(t, d))
      BY <2>2, <3>3
    <3>6. c = d /\ State(s) = State(t)
      BY <3>1, <3>4, <3>5, SameAdded
    <3>7. s = t
      BY <2>1, <3>1, <3>4, <3>6
    <3> QED
      BY <3>3, <3>6, <3>7
  <2>3. Append(s, c) \in Seq(Letters)
    BY <2>1
  <2> QED
    BY <2>2, <2>3 DEF Fine
<1>3. Fine = Seq(Letters)
  <2>1. Fine \in SUBSET Seq(Letters)
    OBVIOUS
  <2> HIDE DEF Fine
  <2> QED
    BY <1>1, <1>2, <2>1, CamelFold!SequenceInduction
<1> QED
  BY <1>3

(* A name in snake case ends where nothing is left to raise.               *)
LEMMA SnakeShows ==
    ASSUME NEW name \in Name, Snake(name)
    PROVE  /\ Begun(name) /\ ToCamelCase(name) \in Seq(Chars) \ {<< >>}
           /\ ToCamelCase(name)[1] \in Small
           /\ State(name) = [out |-> ToCamelCase(name), raise |-> FALSE]
<1>1. name \in Seq(Letters) /\ name # << >>
  BY DEF Name
<1>2. Len(name) \in DOMAIN name /\ Len(name) \in Nat
  BY <1>1
<1>3. Begun(name) /\ name[1] \in Small
  BY DEF Snake, Begun, Small
<1>4. name[Len(name)] # "_"
  <2> DEFINE n == Len(name)
  <2>1. name[n] = "_" => n < n
    BY <1>2 DEF Snake
  <2>2. n \in Nat
    BY <1>2
  <2> HIDE DEF n
  <2>3. ~(n < n)
    BY <2>2
  <2> QED
    BY <2>1, <2>3 DEF n
<1>5. ToCamelCase(name) = State(name).out
  BY CamelIsFold DEF ToCamelCase, State
<1> DEFINE state == State(name)
<1>6. Shows(state, name)
  BY <1>1, <1>3, BegunShows
<1> HIDE DEF state
<1>7. /\ state = [out |-> state.out, raise |-> state.raise] /\ state.raise = FALSE
      /\ state.out \in Seq(Chars) /\ state.out # << >> /\ state.out[1] = name[1]
  BY <1>1, <1>4, <1>6 DEF Shows
<1>8. state = [out |-> state.out, raise |-> FALSE]
  BY <1>7
<1> QED
  BY <1>3, <1>5, <1>7, <1>8 DEF state

LEMMA SnakeApart ==
    ASSUME NEW a \in Name, NEW b \in Name, Snake(a), Snake(b), a # b
    PROVE  ToCamelCase(a) # ToCamelCase(b) /\ ToPascalCase(a) # ToPascalCase(b)
<1> DEFINE left == ToCamelCase(a)
           right == ToCamelCase(b)
<1>1. /\ Begun(a) /\ left \in Seq(Chars) /\ left # << >> /\ left[1] \in Small
      /\ State(a) = [out |-> left, raise |-> FALSE]
  BY SnakeShows
<1>2. /\ Begun(b) /\ right \in Seq(Chars) /\ right # << >> /\ right[1] \in Small
      /\ State(b) = [out |-> right, raise |-> FALSE]
  BY SnakeShows
<1>3. a \in Seq(Letters) /\ b \in Seq(Letters)
  BY DEF Name
<1>4. ToPascalCase(a) = <<Up(Head(left))>> \o Tail(left) /\ ToPascalCase(b) = <<Up(Head(right))>> \o Tail(right)
  BY <1>1, <1>2 DEF ToPascalCase
<1> HIDE DEF left, right
<1>5. left # right
  BY <1>1, <1>2, <1>3, StatesApart
<1>6. ASSUME <<Up(Head(left))>> \o Tail(left) = <<Up(Head(right))>> \o Tail(right)
      PROVE  FALSE
  <2> DEFINE x == Up(Head(left))
             y == Up(Head(right))
             u == Tail(left)
             v == Tail(right)
  <2>1. Head(left) = left[1] /\ Head(right) = right[1] /\ u \in Seq(Chars) /\ v \in Seq(Chars)
    BY <1>1, <1>2
  <2>2. <<x>> \o u = <<y>> \o v
    BY <1>6
  <2> HIDE DEF x, y, u, v
  <2>3. x = y /\ u = v
    BY <2>1, <2>2, SamePrepend
  <2>4. left[1] = right[1]
    BY <1>1, <1>2, <2>1, <2>3, LettersAssumption, SmallLetters DEF x, y, Small
  <2>5. Tail(left) = Tail(right)
    BY <2>3 DEF u, v
  <2> QED
    BY <1>1, <1>2, <1>5, <2>4, <2>5, SameTail
<1> QED
  BY <1>4, <1>5, <1>6 DEF left, right

(* Names in snake case of any length stay apart in TypeScript.             *)
THEOREM SnakeNamesStayApart == Spec => []SnakeNamesApart
<1>1. ColumnsOK => SnakeNamesApart
  <2> SUFFICES ASSUME ColumnsOK, NEW i \in DOMAIN columns, NEW j \in DOMAIN columns,
                      Snake(columns[i].name), Snake(columns[j].name), columns[i].name # columns[j].name
               PROVE  /\ ToCamelCase(columns[i].name) # ToCamelCase(columns[j].name)
                      /\ ToPascalCase(columns[i].name) # ToPascalCase(columns[j].name)
    BY DEF SnakeNamesApart
  <2>1. columns[i].name \in Name /\ columns[j].name \in Name
    BY FieldOf
  <2> QED
    BY <2>1, SnakeApart
<1> QED
  BY <1>1, ColumnsInvariance, PTL
=============================================================================
