---------------------------- MODULE PdfCacheProofs ----------------------------
(***************************************************************************)
(* Theorems about PdfParams and PdfCache for any paper sizes, timeouts and *)
(* lifetimes, any requests, and no bound on what is in the cache.          *)
(*                                                                         *)
(* The age of what is in the cache adds up over the steps of the request   *)
(* that has stored it (AgeInv).     That a hit has the layout asked for    *)
(* rests on KeyDeterminesLayout: behind one text, a key can be read in one *)
(* way only.                                                               *)
(***************************************************************************)
EXTENDS PdfCache, SequenceTheorems, TLAPS

-----------------------------------------------------------------------------
(* Parameters and keys *)

\* What passes validation is typed; the default margin is filled in.
LEMMA ParamsTyped ==
    ASSUME NEW f \in FormFields, Status(f) = 200
    PROVE  Params(f) \in PDFRequestParams
<1>1. FieldsAccepted(f)
    BY DEF Status, HTMLStatus, URLStatus
<1>2. /\ f.source \in {"html", "url"} /\ f.text \in Seq(Word)
      /\ f.format \in Format \cup {Empty} /\ f.orientation \in Orientation \cup {Empty}
    BY <1>1 DEF FieldsAccepted, FormFields
<1>3. f.margin = Empty \/ MarginAccepted(f.margin)
    BY <1>1 DEF FieldsAccepted
<1>4. CASE f.margin = Empty
    <2>1. Params(f).margin = 400
        BY <1>4 DEF Params
    <2> QED
        BY <1>2, <2>1 DEF Params, PDFRequestParams
<1>5. CASE f.margin # Empty
    <2>0. ASSUME NEW m, MarginAccepted(m) PROVE m \in Nat \cup {NaN}
        BY <2>0 DEF MarginAccepted
    <2>1. f.margin \in Nat \cup {NaN}
        BY <1>3, <1>5, <2>0
    <2>2. Params(f).margin = f.margin
        BY <1>5 DEF Params
    <2>3. Params(f).margin \in Nat \cup {NaN}
        BY <2>1, <2>2, Zenon
    <2> QED
        BY <1>2, <2>3 DEF Params, PDFRequestParams
<1> QED
    BY <1>4, <1>5

\* The part of a key behind the text.
Layout(p) == Given(p.format) \o Given(p.orientation) \o <<Hundredths(p.margin)>>

LEMMA FieldsTyped ==
    ASSUME NEW p \in PDFRequestParams
    PROVE  /\ p.text \in Seq(Word)
           /\ p.format \in Format \cup {Empty}
           /\ p.orientation \in Orientation \cup {Empty}
           /\ p.margin \in Nat \cup {NaN}
BY DEF PDFRequestParams

LEMMA HundredthsTyped == \A m \in Nat \cup {NaN} : Hundredths(m) \in Nat \cup {NaN}
BY DEF Hundredths

\* Tuples that are put together by Append.
LEMMA Appended ==
    ASSUME NEW S, NEW x \in S, NEW y \in S, NEW z \in S
    PROVE  Append(<<x>>, y) = <<x, y>> /\ Append(<<x, y>>, z) = <<x, y, z>>
<1>0. /\ <<x>> \in Seq(S) /\ <<x, y>> \in Seq(S) /\ <<x, y, z>> \in Seq(S)
      /\ Append(<<x>>, y) \in Seq(S) /\ Append(<<x, y>>, z) \in Seq(S)
    OBVIOUS
<1>1. Append(<<x>>, y) = <<x, y>>
    <2>1. /\ Len(Append(<<x>>, y)) = 2 /\ Len(<<x, y>>) = 2
          /\ Append(<<x>>, y)[1] = <<x, y>>[1]
          /\ Append(<<x>>, y)[2] = <<x, y>>[2]
        OBVIOUS
    <2>2. \A i \in 1..2 : Append(<<x>>, y)[i] = <<x, y>>[i]
        BY <2>1
    <2> QED
        BY <1>0, <2>1, <2>2, SeqEqual
<1>2. Append(<<x, y>>, z) = <<x, y, z>>
    <2>1. /\ Len(Append(<<x, y>>, z)) = 3 /\ Len(<<x, y, z>>) = 3
          /\ Append(<<x, y>>, z)[1] = <<x, y, z>>[1]
          /\ Append(<<x, y>>, z)[2] = <<x, y, z>>[2]
          /\ Append(<<x, y>>, z)[3] = <<x, y, z>>[3]
        OBVIOUS
    <2>2. \A i \in 1..3 : Append(<<x, y>>, z)[i] = <<x, y, z>>[i]
        BY <2>1
    <2> QED
        BY <1>0, <2>1, <2>2, SeqEqual
<1> QED
    BY <1>1, <1>2

\* The sequences that Layout puts together.
LEMMA Joined ==
    ASSUME NEW S, NEW x \in S, NEW y \in S, NEW z \in S
    PROVE  /\ <<>> \o <<>> \o <<z>> = <<z>>
           /\ <<x>> \o <<>> \o <<z>> = <<x, z>>
           /\ <<>> \o <<y>> \o <<z>> = <<y, z>>
           /\ <<x>> \o <<y>> \o <<z>> = <<x, y, z>>
<1>1. <<>> \in Seq(S) /\ <<x>> \in Seq(S) /\ <<y>> \in Seq(S) /\ <<z>> \in Seq(S)
    OBVIOUS
<1>2. <<>> \o <<>> = <<>> /\ <<x>> \o <<>> = <<x>> /\ <<>> \o <<y>> = <<y>> /\ <<>> \o <<z>> = <<z>>
    BY <1>1, ConcatEmptySeq
<1>3. ASSUME NEW u \in S, NEW v \in S PROVE <<u>> \o <<v>> = <<u, v>>
    <2>1. Append(<<u>>, v) = <<u>> \o <<v>>
        BY AppendIsConcat
    <2>2. Append(<<u>>, v) = <<u, v>>
        BY Appended
    <2> QED
        BY <2>1, <2>2
<1>4. <<x, y>> \o <<z>> = <<x, y, z>>
    <2>1. Append(<<x, y>>, z) = <<x, y>> \o <<z>>
        BY AppendIsConcat
    <2>2. Append(<<x, y>>, z) = <<x, y, z>>
        BY Appended
    <2> QED
        BY <2>1, <2>2
<1> QED
    BY <1>2, <1>3, <1>4

LEMMA LayoutCases ==
    ASSUME NEW p \in PDFRequestParams
    PROVE  Layout(p) =
               IF p.format = Empty
               THEN IF p.orientation = Empty
                    THEN <<Hundredths(p.margin)>>
                    ELSE <<p.orientation, Hundredths(p.margin)>>
               ELSE IF p.orientation = Empty
                    THEN <<p.format, Hundredths(p.margin)>>
                    ELSE <<p.format, p.orientation, Hundredths(p.margin)>>
<1> DEFINE x == p.format  y == p.orientation  z == Hundredths(p.margin)
<1>0. /\ <<>> \o <<>> \o <<z>> = <<z>>
      /\ <<x>> \o <<>> \o <<z>> = <<x, z>>
      /\ <<>> \o <<y>> \o <<z>> = <<y, z>>
      /\ <<x>> \o <<y>> \o <<z>> = <<x, y, z>>
    <2> DEFINE S == {x, y, z}
    <2>1. x \in S /\ y \in S /\ z \in S
        OBVIOUS
    <2> HIDE DEF S, x, y, z
    <2> QED
        BY <2>1, Joined
<1>1. Layout(p) = (IF x = Empty THEN <<>> ELSE <<x>>) \o (IF y = Empty THEN <<>> ELSE <<y>>) \o <<z>>
    BY DEF Layout, Given
<1> SUFFICES Layout(p) = IF x = Empty
                         THEN IF y = Empty THEN <<z>> ELSE <<y, z>>
                         ELSE IF y = Empty THEN <<x, z>> ELSE <<x, y, z>>
    OBVIOUS
<1> HIDE DEF x, y, z
<1>2. CASE x = Empty /\ y = Empty
    BY <1>0, <1>1, <1>2
<1>3. CASE x = Empty /\ y # Empty
    BY <1>0, <1>1, <1>3
<1>4. CASE x # Empty /\ y = Empty
    BY <1>0, <1>1, <1>4
<1>5. CASE x # Empty /\ y # Empty
    BY <1>0, <1>1, <1>5
<1> QED
    BY <1>2, <1>3, <1>4, <1>5

LEMMA KeyTyped ==
    ASSUME NEW p \in PDFRequestParams
    PROVE  /\ Layout(p) \in Seq(Word \cup Nat \cup {NaN})
           /\ Key(p) = p.text \o Layout(p)
           /\ Key(p) \in Seq(Word \cup Nat \cup {NaN})
<1> DEFINE S == Word \cup Nat \cup {NaN}
<1>1. p.text \in Seq(S)
    BY FieldsTyped
<1>2. Format \cup Orientation \subseteq S
    BY ParamsAssumption DEF ParamsAssumption
<1>3. Hundredths(p.margin) \in S
    BY FieldsTyped, HundredthsTyped
<1>4. Given(p.format) \in Seq(S) /\ Given(p.orientation) \in Seq(S) /\ <<Hundredths(p.margin)>> \in Seq(S)
    <2> HIDE DEF S
    <2>1. p.format \in S \cup {Empty} /\ p.orientation \in S \cup {Empty}
        BY <1>2, FieldsTyped
    <2>2. ASSUME NEW v \in S \cup {Empty} PROVE Given(v) \in Seq(S)
        <3>1. CASE v = Empty
            BY <3>1 DEF Given
        <3>2. CASE v # Empty
            BY <3>2 DEF Given
        <3> QED
            BY <3>1, <3>2
    <2> QED
        BY <2>1, <2>2, <1>3
<1>5. Layout(p) \in Seq(S)
    BY <1>4 DEF Layout
<1>6. Key(p) = p.text \o Layout(p)
    BY <1>4 DEF Key, Layout
<1> QED
    BY <1>1, <1>5, <1>6

\* Margins that are rounded to the same hundredth are closer than that.
LEMMA Rounding ==
    ASSUME NEW m \in Nat, NEW n \in Nat, Hundredths(m) = Hundredths(n)
    PROVE  m - n \in -10..10
<1>1. NaN \notin Nat
    BY ParamsAssumption DEF ParamsAssumption
<1>2. (m + 5) \div 10 = (n + 5) \div 10
    BY <1>1 DEF Hundredths
<1> QED
    BY <1>2

\* One text and one key make one layout.
LEMMA KeyDeterminesLayout ==
    ASSUME NEW p \in PDFRequestParams, NEW q \in PDFRequestParams,
           p.text = q.text, Key(p) = Key(q)
    PROVE  SameLayout(p, q)
<1>1. Layout(p) = Layout(q)
    <2> DEFINE S == Word \cup Nat \cup {NaN}
    <2>1. Layout(p) \in Seq(S) /\ Layout(q) \in Seq(S)
        BY KeyTyped
    <2>2. p.text \in Seq(S)
        BY FieldsTyped
    <2>3. p.text \o Layout(p) = p.text \o Layout(q)
        BY KeyTyped
    <2> HIDE DEF S
    <2> QED
        BY <2>1, <2>2, <2>3, ConcatSimplifications
<1>2. p.format = q.format /\ p.orientation = q.orientation /\ Hundredths(p.margin) = Hundredths(q.margin)
    <2>1. /\ Empty \notin Format \cup Orientation
          /\ Format \cap Orientation = {}
        BY ParamsAssumption DEF ParamsAssumption
    <2>2. /\ p.format \in Format \cup {Empty} /\ p.orientation \in Orientation \cup {Empty}
          /\ q.format \in Format \cup {Empty} /\ q.orientation \in Orientation \cup {Empty}
        BY FieldsTyped
    <2> DEFINE x(r) == r.format  y(r) == r.orientation  z(r) == Hundredths(r.margin)
               Cases(r) == IF x(r) = Empty
                           THEN IF y(r) = Empty THEN <<z(r)>> ELSE <<y(r), z(r)>>
                           ELSE IF y(r) = Empty THEN <<x(r), z(r)>>
                                ELSE <<x(r), y(r), z(r)>>
    <2>3. Cases(p) = Cases(q)
        BY <1>1, LayoutCases
    <2>4. CASE x(p) = Empty /\ y(p) = Empty
        BY <2>1, <2>2, <2>3, <2>4
    <2>5. CASE x(p) = Empty /\ y(p) # Empty
        BY <2>1, <2>2, <2>3, <2>5
    <2>6. CASE x(p) # Empty /\ y(p) = Empty
        BY <2>1, <2>2, <2>3, <2>6
    <2>7. CASE x(p) # Empty /\ y(p) # Empty
        BY <2>1, <2>2, <2>3, <2>7
    <2> QED
        BY <2>4, <2>5, <2>6, <2>7
<1>3. Paper(p) = Paper(q)
    BY <1>2 DEF Paper
<1>4. p.margin = q.margin \/ p.margin - q.margin \in -10..10
    <2>1. NaN \notin Nat
        BY ParamsAssumption DEF ParamsAssumption
    <2>2. CASE p.margin \in Nat /\ q.margin \in Nat
        BY <1>2, <2>2, Rounding
    <2>a. ASSUME NEW m \in Nat PROVE Hundredths(m) \in Nat
        BY <2>1 DEF Hundredths
    <2>b. Hundredths(NaN) = NaN
        BY DEF Hundredths
    <2>3. CASE p.margin = NaN
        BY <1>2, <2>1, <2>3, <2>a, <2>b, FieldsTyped
    <2>4. CASE q.margin = NaN
        BY <1>2, <2>1, <2>4, <2>a, <2>b, FieldsTyped
    <2> QED
        BY <2>2, <2>3, <2>4, FieldsTyped
<1> QED
    BY <1>3, <1>4 DEF SameLayout
-----------------------------------------------------------------------------
(* Texts that share a key *)

\* Concatenation, folded where the provers need not look at the elements.
Cat(s, t) == s \o t

\* Of two sequences that read the same when something is put behind each, the
\* longer one is the shorter one and the beginning of what was put behind it.
LEMMA CommonBeginning ==
    ASSUME NEW S, NEW a \in Seq(S), NEW b \in Seq(S), NEW u \in Seq(S), NEW v \in Seq(S),
           Cat(a, u) = Cat(b, v), Len(b) <= Len(a)
    PROVE  /\ Len(a) - Len(b) \in 0..Len(v)
           /\ a = Cat(b, SubSeq(v, 1, Len(a) - Len(b)))
<1>0. a \o u = b \o v
    BY DEF Cat
<1> DEFINE k == Len(a) - Len(b)
           beginning == SubSeq(v, 1, k)
<1>1. /\ Len(a) \in Nat /\ Len(b) \in Nat /\ Len(u) \in Nat /\ Len(v) \in Nat
      /\ \A i \in 1..Len(v) : v[i] \in S
    BY LenProperties, ElementOfSeq
<1>2. Len(a) + Len(u) = Len(b) + Len(v)
    BY <1>0, ConcatProperties
<1>3. k \in 0..Len(v)
    BY <1>1, <1>2
<1>4. /\ beginning \in Seq(S)
      /\ Len(beginning) = k
      /\ \A i \in 1..k : beginning[i] = v[i]
    <2>1. \A i \in 1..k : v[i] \in S
        BY <1>1, <1>3
    <2> HIDE DEF k
    <2> QED
        BY <1>3, <2>1, SubSeqProperties
<1>5. b \o beginning \in Seq(S) /\ Len(b \o beginning) = Len(a)
    BY <1>1, <1>4, ConcatProperties
<1>6. ASSUME NEW i \in 1..Len(a) PROVE a[i] = (b \o beginning)[i]
    <2>1. (a \o u)[i] = a[i]
        BY <1>1, ConcatProperties
    <2>2. (b \o v)[i] = IF i <= Len(b) THEN b[i] ELSE v[i - Len(b)]
        BY <1>1, <1>2, ConcatProperties
    <2>3. (b \o beginning)[i] = IF i <= Len(b) THEN b[i] ELSE beginning[i - Len(b)]
        BY <1>1, <1>4, ConcatProperties
    <2>4. i > Len(b) => beginning[i - Len(b)] = v[i - Len(b)]
        BY <1>1, <1>4
    <2> QED
        BY <1>0, <2>1, <2>2, <2>3, <2>4
<1>7. a = b \o beginning
    BY <1>5, <1>6, SeqEqual
<1> QED
    BY <1>3, <1>7 DEF Cat

\* The names of a layout are short sequences of formats and orientations.
LEMMA LayoutWordsTyped ==
    ASSUME NEW v \in LayoutWords, NEW S, Format \cup Orientation \subseteq S
    PROVE  v \in Seq(S) /\ Len(v) <= 2
<1>1. CASE v = <<>>
    BY <1>1
<1>2. CASE \E x \in Format \cup Orientation : v = <<x>>
    BY <1>2
<1>3. CASE \E f \in Format, o \in Orientation : v = <<f, o>>
    <2>1. PICK f \in Format, o \in Orientation : v = <<f, o>>
        BY <1>3
    <2>2. f \in S /\ o \in S
        OBVIOUS
    <2> QED
        BY <2>1, <2>2
<1> QED
    BY <1>1, <1>2, <1>3 DEF LayoutWords

\* The beginning of the names of a layout names a layout.
LEMMA BeginningOfNames ==
    ASSUME NEW v \in LayoutWords, NEW k \in 0..Len(v)
    PROVE  SubSeq(v, 1, k) \in LayoutWords
<1> DEFINE S == Format \cup Orientation
           s == SubSeq(v, 1, k)
<1>1. <<>> \in LayoutWords /\ \A x \in S : <<x>> \in LayoutWords
    BY DEF LayoutWords
<1>2. v \in Seq(S)
    BY LayoutWordsTyped
<1>3. Len(v) \in Nat /\ \A i \in 1..Len(v) : v[i] \in S
    BY <1>2, LenProperties, ElementOfSeq
<1>4. s \in Seq(S) /\ Len(s) = k /\ \A i \in 1..k : s[i] = v[i]
    <2>1. \A i \in 1..k : v[i] \in S
        BY <1>3
    <2> QED
        BY <1>3, <2>1, SubSeqProperties
<1>5. CASE k = Len(v)
    <2>1. s = v
        BY <1>2, <1>4, <1>5, SeqEqual
    <2> QED
        BY <2>1
<1>6. CASE k = 0
    BY <1>1, <1>4, <1>6, EmptySeq
<1>7. CASE k # Len(v) /\ k # 0
    <2>1. Len(v) <= 2
        BY LayoutWordsTyped
    <2>2. k = 1
        BY <1>3, <1>7, <2>1
    <2> DEFINE x == v[1]
    <2>3. x \in S
        BY <1>3, <2>2
    <2>4. s = <<x>>
        <3>1. <<x>> \in Seq(S) /\ Len(<<x>>) = 1 /\ <<x>>[1] = x
            BY <2>3
        <3>2. s[1] = x /\ Len(s) = 1
            BY <1>4, <2>2
        <3> HIDE DEF s, x
        <3>3. \A i \in 1..1 : s[i] = <<x>>[i]
            BY <3>1, <3>2
        <3> QED
            BY <1>4, <3>1, <3>2, <3>3, SeqEqual
    <2> QED
        BY <1>1, <2>3, <2>4
<1> QED
    BY <1>5, <1>6, <1>7

\* What a key has between the text and the margin names a layout.
Names(p) == Given(p.format) \o Given(p.orientation)

LEMMA NamesTyped ==
    ASSUME NEW p \in PDFRequestParams
    PROVE  Names(p) \in LayoutWords
<1> DEFINE x == p.format  y == p.orientation
<1>1. x \in Format \cup {Empty} /\ y \in Orientation \cup {Empty}
    BY FieldsTyped
<1>2. Names(p) = (IF x = Empty THEN <<>> ELSE <<x>>) \o (IF y = Empty THEN <<>> ELSE <<y>>)
    BY DEF Names, Given
<1>3. /\ <<>> \o <<>> = <<>> /\ <<x>> \o <<>> = <<x>> /\ <<>> \o <<y>> = <<y>>
      /\ <<x>> \o <<y>> = <<x, y>>
    <2> DEFINE S == {x, y}
    <2>1. x \in S /\ y \in S /\ <<>> \in Seq(S) /\ <<x>> \in Seq(S) /\ <<y>> \in Seq(S)
        OBVIOUS
    <2> HIDE DEF S, x, y
    <2>2. <<x>> \o <<y>> = <<x, y>>
        BY <2>1, AppendIsConcat, Appended
    <2> QED
        BY <2>1, <2>2, ConcatEmptySeq
<1>4. /\ <<>> \in LayoutWords
      /\ \A f \in Format : <<f>> \in LayoutWords
      /\ \A o \in Orientation : <<o>> \in LayoutWords
      /\ \A f \in Format, o \in Orientation : <<f, o>> \in LayoutWords
    BY DEF LayoutWords
<1> HIDE DEF x, y
<1>5. CASE x = Empty /\ y = Empty
    BY <1>2, <1>3, <1>4, <1>5
<1>6. CASE x # Empty /\ y = Empty
    BY <1>1, <1>2, <1>3, <1>4, <1>6
<1>7. CASE x = Empty /\ y # Empty
    BY <1>1, <1>2, <1>3, <1>4, <1>7
<1>8. CASE x # Empty /\ y # Empty
    BY <1>1, <1>2, <1>3, <1>4, <1>8
<1> QED
    BY <1>5, <1>6, <1>7, <1>8

\* The same of two texts behind each of which there are names of a layout.
LEMMA TextsBeforeNames ==
    ASSUME NEW S, NEW a \in Seq(S), NEW b \in Seq(S), NEW u \in Seq(S), NEW v \in Seq(S),
           v \in LayoutWords, Cat(a, u) = Cat(b, v), Len(b) <= Len(a)
    PROVE  \E words \in LayoutWords : a = Cat(b, words)
<1> DEFINE k == Len(a) - Len(b)
<1>1. k \in 0..Len(v) /\ a = Cat(b, SubSeq(v, 1, k))
    BY CommonBeginning
<1> HIDE DEF k
<1>2. SubSeq(v, 1, k) \in LayoutWords
    BY <1>1, BeginningOfNames
<1> QED
    BY <1>1, <1>2

\* Texts that share a key differ by the names of a layout at the end of one.
LEMMA TextsOfOneKey ==
    ASSUME NEW p \in PDFRequestParams, NEW q \in PDFRequestParams, Key(p) = Key(q)
    PROVE  \E words \in LayoutWords :
               p.text = q.text \o words \/ q.text = p.text \o words
<1> DEFINE S == Word \cup Nat \cup {NaN}
<1>1. Format \cup Orientation \subseteq S
    BY ParamsAssumption DEF ParamsAssumption
<1>2. ASSUME NEW r \in PDFRequestParams
      PROVE  /\ r.text \in Seq(S) /\ Names(r) \in Seq(S) /\ Hundredths(r.margin) \in S
             /\ r.text \o Names(r) \in Seq(S)
             /\ Key(r) = Append(r.text \o Names(r), Hundredths(r.margin))
    <2>0. /\ r.text \in Seq(Word) /\ Word \subseteq S
          /\ r.margin \in Nat \cup {NaN} /\ Nat \cup {NaN} \subseteq S
        BY FieldsTyped
    <2>1. r.text \in Seq(S) /\ Hundredths(r.margin) \in S
        <3>1. Hundredths(r.margin) \in S
            BY <2>0, HundredthsTyped
        <3> HIDE DEF S
        <3> QED
            BY <2>0, <3>1, SeqMonotonic
    <2>2. Names(r) \in Seq(S)
        <3> HIDE DEF S
        <3> QED
            BY <1>1, NamesTyped, LayoutWordsTyped
    <2> DEFINE z == Hundredths(r.margin)
    <2>3. Key(r) = r.text \o (Names(r) \o <<z>>)
        BY DEF Key, Names
    <2> HIDE DEF S, z
    <2>4. <<z>> \in Seq(S)
        BY <2>1 DEF z
    <2>5. r.text \o (Names(r) \o <<z>>) = (r.text \o Names(r)) \o <<z>>
        <3> DEFINE t == r.text  n == Names(r)  last == <<z>>
        <3>1. t \in Seq(S) /\ n \in Seq(S) /\ last \in Seq(S)
            BY <2>1, <2>2, <2>4
        <3> HIDE DEF t, n, last
        <3>2. t \o (n \o last) = (t \o n) \o last
            BY <3>1, ConcatAssociative
        <3> QED
            BY <3>2 DEF t, n, last
    <2>6. r.text \o Names(r) \in Seq(S)
        BY <2>1, <2>2, ConcatProperties
    <2>7. (r.text \o Names(r)) \o <<z>> = Append(r.text \o Names(r), z)
        BY <2>1, <2>6, AppendIsConcat DEF z
    <2> QED
        BY <2>1, <2>2, <2>3, <2>5, <2>6, <2>7 DEF z
<1>3. /\ p.text \in Seq(S) /\ Names(p) \in Seq(S) /\ Names(p) \in LayoutWords
      /\ q.text \in Seq(S) /\ Names(q) \in Seq(S) /\ Names(q) \in LayoutWords
      /\ Len(p.text) \in Nat /\ Len(q.text) \in Nat
    BY <1>2, NamesTyped, LenProperties
<1>4. Cat(p.text, Names(p)) = Cat(q.text, Names(q))
    <2> DEFINE y == Hundredths(p.margin)  z == Hundredths(q.margin)
               s == Cat(p.text, Names(p))  t == Cat(q.text, Names(q))
    <2>1. y \in S /\ z \in S /\ s \in Seq(S) /\ t \in Seq(S) /\ Append(s, y) = Append(t, z)
        BY <1>2 DEF Cat
    <2> HIDE DEF S, s, t, y, z
    <2>2. s = t
        BY <2>1, AppendInjective
    <2> QED
        BY <2>2 DEF s, t
<1> HIDE DEF S
<1>5. CASE Len(q.text) <= Len(p.text)
    <2>1. \E words \in LayoutWords : p.text = Cat(q.text, words)
        BY <1>3, <1>4, <1>5, TextsBeforeNames
    <2> QED
        BY <2>1 DEF Cat
<1>6. CASE Len(p.text) <= Len(q.text)
    <2>1. \E words \in LayoutWords : q.text = Cat(p.text, words)
        BY <1>3, <1>4, <1>6, TextsBeforeNames
    <2> QED
        BY <2>1 DEF Cat
<1>7. Len(q.text) <= Len(p.text) \/ Len(p.text) <= Len(q.text)
    BY <1>3
<1> QED
    BY <1>5, <1>6, <1>7, Zenon
-----------------------------------------------------------------------------
(* The invariant *)

\* A PDF was printed in time.
InTime(p) == p.printed <= p.fetched + Timeout

\* What is rendered is on time, what is printed was, and what is stored has an end.
AgeInv ==
    /\ \A k \in DOMAIN cache :
        /\ cache[k].expires = cache[k].stored + Lifetime
        /\ now < cache[k].expires
        /\ InTime(cache[k].pdf)
    /\ \A w \in Worker : stage[w] = "rendering" => now <= began[w] + Timeout
    /\ \A w \in Worker : stage[w] \in {"releasing", "storing"} => InTime(pdf[w])

\* What a request has in its hands at each stage.
HeldInv ==
    \A w \in Worker :
        /\ stage[w] # "idle" => request[w] \in PDFRequestParams
        /\ stage[w] \in {"idle", "lookup", "tab", "rendering"} => pdf[w] = None
        /\ stage[w] \in {"releasing", "storing"} => pdf[w] \in PDF /\ pdf[w].of = request[w]

\* A PDF is found under the key of what it was printed for.
KeyInv ==
    /\ \A k \in DOMAIN cache : Key(cache[k].pdf.of) = k
    /\ \A w \in Worker :
        (stage[w] = "answered" /\ pdf[w] # None) =>
            pdf[w] \in PDF /\ Key(pdf[w].of) = Key(request[w])

Inv == TypeOK /\ AgeInv /\ HeldInv /\ KeyInv

LEMMA LifetimeTyped == Lifetime \in Nat /\ Lifetime > 0
BY CacheAssumption DEF CacheAssumption, Lifetime

LEMMA TimeoutTyped == Timeout \in Nat
BY CacheAssumption DEF CacheAssumption

\* The step of a request, by its cases.
Step(w) ==
    \/ \E f \in Form : Reject(w, f) \/ Receive(w, f)
    \/ Hit(w) \/ Miss(w) \/ Navigate(w) \/ PrintToPDF(w) \/ Release(w) \/ Fail(w)
    \/ Again(w) \/ Store(w) \/ StoreFails(w) \/ Done(w)

LEMMA InitInv == Init => Inv
<1> SUFFICES ASSUME Init PROVE Inv
    OBVIOUS
<1> USE DEF Init
<1>1. TypeOK
    <2>1. DOMAIN cache = {}
        OBVIOUS
    <2> QED
        BY <2>1 DEF TypeOK
<1>2. AgeInv /\ HeldInv /\ KeyInv
    BY DEF AgeInv, HeldInv, KeyInv
<1> QED
    BY <1>1, <1>2 DEF Inv

\* What is stored under a key, and what is left there.
LEMMA StoredAt ==
    ASSUME NEW k, NEW content, NEW ttl \in Nat, ttl > 0, now \in Nat, Set(k, content, ttl)
    PROVE  /\ DOMAIN cache' = DOMAIN cache \cup {k}
           /\ cache'[k] = [pdf |-> content, stored |-> now, expires |-> now + ttl]
           /\ \A x \in DOMAIN cache : x # k => cache'[x] = cache[x]
BY DEF Set

LEMMA ExpireKeeps ==
    ASSUME Expire
    PROVE  /\ DOMAIN cache' \subseteq DOMAIN cache
           /\ \A k \in DOMAIN cache' :
                /\ cache'[k] = cache[k]
                /\ cache[k].expires = None \/ now' < cache[k].expires
BY DEF Expire

(* What each step of a request does to the four parts of the invariant. *)

LEMMA StepTyped ==
    ASSUME Inv, NEW w \in Worker, Step(w)
    PROVE  TypeOK'
<1> USE DEF Inv, TypeOK, Move, Stop
<1>1. ASSUME NEW f \in Form, Reject(w, f) PROVE TypeOK'
    BY <1>1 DEF Reject, vars
<1>2. ASSUME NEW f \in Form, Receive(w, f) PROVE TypeOK'
    <2>1. Params(f) \in PDFRequestParams
        BY <1>2, ParamsTyped, CacheAssumption DEF Receive, CacheAssumption
    <2> QED
        BY <1>2, <2>1 DEF Receive
<1>3. CASE Hit(w)
    <2>1. cache[Key(request[w])].pdf \in PDF
        BY <1>3 DEF Hit, Entry
    <2> QED
        BY <1>3, <2>1 DEF Hit
<1>4. CASE Miss(w)
    BY <1>4 DEF Miss
<1>5. CASE Navigate(w)
    BY <1>5 DEF Navigate
<1>6. CASE PrintToPDF(w)
    <2>1. [of |-> request[w], fetched |-> began[w], printed |-> now] \in PDF
        BY <1>6 DEF PrintToPDF, HeldInv, PDF
    <2> QED
        BY <1>6, <2>1 DEF PrintToPDF
<1>7. CASE Fail(w)
    BY <1>7 DEF Fail
<1>8. CASE Again(w)
    BY <1>8 DEF Again
<1>9. CASE Store(w)
    <2> DEFINE k == Key(request[w])
    <2>1. pdf[w] \in PDF /\ request[w] \in PDFRequestParams
        BY <1>9 DEF Store, HeldInv
    <2>2. k \in Seq(Word \cup Nat \cup {NaN})
        BY <2>1, KeyTyped
    <2>3. /\ DOMAIN cache' = DOMAIN cache \cup {k}
          /\ cache'[k] = [pdf |-> pdf[w], stored |-> now, expires |-> now + Lifetime]
          /\ \A x \in DOMAIN cache : x # k => cache'[x] = cache[x]
        BY <1>9, StoredAt, LifetimeTyped DEF Store
    <2>4. cache'[k] \in Entry
        BY <2>1, <2>3, LifetimeTyped DEF Entry
    <2>5. /\ DOMAIN cache' \subseteq Seq(Word \cup Nat \cup {NaN})
          /\ \A x \in DOMAIN cache' : cache'[x] \in Entry
        BY <2>2, <2>3, <2>4
    <2> QED
        BY <1>9, <2>5 DEF Store
<1>10. CASE StoreFails(w)
    BY <1>10 DEF StoreFails
<1>11. CASE Done(w)
    BY <1>11 DEF Done
<1>12. CASE Release(w)
    BY <1>12 DEF Release
<1> QED
    BY <1>1, <1>2, <1>3, <1>4, <1>5, <1>6, <1>7, <1>8, <1>9, <1>10, <1>11, <1>12 DEF Step

LEMMA StepAge ==
    ASSUME Inv, NEW w \in Worker, Step(w)
    PROVE  AgeInv'
<1> USE DEF Inv, TypeOK, AgeInv, Move, Stop
<1>1. ASSUME NEW f \in Form, Reject(w, f) PROVE AgeInv'
    BY <1>1 DEF Reject, vars, Lifetime
<1>2. ASSUME NEW f \in Form, Receive(w, f) PROVE AgeInv'
    BY <1>2 DEF Receive
<1>3. CASE Hit(w)
    BY <1>3 DEF Hit
<1>4. CASE Miss(w)
    BY <1>4 DEF Miss
<1>5. CASE Navigate(w)
    BY <1>5, TimeoutTyped DEF Navigate
<1>6. CASE PrintToPDF(w)
    BY <1>6 DEF PrintToPDF, InTime
<1>7. CASE Fail(w)
    BY <1>7 DEF Fail
<1>8. CASE Again(w)
    BY <1>8 DEF Again
<1>9. CASE Store(w)
    <2> DEFINE k == Key(request[w])
    <2>1. InTime(pdf[w])
        BY <1>9 DEF Store
    <2>2. /\ DOMAIN cache' = DOMAIN cache \cup {k}
          /\ cache'[k] = [pdf |-> pdf[w], stored |-> now, expires |-> now + Lifetime]
          /\ \A x \in DOMAIN cache : x # k => cache'[x] = cache[x]
        BY <1>9, StoredAt, LifetimeTyped DEF Store
    <2>3. /\ cache'[k].expires = cache'[k].stored + Lifetime
          /\ now < cache'[k].expires
          /\ InTime(cache'[k].pdf)
        BY <2>1, <2>2, LifetimeTyped
    <2> QED
        BY <1>9, <2>2, <2>3 DEF Store
<1>10. CASE StoreFails(w)
    BY <1>10 DEF StoreFails
<1>11. CASE Done(w)
    BY <1>11 DEF Done
<1>12. CASE Release(w)
    BY <1>12 DEF Release
<1> QED
    BY <1>1, <1>2, <1>3, <1>4, <1>5, <1>6, <1>7, <1>8, <1>9, <1>10, <1>11, <1>12 DEF Step

LEMMA StepHeld ==
    ASSUME Inv, NEW w \in Worker, Step(w)
    PROVE  HeldInv'
<1> USE DEF Inv, TypeOK, HeldInv, Move, Stop
<1>1. ASSUME NEW f \in Form, Reject(w, f) PROVE HeldInv'
    BY <1>1 DEF Reject, vars
<1>2. ASSUME NEW f \in Form, Receive(w, f) PROVE HeldInv'
    <2>1. Params(f) \in PDFRequestParams
        BY <1>2, ParamsTyped, CacheAssumption DEF Receive, CacheAssumption
    <2> QED
        BY <1>2, <2>1 DEF Receive
<1>3. CASE Hit(w)
    BY <1>3 DEF Hit
<1>4. CASE Miss(w)
    BY <1>4 DEF Miss
<1>5. CASE Navigate(w)
    BY <1>5 DEF Navigate
<1>6. CASE PrintToPDF(w)
    <2>1. [of |-> request[w], fetched |-> began[w], printed |-> now] \in PDF
        BY <1>6 DEF PrintToPDF, PDF
    <2> QED
        BY <1>6, <2>1 DEF PrintToPDF
<1>7. CASE Fail(w)
    BY <1>7 DEF Fail
<1>8. CASE Again(w)
    BY <1>8 DEF Again
<1>9. CASE Store(w)
    BY <1>9 DEF Store
<1>10. CASE StoreFails(w)
    BY <1>10 DEF StoreFails
<1>11. CASE Done(w)
    BY <1>11 DEF Done
<1>12. CASE Release(w)
    BY <1>12 DEF Release
<1> QED
    BY <1>1, <1>2, <1>3, <1>4, <1>5, <1>6, <1>7, <1>8, <1>9, <1>10, <1>11, <1>12 DEF Step

LEMMA StepKey ==
    ASSUME Inv, NEW w \in Worker, Step(w)
    PROVE  KeyInv'
<1> USE DEF Inv, TypeOK, KeyInv, Move, Stop
<1>1. ASSUME NEW f \in Form, Reject(w, f) PROVE KeyInv'
    BY <1>1 DEF Reject, vars
<1>2. ASSUME NEW f \in Form, Receive(w, f) PROVE KeyInv'
    BY <1>2 DEF Receive
<1>3. CASE Hit(w)
    <2>1. cache[Key(request[w])].pdf \in PDF
        BY <1>3 DEF Hit, Entry
    <2> QED
        BY <1>3, <2>1 DEF Hit
<1>4. CASE Miss(w)
    BY <1>4 DEF Miss
<1>5. CASE Navigate(w)
    BY <1>5 DEF Navigate
<1>6. CASE PrintToPDF(w)
    BY <1>6 DEF PrintToPDF
<1>7. CASE Fail(w)
    BY <1>7 DEF Fail, HeldInv
<1>8. CASE Again(w)
    BY <1>8 DEF Again
<1>9. CASE Store(w)
    <2> DEFINE k == Key(request[w])
    <2>1. pdf[w] \in PDF /\ pdf[w].of = request[w]
        BY <1>9 DEF Store, HeldInv
    <2>2. /\ DOMAIN cache' = DOMAIN cache \cup {k}
          /\ cache'[k] = [pdf |-> pdf[w], stored |-> now, expires |-> now + Lifetime]
          /\ \A x \in DOMAIN cache : x # k => cache'[x] = cache[x]
        BY <1>9, StoredAt, LifetimeTyped DEF Store
    <2>3. \A x \in DOMAIN cache' : Key(cache'[x].pdf.of) = x
        <3>1. Key(cache'[k].pdf.of) = k
            BY <2>1, <2>2
        <3> QED
            BY <2>2, <3>1
    <2> QED
        BY <1>9, <2>1, <2>3 DEF Store
<1>10. CASE StoreFails(w)
    BY <1>10 DEF StoreFails, HeldInv
<1>11. CASE Done(w)
    BY <1>11 DEF Done
<1>12. CASE Release(w)
    BY <1>12 DEF Release
<1> QED
    BY <1>1, <1>2, <1>3, <1>4, <1>5, <1>6, <1>7, <1>8, <1>9, <1>10, <1>11, <1>12 DEF Step

LEMMA TickInv ==
    ASSUME Inv, Tick
    PROVE  Inv'
<1> USE DEF Inv, TypeOK
<1>1. /\ DOMAIN cache' \subseteq DOMAIN cache
      /\ \A k \in DOMAIN cache' :
            /\ cache'[k] = cache[k]
            /\ cache[k].expires = None \/ now' < cache[k].expires
    BY ExpireKeeps DEF Tick
<1>2. /\ now' = now + 1
      /\ \A w \in Worker : stage[w] = "rendering" => now < began[w] + Timeout
      /\ UNCHANGED <<stage, request, began, pdf>>
    BY DEF Tick
<1>3. TypeOK'
    BY <1>1, <1>2
<1>4. AgeInv'
    <2>1. None \notin Nat
        BY CacheAssumption DEF CacheAssumption
    <2>2. \A k \in DOMAIN cache : cache[k].expires # None
        BY <2>1, LifetimeTyped DEF AgeInv, Entry
    <2> QED
        BY <1>1, <1>2, <2>2, TimeoutTyped DEF AgeInv
<1>5. HeldInv' /\ KeyInv'
    BY <1>1, <1>2 DEF HeldInv, KeyInv
<1> QED
    BY <1>3, <1>4, <1>5

LEMMA NextInv == Inv /\ [Next]_vars => Inv'
<1> SUFFICES ASSUME Inv, [Next]_vars PROVE Inv'
    OBVIOUS
<1>1. ASSUME NEW w \in Worker, Step(w) PROVE Inv'
    BY <1>1, StepTyped, StepAge, StepHeld, StepKey DEF Inv
<1>2. CASE Tick
    BY <1>2, TickInv
<1>3. CASE UNCHANGED vars
    BY <1>3 DEF vars, Inv, TypeOK, AgeInv, HeldInv, KeyInv
<1> QED
    BY <1>1, <1>2, <1>3 DEF Next, Step

THEOREM Invariance == Spec => []Inv
BY InitInv, NextInv, PTL DEF Spec
-----------------------------------------------------------------------------
(* The theorems *)

\* The state of the handler and of the cache is typed, however many PDFs
\* are stored, whichever of them is overwritten and whenever Redis fails.
THEOREM TypeCorrect == Spec => []TypeOK
<1>1. Inv => TypeOK
    BY DEF Inv
<1> QED
    BY <1>1, Invariance, PTL

\* No PDF is served from the cache later than a lifetime and a render after its page
\* was fetched, but for what its own request took to give its tab back and to
\* reach Redis (renderPDF, getCachedPDF, setCachedPDF): for every configured
\* lifetime, 0 and below included, any retries and any order of the requests.
THEOREM CacheStaysFresh == Spec => []CacheIsFresh
<1>1. ASSUME Inv PROVE CacheIsFresh
    <2> SUFFICES ASSUME NEW k \in DOMAIN cache
                 PROVE  now < cache[k].pdf.fetched + Timeout + Delay(cache[k]) + Lifetime
        BY DEF CacheIsFresh
    <2>1. /\ cache[k].pdf.fetched \in Nat /\ cache[k].pdf.printed \in Nat
          /\ cache[k].stored \in Nat /\ now \in Nat
        BY <1>1 DEF Inv, TypeOK, Entry, PDF
    <2>2. now < cache[k].stored + Lifetime
        BY <1>1 DEF Inv, AgeInv
    <2>3. cache[k].pdf.printed <= cache[k].pdf.fetched + Timeout
        BY <1>1 DEF Inv, AgeInv, InTime
    <2> QED
        BY <2>1, <2>2, <2>3, LifetimeTyped, TimeoutTyped DEF Delay
<1> QED
    BY <1>1, Invariance, PTL

\* A request gets its text on the paper and with the margin it asks for,
\* printed for it or for another one with the same key (computePDFCacheKey).
THEOREM CopiesHaveTheLayout == Spec => []ServedAsAsked
<1>1. ASSUME Inv PROVE ServedAsAsked
    <2> SUFFICES ASSUME NEW w \in Worker, stage[w] = "answered", pdf[w] # None,
                        pdf[w].of.text = request[w].text
                 PROVE  SameLayout(pdf[w].of, request[w])
        BY DEF ServedAsAsked
    <2>1. pdf[w] \in PDF /\ Key(pdf[w].of) = Key(request[w])
        BY <1>1 DEF Inv, KeyInv
    <2>2. pdf[w].of \in PDFRequestParams /\ request[w] \in PDFRequestParams
        BY <1>1, <2>1 DEF Inv, HeldInv, PDF
    <2> QED
        BY <2>1, <2>2, KeyDeterminesLayout
<1> QED
    BY <1>1, Invariance, PTL

\* However texts collide in computePDFCacheKey, a copy shows the text asked for up
\* to the name of a format, of an orientation or of both at the end of one of
\* the two: no other document is ever served from the cache.
THEOREM CopiesAreClose == Spec => []ServedTextIsClose
<1>1. ASSUME Inv PROVE ServedTextIsClose
    <2> SUFFICES ASSUME NEW w \in Worker, stage[w] = "answered", pdf[w] # None
                 PROVE  \E words \in LayoutWords :
                            \/ pdf[w].of.text = request[w].text \o words
                            \/ request[w].text = pdf[w].of.text \o words
        BY DEF ServedTextIsClose
    <2>1. pdf[w] \in PDF /\ Key(pdf[w].of) = Key(request[w])
        BY <1>1 DEF Inv, KeyInv
    <2>2. pdf[w].of \in PDFRequestParams /\ request[w] \in PDFRequestParams
        BY <1>1, <2>1 DEF Inv, HeldInv, PDF
    <2> QED
        BY <2>1, <2>2, TextsOfOneKey
<1> QED
    BY <1>1, Invariance, PTL
=============================================================================
