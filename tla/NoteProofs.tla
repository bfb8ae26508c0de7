----------------------------- MODULE NoteProofs -----------------------------
(***************************************************************************)
(* The Markdown of a note, for every text and every sequence of commands.  *)
(* A text is put back together from its lines (PutTogether), and where its *)
(* lines start follows (StartsAre).  The tokenizer is a recursion that     *)
(* calls itself on the content of a span and on what follows it: for every *)
(* length there is one tokenizer of the texts below it (TokenizersExist,   *)
(* TokenizersAgree), so the definition has a value (InlineIs), and every   *)
(* text comes back from its segments (InlineGivesBack) because each span   *)
(* gives back the characters it takes (MatchFits).  A command leaves a     *)
(* text and a selection of it (CommandsFit), so what is shown is what is   *)
(* in the file, whatever the commands made of it.  The words of a text are *)
(* those of its parts in turn (WordsJoin) and no marker holds one, so a    *)
(* command keeps them (InlineKeepsWords, BlockKeepsWords, InsertKeepsWords,*)
(* LinkKeepsWords); a text is the only one with its lines (ReadBack), so a *)
(* ticked task is read back as one (TickedKinds, ToggleKeeps).             *)
(***************************************************************************)
EXTENDS NoteCommands, ListLemmas

\* Texts, texts without a break, and lists of one such text or more.
Texts == Seq(Characters)
Plain == Characters \ {NL}

\* A break is a text of one character.
LEMMA NLIsACharacter == NL \in Characters /\ <<NL>> \in Texts /\ Len(<<NL>>) = 1
<1>1. NL \in Characters
  BY DEF Characters
<1> QED
  BY <1>1 DEF Texts

\* Texts without a break are texts.
LEMMA PlainTexts ==
    /\ \A s \in Seq(Plain) : s \in Texts
    /\ \A s \in Seq(Seq(Plain)) : s \in Seq(Texts)
<1>1. \A c \in Plain : c \in Characters
  BY DEF Plain
<1>2. \A s \in Seq(Plain) : s \in Texts
  <2> SUFFICES ASSUME NEW s \in Seq(Plain) PROVE s \in Seq(Characters)
    BY DEF Texts
  <2>1. Len(s) \in Nat /\ s = [i \in 1..Len(s) |-> s[i]] /\ \A i \in 1..Len(s) : s[i] \in Characters
    BY <1>1
  <2> QED
    BY ONLY <2>1
<1>3. \A s \in Seq(Seq(Plain)) : s \in Seq(Texts)
  <2> DEFINE P == Seq(Plain)
  <2> SUFFICES ASSUME NEW s \in Seq(P) PROVE s \in Seq(Texts)
    OBVIOUS
  <2> HIDE DEF P
  <2>1. Len(s) \in Nat /\ s = [i \in 1..Len(s) |-> s[i]] /\ \A i \in 1..Len(s) : s[i] \in P
    OBVIOUS
  <2>2. \A i \in 1..Len(s) : s[i] \in Texts
    BY <1>2, <2>1 DEF P
  <2> QED
    BY ONLY <2>1, <2>2
<1> QED
  BY <1>2, <1>3

(* Lines, and the breaks before them. *)
Breaks(lines) == [i \in DOMAIN lines |-> <<NL>> \o lines[i]]

\* Each line with the break before it.
LEMMA BreaksAre ==
    ASSUME NEW lines \in Seq(Texts)
    PROVE  /\ Breaks(lines) \in Seq(Texts) /\ Len(Breaks(lines)) = Len(lines)
           /\ \A i \in 1..Len(lines) : Breaks(lines)[i] = <<NL>> \o lines[i]
<1> DEFINE n == Len(lines)
           b == Breaks(lines)
<1>1. n \in Nat /\ DOMAIN lines = 1..n /\ \A i \in 1..n : lines[i] \in Texts
  OBVIOUS
<1> HIDE DEF n
<1>2. b = [i \in 1..n |-> <<NL>> \o lines[i]]
  BY <1>1 DEF Breaks
<1>3. \A i \in 1..n : <<NL>> \o lines[i] \in Texts
  <2> SUFFICES ASSUME NEW i \in 1..n PROVE <<NL>> \o lines[i] \in Texts
    OBVIOUS
  <2>1. <<NL>> \in Seq(Characters) /\ lines[i] \in Seq(Characters)
    BY <1>1, NLIsACharacter DEF Texts
  <2> QED
    BY <2>1 DEF Texts
<1> HIDE DEF b
<1>4. b \in [1..n -> Texts]
  BY <1>2, <1>3
<1>5. b \in Seq(Texts) /\ Len(b) = n
  BY <1>1, <1>4
<1> QED
  BY <1>2, <1>5 DEF b, n

\* One line more is one break and line more.
LEMMA BreaksAppend ==
    ASSUME NEW lines \in Seq(Texts), NEW l \in Texts
    PROVE  Breaks(Append(lines, l)) = Append(Breaks(lines), <<NL>> \o l)
<1> DEFINE n == Len(lines)
           a == Append(lines, l)
           b == Breaks(a)
           e == <<NL>> \o l
           c == Append(Breaks(lines), e)
<1>1. n \in Nat /\ a \in Seq(Texts) /\ Len(a) = n + 1 /\ a[n + 1] = l /\ \A i \in 1..n : a[i] = lines[i]
  OBVIOUS
<1>2. e \in Texts
  <2>1. <<NL>> \in Seq(Characters) /\ l \in Seq(Characters)
    BY NLIsACharacter DEF Texts
  <2> QED
    BY <2>1 DEF Texts
<1> HIDE DEF a, e
<1>3. b \in Seq(Texts) /\ Len(b) = n + 1 /\ \A i \in 1..(n + 1) : b[i] = <<NL>> \o a[i]
  BY <1>1, BreaksAre
<1> DEFINE d == Breaks(lines)
<1>4. d \in Seq(Texts) /\ Len(d) = n /\ \A i \in 1..n : d[i] = <<NL>> \o lines[i]
  BY BreaksAre
<1> HIDE DEF b, d, n
<1>5. c \in Seq(Texts) /\ Len(c) = n + 1 /\ c[n + 1] = e /\ \A i \in 1..n : c[i] = d[i]
  BY <1>1, <1>2, <1>4 DEF d
<1> HIDE DEF c
<1>6. ASSUME NEW i \in 1..(n + 1) PROVE b[i] = c[i]
  <2>1. CASE i = n + 1
    BY <1>1, <1>3, <1>5, <2>1 DEF e
  <2>2. CASE i \in 1..n
    BY <1>1, <1>3, <1>4, <1>5, <2>2
  <2> QED
    BY <1>1, <2>1, <2>2
<1>7. b = c
  BY ONLY <1>1, <1>3, <1>5, <1>6
<1> QED
  BY <1>7 DEF a, b, c, d, e

\* The lines with their breaks are a text.
LEMMA BrokenIs ==
    ASSUME NEW lines \in Seq(Texts)
    PROVE  Broken(lines) = FlattenSeq(Breaks(lines)) /\ Broken(lines) \in Texts
<1>1. Broken(lines) = FlattenSeq(Breaks(lines))
  BY DEF Broken, Breaks
<1>2. Breaks(lines) \in Seq(Seq(Characters))
  BY BreaksAre DEF Texts
<1>3. FlattenSeq(Breaks(lines)) \in Seq(Characters)
  BY <1>2, FlattenTyped
<1> QED
  BY <1>1, <1>3 DEF Texts

\* One line more follows what the others make.
LEMMA BrokenAppend ==
    ASSUME NEW lines \in Seq(Texts), NEW l \in Texts
    PROVE  /\ Broken(Append(lines, l)) = Broken(lines) \o (<<NL>> \o l)
           /\ Len(Broken(Append(lines, l))) = Len(Broken(lines)) + 1 + Len(l)
<1> DEFINE a == Append(lines, l)
           b == Breaks(lines)
           e == <<NL>> \o l
<1>1. a \in Seq(Texts)
  OBVIOUS
<1>2. e \in Seq(Characters) /\ Len(e) = 1 + Len(l)
  <2>1. <<NL>> \in Seq(Characters) /\ l \in Seq(Characters) /\ Len(<<NL>>) = 1
    BY NLIsACharacter DEF Texts
  <2> QED
    BY <2>1
<1>3. Breaks(a) = Append(b, e)
  BY BreaksAppend
<1>4. b \in Seq(Seq(Characters))
  BY BreaksAre DEF Texts
<1> HIDE DEF a, b, e
<1>5. FlattenSeq(Append(b, e)) = FlattenSeq(b) \o e
  BY <1>2, <1>4, FlattenAppend
<1>6. Broken(a) = Broken(lines) \o e
  BY <1>1, <1>3, <1>5, BrokenIs DEF b
<1>7. Broken(lines) \in Seq(Characters)
  BY BrokenIs DEF Texts
<1>8. l \in Seq(Characters)
  BY DEF Texts
<1>9. Len(Broken(lines) \o e) = Len(Broken(lines)) + 1 + Len(l)
  <2> DEFINE x == Broken(lines)
  <2>1. x \in Seq(Characters) /\ e \in Seq(Characters) /\ Len(e) = 1 + Len(l) /\ Len(l) \in Nat
    BY <1>2, <1>7, <1>8
  <2> HIDE DEF x
  <2>2. Len(x \o e) = Len(x) + Len(e) /\ Len(x) \in Nat
    BY ONLY <2>1
  <2> QED
    BY ONLY <2>1, <2>2 DEF x
<1> QED
  BY <1>6, <1>9 DEF a, e

(* Cutting a text into lines, one character after the other. *)
Split(lines, c) ==
    IF c = NL THEN Append(lines, <<>>) ELSE [lines EXCEPT ![Len(lines)] = Append(@, c)]
Pages == {x \in Seq(Seq(Plain)) : x # <<>>}

\* Reading one more character keeps what was read (linesOf).
LEMMA SplitIs ==
    ASSUME NEW lines \in Pages, NEW c \in Characters
    PROVE  Split(lines, c) \in Pages /\ Broken(Split(lines, c)) = Append(Broken(lines), c)
<1> DEFINE P == Seq(Plain)
           B == Broken(lines)
<1>1. lines \in Seq(P) /\ lines # <<>> /\ lines \in Seq(Texts) /\ <<>> \in P /\ <<>> \in Texts
  BY PlainTexts DEF Pages, Texts
<1>2. B \in Seq(Characters)
  BY <1>1, BrokenIs DEF Texts
<1>3. CASE c = NL
  <2>1. Split(lines, c) = Append(lines, <<>>)
    BY <1>3 DEF Split
  <2>2. Append(lines, <<>>) \in Pages
    <3>1. Append(lines, <<>>) \in Seq(P) /\ Append(lines, <<>>) # <<>>
      BY <1>1
    <3> QED
      BY <3>1 DEF Pages
  <2>3. Broken(Append(lines, <<>>)) = B \o (<<NL>> \o <<>>)
    BY <1>1, BrokenAppend
  <2>4. <<NL>> \o <<>> = <<NL>>
    OBVIOUS
  <2> HIDE DEF B
  <2>5. B \o <<NL>> = Append(B, NL)
    BY <1>2, NLIsACharacter
  <2> QED
    BY <1>3, <2>1, <2>2, <2>3, <2>4, <2>5 DEF B
<1>4. CASE c # NL
  <2> DEFINE n == Len(lines)
             f == FrontOf(lines)
             l == lines[n]
             m == Append(l, c)
  <2>1. n \in Nat /\ n >= 1 /\ n \in 1..n
    BY <1>1
  <2>2. f \in Seq(P) /\ Len(f) = n - 1 /\ l \in P /\ lines = Append(f, l)
    <3> HIDE DEF P
    <3> QED
      BY <1>1, FrontAndLast
  <2>3. f \in Seq(Texts) /\ l \in Texts
    BY <2>2, PlainTexts
  <2>4. m \in P /\ m \in Texts
    <3>1. c \in Plain
      BY <1>4 DEF Plain
    <3>2. m \in P
      BY <2>2, <3>1
    <3> QED
      BY <3>2, PlainTexts
  <2>5. Split(lines, c) = [lines EXCEPT ![n] = m]
    BY <1>4 DEF Split
  <2> DEFINE s == [lines EXCEPT ![n] = m]
             a == Append(f, m)
  <2>6. s = a
    <3> HIDE DEF m, f, l
    <3>1. s \in Seq(P) /\ Len(s) = n /\ s[n] = m /\ \A i \in 1..(n - 1) : s[i] = lines[i]
      <4>1. \A i \in 1..(n - 1) : i \in 1..n /\ i # n
        BY <2>1
      <4> HIDE DEF P
      <4> QED
        BY <1>1, <2>1, <2>4, <4>1
    <3>2. a \in Seq(P) /\ Len(a) = n /\ a[n] = m /\ \A i \in 1..(n - 1) : a[i] = f[i]
      <4> HIDE DEF P
      <4> QED
        BY <2>1, <2>2, <2>4
    <3>3. \A i \in 1..(n - 1) : lines[i] = f[i]
      <4> HIDE DEF P, n
      <4>1. \A i \in 1..Len(f) : Append(f, l)[i] = f[i]
        BY <2>2
      <4> QED
        BY <2>2, <4>1
    <3> HIDE DEF s, a, n, P
    <3>4. \A i \in 1..n : s[i] = a[i]
      <4>1. \A i \in 1..n : i = n \/ i \in 1..(n - 1)
        BY <2>1
      <4> QED
        BY <3>1, <3>2, <3>3, <4>1
    <3> QED
      BY ONLY <3>1, <3>2, <3>4
  <2>7. a \in Pages
    <3>1. a \in Seq(P) /\ a # <<>>
      <4> HIDE DEF P, m, f
      <4> QED
        BY <2>2, <2>4
    <3> QED
      BY <3>1 DEF Pages
  <2>8. Broken(a) = Broken(f) \o (<<NL>> \o m)
    <3> HIDE DEF m, f
    <3> QED
      BY <2>3, <2>4, BrokenAppend
  <2>9. B = Broken(f) \o (<<NL>> \o l)
    <3> HIDE DEF m, f, l
    <3> QED
      BY <2>2, <2>3, BrokenAppend
  <2>10. Broken(f) \o (<<NL>> \o m) = Append(Broken(f) \o (<<NL>> \o l), c)
    <3> DEFINE g == Broken(f)
               e == <<NL>> \o l
    <3>1. g \in Seq(Characters) /\ l \in Seq(Characters) /\ <<NL>> \in Seq(Characters)
      BY <2>3, BrokenIs, NLIsACharacter DEF Texts
    <3> HIDE DEF f, l, g
    <3>2. <<NL>> \o Append(l, c) = Append(e, c) /\ e \in Seq(Characters)
      BY <3>1, AppendOfConcat
    <3> HIDE DEF e
    <3>3. g \o Append(e, c) = Append(g \o e, c)
      BY <3>1, <3>2, AppendOfConcat
    <3> QED
      BY <3>2, <3>3 DEF g, e
  <2> QED
    BY <2>5, <2>6, <2>7, <2>8, <2>9, <2>10
<1> QED
  BY <1>3, <1>4

\* The lines after each character, as LinesOf defines them.
Splits(text, f) == f = [n \in 0..Len(text) |-> IF n = 0 THEN << <<>> >> ELSE Split(f[n - 1], text[n])]

\* The reading of a text character by character has a solution.
LEMMA SplitsExist ==
    ASSUME NEW text \in Texts
    PROVE  \E f : Splits(text, f)
<1> DEFINE N == Len(text)
           F == [k \in Nat |-> [x \in Pages |-> IF k \in 1..N THEN Split(x, text[k]) ELSE x]]
           x0 == << <<>> >>
<1>1. N \in Nat /\ \A k \in 1..N : text[k] \in Characters
  BY DEF Texts
<1>2. x0 \in Pages
  BY DEF Pages
<1> HIDE DEF N, x0
<1>3. F \in [Nat -> [Pages -> Pages]]
  <2>1. \A k \in Nat, x \in Pages : (IF k \in 1..N THEN Split(x, text[k]) ELSE x) \in Pages
    BY <1>1, SplitIs
  <2> QED
    BY <2>1
<1>4. \A k \in 1..N, x \in Pages : k \in Nat /\ F[k][x] = Split(x, text[k])
  BY <1>1
<1> HIDE DEF F
<1>5. PICK f : Folds(Pages, x0, F, N, f)
  BY <1>1, <1>2, <1>3, FoldExists
<1>6. f \in [0..N -> Pages] /\ f[0] = x0 /\ \A k \in 1..N : f[k] = F[k][f[k - 1]]
  BY <1>5 DEF Folds
<1> DEFINE h == [n \in 0..N |-> IF n = 0 THEN x0 ELSE Split(f[n - 1], text[n])]
<1>7. ASSUME NEW k \in 0..N PROVE f[k] = h[k]
  <2>1. CASE k = 0
    BY <1>6, <2>1
  <2>2. CASE k # 0
    <3>1. k \in 1..N /\ k - 1 \in 0..N
      BY <1>1, <2>2
    <3>2. f[k] = Split(f[k - 1], text[k])
      BY <1>4, <1>6, <3>1
    <3> QED
      BY <2>2, <3>2
  <2> QED
    BY <2>1, <2>2
<1>8. f = h
  <2>1. f = [k \in 0..N |-> f[k]] /\ h = [k \in 0..N |-> h[k]]
    BY <1>6
  <2> HIDE DEF h
  <2> QED
    BY <1>7, <2>1
<1>9. Splits(text, f)
  BY <1>8 DEF Splits, N, x0
<1> QED
  BY <1>9

(* A text is its lines with the breaks between them. *)
LEMMA LinesOfIs ==
    ASSUME NEW text \in Texts
    PROVE  LinesOf(text) \in Pages /\ Broken(LinesOf(text)) = <<NL>> \o text
<1> DEFINE N == Len(text)
           f == CHOOSE f : Splits(text, f)
<1>1. N \in Nat /\ \A k \in 1..N : text[k] \in Characters
  BY DEF Texts
<1>2. Splits(text, f)
  BY SplitsExist
<1>3. LinesOf(text) = f[N]
  BY DEF LinesOf, Splits, Split
<1> HIDE DEF f
<1>4. f[0] = << <<>> >> /\ \A k \in 0..N : k # 0 => f[k] = Split(f[k - 1], text[k])
  <2>1. 0 \in 0..N
    BY <1>1
  <2> QED
    BY <1>2, <2>1 DEF Splits
<1> DEFINE T == {n \in Nat : n <= N => f[n] \in Pages /\ Broken(f[n]) = <<NL>> \o SubSeq(text, 1, n)}
<1>5. 0 \in T
  <2>1. f[0] \in Pages
    BY <1>4 DEF Pages
  <2>2. <<>> \in Seq(Texts) /\ <<>> \in Texts /\ << <<>> >> = Append(<<>>, <<>>)
    BY DEF Texts
  <2>3. Broken(Append(<<>>, <<>>)) = Broken(<<>>) \o (<<NL>> \o <<>>)
    BY <2>2, BrokenAppend
  <2>4. Broken(<<>>) = <<>>
    BY FlattenNothing DEF Broken
  <2>5. SubSeq(text, 1, 0) = <<>> /\ <<>> \o (<<NL>> \o <<>>) = <<NL>> \o <<>>
    BY DEF Texts
  <2> QED
    BY <1>4, <2>1, <2>2, <2>3, <2>4, <2>5
<1>6. ASSUME NEW n \in Nat, n \in T PROVE n + 1 \in T
  <2> SUFFICES ASSUME n + 1 <= N PROVE f[n + 1] \in Pages /\ Broken(f[n + 1]) = <<NL>> \o SubSeq(text, 1, n + 1)
    OBVIOUS
  <2> DEFINE c == text[n + 1]
             p == SubSeq(text, 1, n)
             q == SubSeq(text, 1, n + 1)
             x == f[n]
  <2>1. n + 1 \in 0..N /\ n + 1 # 0 /\ (n + 1) - 1 = n /\ n + 1 \in 1..N /\ n \in 0..N /\ n + 1 \in 0..N
    BY <1>1
  <2>2. x \in Pages /\ Broken(x) = <<NL>> \o p
    BY <1>1, <1>6
  <2>3. f[n + 1] = Split(x, c) /\ c \in Characters
    BY <1>1, <1>4, <2>1
  <2>4. p \in Seq(Characters) /\ q = Append(p, c)
    <3> HIDE DEF c, p, q
    <3>1. p \in Seq(Characters) /\ Len(p) = n /\ \A i \in 1..n : p[i] = text[i]
      BY <2>1, CutList DEF p, Texts
    <3>2. q \in Seq(Characters) /\ Len(q) = n + 1 /\ \A i \in 1..(n + 1) : q[i] = text[i]
      <4> DEFINE m == n + 1
      <4>1. m \in 0..Len(text) /\ text \in Seq(Characters)
        BY <2>1 DEF Texts
      <4> HIDE DEF m
      <4>2. SubSeq(text, 1, m) \in Seq(Characters) /\ Len(SubSeq(text, 1, m)) = m /\ \A k \in 1..m : SubSeq(text, 1, m)[k] = text[k]
        BY <4>1, CutList
      <4> QED
        BY <4>2 DEF m, q
    <3> DEFINE a == Append(p, c)
    <3>3. a \in Seq(Characters) /\ Len(a) = n + 1 /\ a[n + 1] = c /\ \A i \in 1..n : a[i] = p[i]
      BY <2>3, <3>1
    <3> HIDE DEF a
    <3>4. \A i \in 1..(n + 1) : a[i] = q[i]
      <4>1. \A i \in 1..(n + 1) : i = n + 1 \/ i \in 1..n
        OBVIOUS
      <4> QED
        BY <3>1, <3>2, <3>3, <4>1 DEF c
    <3>5. a = q
      BY ONLY <3>2, <3>3, <3>4
    <3> QED
      BY <3>1, <3>5 DEF a
  <2> HIDE DEF c, p, q, x
  <2>5. Split(x, c) \in Pages /\ Broken(Split(x, c)) = Append(Broken(x), c)
    BY <2>2, <2>3, SplitIs
  <2>6. <<NL>> \in Seq(Characters)
    BY NLIsACharacter DEF Texts
  <2>7. <<NL>> \o Append(p, c) = Append(<<NL>> \o p, c)
    BY ONLY <2>3, <2>4, <2>6, AppendOfConcat
  <2> QED
    BY <2>2, <2>3, <2>4, <2>5, <2>7 DEF q
<1>7. T \in SUBSET Nat
  OBVIOUS
<1> HIDE DEF T
<1>8. T = Nat
  BY <1>5, <1>6, <1>7, ByInduction
<1>9. SubSeq(text, 1, N) = text
  BY DEF Texts
<1>10. f[N] \in Pages /\ Broken(f[N]) = <<NL>> \o SubSeq(text, 1, N)
  BY <1>1, <1>8 DEF T
<1> QED
  BY <1>3, <1>9, <1>10

(* The lines of a text, put back together, are the text. *)
LEMMA PutTogether ==
    ASSUME NEW text \in Texts
    PROVE  SerializeLines(LinesOf(text)) = text
<1>1. Tail(<<NL>> \o text) = text
  BY DEF Texts
<1> QED
  BY <1>1, LinesOfIs DEF SerializeLines

\* Lines put behind lines.
LEMMA BrokenConcat ==
    ASSUME NEW p \in Seq(Texts), NEW q \in Seq(Texts)
    PROVE  p \o q \in Seq(Texts) /\ Broken(p \o q) = Broken(p) \o Broken(q)
<1> DEFINE lines == p \o q
<1>0. lines \in Seq(Texts) /\ Len(p) \in Nat /\ Len(q) \in Nat /\ Len(lines) = Len(p) + Len(q)
      /\ \A i \in 1..(Len(p) + Len(q)) : lines[i] = IF i <= Len(p) THEN p[i] ELSE q[i - Len(p)]
  <2>1. p \in Seq(Texts) /\ q \in Seq(Texts) /\ Len(p) \in Nat /\ Len(q) \in Nat
    OBVIOUS
  <2> QED
    BY ONLY <2>1, ConcatProperties
<1> HIDE DEF lines
<1> DEFINE bp == Breaks(p)
           bq == Breaks(q)
           bl == Breaks(lines)
           c == bp \o bq
<1>1. bp \in Seq(Texts) /\ bq \in Seq(Texts)
  BY <1>0, BreaksAre
<1>2. bl = c
  <2>1. bl \in Seq(Texts) /\ Len(bl) = Len(lines) /\ \A i \in 1..Len(lines) : bl[i] = <<NL>> \o lines[i]
    BY <1>0, BreaksAre
  <2>2. Len(bp) = Len(p) /\ \A i \in 1..Len(p) : bp[i] = <<NL>> \o p[i]
    BY <1>0, BreaksAre
  <2>3. Len(bq) = Len(q) /\ \A i \in 1..Len(q) : bq[i] = <<NL>> \o q[i]
    BY <1>0, BreaksAre
  <2>4. Len(p) \in Nat /\ Len(q) \in Nat /\ Len(lines) = Len(p) + Len(q)
    BY <1>0
  <2>41. bp \in Seq(Texts)
    BY <1>1
  <2>42. bq \in Seq(Texts)
    BY <1>1
  <2>43. c \in Seq(Texts) /\ Len(c) = Len(bp) + Len(bq) /\ \A i \in 1..(Len(bp) + Len(bq)) : c[i] = IF i <= Len(bp) THEN bp[i] ELSE bq[i - Len(bp)]
    BY ONLY <2>41, <2>42, ConcatProperties, Zenon
  <2> HIDE DEF bl, bp, bq
  <2>5. c \in Seq(Texts) /\ Len(c) = Len(p) + Len(q) /\ \A i \in 1..(Len(p) + Len(q)) : c[i] = IF i <= Len(p) THEN bp[i] ELSE bq[i - Len(p)]
    BY <2>2, <2>3, <2>43
  <2>6. \A i \in 1..(Len(p) + Len(q)) : lines[i] = IF i <= Len(p) THEN p[i] ELSE q[i - Len(p)]
    BY <1>0
  <2> HIDE DEF c
  <2>7. ASSUME NEW i \in 1..Len(lines) PROVE bl[i] = c[i]
    <3>1. CASE i <= Len(p)
      <4>1. i \in 1..Len(p) /\ i \in 1..(Len(p) + Len(q))
        BY <2>4, <3>1
      <4> QED
        BY <2>1, <2>2, <2>5, <2>6, <3>1, <4>1
    <3>2. CASE ~(i <= Len(p))
      <4>1. i - Len(p) \in 1..Len(q) /\ i \in 1..(Len(p) + Len(q))
        BY <2>4, <3>2
      <4> QED
        BY <2>1, <2>3, <2>5, <2>6, <3>2, <4>1
    <3> QED
      BY <3>1, <3>2
  <2>8. Len(bl) = Len(c) /\ \A i \in 1..Len(bl) : bl[i] = c[i]
    BY <2>1, <2>4, <2>5, <2>7
  <2> QED
    BY ONLY <2>1, <2>5, <2>8
<1>3. FlattenSeq(c) = FlattenSeq(bp) \o FlattenSeq(bq)
  <2>1. bp \in Seq(Seq(Characters)) /\ bq \in Seq(Seq(Characters))
    BY <1>1 DEF Texts
  <2> HIDE DEF bp, bq
  <2> QED
    BY <2>1, FlattenConcat
<1>4. Broken(p) = FlattenSeq(bp) /\ Broken(p) \in Texts /\ Broken(q) = FlattenSeq(bq) /\ Broken(q) \in Texts
      /\ Broken(lines) = FlattenSeq(bl)
  BY <1>0, BrokenIs
<1>5. Broken(lines) = Broken(p) \o Broken(q)
  BY <1>2, <1>3, <1>4
<1> QED
  BY <1>0, <1>5 DEF lines

(* What stands before a line ends where what stands before the next begins. *)
LEMMA BrokenPrefix ==
    ASSUME NEW lines \in Seq(Texts), NEW n \in 0..Len(lines)
    PROVE  /\ SubSeq(lines, 1, n) \in Seq(Texts)
           /\ Len(Broken(SubSeq(lines, 1, n))) \in Nat
           /\ Len(Broken(SubSeq(lines, 1, n))) <= Len(Broken(lines))
           /\ n > 0 => Len(Broken(SubSeq(lines, 1, n)))
                         = Len(Broken(SubSeq(lines, 1, n - 1))) + 1 + Len(lines[n])
<1> DEFINE p == SubSeq(lines, 1, n)
           q == SubSeq(lines, n + 1, Len(lines))
<1>1. p \in Seq(Texts) /\ Len(p) = n /\ (\A k \in 1..n : p[k] = lines[k]) /\ q \in Seq(Texts)
      /\ Len(q) = Len(lines) - n /\ lines = p \o q
  BY CutList, ZenonT(60)
<1> HIDE DEF p, q
<1>2. Len(Broken(p)) \in Nat /\ Len(Broken(p)) <= Len(Broken(lines))
  <2>1. Broken(lines) = Broken(p) \o Broken(q)
    BY <1>1, BrokenConcat
  <2>2. Broken(p) \in Seq(Characters) /\ Broken(q) \in Seq(Characters)
    BY <1>1, BrokenIs DEF Texts
  <2> QED
    BY ONLY <2>1, <2>2
<1>3. ASSUME n > 0 PROVE Len(Broken(p)) = Len(Broken(SubSeq(lines, 1, n - 1))) + 1 + Len(lines[n])
  <2> DEFINE f == FrontOf(p)
             l == p[n]
  <2>1. p # <<>> /\ n \in 1..n /\ n - 1 \in 0..Len(lines)
    BY <1>1, <1>3
  <2>2. f \in Seq(Texts) /\ Len(f) = n - 1 /\ l \in Texts /\ p = Append(f, l)
    BY <1>1, <2>1, FrontAndLast
  <2>3. Len(Broken(p)) = Len(Broken(f)) + 1 + Len(l)
    <3> HIDE DEF f, l
    <3> QED
      BY <2>2, BrokenAppend
  <2>4. f = SubSeq(lines, 1, n - 1)
    <3> DEFINE g == SubSeq(lines, 1, n - 1)
               m == n - 1
    <3>1. SubSeq(lines, 1, m) \in Seq(Texts) /\ Len(SubSeq(lines, 1, m)) = m /\ \A k \in 1..m : SubSeq(lines, 1, m)[k] = lines[k]
      <4> HIDE DEF m
      <4>1. m \in 0..Len(lines)
        BY <2>1 DEF m
      <4> QED
        BY <4>1, CutList
    <3>2. \A k \in 1..m : f[k] = p[k]
      BY <1>1, <2>1 DEF FrontOf
    <3> HIDE DEF f, g
    <3>3. \A k \in 1..m : f[k] = g[k]
      BY <1>1, <2>1, <3>1, <3>2 DEF g
    <3>4. g \in Seq(Texts) /\ Len(g) = m /\ f \in Seq(Texts) /\ Len(f) = m
      BY <2>2, <3>1 DEF g
    <3> HIDE DEF m
    <3>5. f = g
      BY ONLY <3>3, <3>4
    <3> QED
      BY <3>5 DEF g, m
  <2> QED
    BY <1>1, <2>1, <2>3, <2>4
<1> QED
  BY <1>1, <1>2, <1>3 DEF p

\* Where lines start: the first at 0, each behind the break that ends the last.
LEMMA StartsAre ==
    ASSUME NEW lines \in Seq(Texts)
    PROVE  /\ LineStarts(lines) \in Seq(Nat) /\ Len(LineStarts(lines)) = Len(lines)
           /\ Len(lines) > 0 => LineStarts(lines)[1] = 0
           /\ \A i \in 1..Len(lines) : LineStarts(lines)[i] + 1 + Len(lines[i]) <= Len(Broken(lines))
           /\ \A i \in 1..Len(lines) : i + 1 \in 1..Len(lines) =>
                 LineStarts(lines)[i + 1] = LineStarts(lines)[i] + 1 + Len(lines[i])
<1> DEFINE n == Len(lines)
           s == LineStarts(lines)
           B(i) == Len(Broken(SubSeq(lines, 1, i)))
<1>1. n \in Nat /\ DOMAIN lines = 1..n /\ \A i \in 1..n : lines[i] \in Texts /\ Len(lines[i]) \in Nat
  BY DEF Texts
<1>2. s = [i \in 1..n |-> B(i - 1)]
  BY <1>1 DEF LineStarts
<1>3. \A i \in 0..n : B(i) \in Nat /\ B(i) <= Len(Broken(lines))
  BY BrokenPrefix
<1>4. \A i \in 1..n : B(i) = B(i - 1) + 1 + Len(lines[i])
  <2> SUFFICES ASSUME NEW i \in 1..n PROVE B(i) = B(i - 1) + 1 + Len(lines[i])
    OBVIOUS
  <2>1. i \in 0..Len(lines) /\ i > 0
    BY <1>1
  <2> QED
    BY <2>1, BrokenPrefix
<1>5. n > 0 => B(0) = 0
  <2>1. SubSeq(lines, 1, 0) = <<>> /\ Broken(<<>>) = <<>> /\ Len(<<>>) = 0
    BY FlattenNothing DEF Broken
  <2> QED
    BY <2>1
<1> HIDE DEF B, n, s
<1>6. \A i \in 1..n : i - 1 \in 0..n /\ i \in 0..n /\ s[i] = B(i - 1) /\ s[i] \in Nat
  <2>1. \A i \in 1..n : i - 1 \in 0..n /\ i \in 0..n
    BY <1>1
  <2> QED
    BY <1>2, <1>3, <2>1
<1>7. s \in Seq(Nat) /\ Len(s) = n
  <2>1. s \in [1..n -> Nat]
    BY <1>2, <1>3, <1>6
  <2> QED
    BY <1>1, <2>1
<1>8. n > 0 => s[1] = 0
  <2> SUFFICES ASSUME n > 0 PROVE s[1] = 0
    OBVIOUS
  <2>1. 1 \in 1..n /\ 1 - 1 = 0
    BY <1>1
  <2> QED
    BY <1>5, <1>6, <2>1
<1>9. \A i \in 1..n : s[i] + 1 + Len(lines[i]) <= Len(Broken(lines))
  BY <1>3, <1>4, <1>6
<1>10. ASSUME NEW i \in 1..n, i + 1 \in 1..n PROVE s[i + 1] = s[i] + 1 + Len(lines[i])
  <2>1. (i + 1) - 1 = i
    BY <1>1
  <2> QED
    BY <1>4, <1>6, <1>10, <2>1
<1> QED
  BY <1>7, <1>8, <1>9, <1>10 DEF n, s

\* What comes before ends before what comes after begins.
LEMMA StartsRise ==
    ASSUME NEW lines \in Seq(Texts), NEW i \in 1..Len(lines), NEW j \in 1..Len(lines), i < j
    PROVE  LineStarts(lines)[i] + 1 + Len(lines[i]) <= LineStarts(lines)[j]
<1> DEFINE n == Len(lines)
           s == LineStarts(lines)
           T == {k \in Nat : (i + 1) + k <= n => s[i] + 1 + Len(lines[i]) <= s[(i + 1) + k]}
<1>1. n \in Nat /\ \A k \in 1..n : Len(lines[k]) \in Nat
  BY DEF Texts
<1>2. s \in Seq(Nat) /\ Len(s) = n /\ (\A k \in 1..n : k + 1 \in 1..n => s[k + 1] = s[k] + 1 + Len(lines[k]))
  BY StartsAre
<1>3. \A k \in 1..n : s[k] \in Nat
  BY <1>2
<1> HIDE DEF n, s
<1>0. i \in 1..n /\ j \in 1..n
  BY DEF n
<1>4. 0 \in T
  <2> SUFFICES ASSUME i + 1 <= n PROVE s[i] + 1 + Len(lines[i]) <= s[i + 1]
    BY <1>0
  <2>1. i + 1 \in 1..n
    BY <1>0, <1>1
  <2> QED
    BY <1>0, <1>1, <1>2, <1>3, <2>1
<1>5. ASSUME NEW k \in Nat, k \in T PROVE k + 1 \in T
  <2> DEFINE m == (i + 1) + k
  <2> SUFFICES ASSUME m + 1 <= n PROVE s[i] + 1 + Len(lines[i]) <= s[m + 1]
    <3>1. (i + 1) + (k + 1) = m + 1
      BY <1>0
    <3> QED
      BY <3>1
  <2>1. m \in 1..n /\ m + 1 \in 1..n
    BY <1>0, <1>1
  <2>2. s[i] + 1 + Len(lines[i]) <= s[m]
    BY <1>5, <2>1
  <2> HIDE DEF m
  <2>3. s[m + 1] = s[m] + 1 + Len(lines[m])
    BY <1>2, <2>1
  <2>4. s[m] \in Nat /\ Len(lines[m]) \in Nat /\ s[i] \in Nat /\ Len(lines[i]) \in Nat
    BY <1>0, <1>1, <1>3, <2>1
  <2> QED
    BY ONLY <2>2, <2>3, <2>4, SMTT(30)
<1>6. T \in SUBSET Nat
  OBVIOUS
<1>7. T = Nat
  <2> HIDE DEF T
  <2> QED
    BY <1>4, <1>5, <1>6, ByInduction
<1>8. j - (i + 1) \in Nat /\ (i + 1) + (j - (i + 1)) = j /\ j <= n
  BY <1>0, <1>1
<1>9. s[i] + 1 + Len(lines[i]) <= s[j]
  BY <1>7, <1>8
<1> QED
  BY <1>9 DEF s

(* The line of an offset. *)
LEMMA LineIndexIs ==
    ASSUME NEW lines \in Seq(Texts), lines # <<>>, NEW offset \in Nat
    PROVE  /\ LineIndexAt(LineStarts(lines), offset) \in 1..Len(lines)
           /\ LineStarts(lines)[LineIndexAt(LineStarts(lines), offset)] <= offset
           /\ \A i \in 1..Len(lines) :
                 LineStarts(lines)[i] <= offset => i <= LineIndexAt(LineStarts(lines), offset)
<1> DEFINE n == Len(lines)
           s == LineStarts(lines)
           S == {1} \cup {i \in 1..Len(s) : offset >= s[i]}
<1>1. n \in Nat /\ n > 0
  OBVIOUS
<1>2. s \in Seq(Nat) /\ Len(s) = n /\ s[1] = 0
  BY <1>1, StartsAre
<1> HIDE DEF n, s
<1>3. \A i \in 1..n : s[i] \in Nat
  BY <1>2
<1>4. S \in SUBSET (0..n) /\ S # {} /\ \A k \in S : k \in 1..n /\ s[k] <= offset
  BY <1>1, <1>2, <1>3
<1>5. \A i \in 1..n : s[i] <= offset => i \in S
  BY <1>1, <1>2, <1>3
<1>6. LineIndexAt(s, offset) = Max(S)
  BY DEF LineIndexAt
<1> HIDE DEF S
<1>7. Max(S) \in S /\ \A k \in S : k <= Max(S)
  BY <1>1, <1>4, GreatestPlace
<1>8. /\ LineIndexAt(s, offset) \in 1..n
      /\ s[LineIndexAt(s, offset)] <= offset
      /\ \A i \in 1..n : s[i] <= offset => i <= LineIndexAt(s, offset)
  BY <1>4, <1>5, <1>6, <1>7
<1> QED
  BY <1>8 DEF n, s

\* The line of the offset at which a line starts is that line.
LEMMA LineIndexOfStart ==
    ASSUME NEW lines \in Seq(Texts), NEW i \in 1..Len(lines)
    PROVE  /\ LineIndexAt(LineStarts(lines), LineStarts(lines)[i]) = i
           /\ LineStarts(lines)[i] \in Nat
<1> DEFINE n == Len(lines)
           s == LineStarts(lines)
           k == LineIndexAt(s, s[i])
<1>1. s \in Seq(Nat) /\ Len(s) = n /\ n \in Nat /\ lines # <<>>
  BY StartsAre
<1>2. \A j \in 1..n : s[j] \in Nat /\ Len(lines[j]) \in Nat
  BY <1>1 DEF Texts
<1>3. i \in 1..n /\ s[i] \in Nat
  BY <1>2
<1> HIDE DEF s, n
<1>4. k \in 1..n /\ s[k] <= s[i] /\ i <= k
  <2>1. \A o \in Nat : /\ LineIndexAt(s, o) \in 1..n
                       /\ s[LineIndexAt(s, o)] <= o
                       /\ \A j \in 1..n : s[j] <= o => j <= LineIndexAt(s, o)
    BY <1>1, LineIndexIs DEF s, n
  <2>2. s[i] <= s[i]
    BY <1>3
  <2> QED
    BY <1>3, <2>1, <2>2
<1> HIDE DEF k
<1>5. ASSUME i < k PROVE FALSE
  <2>1. s[i] + 1 + Len(lines[i]) <= s[k]
    BY <1>3, <1>4, <1>5, StartsRise DEF s, n
  <2> QED
    BY <1>2, <1>3, <1>4, <2>1
<1>6. k = i
  BY <1>1, <1>3, <1>4, <1>5
<1> QED
  BY <1>3, <1>6 DEF s, k

(* How far a class of characters reaches. *)
LEMMA RunIs ==
    ASSUME NEW s \in Texts, NEW i \in Nat, NEW allowed
    PROVE  /\ Run(s, i, allowed) \in Nat
           /\ Run(s, i, allowed) > 0 => i + Run(s, i, allowed) <= Len(s)
           /\ \A j \in (i + 1)..(i + Run(s, i, allowed)) : j \in 1..Len(s) /\ s[j] \in allowed
           /\ i + Run(s, i, allowed) < Len(s) => s[i + Run(s, i, allowed) + 1] \notin allowed
<1> DEFINE n == Len(s)
           Good(k) == \A j \in (i + 1)..(i + k) : s[j] \in allowed
           S == {0} \cup {k \in 1..(n - i) : Good(k)}
           r == Run(s, i, allowed)
<1>1. n \in Nat
  BY DEF Texts
<1>2. r = Max(S)
  BY DEF Run
<1> HIDE DEF n, r
<1>3. S \in SUBSET (0..n) /\ S # {}
  BY <1>1
<1>4. \A k \in S : k = 0 \/ (k \in 1..(n - i) /\ Good(k))
  OBVIOUS
<1>5. \A k \in 1..(n - i) : Good(k) => k \in S
  OBVIOUS
<1> HIDE DEF S
<1>6. r \in S /\ \A k \in S : k <= r
  BY <1>1, <1>2, <1>3, GreatestPlace
<1>7. r \in Nat /\ (r > 0 => i + r <= n)
  BY <1>1, <1>3, <1>4, <1>6
<1>8. \A j \in (i + 1)..(i + r) : j \in 1..n /\ s[j] \in allowed
  <2> SUFFICES ASSUME NEW j \in (i + 1)..(i + r) PROVE j \in 1..n /\ s[j] \in allowed
    OBVIOUS
  <2>1. r > 0 /\ j \in 1..n
    BY <1>1, <1>7
  <2> QED
    BY <1>4, <1>6, <2>1
<1>9. ASSUME i + r < n, s[i + r + 1] \in allowed PROVE FALSE
  <2>1. r + 1 \in 1..(n - i) /\ ~(r + 1 <= r) /\ i + (r + 1) = (i + r) + 1
    BY <1>1, <1>7, <1>9
  <2>2. Good(r + 1)
    <3> SUFFICES ASSUME NEW j \in (i + 1)..(i + (r + 1)) PROVE s[j] \in allowed
      OBVIOUS
    <3>1. j = (i + r) + 1 \/ j \in (i + 1)..(i + r)
      BY <1>7
    <3> QED
      BY <1>8, <1>9, <3>1
  <2> HIDE DEF Good
  <2> QED
    BY <1>5, <1>6, <2>1, <2>2
<1> QED
  BY <1>7, <1>8, <1>9 DEF n, r

\* A run of what is not in a set reaches no further than the line.
LEMMA RunExceptIs ==
    ASSUME NEW s \in Texts, NEW i \in Nat, NEW stops
    PROVE  /\ RunExcept(s, i, stops) \in Nat
           /\ RunExcept(s, i, stops) > 0 => i + RunExcept(s, i, stops) <= Len(s)
<1> DEFINE n == Len(s)
           S == {0} \cup {k \in 1..(n - i) : \A j \in (i + 1)..(i + k) : s[j] \notin stops}
           r == RunExcept(s, i, stops)
<1>1. n \in Nat
  BY DEF Texts
<1>2. r = Max(S)
  BY DEF RunExcept
<1> HIDE DEF n, r
<1>3. S \in SUBSET (0..n) /\ S # {} /\ \A k \in S : k = 0 \/ k \in 1..(n - i)
  BY <1>1
<1> HIDE DEF S
<1>4. r \in S
  BY <1>1, <1>2, <1>3, GreatestPlace
<1>5. r \in Nat /\ (r > 0 => i + r <= n)
  BY <1>1, <1>3, <1>4
<1> QED
  BY <1>5 DEF n, r

\* A character that is not "" is one of the line.
LEMMA AtIs ==
    ASSUME NEW s \in Texts, NEW i \in Int, At(s, i) # ""
    PROVE  i \in 0..(Len(s) - 1) /\ At(s, i) = s[i + 1]
  BY DEF At

(* Slices. *)
LEMMA SliceIs ==
    ASSUME NEW K, NEW s \in Seq(K), NEW a \in Nat, NEW b \in a..Len(s)
    PROVE  /\ Slice(s, a, b) \in Seq(K) /\ Len(Slice(s, a, b)) = b - a
           /\ \A k \in 1..(b - a) : Slice(s, a, b)[k] = s[a + k]
<1>1. Len(s) \in Nat /\ a + 1 \in Nat /\ b \in Nat
  OBVIOUS
<1>2. Slice(s, a, b) = SubSeq(s, a + 1, b)
  BY <1>1 DEF Slice
<1>3. \A i \in (a + 1)..b : i \in 1..Len(s)
  BY <1>1
<1>4. /\ SubSeq(s, a + 1, b) \in Seq(K)
      /\ Len(SubSeq(s, a + 1, b)) = IF a + 1 <= b THEN b - (a + 1) + 1 ELSE 0
      /\ \A i \in 1..(b - (a + 1) + 1) : SubSeq(s, a + 1, b)[i] = s[(a + 1) + i - 1]
  BY <1>1, <1>3, SubSeqProperties
<1>5. (IF a + 1 <= b THEN b - (a + 1) + 1 ELSE 0) = b - a /\ b - (a + 1) + 1 = b - a
      /\ \A i \in 1..(b - a) : (a + 1) + i - 1 = a + i
  BY <1>1
<1> QED
  BY <1>2, <1>4, <1>5

\* A slice that is as long as it was asked for lies within the text.
LEMMA WholeSlice ==
    ASSUME NEW s \in Texts, NEW a \in Nat, NEW m \in Nat, m > 0, Len(Slice(s, a, a + m)) = m
    PROVE  a + m <= Len(s)
<1>1. Len(s) \in Nat
  BY DEF Texts
<1> SUFFICES ASSUME Len(s) < a + m PROVE FALSE
  BY <1>1
<1>2. Slice(s, a, a + m) = SubSeq(s, a + 1, Len(s))
  BY <1>1 DEF Slice
<1>3. CASE a > Len(s)
  <2>1. SubSeq(s, a + 1, Len(s)) = <<>>
    BY <1>1, <1>3 DEF Texts
  <2> QED
    BY <1>2, <2>1
<1>4. CASE a <= Len(s)
  <2>1. a \in 0..Len(s) /\ s \in Seq(Characters)
    BY <1>1, <1>4 DEF Texts
  <2>2. Len(SubSeq(s, a + 1, Len(s))) = Len(s) - a
    BY <2>1, CutList
  <2> QED
    BY <1>1, <1>2, <2>2
<1> QED
  BY <1>1, <1>3, <1>4

\* Two slices that meet are one.
LEMMA SlicesJoin ==
    ASSUME NEW s \in Texts, NEW a \in Nat, NEW b \in a..Len(s), NEW c \in b..Len(s)
    PROVE  Slice(s, a, b) \o Slice(s, b, c) = Slice(s, a, c)
<1> DEFINE p == Slice(s, a, b)
           q == Slice(s, b, c)
           r == Slice(s, a, c)
           l == p \o q
<1>1. Len(s) \in Nat /\ b \in Nat /\ c \in Nat /\ c \in a..Len(s) /\ s \in Seq(Characters)
  BY DEF Texts
<1>2. p \in Seq(Characters) /\ Len(p) = b - a /\ \A k \in 1..(b - a) : p[k] = s[a + k]
  BY <1>1, SliceIs
<1>3. q \in Seq(Characters) /\ Len(q) = c - b /\ \A k \in 1..(c - b) : q[k] = s[b + k]
  BY <1>1, SliceIs
<1>4. r \in Seq(Characters) /\ Len(r) = c - a /\ \A k \in 1..(c - a) : r[k] = s[a + k]
  BY <1>1, SliceIs
<1> HIDE DEF p, q, r
<1>5. l \in Seq(Characters) /\ Len(l) = Len(p) + Len(q)
      /\ \A i \in 1..(Len(p) + Len(q)) : l[i] = IF i <= Len(p) THEN p[i] ELSE q[i - Len(p)]
  <2>1. p \in Seq(Characters)
    BY <1>2
  <2>2. q \in Seq(Characters)
    BY <1>3
  <2> QED
    BY ONLY <2>1, <2>2, ConcatProperties, Zenon DEF l
<1> HIDE DEF l
<1>6. Len(p) + Len(q) = c - a
  BY <1>1, <1>2, <1>3
<1>7. ASSUME NEW i \in 1..(c - a) PROVE l[i] = r[i]
  <2>1. CASE i <= b - a
    <3>1. i \in 1..(b - a) /\ i \in 1..(c - a)
      BY <1>1, <2>1
    <3> QED
      BY <1>2, <1>4, <1>5, <1>6, <2>1, <3>1
  <2>2. CASE ~(i <= b - a)
    <3>1. i - (b - a) \in 1..(c - b) /\ b + (i - (b - a)) = a + i
      BY <1>1, <2>2
    <3> QED
      BY <1>2, <1>3, <1>4, <1>5, <1>6, <2>2, <3>1
  <2> QED
    BY <2>1, <2>2
<1>8. Len(l) = Len(r) /\ \A i \in 1..Len(l) : l[i] = r[i]
  BY <1>4, <1>5, <1>6, <1>7
<1>9. l = r
  BY ONLY <1>4, <1>5, <1>8
<1> QED
  BY <1>9 DEF l, p, q, r

\* A text is a slice from its beginning and what follows.
LEMMA TextCut ==
    ASSUME NEW s \in Texts, NEW a \in 0..Len(s)
    PROVE  /\ Slice(s, 0, a) \in Texts /\ Len(Slice(s, 0, a)) = a
           /\ From(s, a) \in Texts /\ Len(From(s, a)) = Len(s) - a
           /\ \A k \in 1..a : Slice(s, 0, a)[k] = s[k]
           /\ \A k \in 1..(Len(s) - a) : From(s, a)[k] = s[a + k]
           /\ Slice(s, 0, a) \o From(s, a) = s
<1>1. Len(s) \in Nat /\ a \in Nat /\ s \in Seq(Characters) /\ 0 + 1 = 1
  BY DEF Texts
<1>2. Slice(s, 0, a) = SubSeq(s, 1, a)
  BY <1>1 DEF Slice
<1>3. From(s, a) = SubSeq(s, a + 1, Len(s))
  BY DEF From
<1>4. /\ SubSeq(s, 1, a) \in Seq(Characters) /\ Len(SubSeq(s, 1, a)) = a
      /\ \A k \in 1..a : SubSeq(s, 1, a)[k] = s[k]
      /\ SubSeq(s, a + 1, Len(s)) \in Seq(Characters) /\ Len(SubSeq(s, a + 1, Len(s))) = Len(s) - a
      /\ \A k \in 1..(Len(s) - a) : SubSeq(s, a + 1, Len(s))[k] = s[a + k]
      /\ s = SubSeq(s, 1, a) \o SubSeq(s, a + 1, Len(s))
  BY <1>1, CutList
<1> QED
  BY <1>2, <1>3, <1>4 DEF Texts

(* The marker of a block is the beginning of its line. *)
LEMMA WidthsFit ==
    ASSUME NEW line \in Texts
    PROVE  /\ HeadingLen(line) \in 0..Len(line) /\ BulletLen(line) \in 0..Len(line)
           /\ TaskLen(line) \in 0..Len(line) /\ OrderedLen(line) \in 0..Len(line)
           /\ QuoteLen(line) \in 0..Len(line) /\ Run(line, 0, Blank) \in 0..Len(line)
<1> DEFINE n == Len(line)
<1>1. n \in Nat
  BY DEF Texts
<1>2. \A i \in Nat : \A C \in {Blank, Digit, {"#"}} :
        Run(line, i, C) \in Nat /\ (Run(line, i, C) > 0 => i + Run(line, i, C) <= n)
  BY RunIs
<1>3. \A i \in Nat : /\ Run(line, i, Blank) \in Nat /\ (Run(line, i, Blank) > 0 => i + Run(line, i, Blank) <= n)
                     /\ Run(line, i, Digit) \in Nat /\ (Run(line, i, Digit) > 0 => i + Run(line, i, Digit) <= n)
                     /\ Run(line, i, {"#"}) \in Nat /\ (Run(line, i, {"#"}) > 0 => i + Run(line, i, {"#"}) <= n)
  BY <1>2, RunIs
<1> HIDE DEF n
<1>4. Run(line, 0, Blank) \in 0..n
  BY <1>1, <1>3
<1>5. HeadingLen(line) \in 0..n
  <2> DEFINE level == Run(line, 0, {"#"})
             gap == Run(line, level, Blank)
  <2>1. level \in Nat /\ gap \in Nat /\ (gap > 0 => level + gap <= n)
    BY <1>3
  <2>2. HeadingLen(line) = IF level \in 1..6 /\ gap > 0 THEN level + gap ELSE 0
    BY DEF HeadingLen
  <2> HIDE DEF level, gap
  <2> QED
    BY <1>1, <2>1, <2>2
<1>6. BulletLen(line) \in 0..n
  <2> DEFINE i == Run(line, 0, Blank)
             gap == Run(line, i + 1, Blank)
  <2>1. i \in Nat
    BY <1>3
  <2>2. BulletLen(line) = IF At(line, i) \in {"-", "*", "+"} /\ gap > 0 THEN i + 1 + gap ELSE 0
    BY DEF BulletLen
  <2> HIDE DEF i
  <2>3. gap \in Nat /\ (gap > 0 => (i + 1) + gap <= n)
    BY <1>3, <2>1
  <2> HIDE DEF gap
  <2> QED
    BY <1>1, <2>1, <2>2, <2>3
<1>7. TaskLen(line) \in 0..n
  <2> DEFINE b == BulletLen(line)
             gap == Run(line, b + 3, Blank)
  <2>2. \/ TaskLen(line) = 0
        \/ gap > 0 /\ TaskLen(line) = b + 3 + gap
    BY DEF TaskLen
  <2>1. b \in Nat
    BY <1>1, <1>6
  <2> HIDE DEF b
  <2>3. gap \in Nat /\ (gap > 0 => (b + 3) + gap <= n)
    BY <1>3, <2>1
  <2> HIDE DEF gap
  <2> QED
    BY <1>1, <2>1, <2>2, <2>3
<1>8. OrderedLen(line) \in 0..n
  <2> DEFINE i == Run(line, 0, Blank)
             d == Run(line, i, Digit)
             gap == Run(line, i + d + 1, Blank)
  <2>2. \/ OrderedLen(line) = 0
        \/ gap > 0 /\ OrderedLen(line) = i + d + 1 + gap
    BY DEF OrderedLen
  <2>1. i \in Nat
    BY <1>3
  <2> HIDE DEF i
  <2>4. d \in Nat
    BY <1>3, <2>1
  <2> HIDE DEF d
  <2>3. gap \in Nat /\ (gap > 0 => (i + d + 1) + gap <= n)
    BY <1>3, <2>1, <2>4
  <2> HIDE DEF gap
  <2> QED
    BY <1>1, <2>1, <2>2, <2>3, <2>4
<1>9. QuoteLen(line) \in 0..n
  <2> DEFINE i == Run(line, 0, Blank)
  <2>2. QuoteLen(line) = IF At(line, i) = ">" THEN i + 1 + (IF At(line, i + 1) \in Blank THEN 1 ELSE 0) ELSE 0
    BY DEF QuoteLen
  <2>1. i \in Nat
    BY <1>3
  <2> HIDE DEF i
  <2>5. \A j \in Int : At(line, j) # "" => j \in 0..(n - 1)
    BY AtIs DEF n
  <2>3. At(line, i) = ">" => i \in 0..(n - 1)
    <3>1. i \in Int
      BY <2>1
    <3>2. At(line, i) = ">" => At(line, i) # ""
      OBVIOUS
    <3> QED
      BY ONLY <2>5, <3>1, <3>2
  <2>4. At(line, i + 1) \in Blank => i + 1 \in 0..(n - 1)
    <3>1. At(line, i + 1) \in Blank => At(line, i + 1) # ""
      BY DEF Blank
    <3>2. i + 1 \in Int
      BY <2>1
    <3> QED
      BY <2>5, <3>1, <3>2
  <2> QED
    BY <1>1, <2>1, <2>2, <2>3, <2>4
<1> QED
  BY <1>4, <1>5, <1>6, <1>7, <1>8, <1>9 DEF n

\* The marker of a line is a part of it.
LEMMA BlockFits ==
    ASSUME NEW line \in Texts
    PROVE  BlockOf(line).width \in 0..Len(line)
<1>1. Len(line) \in Nat /\ Len(line) \in 0..Len(line) /\ 0 \in 0..Len(line)
  BY DEF Texts
<1> QED
  BY <1>1, WidthsFit DEF BlockOf

(* Segments, and the text they stand for. *)
Styles == {"wiki", "link", "code", "strike", "bold", "italic", "fence"} \cup
          {"hr", "h1", "h2", "h3", "h4", "h5", "h6", "task", "bullet", "ordered", "quote", "paragraph"}
\* Segments and their styles.
SegmentType == [text : Texts, styles : Seq(Styles), marker : BOOLEAN]
\* Lists of segments, and their texts.
Segments == Seq(SegmentType)
TextsOf(segments) == [i \in DOMAIN segments |-> segments[i].text]

\* The texts of segments.
LEMMA TextsAre ==
    ASSUME NEW s \in Segments
    PROVE  /\ TextsOf(s) \in Seq(Texts) /\ Len(TextsOf(s)) = Len(s)
           /\ \A i \in 1..Len(s) : TextsOf(s)[i] = s[i].text
           /\ TextOf(s) = FlattenSeq(TextsOf(s)) /\ TextOf(s) \in Texts
<1> DEFINE n == Len(s)
           t == TextsOf(s)
<1>1. n \in Nat /\ DOMAIN s = 1..n /\ \A i \in 1..n : s[i] \in SegmentType
  BY DEF Segments
<1> HIDE DEF n
<1>2. \A i \in 1..n : s[i].text \in Texts
  BY <1>1 DEF SegmentType
<1>3. t = [i \in 1..n |-> s[i].text]
  BY <1>1 DEF TextsOf
<1>4. TextOf(s) = FlattenSeq(t)
  BY DEF TextOf, TextsOf
<1> HIDE DEF t
<1>5. t \in [1..n -> Texts]
  BY <1>2, <1>3
<1>6. t \in Seq(Texts) /\ Len(t) = n
  BY <1>1, <1>5
<1>7. FlattenSeq(t) \in Seq(Characters)
  BY <1>6, FlattenTyped DEF Texts
<1> QED
  BY <1>3, <1>4, <1>6, <1>7 DEF n, t, Texts

\* The text of two lists of segments is the text of each in turn.
LEMMA TextOfConcat ==
    ASSUME NEW s \in Segments, NEW t \in Segments
    PROVE  /\ s \o t \in Segments
           /\ TextOf(s \o t) = TextOf(s) \o TextOf(t)
<1> DEFINE c == s \o t
           p == TextsOf(s)
           q == TextsOf(t)
           r == TextsOf(c)
           d == p \o q
<1>1. s \in Seq(SegmentType)
  BY DEF Segments
<1>2. t \in Seq(SegmentType)
  BY DEF Segments
<1>3. c \in Seq(SegmentType) /\ Len(c) = Len(s) + Len(t)
      /\ \A i \in 1..(Len(s) + Len(t)) : c[i] = IF i <= Len(s) THEN s[i] ELSE t[i - Len(s)]
  BY ONLY <1>1, <1>2, ConcatProperties, Zenon DEF c
<1>4. Len(s) \in Nat /\ Len(t) \in Nat
  BY <1>1, <1>2
<1>5. c \in Segments
  BY <1>3 DEF Segments
<1> HIDE DEF c
<1>6. p \in Seq(Texts) /\ Len(p) = Len(s) /\ (\A i \in 1..Len(s) : p[i] = s[i].text) /\ TextOf(s) = FlattenSeq(p)
  BY TextsAre
<1>7. q \in Seq(Texts) /\ Len(q) = Len(t) /\ (\A i \in 1..Len(t) : q[i] = t[i].text) /\ TextOf(t) = FlattenSeq(q)
  BY TextsAre
<1>8. r \in Seq(Texts) /\ Len(r) = Len(c) /\ (\A i \in 1..Len(c) : r[i] = c[i].text) /\ TextOf(c) = FlattenSeq(r)
  BY <1>5, TextsAre
<1> HIDE DEF p, q, r
<1>9. d \in Seq(Texts) /\ Len(d) = Len(p) + Len(q)
      /\ \A i \in 1..(Len(p) + Len(q)) : d[i] = IF i <= Len(p) THEN p[i] ELSE q[i - Len(p)]
  <2>1. p \in Seq(Texts)
    BY <1>6
  <2>2. q \in Seq(Texts)
    BY <1>7
  <2> QED
    BY ONLY <2>1, <2>2, ConcatProperties, Zenon DEF d
<1> HIDE DEF d
<1>10. ASSUME NEW i \in 1..(Len(s) + Len(t)) PROVE r[i] = d[i]
  <2>1. CASE i <= Len(s)
    <3>1. i \in 1..Len(s)
      BY <1>4, <2>1
    <3> QED
      BY <1>3, <1>6, <1>7, <1>8, <1>9, <2>1, <3>1
  <2>2. CASE ~(i <= Len(s))
    <3>1. i - Len(s) \in 1..Len(t)
      BY <1>4, <2>2
    <3> QED
      BY <1>3, <1>6, <1>7, <1>8, <1>9, <2>2, <3>1
  <2> QED
    BY <2>1, <2>2
<1>11. Len(r) = Len(d) /\ \A i \in 1..Len(r) : r[i] = d[i]
  BY <1>3, <1>6, <1>7, <1>8, <1>9, <1>10
<1>12. r = d
  BY ONLY <1>8, <1>9, <1>11
<1>13. FlattenSeq(p \o q) = FlattenSeq(p) \o FlattenSeq(q)
  <2>1. p \in Seq(Seq(Characters)) /\ q \in Seq(Seq(Characters))
    BY <1>6, <1>7 DEF Texts
  <2> QED
    BY <2>1, FlattenConcat
<1> QED
  BY <1>5, <1>6, <1>7, <1>8, <1>12, <1>13 DEF c, d

\* The text of one segment.
LEMMA TextOfOne ==
    ASSUME NEW x \in SegmentType
    PROVE  <<x>> \in Segments /\ TextOf(<<x>>) = x.text
<1>1. <<x>> \in Segments
  BY DEF Segments
<1>2. TextsOf(<<x>>) = <<x.text>>
  BY DEF TextsOf
<1>3. x.text \in Seq(Characters)
  BY DEF SegmentType, Texts
<1>4. FlattenSeq(<<x.text>>) = x.text
  BY <1>3, FlattenOne
<1> QED
  BY <1>1, <1>2, <1>4, TextsAre

\* The text of no segment.
LEMMA TextOfNothing == <<>> \in Segments /\ TextOf(<<>>) = <<>> /\ <<>> \in Texts
  BY FlattenNothing DEF TextOf, Segments, Texts

\* The text of three segments.
LEMMA TextOfThree ==
    ASSUME NEW x \in SegmentType, NEW y \in SegmentType, NEW z \in SegmentType
    PROVE  <<x, y, z>> \in Segments /\ TextOf(<<x, y, z>>) = (x.text \o y.text) \o z.text
<1>1. <<x, y, z>> = (<<x>> \o <<y>>) \o <<z>>
  <2> DEFINE a == <<x>>
             b == Append(a, y)
  <2>1. a \in Seq(SegmentType) /\ b \in Seq(SegmentType)
    OBVIOUS
  <2> DEFINE d == Append(b, z)
             r == <<x, y, z>>
  <2> HIDE DEF a
  <2>5. Len(a) = 1 /\ a[1] = x
    BY DEF a
  <2>6. Len(b) = 2 /\ b[1] = x /\ b[2] = y
    <3>1. Len(b) = Len(a) + 1 /\ b[Len(a) + 1] = y /\ \A i \in 1..Len(a) : b[i] = a[i]
      BY <2>1
    <3>2. 1 \in 1..1 /\ 1 + 1 = 2
      OBVIOUS
    <3> QED
      BY ONLY <2>5, <3>1, <3>2
  <2>7. r \in Seq(SegmentType) /\ Len(r) = 3 /\ r[1] = x /\ r[2] = y /\ r[3] = z
    OBVIOUS
  <2>3. a \o <<y>> = b
    BY <2>1
  <2> HIDE DEF b
  <2>4. b \o <<z>> = d
    BY <2>1
  <2>8. d \in Seq(SegmentType) /\ Len(d) = 3 /\ d[1] = x /\ d[2] = y /\ d[3] = z
    <3>1. d \in Seq(SegmentType) /\ Len(d) = Len(b) + 1 /\ d[Len(b) + 1] = z /\ \A i \in 1..Len(b) : d[i] = b[i]
      BY <2>1
    <3>2. 1 \in 1..2 /\ 2 \in 1..2 /\ 2 + 1 = 3
      OBVIOUS
    <3> QED
      BY ONLY <2>6, <3>1, <3>2
  <2> HIDE DEF d, r
  <2>9. \A i \in 1..3 : d[i] = r[i]
    <3>1. \A i \in 1..3 : i = 1 \/ i = 2 \/ i = 3
      OBVIOUS
    <3> QED
      BY <2>7, <2>8, <3>1
  <2>10. d = r
    BY ONLY <2>7, <2>8, <2>9
  <2> QED
    BY <2>3, <2>4, <2>10 DEF a, r
<1>2. <<x>> \in Segments /\ <<y>> \in Segments /\ <<z>> \in Segments
  BY TextOfOne
<1>3. <<x>> \o <<y>> \in Segments /\ TextOf(<<x>> \o <<y>>) = x.text \o y.text
  BY <1>2, TextOfConcat, TextOfOne, ZenonT(60)
<1> DEFINE p == <<x>> \o <<y>>
<1> HIDE DEF p
<1>4. p \o <<z>> \in Segments /\ TextOf(p \o <<z>>) = TextOf(p) \o z.text
  BY <1>2, <1>3, TextOfConcat, TextOfOne DEF p
<1> QED
  BY <1>1, <1>3, <1>4 DEF p

\* A style put over segments leaves their text alone.
LEMMA UnderKeepsText ==
    ASSUME NEW kind \in Styles, NEW s \in Segments
    PROVE  Under(kind, s) \in Segments /\ TextOf(Under(kind, s)) = TextOf(s)
<1> DEFINE n == Len(s)
           u == Under(kind, s)
           e(i) == [s[i] EXCEPT !.styles = <<kind>> \o @]
<1>1. n \in Nat /\ DOMAIN s = 1..n /\ \A i \in 1..n : s[i] \in SegmentType
  BY DEF Segments
<1> HIDE DEF n
<1>2. u = [i \in 1..n |-> e(i)]
  BY <1>1 DEF Under
<1>3. ASSUME NEW i \in 1..n PROVE e(i) \in SegmentType /\ e(i).text = s[i].text
  <2> DEFINE x == s[i]
  <2>1. x \in SegmentType /\ x.styles \in Seq(Styles)
    BY <1>1 DEF SegmentType
  <2>2. <<kind>> \o x.styles \in Seq(Styles)
    BY <2>1
  <2> DEFINE t == <<kind>> \o x.styles
  <2> HIDE DEF x, t
  <2>3. [x EXCEPT !.styles = t] \in SegmentType /\ [x EXCEPT !.styles = t].text = x.text
    BY <2>1, <2>2 DEF t, SegmentType
  <2> QED
    BY <2>3 DEF x, t
<1> HIDE DEF e, u
<1>4. u \in [1..n -> SegmentType]
  BY <1>2, <1>3
<1>5. u \in Segments /\ DOMAIN u = 1..n
  BY <1>1, <1>4 DEF Segments
<1>6. \A i \in 1..n : u[i].text = s[i].text
  BY <1>2, <1>3
<1>7. TextsOf(u) = TextsOf(s)
  BY <1>1, <1>5, <1>6 DEF TextsOf
<1> QED
  BY <1>5, <1>7, TextsAre DEF u

\* A segment and its text.
LEMMA SegmentIs ==
    ASSUME NEW t \in Texts, NEW styles \in Seq(Styles), NEW m \in BOOLEAN
    PROVE  Segment(t, styles, m) \in SegmentType /\ Segment(t, styles, m).text = t
  BY DEF Segment, SegmentType

(* A hit consumes a beginning of the text, and its segments are that beginning. *)
HitFits(m, rest) ==
    /\ m.length \in 0..Len(rest)
    /\ m.length > 0 => m.segments \in Segments /\ TextOf(m.segments) = Slice(rest, 0, m.length)

\* Three consecutive pieces of a text are its beginning.
LEMMA PiecesFit ==
    ASSUME NEW rest \in Texts, NEW a \in Nat, NEW b \in Nat, NEW c \in Nat, a <= b, b <= c, c <= Len(rest),
           NEW x \in SegmentType, NEW y \in SegmentType, NEW z \in SegmentType,
           x.text = Slice(rest, 0, a), y.text = Slice(rest, a, b), z.text = Slice(rest, b, c)
    PROVE  <<x, y, z>> \in Segments /\ TextOf(<<x, y, z>>) = Slice(rest, 0, c)
<1>1. Len(rest) \in Nat /\ 0 \in Nat
  BY DEF Texts
<1>2. a \in 0..Len(rest) /\ b \in a..Len(rest) /\ b \in 0..Len(rest) /\ c \in b..Len(rest)
  BY <1>1
<1>3. Slice(rest, 0, a) \o Slice(rest, a, b) = Slice(rest, 0, b)
  BY <1>1, <1>2, SlicesJoin
<1>4. Slice(rest, 0, b) \o Slice(rest, b, c) = Slice(rest, 0, c)
  BY <1>1, <1>2, SlicesJoin
<1>5. <<x, y, z>> \in Segments /\ TextOf(<<x, y, z>>) = (x.text \o y.text) \o z.text
  BY TextOfThree
<1> QED
  BY ONLY <1>3, <1>4, <1>5, x.text = Slice(rest, 0, a), y.text = Slice(rest, a, b), z.text = Slice(rest, b, c)

\* A slice within a text is a text of that length.
LEMMA SliceTyped ==
    ASSUME NEW s \in Texts, NEW a \in Nat, NEW b \in Nat, a <= b, b <= Len(s)
    PROVE  Slice(s, a, b) \in Texts /\ Len(Slice(s, a, b)) = b - a
<1>1. Len(s) \in Nat /\ s \in Seq(Characters) /\ b \in a..Len(s)
  BY DEF Texts
<1> QED
  BY <1>1, SliceIs DEF Texts

\* One style is a list of styles.
LEMMA StyleList == ASSUME NEW k \in Styles PROVE <<k>> \in Seq(Styles)
  OBVIOUS

\* No hit takes nothing.
LEMMA NoHitFits == ASSUME NEW rest \in Texts PROVE HitFits(NoHit, rest)
<1>1. NoHit.length = 0
  BY DEF NoHit
<1>2. 0 \in 0..Len(rest) /\ ~(0 > 0)
  BY DEF Texts
<1> QED
  BY ONLY <1>1, <1>2 DEF HitFits

\* A wiki link gives back the characters it takes (matchSpan).
LEMMA WikiFits ==
    ASSUME NEW rest \in Texts
    PROVE  HitFits(MatchWiki(rest), rest)
<1> DEFINE n == Len(rest)
           t == RunExcept(rest, 2, {"]", "|"})
           piped == At(rest, 2 + t) = "|"
           open == IF piped THEN 3 + t ELSE 2
           shown == IF piped THEN RunExcept(rest, 3 + t, {"]"}) ELSE t
           e == open + shown
           x == Segment(Slice(rest, 0, open), <<"wiki">>, TRUE)
           y == Segment(Slice(rest, open, e), <<"wiki">>, FALSE)
           z == Segment(<<"]", "]">>, <<"wiki">>, TRUE)
           hit == [length |-> e + 2, segments |-> <<x, y, z>>]
           Found == Slice(rest, 0, 2) = <<"[", "[">> /\ t > 0 /\ Slice(rest, e, e + 2) = <<"]", "]">>
<1>1. MatchWiki(rest) = IF Found THEN hit ELSE NoHit
  BY DEF MatchWiki
<1>2. CASE ~Found
  <2> HIDE DEF Found, hit
  <2> QED
    BY <1>1, <1>2, NoHitFits
<1>3. CASE Found
  <2>1. t \in Nat
    BY RunExceptIs
  <2>2. RunExcept(rest, 3 + t, {"]"}) \in Nat
    <3>1. 3 + t \in Nat
      BY <2>1
    <3> QED
      BY <3>1, RunExceptIs
  <2>3. open \in Nat /\ shown \in Nat
    <3> HIDE DEF t, piped
    <3> QED
      BY <2>1, <2>2
  <2>4. Len(<<"]", "]">>) = 2 /\ Slice(rest, e, e + 2) = <<"]", "]">>
    BY <1>3
  <2> HIDE DEF open, shown
  <2>5. e \in Nat /\ open <= e /\ e <= e + 2 /\ e + 2 \in Nat
    BY <2>3
  <2>6. e + 2 <= n
    <3> HIDE DEF e
    <3>1. Len(Slice(rest, e, e + 2)) = 2
      BY <2>4
    <3>2. 2 \in Nat /\ 2 > 0 /\ e \in Nat
      BY <2>5
    <3> QED
      BY <3>1, <3>2, WholeSlice
  <2> HIDE DEF e
  <2>7. n \in Nat
    BY DEF Texts
  <2> HIDE DEF n
  <2>8. open <= n /\ e <= n /\ 0 <= open
    BY <2>3, <2>5, <2>6, <2>7
  <2>9. Slice(rest, 0, open) \in Texts /\ Slice(rest, open, e) \in Texts /\ Slice(rest, e, e + 2) \in Texts
    BY <2>3, <2>5, <2>6, <2>8, SliceTyped DEF n
  <2>10. <<"wiki">> \in Seq(Styles)
    <3>1. "wiki" \in Styles
      BY DEF Styles
    <3> QED
      BY ONLY <3>1, StyleList
  <2>11. x \in SegmentType /\ x.text = Slice(rest, 0, open)
    BY <2>9, <2>10, SegmentIs
  <2>12. y \in SegmentType /\ y.text = Slice(rest, open, e)
    BY <2>9, <2>10, SegmentIs
  <2>13. z \in SegmentType /\ z.text = Slice(rest, e, e + 2)
    BY <2>4, <2>9, <2>10, SegmentIs
  <2> HIDE DEF x, y, z
  <2>14. <<x, y, z>> \in Segments /\ TextOf(<<x, y, z>>) = Slice(rest, 0, e + 2)
    <3> DEFINE c == e + 2
    <3>1. open \in Nat /\ e \in Nat /\ c \in Nat /\ open <= e /\ e <= c /\ c <= Len(rest)
      BY <2>3, <2>5, <2>6 DEF n
    <3>2. z.text = Slice(rest, e, c)
      BY <2>13
    <3> HIDE DEF c
    <3>3. <<x, y, z>> \in Segments /\ TextOf(<<x, y, z>>) = Slice(rest, 0, c)
      BY <2>11, <2>12, <2>13, <3>1, <3>2, PiecesFit
    <3> QED
      BY <3>3 DEF c
  <2>15. hit.length = e + 2 /\ hit.segments = <<x, y, z>>
    OBVIOUS
  <2>16. MatchWiki(rest) = hit
    <3> HIDE DEF Found, hit
    <3> QED
      BY <1>1, <1>3
  <2>17. e + 2 \in 0..n
    BY <2>5, <2>6, <2>7
  <2> HIDE DEF hit
  <2> QED
    BY ONLY <2>14, <2>15, <2>16, <2>17 DEF HitFits, n
<1> HIDE DEF Found
<1> QED
  BY <1>2, <1>3

\* A link gives back the characters it takes (matchSpan).
LEMMA LinkFits ==
    ASSUME NEW rest \in Texts
    PROVE  HitFits(MatchLink(rest), rest)
<1> DEFINE n == Len(rest)
           l == RunExcept(rest, 1, {"]"})
           r == RunExcept(rest, 3 + l, {")"})
           end == 3 + l + r
           x == Segment(<<"[">>, <<"link">>, TRUE)
           y == Segment(Slice(rest, 1, 1 + l), <<"link">>, FALSE)
           z == Segment(Slice(rest, 1 + l, end + 1), <<"link">>, TRUE)
           hit == [length |-> end + 1, segments |-> <<x, y, z>>]
           Found == At(rest, 0) = "[" /\ Slice(rest, 1 + l, 3 + l) = <<"]", "(">> /\ At(rest, end) = ")"
<1>1. MatchLink(rest) = IF Found THEN hit ELSE NoHit
  BY DEF MatchLink
<1>2. CASE ~Found
  <2> HIDE DEF Found, hit
  <2> QED
    BY <1>1, <1>2, NoHitFits
<1>3. CASE Found
  <2>1. l \in Nat
    BY RunExceptIs
  <2> HIDE DEF l
  <2>2. r \in Nat
    <3>1. 3 + l \in Nat
      BY <2>1
    <3> QED
      BY <3>1, RunExceptIs
  <2> HIDE DEF r
  <2>3. end \in Nat /\ 1 + l \in Nat /\ 1 <= 1 + l /\ 1 + l <= end + 1 /\ end + 1 \in Nat
    BY <2>1, <2>2
  <2> HIDE DEF end
  <2>4. n \in Nat
    BY DEF Texts
  <2>5. \A j \in Int : At(rest, j) # "" => j \in 0..(n - 1) /\ At(rest, j) = rest[j + 1]
    BY AtIs
  <2> HIDE DEF n
  <2>6. At(rest, end) # "" /\ At(rest, 0) # ""
    BY <1>3
  <2>7. end \in 0..(n - 1)
    <3>1. end \in Int
      BY <2>3
    <3>2. At(rest, end) # ""
      BY <2>6
    <3> QED
      BY ONLY <2>5, <3>1, <3>2
  <2>8. end + 1 <= n /\ 1 <= n /\ 1 + l <= n
    BY <2>1, <2>3, <2>4, <2>7
  <2>9. Slice(rest, 0, 1) = <<"[">>
    <3>1. 0 \in Nat /\ 1 \in 0..Len(rest) /\ rest \in Seq(Characters) /\ 1 - 0 = 1 /\ 0 + 1 = 1
      BY <2>4, <2>8 DEF n, Texts
    <3>2. Slice(rest, 0, 1) \in Seq(Characters) /\ Len(Slice(rest, 0, 1)) = 1 /\ Slice(rest, 0, 1)[1] = rest[1]
      <4>1. /\ Slice(rest, 0, 1) \in Seq(Characters) /\ Len(Slice(rest, 0, 1)) = 1 - 0
            /\ \A k \in 1..(1 - 0) : Slice(rest, 0, 1)[k] = rest[0 + k]
        BY <3>1, SliceIs
      <4> QED
        BY <4>1
    <3>3. rest[1] = "["
      <4>1. At(rest, 0) = rest[0 + 1]
        <5>1. 0 \in Int
          OBVIOUS
        <5>2. At(rest, 0) # ""
          BY <2>6
        <5> QED
          BY ONLY <2>5, <5>1, <5>2
      <4>2. 0 + 1 = 1
        OBVIOUS
      <4> QED
        BY <1>3, <4>1, <4>2
    <3> DEFINE s == Slice(rest, 0, 1)
    <3> HIDE DEF s
    <3>4. s = <<s[1]>>
      BY <3>2 DEF s
    <3> QED
      BY <3>2, <3>3, <3>4 DEF s
  <2>10. Slice(rest, 0, 1) \in Texts /\ Slice(rest, 1, 1 + l) \in Texts /\ Slice(rest, 1 + l, end + 1) \in Texts
    BY <2>3, <2>8, SliceTyped DEF n
  <2>11. <<"link">> \in Seq(Styles)
    <3>1. "link" \in Styles
      BY DEF Styles
    <3> QED
      BY ONLY <3>1, StyleList
  <2>12. x \in SegmentType /\ x.text = Slice(rest, 0, 1)
    BY <2>9, <2>10, <2>11, SegmentIs
  <2>13. y \in SegmentType /\ y.text = Slice(rest, 1, 1 + l)
    BY <2>10, <2>11, SegmentIs
  <2>14. z \in SegmentType /\ z.text = Slice(rest, 1 + l, end + 1)
    BY <2>10, <2>11, SegmentIs
  <2> HIDE DEF x, y, z
  <2>15. <<x, y, z>> \in Segments /\ TextOf(<<x, y, z>>) = Slice(rest, 0, end + 1)
    <3> DEFINE b == 1 + l
               c == end + 1
    <3>1. 1 \in Nat /\ b \in Nat /\ c \in Nat /\ 1 <= b /\ b <= c /\ c <= Len(rest)
      BY <2>3, <2>8 DEF n
    <3>2. y.text = Slice(rest, 1, b) /\ z.text = Slice(rest, b, c)
      BY <2>13, <2>14
    <3> HIDE DEF b, c
    <3>3. <<x, y, z>> \in Segments /\ TextOf(<<x, y, z>>) = Slice(rest, 0, c)
      BY <2>12, <2>13, <2>14, <3>1, <3>2, PiecesFit
    <3> QED
      BY <3>3 DEF c
  <2>16. hit.length = end + 1 /\ hit.segments = <<x, y, z>>
    OBVIOUS
  <2>17. MatchLink(rest) = hit
    <3> HIDE DEF Found, hit
    <3> QED
      BY <1>1, <1>3
  <2>18. end + 1 \in 0..n
    BY <2>3, <2>4, <2>8
  <2> HIDE DEF hit
  <2> QED
    BY ONLY <2>15, <2>16, <2>17, <2>18 DEF HitFits, n
<1> HIDE DEF Found
<1> QED
  BY <1>2, <1>3

(* A tokenizer that gives back every text shorter than one. *)
Shorter(n) == {u \in Texts : Len(u) < n}
\* A tokenizer gives back every text below a length; two do the same to these.
GivesBack(f, n) == \A u \in Shorter(n) : f[u] \in Segments /\ TextOf(f[u]) = u
SameBelow(f, g, n) == \A u \in Shorter(n) : f[u] = g[u]

\* The marks of the spans have one or two characters.
LEMMA SpanMarks ==
    ASSUME NEW i \in DOMAIN SPANS
    PROVE  SPANS[i].kind \in Styles /\ SPANS[i].mark \in Texts /\ Len(SPANS[i].mark) \in {1, 2}
<1>1. DOMAIN SPANS = 1..6
  BY DEF SPANS
<1>2. i = 1 \/ i = 2 \/ i = 3 \/ i = 4 \/ i = 5 \/ i = 6
  BY <1>1
<1>3. /\ BackTick \in Characters /\ "~" \in Characters /\ "*" \in Characters /\ "_" \in Characters
  BY DEF Characters
<1>4. /\ <<BackTick>> \in Texts /\ <<"~", "~">> \in Texts /\ <<"*", "*">> \in Texts
      /\ <<"_", "_">> \in Texts /\ <<"*">> \in Texts /\ <<"_">> \in Texts
  <2>1. \A c \in Characters : <<c>> \in Seq(Characters) /\ <<c, c>> \in Seq(Characters)
    OBVIOUS
  <2> QED
    BY ONLY <1>3, <2>1 DEF Texts
<1>5. "code" \in Styles /\ "strike" \in Styles /\ "bold" \in Styles /\ "italic" \in Styles
  BY DEF Styles
<1>6. CASE i = 1
  <2>1. SPANS[i].kind = "code" /\ SPANS[i].mark = <<BackTick>>
    BY <1>6 DEF SPANS
  <2>2. Len(<<BackTick>>) = 1
    OBVIOUS
  <2> QED
    BY <1>4, <1>5, <2>1, <2>2
<1>7. CASE i = 2
  <2>1. SPANS[i].kind = "strike" /\ SPANS[i].mark = <<"~", "~">>
    BY <1>7 DEF SPANS
  <2>2. Len(<<"~", "~">>) = 2
    OBVIOUS
  <2> QED
    BY <1>4, <1>5, <2>1, <2>2
<1>8. CASE i = 3
  <2>1. SPANS[i].kind = "bold" /\ SPANS[i].mark = <<"*", "*">>
    BY <1>8 DEF SPANS
  <2>2. Len(<<"*", "*">>) = 2
    OBVIOUS
  <2> QED
    BY <1>4, <1>5, <2>1, <2>2
<1>9. CASE i = 4
  <2>1. SPANS[i].kind = "bold" /\ SPANS[i].mark = <<"_", "_">>
    BY <1>9 DEF SPANS
  <2>2. Len(<<"_", "_">>) = 2
    OBVIOUS
  <2> QED
    BY <1>4, <1>5, <2>1, <2>2
<1>10. CASE i = 5
  <2>1. SPANS[i].kind = "italic" /\ SPANS[i].mark = <<"*">>
    BY <1>10 DEF SPANS
  <2>2. Len(<<"*">>) = 1
    OBVIOUS
  <2> QED
    BY <1>4, <1>5, <2>1, <2>2
<1>11. CASE i = 6
  <2>1. SPANS[i].kind = "italic" /\ SPANS[i].mark = <<"_">>
    BY <1>11 DEF SPANS
  <2>2. Len(<<"_">>) = 1
    OBVIOUS
  <2> QED
    BY <1>4, <1>5, <2>1, <2>2
<1> QED
  BY <1>2, <1>6, <1>7, <1>8, <1>9, <1>10, <1>11

\* The span that matchSpan takes when there is no link, and the length of its content.
ClosedSpans(rest) == {i \in DOMAIN SPANS : Closes(rest, SPANS[i].mark) # {}}
\* The first span that closes, its mark, its content and the hit it makes.
TheSpan(rest) == SPANS[Min(ClosedSpans(rest))]
TheWidth(rest) == Len(TheSpan(rest).mark)
TheContent(rest) == Min(Closes(rest, TheSpan(rest).mark))
Content(rest) == Slice(rest, TheWidth(rest), TheWidth(rest) + TheContent(rest))
SpanHit(rest, f) == [length |-> 2 * TheWidth(rest) + TheContent(rest),
                     segments |-> SpanSegments(TheSpan(rest), Content(rest), f)]

\* matchSpan by the names above.
LEMMA MatchSpanIs ==
    ASSUME NEW rest, NEW f
    PROVE  MatchSpan(rest, f) = IF MatchWiki(rest).length > 0 THEN MatchWiki(rest)
                                ELSE IF MatchLink(rest).length > 0 THEN MatchLink(rest)
                                ELSE IF ClosedSpans(rest) # {} THEN SpanHit(rest, f)
                                ELSE NoHit
  BY DEF MatchSpan, ClosedSpans, TheSpan, TheWidth, TheContent, Content, SpanHit

\* The first span that closes, and its content.
LEMMA TheSpanIs ==
    ASSUME NEW rest \in Texts, ClosedSpans(rest) # {}
    PROVE  /\ TheSpan(rest).kind \in Styles /\ TheSpan(rest).mark \in Texts
           /\ TheWidth(rest) \in {1, 2} /\ TheContent(rest) \in Nat /\ TheContent(rest) > 0
           /\ 2 * TheWidth(rest) + TheContent(rest) <= Len(rest)
           /\ Slice(rest, 0, TheWidth(rest)) = TheSpan(rest).mark
           /\ Slice(rest, TheWidth(rest) + TheContent(rest), 2 * TheWidth(rest) + TheContent(rest)) = TheSpan(rest).mark
<1> DEFINE C == ClosedSpans(rest)
           i == Min(C)
           w == TheWidth(rest)
           k == TheContent(rest)
           mark == TheSpan(rest).mark
           S == Closes(rest, mark)
<1>1. DOMAIN SPANS = 1..6
  BY DEF SPANS
<1>2. C \in SUBSET Nat /\ C # {}
  BY <1>1 DEF ClosedSpans
<1> HIDE DEF C
<1>3. i \in C
  BY <1>2, LeastOf
<1>4. i \in DOMAIN SPANS /\ Closes(rest, SPANS[i].mark) # {}
  BY <1>3 DEF C, ClosedSpans
<1>5. TheSpan(rest) = SPANS[i]
  BY DEF TheSpan, C
<1> HIDE DEF i
<1>6. TheSpan(rest).kind \in Styles /\ mark \in Texts /\ w \in {1, 2} /\ S # {}
  BY <1>4, <1>5, SpanMarks DEF TheWidth
<1>7. w = Len(mark) /\ k = Min(S)
  BY DEF TheWidth, TheContent
<1> HIDE DEF mark
<1>8. S \in SUBSET Nat
  <2> DEFINE m == Len(rest) - 2 * w
  <2>1. m \in Int
    <3>1. Len(rest) \in Nat /\ w \in Nat
      BY <1>6 DEF Texts
    <3> HIDE DEF w
    <3> QED
      BY <3>1
  <2>2. \A j \in 1..m : j \in Nat
    BY <2>1
  <2>3. S \subseteq 1..m
    BY <1>7 DEF Closes
  <2> QED
    BY ONLY <2>2, <2>3
<1>9. k \in S
  BY <1>6, <1>7, <1>8, LeastOf
<1>10. k \in 1..(Len(rest) - 2 * w) /\ Slice(rest, 0, w) = mark /\ Slice(rest, w + k, 2 * w + k) = mark
  BY <1>7, <1>9 DEF Closes
<1>11. Len(rest) \in Nat
  BY DEF Texts
<1> HIDE DEF w, k, S
<1>12. k \in Nat /\ k > 0 /\ 2 * w + k <= Len(rest)
  BY <1>6, <1>10, <1>11
<1> QED
  BY <1>6, <1>10, <1>12 DEF w, k, mark

\* The content is shorter than what it stands in.
LEMMA ContentIs ==
    ASSUME NEW rest \in Texts, ClosedSpans(rest) # {}
    PROVE  Content(rest) \in Shorter(Len(rest))
<1> DEFINE w == TheWidth(rest)
           k == TheContent(rest)
<1>1. w \in {1, 2} /\ k \in Nat /\ k > 0 /\ 2 * w + k <= Len(rest)
  BY TheSpanIs
<1>2. Content(rest) = Slice(rest, w, w + k)
  BY DEF Content
<1>3. Len(rest) \in Nat
  BY DEF Texts
<1> HIDE DEF w, k
<1> DEFINE b == w + k
<1>4. w \in Nat /\ b \in Nat /\ w <= b /\ b <= Len(rest) /\ b - w < Len(rest)
  BY <1>1, <1>3
<1> HIDE DEF b
<1>5. Slice(rest, w, b) \in Texts /\ Len(Slice(rest, w, b)) = b - w
  BY <1>4, SliceTyped
<1> QED
  BY <1>2, <1>4, <1>5 DEF Shorter, b

\* A span gives back the characters it takes, when the tokenizer of its content does.
LEMMA SpanFits ==
    ASSUME NEW rest \in Texts, ClosedSpans(rest) # {}, NEW f, GivesBack(f, Len(rest))
    PROVE  HitFits(SpanHit(rest, f), rest)
<1> DEFINE w == TheWidth(rest)
           k == TheContent(rest)
           kind == TheSpan(rest).kind
           mark == TheSpan(rest).mark
           c == Content(rest)
           plain == <<Segment(c, <<>>, FALSE)>>
           inner == IF kind = "code" THEN plain ELSE f[c]
           x == Segment(mark, <<kind>>, TRUE)
           u == Under(kind, inner)
           l == 2 * w + k
<1>1. /\ kind \in Styles /\ mark \in Texts /\ w \in {1, 2} /\ k \in Nat /\ k > 0 /\ l <= Len(rest)
      /\ Slice(rest, 0, w) = mark /\ Slice(rest, w + k, l) = mark
  BY TheSpanIs
<1>2. c \in Texts /\ Len(c) < Len(rest) /\ c \in Shorter(Len(rest))
  BY ContentIs DEF Shorter
<1>3. c = Slice(rest, w, w + k)
  BY DEF Content
<1>4. SpanHit(rest, f) = [length |-> l, segments |-> (<<x>> \o u) \o <<x>>]
  BY DEF SpanHit, SpanSegments
<1>5. Len(rest) \in Nat
  BY DEF Texts
<1> HIDE DEF w, k, kind, mark, c
<1>6. <<>> \in Seq(Styles) /\ FALSE \in BOOLEAN /\ TRUE \in BOOLEAN
  OBVIOUS
<1>7. plain \in Segments /\ TextOf(plain) = c
  <2>1. Segment(c, <<>>, FALSE) \in SegmentType /\ Segment(c, <<>>, FALSE).text = c
    BY <1>2, <1>6, SegmentIs
  <2> QED
    BY <2>1, TextOfOne
<1>8. f[c] \in Segments /\ TextOf(f[c]) = c
  BY <1>2 DEF GivesBack
<1> HIDE DEF plain
<1>9. inner \in Segments /\ TextOf(inner) = c
  BY <1>7, <1>8
<1> HIDE DEF inner
<1>10. u \in Segments /\ TextOf(u) = c
  BY <1>1, <1>9, UnderKeepsText
<1>11. x \in SegmentType /\ x.text = mark
  <2>1. <<kind>> \in Seq(Styles)
    BY <1>1, StyleList
  <2> QED
    BY <1>1, <1>6, <2>1, SegmentIs
<1> HIDE DEF u, x
<1>12. <<x>> \in Segments /\ TextOf(<<x>>) = mark
  BY <1>11, TextOfOne
<1> DEFINE y == <<x>>
           p == y \o u
<1> HIDE DEF y
<1>13. p \in Segments /\ TextOf(p) = mark \o c
  BY <1>10, <1>12, TextOfConcat DEF y
<1> HIDE DEF p
<1>14. p \o y \in Segments /\ TextOf(p \o y) = (mark \o c) \o mark
  BY <1>12, <1>13, TextOfConcat DEF y
<1>15. (mark \o c) \o mark = Slice(rest, 0, l)
  <2> DEFINE b == w + k
  <2>1. w \in Nat /\ b \in Nat /\ w <= b /\ b <= l /\ l \in Nat
    BY <1>1
  <2>2. w \in 0..Len(rest) /\ b \in w..Len(rest) /\ b \in 0..Len(rest) /\ l \in b..Len(rest) /\ 0 \in Nat
    BY <1>1, <1>5, <2>1
  <2> HIDE DEF b, l
  <2>3. Slice(rest, 0, w) \o Slice(rest, w, b) = Slice(rest, 0, b)
    BY <2>1, <2>2, SlicesJoin
  <2>4. Slice(rest, 0, b) \o Slice(rest, b, l) = Slice(rest, 0, l)
    BY <2>1, <2>2, SlicesJoin
  <2> QED
    BY <1>1, <1>3, <2>3, <2>4 DEF b
<1>16. SpanHit(rest, f).length = l /\ SpanHit(rest, f).segments = p \o y
  BY <1>4 DEF p, y
<1>17. l \in 0..Len(rest)
  BY <1>1, <1>5
<1> HIDE DEF l
<1> QED
  BY ONLY <1>14, <1>15, <1>16, <1>17 DEF HitFits

\* So does every hit.
LEMMA MatchFits ==
    ASSUME NEW rest \in Texts, NEW f, GivesBack(f, Len(rest))
    PROVE  HitFits(MatchSpan(rest, f), rest)
<1>1. CASE MatchWiki(rest).length > 0
  BY <1>1, MatchSpanIs, WikiFits
<1>2. CASE ~(MatchWiki(rest).length > 0) /\ MatchLink(rest).length > 0
  BY <1>2, MatchSpanIs, LinkFits
<1>3. CASE ~(MatchWiki(rest).length > 0) /\ ~(MatchLink(rest).length > 0) /\ ClosedSpans(rest) # {}
  BY <1>3, MatchSpanIs, SpanFits
<1>4. CASE ~(MatchWiki(rest).length > 0) /\ ~(MatchLink(rest).length > 0) /\ ClosedSpans(rest) = {}
  BY <1>4, MatchSpanIs, NoHitFits
<1> QED
  BY <1>1, <1>2, <1>3, <1>4

\* A match looks at the tokenizer for the content of a span only, which is shorter.
LEMMA MatchIsLocal ==
    ASSUME NEW rest \in Texts, NEW f, NEW g, SameBelow(f, g, Len(rest))
    PROVE  MatchSpan(rest, f) = MatchSpan(rest, g)
<1>1. ASSUME ClosedSpans(rest) # {} PROVE SpanHit(rest, f) = SpanHit(rest, g)
  <2>1. f[Content(rest)] = g[Content(rest)]
    BY <1>1, ContentIs DEF SameBelow
  <2> QED
    BY <2>1 DEF SpanHit, SpanSegments
<1> QED
  BY <1>1, MatchSpanIs

(* One round of the tokenizer, with itself as an argument. *)
HitAt(f, text, i) == MatchSpan(From(text, i), f)
\* Where a span begins, the plain run before it, and one step of the tokenizer.
HitPlaces(f, text) == {i \in 0..Len(text) - 1 : HitAt(f, text, i).length > 0}
PlainRun(text, n) == IF n > 0 THEN <<Segment(Slice(text, 0, n), <<>>, FALSE)>> ELSE <<>>
InlineStep(f, text) ==
    IF HitPlaces(f, text) = {} THEN PlainRun(text, Len(text))
    ELSE PlainRun(text, Min(HitPlaces(f, text))) \o HitAt(f, text, Min(HitPlaces(f, text))).segments
           \o f[From(text, Min(HitPlaces(f, text)) + HitAt(f, text, Min(HitPlaces(f, text))).length)]

\* A hit takes no more characters than there are.
LEMMA MatchLength ==
    ASSUME NEW rest \in Texts, NEW f
    PROVE  MatchSpan(rest, f).length \in 0..Len(rest)
<1>1. Len(rest) \in Nat
  BY DEF Texts
<1>2. MatchWiki(rest).length \in 0..Len(rest) /\ MatchLink(rest).length \in 0..Len(rest) /\ NoHit.length \in 0..Len(rest)
  BY WikiFits, LinkFits, NoHitFits DEF HitFits
<1>3. ASSUME ClosedSpans(rest) # {} PROVE SpanHit(rest, f).length \in 0..Len(rest)
  <2> DEFINE w == TheWidth(rest)
             k == TheContent(rest)
  <2>1. w \in {1, 2} /\ k \in Nat /\ 2 * w + k <= Len(rest)
    BY <1>3, TheSpanIs
  <2>2. SpanHit(rest, f).length = 2 * w + k
    BY DEF SpanHit
  <2> HIDE DEF w, k
  <2> QED
    BY <1>1, <2>1, <2>2
<1> QED
  BY <1>2, <1>3, MatchSpanIs

\* The rest of a text is a text.
LEMMA FromIs ==
    ASSUME NEW text \in Texts, NEW i \in 0..Len(text) - 1
    PROVE  From(text, i) \in Texts /\ Len(From(text, i)) = Len(text) - i /\ Len(From(text, i)) \in 1..Len(text)
<1>1. Len(text) \in Nat /\ i \in 0..Len(text)
  BY DEF Texts
<1>2. From(text, i) \in Texts /\ Len(From(text, i)) = Len(text) - i
  BY <1>1, TextCut
<1> QED
  BY <1>1, <1>2

\* What a hit is, and what follows it.
LEMMA HitIs ==
    ASSUME NEW text \in Texts, NEW f, NEW i \in HitPlaces(f, text)
    PROVE  /\ i \in 0..Len(text) - 1 /\ HitAt(f, text, i).length \in 1..(Len(text) - i)
           /\ From(text, i + HitAt(f, text, i).length) \in Shorter(Len(text))
           /\ i + HitAt(f, text, i).length \in 0..Len(text)
<1> DEFINE l == HitAt(f, text, i).length
           j == i + l
<1>1. Len(text) \in Nat
  BY DEF Texts
<1>2. i \in 0..Len(text) - 1 /\ l > 0
  BY DEF HitPlaces
<1>3. From(text, i) \in Texts /\ Len(From(text, i)) = Len(text) - i
  BY <1>2, FromIs
<1>4. l \in 0..Len(From(text, i))
  BY <1>3, MatchLength DEF HitAt
<1> HIDE DEF l
<1>5. l \in 1..(Len(text) - i) /\ j \in 0..Len(text) /\ j > 0
  BY <1>1, <1>2, <1>3, <1>4
<1> HIDE DEF j
<1>6. From(text, j) \in Texts /\ Len(From(text, j)) = Len(text) - j
  BY <1>5, TextCut
<1>7. From(text, j) \in Shorter(Len(text))
  BY <1>1, <1>5, <1>6 DEF Shorter
<1> QED
  BY <1>2, <1>5, <1>7 DEF l, j

\* What is shorter than less is shorter than more.
LEMMA ShorterYet ==
    ASSUME NEW n, NEW m, n \in Nat, m \in Nat, n <= m
    PROVE  Shorter(n) \subseteq Shorter(m)
<1> SUFFICES ASSUME NEW u \in Shorter(n) PROVE u \in Shorter(m)
  OBVIOUS
<1>1. u \in Texts /\ Len(u) < n /\ Len(u) \in Nat
  BY DEF Shorter, Texts
<1>2. Len(u) < m
  BY <1>1
<1> QED
  BY <1>1, <1>2 DEF Shorter

\* A round looks at the tokenizer for shorter texts only.
LEMMA StepIsLocal ==
    ASSUME NEW text \in Texts, NEW f, NEW g, SameBelow(f, g, Len(text))
    PROVE  InlineStep(f, text) = InlineStep(g, text)
<1>1. Len(text) \in Nat
  BY DEF Texts
<1>2. ASSUME NEW i \in 0..Len(text) - 1 PROVE HitAt(f, text, i) = HitAt(g, text, i)
  <2>1. From(text, i) \in Texts /\ Len(From(text, i)) \in Nat /\ Len(From(text, i)) <= Len(text)
    BY <1>1, FromIs
  <2>2. SameBelow(f, g, Len(From(text, i)))
    BY <1>1, <2>1, ShorterYet DEF SameBelow
  <2> QED
    BY <2>1, <2>2, MatchIsLocal DEF HitAt
<1>3. HitPlaces(f, text) = HitPlaces(g, text)
  BY <1>2 DEF HitPlaces
<1> DEFINE S == HitPlaces(f, text)
           i == Min(S)
           l == HitAt(f, text, i).length
<1>4. ASSUME S # {} PROVE HitAt(f, text, i) = HitAt(g, text, i) /\ f[From(text, i + l)] = g[From(text, i + l)]
  <2>1. S \in SUBSET Nat
    BY <1>1 DEF HitPlaces
  <2> HIDE DEF S
  <2>2. i \in S
    BY <1>4, <2>1, LeastOf
  <2> HIDE DEF i
  <2>3. i \in 0..Len(text) - 1 /\ From(text, i + l) \in Shorter(Len(text))
    BY <2>2, HitIs DEF S
  <2> QED
    BY <1>2, <2>3 DEF SameBelow
<1>5. CASE S = {}
  BY <1>3, <1>5 DEF InlineStep
<1>6. CASE S # {}
  <2>1. HitAt(f, text, i) = HitAt(g, text, i) /\ f[From(text, i + l)] = g[From(text, i + l)]
    BY <1>4, <1>6
  <2> QED
    BY <1>3, <1>6, <2>1 DEF InlineStep
<1> QED
  BY <1>5, <1>6

\* A slice of the rest of a text is a slice of the text.
LEMMA SliceOfRest ==
    ASSUME NEW s \in Texts, NEW i \in Nat, NEW l \in Nat, i + l <= Len(s)
    PROVE  Slice(From(s, i), 0, l) = Slice(s, i, i + l)
<1> DEFINE r == From(s, i)
           p == Slice(r, 0, l)
           j == i + l
           q == Slice(s, i, j)
<1>1. Len(s) \in Nat /\ s \in Seq(Characters)
  BY DEF Texts
<1>2. i \in 0..Len(s) /\ j \in i..Len(s) /\ j - i = l
  BY <1>1
<1>3. r \in Texts /\ Len(r) = Len(s) - i /\ \A k \in 1..(Len(s) - i) : r[k] = s[i + k]
  BY <1>2, TextCut
<1>4. q \in Seq(Characters) /\ Len(q) = l /\ \A k \in 1..l : q[k] = s[i + k]
  <2> HIDE DEF j
  <2> QED
    BY <1>1, <1>2, SliceIs
<1> HIDE DEF r, q, j
<1>5. l \in 0..Len(r) /\ l \in 0..(Len(s) - i)
  BY <1>1, <1>2, <1>3
<1>6. p \in Texts /\ Len(p) = l /\ \A k \in 1..l : p[k] = r[k]
  BY <1>3, <1>5, TextCut
<1> HIDE DEF p
<1>7. \A k \in 1..l : p[k] = q[k]
  BY <1>3, <1>4, <1>5, <1>6
<1>8. p \in Seq(Characters)
  BY <1>6 DEF Texts
<1>9. p = q
  BY ONLY <1>4, <1>6, <1>7, <1>8
<1> QED
  BY <1>9 DEF p, q, r, j

\* The plain run before the first span is the beginning of the text.
LEMMA PlainFits ==
    ASSUME NEW text \in Texts, NEW n \in 0..Len(text)
    PROVE  PlainRun(text, n) \in Segments /\ TextOf(PlainRun(text, n)) = Slice(text, 0, n)
<1> DEFINE t == Slice(text, 0, n)
<1>1. t \in Texts /\ Len(t) = n
  BY TextCut
<1>2. CASE n > 0
  <2>1. <<>> \in Seq(Styles) /\ FALSE \in BOOLEAN
    OBVIOUS
  <2> HIDE DEF t
  <2>2. Segment(t, <<>>, FALSE) \in SegmentType /\ Segment(t, <<>>, FALSE).text = t
    BY <1>1, <2>1, SegmentIs
  <2>3. PlainRun(text, n) = <<Segment(t, <<>>, FALSE)>>
    BY <1>2 DEF PlainRun, t
  <2> QED
    BY <2>2, <2>3, TextOfOne DEF t
<1>3. CASE ~(n > 0)
  <2>1. PlainRun(text, n) = <<>> /\ n = 0
    BY <1>3 DEF PlainRun
  <2>2. t = <<>>
    BY <1>1, <2>1 DEF Texts
  <2> QED
    BY <2>1, <2>2, TextOfNothing
<1> QED
  BY <1>2, <1>3

\* One step of the tokenizer gives back the text, when shorter ones come back.
LEMMA StepFits ==
    ASSUME NEW text \in Texts, NEW f, GivesBack(f, Len(text))
    PROVE  InlineStep(f, text) \in Segments /\ TextOf(InlineStep(f, text)) = text
<1> DEFINE S == HitPlaces(f, text)
           i == Min(S)
           m == HitAt(f, text, i)
           l == m.length
           r == From(text, i)
           j == i + l
           t == From(text, j)
           p == PlainRun(text, i)
<1>1. Len(text) \in Nat /\ Len(text) \in 0..Len(text)
  BY DEF Texts
<1>2. CASE S = {}
  <2>1. InlineStep(f, text) = PlainRun(text, Len(text))
    BY <1>2 DEF InlineStep
  <2>2. Slice(text, 0, Len(text)) = text
    BY <1>1 DEF Slice, Texts
  <2> QED
    BY <1>1, <2>1, <2>2, PlainFits
<1>3. CASE S # {}
  <2>0. InlineStep(f, text) = (p \o m.segments) \o f[t]
    BY <1>3 DEF InlineStep
  <2>1. S \in SUBSET Nat
    BY <1>1 DEF HitPlaces
  <2> HIDE DEF S
  <2>2. i \in S
    BY <1>3, <2>1, LeastOf
  <2> HIDE DEF i
  <2>3. i \in 0..Len(text) - 1 /\ l \in 1..(Len(text) - i) /\ t \in Shorter(Len(text)) /\ j \in 0..Len(text)
    BY <2>2, HitIs DEF S
  <2>4. r \in Texts /\ Len(r) \in Nat /\ Len(r) <= Len(text)
    BY <1>1, <2>3, FromIs
  <2>5. GivesBack(f, Len(r))
    BY <1>1, <2>4, ShorterYet DEF GivesBack
  <2>6. HitFits(m, r)
    BY <2>4, <2>5, MatchFits DEF HitAt
  <2>7. l > 0 /\ l \in Nat /\ i \in Nat /\ i \in 0..Len(text)
    BY <1>1, <2>3
  <2>8. m.segments \in Segments /\ TextOf(m.segments) = Slice(r, 0, l)
    BY <2>6, <2>7 DEF HitFits
  <2>9. f[t] \in Segments /\ TextOf(f[t]) = t
    BY <2>3 DEF GivesBack
  <2>10. p \in Segments /\ TextOf(p) = Slice(text, 0, i)
    BY <2>7, PlainFits
  <2>11. Slice(r, 0, l) = Slice(text, i, j)
    <3>1. i + l <= Len(text)
      BY <1>1, <2>3
    <3> HIDE DEF l
    <3> QED
      BY <2>7, <3>1, SliceOfRest
  <2> DEFINE s == m.segments
             a == p \o s
  <2> HIDE DEF p, s, r, l
  <2>12. a \in Segments /\ TextOf(a) = Slice(text, 0, i) \o Slice(text, i, j)
    BY <2>8, <2>10, <2>11, TextOfConcat DEF s
  <2>13. Slice(text, 0, i) \o Slice(text, i, j) = Slice(text, 0, j)
    <3>1. 0 \in Nat /\ i \in 0..Len(text) /\ j \in i..Len(text)
      BY <1>1, <2>3, <2>7
    <3> HIDE DEF j
    <3> QED
      BY <3>1, SlicesJoin
  <2>14. Slice(text, 0, j) \o t = text
    <3> HIDE DEF j
    <3> QED
      BY <2>3, TextCut
  <2> HIDE DEF a, t, j
  <2>15. a \o f[t] \in Segments /\ TextOf(a \o f[t]) = text
    BY <2>9, <2>12, <2>13, <2>14, TextOfConcat
  <2> QED
    BY <2>0, <2>15 DEF a, s
<1> QED
  BY <1>2, <1>3

(* That the tokenizer ends: its result exists for texts up to every length, is *)
(* the only one, and so exists for every text.                                  *)
Tokenizes(f, n) == f = [u \in Shorter(n) |-> InlineStep(f, u)]

\* For every length there is a tokenizer of the texts below it.
LEMMA TokenizersExist == \A n \in Nat : \E f : Tokenizes(f, n)
<1> DEFINE T == {n \in Nat : \E f : Tokenizes(f, n)}
<1>1. 0 \in T
  <2> DEFINE f == [u \in Shorter(0) |-> <<>>]
  <2>1. Shorter(0) = {}
    <3>1. \A u \in Texts : Len(u) \in Nat
      BY DEF Texts
    <3> QED
      BY <3>1 DEF Shorter
  <2>2. f = [u \in Shorter(0) |-> InlineStep(f, u)]
    BY <2>1
  <2> HIDE DEF f
  <2>3. Tokenizes(f, 0)
    BY <2>2 DEF Tokenizes
  <2> QED
    BY <2>3
<1>2. ASSUME NEW n \in Nat, n \in T PROVE n + 1 \in T
  <2>1. PICK f : Tokenizes(f, n)
    BY <1>2
  <2> DEFINE g == [u \in Shorter(n + 1) |-> InlineStep(f, u)]
  <2>2. ASSUME NEW u \in Shorter(n + 1) PROVE InlineStep(f, u) = InlineStep(g, u)
    <3>1. u \in Texts /\ Len(u) \in Nat /\ Len(u) < n + 1
      BY DEF Shorter, Texts
    <3>2. Len(u) <= n /\ n + 1 \in Nat /\ n <= n + 1
      BY <3>1
    <3>3. SameBelow(f, g, Len(u))
      <4> SUFFICES ASSUME NEW v \in Shorter(Len(u)) PROVE f[v] = g[v]
        BY DEF SameBelow
      <4>1. v \in Shorter(n)
        BY <3>1, <3>2, ShorterYet
      <4>2. v \in Shorter(n + 1)
        <5> DEFINE m == n + 1
        <5>1. m \in Nat /\ n <= m
          BY <3>2
        <5> HIDE DEF m
        <5>2. v \in Shorter(m)
          BY <4>1, <5>1, ShorterYet
        <5> QED
          BY <5>2 DEF m
      <4>3. f[v] = InlineStep(f, v)
        BY <2>1, <4>1 DEF Tokenizes
      <4> QED
        BY <4>2, <4>3
    <3> HIDE DEF g
    <3> QED
      BY <3>1, <3>3, StepIsLocal
  <2>3. g = [u \in Shorter(n + 1) |-> InlineStep(g, u)]
    BY <2>2
  <2> HIDE DEF g
  <2>4. Tokenizes(g, n + 1)
    BY <2>3 DEF Tokenizes
  <2> QED
    BY <2>4
<1> HIDE DEF T
<1>3. T = Nat
  <2>1. T \in SUBSET Nat
    BY DEF T
  <2> QED
    BY <1>1, <1>2, <2>1, ByInduction
<1> QED
  BY <1>3 DEF T

\* Two tokenizers do the same to the texts both know.
LEMMA TokenizersAgree ==
    ASSUME NEW n \in Nat, NEW m \in Nat, NEW f, NEW g, Tokenizes(f, n), Tokenizes(g, m)
    PROVE  \A u \in Texts : u \in Shorter(n) /\ u \in Shorter(m) => f[u] = g[u]
<1> DEFINE Both == {u \in Texts : u \in Shorter(n) /\ u \in Shorter(m)}
           T == {k \in Nat : \A u \in Both : Len(u) < k => f[u] = g[u]}
<1>1. 0 \in T
  <2>1. \A u \in Both : Len(u) \in Nat
    BY DEF Texts
  <2> QED
    BY <2>1
<1>2. ASSUME NEW k \in Nat, k \in T PROVE k + 1 \in T
  <2> SUFFICES ASSUME NEW u \in Both, Len(u) < k + 1 PROVE f[u] = g[u]
    OBVIOUS
  <2>1. u \in Texts /\ Len(u) \in Nat /\ u \in Shorter(n) /\ u \in Shorter(m)
    BY DEF Texts
  <2>2. Len(u) <= k /\ Len(u) <= n /\ Len(u) <= m
    BY <2>1 DEF Shorter
  <2>3. SameBelow(f, g, Len(u))
    <3> SUFFICES ASSUME NEW v \in Shorter(Len(u)) PROVE f[v] = g[v]
      BY DEF SameBelow
    <3>1. v \in Shorter(k) /\ v \in Shorter(n) /\ v \in Shorter(m)
      BY <2>1, <2>2, ShorterYet
    <3>2. v \in Both /\ Len(v) < k
      BY <3>1 DEF Shorter
    <3> QED
      BY <1>2, <3>2
  <2>4. f[u] = InlineStep(f, u) /\ g[u] = InlineStep(g, u)
    BY <2>1 DEF Tokenizes
  <2> QED
    BY <2>1, <2>3, <2>4, StepIsLocal
<1>3. T \in SUBSET Nat
  OBVIOUS
<1>4. T = Nat
  <2> HIDE DEF T
  <2> QED
    BY <1>1, <1>2, <1>3, ByInduction
<1> SUFFICES ASSUME NEW u \in Texts, u \in Shorter(n), u \in Shorter(m) PROVE f[u] = g[u]
  OBVIOUS
<1>5. u \in Both /\ Len(u) \in Nat /\ Len(u) + 1 \in Nat /\ Len(u) < Len(u) + 1
  BY DEF Texts
<1> QED
  BY <1>4, <1>5

\* So the tokenizer is what its definition says it is, on every text.
LEMMA InlineIs ==
    ASSUME NEW text \in Texts
    PROVE  InlineSegments[text] = InlineStep(InlineSegments, text)
<1> DEFINE best(n) == CHOOSE f : Tokenizes(f, n)
           F == [u \in Texts |-> best(Len(u) + 1)[u]]
<1>1. \A n \in Nat : Tokenizes(best(n), n)
  BY TokenizersExist
<1> HIDE DEF best
<1>2. ASSUME NEW u \in Texts PROVE F[u] = InlineStep(F, u)
  <2> DEFINE n == Len(u) + 1
             b == best(n)
  <2>1. Len(u) \in Nat /\ n \in Nat /\ Len(u) < n /\ Len(u) <= n
    BY DEF Texts
  <2>2. u \in Shorter(n) /\ Tokenizes(b, n)
    BY <1>1, <2>1 DEF Shorter
  <2>3. F[u] = b[u]
    OBVIOUS
  <2>4. b[u] = InlineStep(b, u)
    BY <2>2 DEF Tokenizes
  <2>5. SameBelow(b, F, Len(u))
    <3> SUFFICES ASSUME NEW v \in Shorter(Len(u)) PROVE b[v] = F[v]
      BY DEF SameBelow
    <3> DEFINE k == Len(v) + 1
               c == best(k)
    <3>1. v \in Texts /\ Len(v) \in Nat /\ k \in Nat /\ Len(v) < k
      BY DEF Shorter, Texts
    <3>2. F[v] = c[v]
      BY <3>1
    <3>3. Tokenizes(c, k) /\ v \in Shorter(k)
      BY <1>1, <3>1 DEF Shorter
    <3>4. v \in Shorter(n)
      <4> HIDE DEF n
      <4> QED
        BY <2>1, ShorterYet
    <3> HIDE DEF k, c, n, b, F
    <3>5. c[v] = b[v]
      BY <2>1, <2>2, <3>1, <3>3, <3>4, TokenizersAgree
    <3> QED
      BY <3>2, <3>5
  <2> HIDE DEF F, b
  <2>6. InlineStep(b, u) = InlineStep(F, u)
    BY <2>5, StepIsLocal
  <2> QED
    BY <2>3, <2>4, <2>6
<1>3. F = [u \in Texts |-> InlineStep(F, u)]
  BY <1>2
<1> HIDE DEF F
<1>4. InlineSegments = CHOOSE f : f = [u \in Texts |-> InlineStep(f, u)]
  BY DEF InlineSegments, InlineStep, HitPlaces, HitAt, PlainRun, Texts
<1>5. InlineSegments = [u \in Texts |-> InlineStep(InlineSegments, u)]
  BY <1>3, <1>4
<1> QED
  BY <1>5

(* The segments of a text are the text. *)
LEMMA InlineGivesBack ==
    ASSUME NEW text \in Texts
    PROVE  InlineSegments[text] \in Segments /\ TextOf(InlineSegments[text]) = text
<1> DEFINE T == {n \in Nat : GivesBack(InlineSegments, n)}
<1>1. 0 \in T
  <2>1. \A u \in Shorter(0) : FALSE
    BY DEF Shorter, Texts
  <2> QED
    BY <2>1 DEF GivesBack
<1>2. ASSUME NEW n \in Nat, n \in T PROVE n + 1 \in T
  <2> SUFFICES ASSUME NEW u \in Shorter(n + 1)
               PROVE InlineSegments[u] \in Segments /\ TextOf(InlineSegments[u]) = u
    BY DEF GivesBack
  <2>1. u \in Texts /\ Len(u) \in Nat /\ Len(u) < n + 1
    BY DEF Shorter, Texts
  <2>2. Len(u) <= n
    BY <2>1
  <2>3. GivesBack(InlineSegments, Len(u))
    BY <1>2, <2>1, <2>2, ShorterYet DEF GivesBack
  <2> QED
    BY <2>1, <2>3, InlineIs, StepFits
<1>3. T \in SUBSET Nat
  OBVIOUS
<1>4. T = Nat
  <2> HIDE DEF T
  <2> QED
    BY <1>1, <1>2, <1>3, ByInduction
<1>5. Len(text) + 1 \in Nat /\ text \in Shorter(Len(text) + 1)
  BY DEF Shorter, Texts
<1> QED
  BY <1>4, <1>5 DEF GivesBack

(* A decorated line is the line. *)
LEMMA DecorationHolds ==
    ASSUME NEW line \in Texts, NEW inFence \in BOOLEAN
    PROVE  NoteMarkdownHolds(line, inFence)
<1> DEFINE b == BlockOf(line)
           w == b.width
           marker == Slice(line, 0, w)
           body == From(line, w)
           d == DecorateLine(line, inFence)
<1>1. "fence" \in Styles /\ <<"fence">> \in Seq(Styles) /\ TRUE \in BOOLEAN /\ FALSE \in BOOLEAN
  <2>1. "fence" \in Styles
    BY DEF Styles
  <2> QED
    BY <2>1, StyleList
<1>2. \A m \in BOOLEAN : Segment(line, <<"fence">>, m) \in SegmentType /\ Segment(line, <<"fence">>, m).text = line
  BY <1>1, SegmentIs
<1>3. CASE FENCE(line)
  <2>1. d.segments = <<Segment(line, <<"fence">>, TRUE)>>
    BY <1>3 DEF DecorateLine
  <2> QED
    BY <1>1, <1>2, <2>1, TextOfOne DEF NoteMarkdownHolds
<1>4. CASE ~FENCE(line) /\ inFence
  <2>1. d.segments = IF line = <<>> THEN <<>> ELSE <<Segment(line, <<"fence">>, FALSE)>>
    BY <1>4 DEF DecorateLine
  <2> QED
    BY <1>1, <1>2, <2>1, TextOfOne, TextOfNothing DEF NoteMarkdownHolds
<1>5. CASE ~FENCE(line) /\ ~inFence
  <2> DEFINE front == IF w > 0 THEN <<Segment(marker, <<b.kind>>, TRUE)>> ELSE <<>>
             back == InlineSegments[body]
  <2>1. d.segments = front \o back
    BY <1>5 DEF DecorateLine
  <2>2. w \in 0..Len(line)
    BY BlockFits
  <2>3. marker \in Texts /\ Len(marker) = w /\ body \in Texts /\ marker \o body = line
    <3> HIDE DEF w
    <3> QED
      BY <2>2, TextCut
  <2>4. b.kind \in Styles
    <3>1. \A i \in 1..6 : Headings[i] \in Styles
      <4>1. \A i \in 1..6 : i = 1 \/ i = 2 \/ i = 3 \/ i = 4 \/ i = 5 \/ i = 6
        OBVIOUS
      <4>2. Headings[1] \in Styles /\ Headings[2] \in Styles /\ Headings[3] \in Styles
            /\ Headings[4] \in Styles /\ Headings[5] \in Styles /\ Headings[6] \in Styles
        BY DEF Headings, Styles
      <4> QED
        BY <4>1, <4>2
    <3>2. HeadingLen(line) > 0 => Run(line, 0, {"#"}) \in 1..6
      BY DEF HeadingLen
    <3>3. HeadingLen(line) > 0 => Headings[Run(line, 0, {"#"})] \in Styles
      BY <3>1, <3>2
    <3>4. "hr" \in Styles /\ "task" \in Styles /\ "bullet" \in Styles /\ "ordered" \in Styles
          /\ "quote" \in Styles /\ "paragraph" \in Styles
      BY DEF Styles
    <3> QED
      BY <3>3, <3>4 DEF BlockOf
  <2> DEFINE kind == b.kind
  <2> HIDE DEF b, kind, marker, body
  <2>5. front \in Segments /\ TextOf(front) = marker
    <3>1. CASE w > 0
      <4>1. <<kind>> \in Seq(Styles)
        BY <2>4, StyleList DEF kind
      <4>2. Segment(marker, <<kind>>, TRUE) \in SegmentType /\ Segment(marker, <<kind>>, TRUE).text = marker
        BY <1>1, <2>3, <4>1, SegmentIs
      <4> QED
        BY <3>1, <4>2, TextOfOne DEF kind
    <3>2. CASE ~(w > 0)
      <4>1. marker = <<>>
        BY <2>2, <2>3, <3>2 DEF Texts
      <4> QED
        BY <3>2, <4>1, TextOfNothing
    <3> QED
      BY <3>1, <3>2
  <2>6. back \in Segments /\ TextOf(back) = body
    BY <2>3, InlineGivesBack
  <2> HIDE DEF front, back
  <2>7. TextOf(front \o back) = marker \o body
    BY <2>5, <2>6, TextOfConcat
  <2> QED
    BY <2>1, <2>3, <2>7 DEF NoteMarkdownHolds
<1> QED
  BY <1>3, <1>4, <1>5

\* The lines of a text.
LEMMA LinesAre ==
    ASSUME NEW text \in Texts
    PROVE  /\ LinesOf(text) \in Seq(Texts) /\ LinesOf(text) # <<>> /\ Len(LinesOf(text)) \in Nat
           /\ DOMAIN LinesOf(text) = 1..Len(LinesOf(text))
           /\ \A i \in 1..Len(LinesOf(text)) : LinesOf(text)[i] \in Texts
           /\ LinesOf(text) \in Seq(Seq(Plain))
<1> DEFINE lines == LinesOf(text)
<1>1. lines \in Seq(Seq(Plain)) /\ lines # <<>>
  BY LinesOfIs DEF Pages
<1>2. lines \in Seq(Texts)
  BY <1>1, PlainTexts
<1> HIDE DEF lines
<1>3. Len(lines) \in Nat /\ DOMAIN lines = 1..Len(lines) /\ \A i \in 1..Len(lines) : lines[i] \in Texts
  BY <1>2
<1> QED
  BY <1>1, <1>2, <1>3 DEF lines

(* The tokenizer and stripPrefix tell the same kind of a line, but for rules and *)
(* for headings with an indent.                                                  *)
LEMMA TwoParsersAgree ==
    ASSUME NEW line \in Texts, ~HR(line),
           ~(Run(line, 0, Blank) > 0 /\ StripPrefix(line).kind \in {"h1", "h2", "h3", "h4", "h5", "h6"})
    PROVE  BlockOf(line).kind = StripPrefix(line).kind
<1> DEFINE i == Run(line, 0, Blank)
           rest == From(line, i)
           level == Run(line, 0, {"#"})
           first == {"h1", "h2", "h3", "h4", "h5", "h6"}
<1>1. Len(line) \in Nat /\ i \in 0..Len(line)
  BY WidthsFit DEF Texts
<1>2. CASE i = 0
  <2>1. rest = line
    BY <1>2 DEF From, Texts
  <2>2. CASE HeadingLen(line) > 0
    BY <1>2, <2>1, <2>2 DEF BlockOf, StripPrefix
  <2>3. CASE ~(HeadingLen(line) > 0)
    BY <1>2, <2>1, <2>3 DEF BlockOf, StripPrefix
  <2> QED
    BY <2>2, <2>3
<1>3. CASE i # 0
  <2>1. i > 0 /\ i \in Nat /\ 1 \in (0 + 1)..(0 + i)
    BY <1>1, <1>3
  <2>2. line[1] \in Blank
    BY <2>1, RunIs
  <2>3. level = 0
    <3>1. level \in Nat /\ \A j \in (0 + 1)..(0 + level) : line[j] \in {"#"}
      BY RunIs
    <3>2. line[1] # "#"
      BY <2>2 DEF Blank
    <3> HIDE DEF level
    <3>3. ~(1 \in (0 + 1)..(0 + level))
      BY <3>1, <3>2
    <3> QED
      BY <3>1, <3>3
  <2>4. ~(HeadingLen(line) > 0)
    <3>1. HeadingLen(line) = 0
      BY <2>3 DEF HeadingLen
    <3> QED
      BY <3>1
  <2>5. ~(HeadingLen(rest) > 0)
    <3> SUFFICES ASSUME HeadingLen(rest) > 0 PROVE FALSE
      OBVIOUS
    <3> DEFINE l == Run(line, i, {"#"})
               r == Run(rest, 0, {"#"})
    <3>1. StripPrefix(line).kind = Headings[l]
      BY DEF StripPrefix
    <3>2. r \in 1..6
      BY DEF HeadingLen
    <3>3. l = r
      <4>1. rest \in Texts /\ Len(rest) = Len(line) - i /\ \A k \in 1..(Len(line) - i) : rest[k] = line[i + k]
        BY <1>1, TextCut
      <4>2. r \in Nat /\ (r > 0 => 0 + r <= Len(rest)) /\ (\A j \in (0 + 1)..(0 + r) : j \in 1..Len(rest) /\ rest[j] \in {"#"})
            /\ (0 + r < Len(rest) => rest[0 + r + 1] \notin {"#"})
        <5>1. 0 \in Nat
          OBVIOUS
        <5> HIDE DEF rest
        <5> QED
          BY <4>1, <5>1, RunIs
      <4>3. l \in Nat /\ (l > 0 => i + l <= Len(line)) /\ (\A j \in (i + 1)..(i + l) : j \in 1..Len(line) /\ line[j] \in {"#"})
            /\ (i + l < Len(line) => line[i + l + 1] \notin {"#"})
        BY <2>1, RunIs
      <4> HIDE DEF l, r, rest, i
      <4>4. ~(l < r)
        <5> SUFFICES ASSUME l < r PROVE FALSE
          OBVIOUS
        <5>1. l + 1 \in (0 + 1)..(0 + r) /\ l + 1 \in 1..Len(rest) /\ i + (l + 1) = i + l + 1
          BY <1>1, <2>1, <4>1, <4>2, <4>3
        <5>2. i + l < Len(line)
          BY <1>1, <2>1, <4>1, <4>3, <5>1
        <5>3. rest[l + 1] = line[i + l + 1]
          BY <4>1, <5>1
        <5> QED
          BY <4>2, <4>3, <5>1, <5>2, <5>3
      <4>5. ~(r < l)
        <5> SUFFICES ASSUME r < l PROVE FALSE
          OBVIOUS
        <5> DEFINE j == i + (r + 1)
        <5>1. j \in (i + 1)..(i + l) /\ r + 1 \in 1..Len(rest) /\ 0 + r < Len(rest) /\ 0 + r + 1 = r + 1
          BY <1>1, <2>1, <4>1, <4>2, <4>3
        <5>2. rest[r + 1] = line[j]
          BY <4>1, <5>1
        <5> HIDE DEF j
        <5> QED
          BY <4>2, <4>3, <5>1, <5>2
      <4> QED
        BY <4>2, <4>3, <4>4, <4>5
    <3> HIDE DEF l, r
    <3>4. \A k \in 1..6 : Headings[k] \in first
      <4>1. \A k \in 1..6 : k = 1 \/ k = 2 \/ k = 3 \/ k = 4 \/ k = 5 \/ k = 6
        OBVIOUS
      <4>2. Headings[1] \in first /\ Headings[2] \in first /\ Headings[3] \in first
            /\ Headings[4] \in first /\ Headings[5] \in first /\ Headings[6] \in first
        BY DEF Headings
      <4> QED
        BY <4>1, <4>2
    <3> QED
      BY <2>1, <3>1, <3>2, <3>3, <3>4
  <2> QED
    BY <2>4, <2>5 DEF BlockOf, StripPrefix
<1> QED
  BY <1>2, <1>3

\* What a text shows is the text, whatever the text.
LEMMA ViewHolds == noteText \in Texts => ViewIsTheText
<1> SUFFICES ASSUME noteText \in Texts PROVE ViewIsTheText
  OBVIOUS
<1> DEFINE lines == LinesOf(noteText)
           starts == LineStarts(lines)
<1>1. lines \in Seq(Texts) /\ lines # <<>> /\ Len(lines) \in Nat /\ DOMAIN lines = 1..Len(lines)
      /\ \A i \in 1..Len(lines) : lines[i] \in Texts
  BY LinesAre
<1>2. SegmentsRebuildTheLine
  <2>1. ASSUME NEW i \in DOMAIN lines PROVE NoteMarkdownHolds(lines[i], InFence(lines, i))
    <3>1. InFence(lines, i) \in BOOLEAN
      BY DEF InFence
    <3> QED
      BY <1>1, <3>1, DecorationHolds
  <2> QED
    BY <2>1 DEF SegmentsRebuildTheLine
<1>3. ButtonsAgreeWithMarkers
  <2> DEFINE Heads == {"h1", "h2", "h3", "h4", "h5", "h6"}
             Apart(i) == \/ lines[i] = <<>> \/ FENCE(lines[i]) \/ InFence(lines, i) \/ HR(lines[i])
                         \/ Run(lines[i], 0, Blank) > 0 /\ StripPrefix(lines[i]).kind \in Heads
  <2> SUFFICES ASSUME NEW i \in DOMAIN lines, ~Apart(i)
               PROVE  ActiveCommands(noteText, starts[i]) \cap BlockCommands
                        = {StripPrefix(lines[i]).kind} \cap BlockCommands
    BY DEF ButtonsAgreeWithMarkers
  <2> DEFINE d == DecorateLine(lines[i], InFence(lines, i))
             k == StripPrefix(lines[i]).kind
             A == ActiveCommands(noteText, starts[i])
  <2>1. i \in 1..Len(lines) /\ lines[i] \in Texts
    BY <1>1
  <2>2. LineIndexAt(starts, starts[i]) = i
    BY <1>1, <2>1, LineIndexOfStart
  <2>3. Decorate(lines)[i] = d
    BY <2>1 DEF Decorate
  <2>4. d.kind = k
    <3>1. d.kind = BlockOf(lines[i]).kind
      BY DEF DecorateLine
    <3>2. ~HR(lines[i]) /\ ~(Run(lines[i], 0, Blank) > 0 /\ StripPrefix(lines[i]).kind \in Heads)
      OBVIOUS
    <3>3. BlockOf(lines[i]).kind = k
      BY <2>1, <3>2, TwoParsersAgree
    <3> QED
      BY <3>1, <3>3
  <2>5. \A c \in BlockCommands : c \in A <=> c = d.kind
    <3>1. \A c \in BlockCommands : c \notin DOMAIN INLINE_MARKS
      BY DEF BlockCommands, BLOCK_PREFIX, INLINE_MARKS
    <3>2. \A c \in BlockCommands : c \in DOMAIN BLOCK_PREFIX \cup {"ordered"}
      BY DEF BlockCommands
    <3> HIDE DEF d, lines
    <3> QED
      BY <2>2, <2>3, <3>1, <3>2 DEF ActiveCommands, lines
  <2> HIDE DEF A, d, k
  <2>6. A \cap BlockCommands = {k} \cap BlockCommands
    BY <2>4, <2>5
  <2> QED
    BY <2>6 DEF A, k
<1> QED
  BY <1>2, <1>3 DEF ViewIsTheText

\* Two texts put together.
LEMMA JoinTwo ==
    ASSUME NEW s \in Texts, NEW t \in Texts
    PROVE  s \o t \in Texts /\ Len(s \o t) = Len(s) + Len(t) /\ Len(s) \in Nat /\ Len(t) \in Nat
<1>1. s \in Seq(Characters) /\ t \in Seq(Characters)
  BY DEF Texts
<1> QED
  BY <1>1 DEF Texts

(* The number of an ordered line. *)
LEMMA DigitsAre == \A n \in 0..9 : Digits[n + 1] \in Digit
<1>1. \A n \in 0..9 : n = 0 \/ n = 1 \/ n = 2 \/ n = 3 \/ n = 4 \/ n = 5 \/ n = 6 \/ n = 7 \/ n = 8 \/ n = 9
  OBVIOUS
<1>2. /\ Digits[1] \in Digit /\ Digits[2] \in Digit /\ Digits[3] \in Digit /\ Digits[4] \in Digit
      /\ Digits[5] \in Digit /\ Digits[6] \in Digit /\ Digits[7] \in Digit /\ Digits[8] \in Digit
      /\ Digits[9] \in Digit /\ Digits[10] \in Digit
  BY DEF Digits, Digit
<1>4. /\ Digits[0 + 1] \in Digit /\ Digits[1 + 1] \in Digit /\ Digits[2 + 1] \in Digit /\ Digits[3 + 1] \in Digit
      /\ Digits[4 + 1] \in Digit /\ Digits[5 + 1] \in Digit /\ Digits[6 + 1] \in Digit /\ Digits[7 + 1] \in Digit
      /\ Digits[8 + 1] \in Digit /\ Digits[9 + 1] \in Digit
  BY <1>2
<1> QED
  BY <1>1, <1>4

\* A counter by the counters before it, and a list of counters.
CounterStep(f, n) == IF n < 10 THEN <<Digits[n + 1]>> ELSE Append(f[n \div 10], Digits[(n % 10) + 1])
Counts(f, m) == f = [n \in 0..m |-> CounterStep(f, n)]

\* A number of two digits or more is ten times less than it was.
LEMMA Tenth == ASSUME NEW n \in Nat, n >= 10 PROVE n \div 10 \in 0..(n - 1) /\ n % 10 \in 0..9
  OBVIOUS

\* For every number there is a list of the counters up to it.
LEMMA CountersExist == \A m \in Nat : \E f : Counts(f, m)
<1> DEFINE T == {m \in Nat : \E f : Counts(f, m)}
<1>1. 0 \in T
  <2> DEFINE f == [n \in 0..0 |-> <<Digits[n + 1]>>]
  <2>1. f = [n \in 0..0 |-> CounterStep(f, n)]
    <3>1. \A n \in 0..0 : n < 10
      OBVIOUS
    <3> QED
      BY <3>1 DEF CounterStep
  <2> HIDE DEF f
  <2>2. Counts(f, 0)
    BY <2>1 DEF Counts
  <2> QED
    BY <2>2
<1>2. ASSUME NEW m \in Nat, m \in T PROVE m + 1 \in T
  <2>1. PICK f : Counts(f, m)
    BY <1>2
  <2> DEFINE g == [n \in 0..(m + 1) |-> CounterStep(f, n)]
  <2>2. ASSUME NEW n \in 0..(m + 1) PROVE CounterStep(f, n) = CounterStep(g, n)
    <3>1. CASE n < 10
      BY <3>1 DEF CounterStep
    <3>2. CASE ~(n < 10)
      <4> DEFINE k == n \div 10
      <4>1. k \in 0..(n - 1) /\ n \in Nat
        BY <3>2, Tenth
      <4> HIDE DEF k
      <4>2. k \in 0..m /\ k \in 0..(m + 1)
        BY <4>1
      <4>3. f[k] = CounterStep(f, k)
        BY <2>1, <4>2 DEF Counts
      <4>4. g[k] = f[k]
        BY <4>2, <4>3
      <4> HIDE DEF g
      <4> QED
        BY <3>2, <4>4 DEF CounterStep, k
    <3> QED
      BY <3>1, <3>2
  <2>3. g = [n \in 0..(m + 1) |-> CounterStep(g, n)]
    BY <2>2
  <2> HIDE DEF g
  <2>4. Counts(g, m + 1)
    BY <2>3 DEF Counts
  <2> QED
    BY <2>4
<1> HIDE DEF T
<1>3. T = Nat
  <2>1. T \in SUBSET Nat
    BY DEF T
  <2> QED
    BY <1>1, <1>2, <2>1, ByInduction
<1> QED
  BY <1>3 DEF T

\* Two lists of counters agree where both go.
LEMMA CountersAgree ==
    ASSUME NEW a \in Nat, NEW b \in Nat, NEW f, NEW g, Counts(f, a), Counts(g, b)
    PROVE  \A n \in Nat : n <= a /\ n <= b => f[n] = g[n]
<1> DEFINE T == {k \in Nat : \A n \in Nat : n < k /\ n <= a /\ n <= b => f[n] = g[n]}
<1>1. 0 \in T
  OBVIOUS
<1>2. ASSUME NEW k \in Nat, k \in T PROVE k + 1 \in T
  <2> SUFFICES ASSUME NEW n \in Nat, n < k + 1, n <= a, n <= b PROVE f[n] = g[n]
    OBVIOUS
  <2>1. n \in 0..a /\ n \in 0..b
    OBVIOUS
  <2>2. f[n] = CounterStep(f, n) /\ g[n] = CounterStep(g, n)
    BY <2>1 DEF Counts
  <2>3. CASE n < 10
    BY <2>2, <2>3 DEF CounterStep
  <2>4. CASE ~(n < 10)
    <3> DEFINE j == n \div 10
    <3>1. j \in 0..(n - 1)
      BY <2>4, Tenth
    <3> HIDE DEF j
    <3>2. j \in Nat /\ j < k /\ j <= a /\ j <= b
      BY <3>1
    <3>3. f[j] = g[j]
      BY <1>2, <3>2
    <3> QED
      BY <2>2, <2>4, <3>3 DEF CounterStep, j
  <2> QED
    BY <2>3, <2>4
<1>3. T \in SUBSET Nat
  OBVIOUS
<1>4. T = Nat
  <2> HIDE DEF T
  <2> QED
    BY <1>1, <1>2, <1>3, ByInduction
<1> SUFFICES ASSUME NEW n \in Nat, n <= a, n <= b PROVE f[n] = g[n]
  OBVIOUS
<1> DEFINE k == n + 1
<1>5. k \in Nat /\ n < k
  OBVIOUS
<1> HIDE DEF k, T
<1>6. k \in T
  BY ONLY <1>4, <1>5
<1> QED
  BY <1>5, <1>6 DEF T

\* So a counter is what its definition says it is.
LEMMA CounterIs == ASSUME NEW n \in Nat PROVE Counter[n] = CounterStep(Counter, n)
<1> DEFINE best(m) == CHOOSE f : Counts(f, m)
           F == [m \in Nat |-> best(m)[m]]
<1>1. \A m \in Nat : Counts(best(m), m)
  BY CountersExist
<1> HIDE DEF best
<1>2. ASSUME NEW m \in Nat PROVE F[m] = CounterStep(F, m)
  <2> DEFINE b == best(m)
  <2>1. Counts(b, m) /\ m \in 0..m /\ F[m] = b[m]
    BY <1>1
  <2>2. b[m] = CounterStep(b, m)
    BY <2>1 DEF Counts
  <2>3. CASE m < 10
    BY <2>1, <2>2, <2>3 DEF CounterStep
  <2>4. CASE ~(m < 10)
    <3> DEFINE j == m \div 10
               c == best(j)
    <3>1. j \in 0..(m - 1)
      BY <2>4, Tenth
    <3> HIDE DEF j
    <3>2. j \in Nat /\ j <= j /\ j <= m
      BY <3>1
    <3>3. F[j] = c[j] /\ Counts(c, j)
      BY <1>1, <3>2
    <3> HIDE DEF c, b, F
    <3>4. c[j] = b[j]
      BY <2>1, <3>2, <3>3, CountersAgree
    <3> QED
      BY <2>1, <2>2, <2>4, <3>3, <3>4 DEF CounterStep, j
  <2> QED
    BY <2>3, <2>4
<1>3. F = [m \in Nat |-> CounterStep(F, m)]
  BY <1>2
<1> HIDE DEF F
<1>4. Counter = CHOOSE f : f = [m \in Nat |-> CounterStep(f, m)]
  BY DEF Counter, CounterStep
<1>5. Counter = [m \in Nat |-> CounterStep(Counter, m)]
  BY <1>3, <1>4
<1> QED
  BY <1>5

\* A counter is a text.
LEMMA CounterTyped == \A n \in Nat : Counter[n] \in Seq(Digit)
<1> DEFINE T == {k \in Nat : \A n \in Nat : n < k => Counter[n] \in Seq(Digit)}
<1>1. 0 \in T
  OBVIOUS
<1>2. ASSUME NEW k \in Nat, k \in T PROVE k + 1 \in T
  <2> SUFFICES ASSUME NEW n \in Nat, n < k + 1 PROVE Counter[n] \in Seq(Digit)
    OBVIOUS
  <2>1. Counter[n] = CounterStep(Counter, n)
    BY CounterIs
  <2>2. CASE n < 10
    <3>1. Digits[n + 1] \in Digit
      BY <2>2, DigitsAre
    <3> DEFINE c == Digits[n + 1]
    <3>2. CounterStep(Counter, n) = <<c>>
      BY <2>2 DEF CounterStep
    <3> HIDE DEF c
    <3>3. <<c>> \in Seq(Digit)
      BY <3>1 DEF c
    <3> QED
      BY <2>1, <3>2, <3>3
  <2>3. CASE ~(n < 10)
    <3> DEFINE j == n \div 10
               r == n % 10
               c == Digits[r + 1]
    <3>1. j \in 0..(n - 1) /\ r \in 0..9
      BY <2>3, Tenth
    <3>2. CounterStep(Counter, n) = Append(Counter[j], c)
      BY <2>3 DEF CounterStep
    <3> HIDE DEF j, r
    <3>3. c \in Digit
      BY <3>1, DigitsAre
    <3>4. j \in Nat /\ j < k
      BY <3>1
    <3>5. Counter[j] \in Seq(Digit)
      BY <1>2, <3>4
    <3> HIDE DEF c
    <3>6. Append(Counter[j], c) \in Seq(Digit)
      BY <3>3, <3>5
    <3> QED
      BY <2>1, <3>2, <3>6
  <2> QED
    BY <2>2, <2>3
<1>3. T \in SUBSET Nat
  OBVIOUS
<1>4. T = Nat
  <2> HIDE DEF T
  <2> QED
    BY <1>1, <1>2, <1>3, ByInduction
<1> SUFFICES ASSUME NEW n \in Nat PROVE Counter[n] \in Seq(Digit)
  OBVIOUS
<1> DEFINE k == n + 1
<1>5. k \in Nat /\ n < k
  OBVIOUS
<1> HIDE DEF k, T
<1>6. k \in T
  BY ONLY <1>4, <1>5
<1> QED
  BY <1>5, <1>6 DEF T

\* A text and a selection in it.
Fits(text, s) == text \in Texts /\ s.start \in Nat /\ s.end \in Nat /\ s.start <= s.end /\ s.end <= Len(text)

\* What an edit leaves fits when its bounds are ordered and within the text.
LEMMA EditFits ==
    ASSUME NEW text \in Texts, NEW a \in Nat, NEW b \in Nat, a <= b, b <= Len(text)
    PROVE  Fits(Edit(text, a, b).text, Edit(text, a, b).selection)
BY DEF Fits, Edit

\* Three texts put together.
LEMMA JoinThree ==
    ASSUME NEW s \in Texts, NEW t \in Texts, NEW u \in Texts
    PROVE  s \o t \o u \in Texts /\ Len(s \o t \o u) = Len(s) + Len(t) + Len(u)
<1> DEFINE x == s \o t
<1>1. x \in Texts /\ Len(x) = Len(s) + Len(t)
  BY JoinTwo
<1> HIDE DEF x
<1>2. x \o u \in Texts /\ Len(x \o u) = Len(x) + Len(u)
  BY <1>1, JoinTwo
<1> QED
  BY <1>1, <1>2 DEF x

\* Lines put together: each of them lies within the text, from its start on.
LEMMA SerializedIs ==
    ASSUME NEW lines \in Seq(Texts), lines # <<>>
    PROVE  /\ SerializeLines(lines) \in Texts
           /\ \A i \in 1..Len(lines) :
                /\ LineStarts(lines)[i] \in Nat /\ Len(lines[i]) \in Nat
                /\ LineStarts(lines)[i] + Len(lines[i]) <= Len(SerializeLines(lines))
<1> DEFINE n == Len(lines)
           s == LineStarts(lines)
           b == Broken(lines)
<1>1. n \in Nat /\ 1 \in 1..n /\ \A i \in 1..n : Len(lines[i]) \in Nat
  BY DEF Texts
<1>2. s \in Seq(Nat) /\ Len(s) = n /\ \A i \in 1..n : s[i] + 1 + Len(lines[i]) <= Len(b)
  BY StartsAre
<1>3. b \in Seq(Characters)
  BY BrokenIs DEF Texts
<1>4. SerializeLines(lines) = Tail(b)
  BY DEF SerializeLines
<1> HIDE DEF n, s, b
<1>5. \A i \in 1..n : s[i] \in Nat
  BY <1>2
<1>6. Len(b) \in Nat /\ Len(b) >= 1
  <2>1. s[1] \in Nat /\ Len(lines[1]) \in Nat /\ s[1] + 1 + Len(lines[1]) <= Len(b)
    BY <1>1, <1>2, <1>5
  <2> QED
    BY <1>3, <2>1
<1>7. Tail(b) \in Seq(Characters) /\ Len(Tail(b)) = Len(b) - 1
  BY <1>3, <1>6
<1>8. \A i \in 1..n : s[i] \in Nat /\ Len(lines[i]) \in Nat /\ s[i] + Len(lines[i]) <= Len(Tail(b))
  BY <1>1, <1>2, <1>5, <1>6, <1>7, SMTT(30)
<1> QED
  BY <1>4, <1>7, <1>8 DEF n, s, Texts

\* Lists of lines that are the same before a line have that line start at the same offset.
LEMMA StartsShared ==
    ASSUME NEW a \in Seq(Texts), NEW b \in Seq(Texts), NEW i \in 1..Len(a), i \in 1..Len(b),
           \A k \in 1..(i - 1) : a[k] = b[k]
    PROVE  LineStarts(a)[i] = LineStarts(b)[i]
<1> DEFINE m == i - 1
           p == SubSeq(a, 1, m)
           q == SubSeq(b, 1, m)
<1>1. Len(a) \in Nat /\ Len(b) \in Nat /\ m \in 0..Len(a) /\ m \in 0..Len(b) /\ DOMAIN a = 1..Len(a) /\ DOMAIN b = 1..Len(b)
  OBVIOUS
<1>2. p \in Seq(Texts) /\ Len(p) = m /\ \A k \in 1..m : p[k] = a[k]
  BY <1>1, CutList
<1>3. q \in Seq(Texts) /\ Len(q) = m /\ \A k \in 1..m : q[k] = b[k]
  BY <1>1, CutList
<1>4. \A k \in 1..m : a[k] = b[k]
  OBVIOUS
<1>5. LineStarts(a)[i] = Len(Broken(p)) /\ LineStarts(b)[i] = Len(Broken(q))
  BY <1>1 DEF LineStarts
<1> HIDE DEF m, p, q
<1>6. Len(p) = Len(q) /\ \A k \in 1..Len(p) : p[k] = q[k]
  BY <1>2, <1>3, <1>4
<1>7. p = q
  BY ONLY <1>2, <1>3, <1>6
<1> QED
  BY <1>5, <1>7

\* A number kept between 0 and a bound.
LEMMA ClampIs ==
    ASSUME NEW v \in Int, NEW h \in Nat
    PROVE  Clamp(v, 0, h) = IF v < 0 THEN 0 ELSE IF v > h THEN h ELSE v
<1> DEFINE u == IF v < 0 THEN 0 ELSE v
<1>1. u \in Nat
  OBVIOUS
<1>2. Max({v, 0}) = u
  <2>1. u \in {v, 0} /\ \A y \in {v, 0} : u >= y
    OBVIOUS
  <2>2. \A x \in {v, 0} : (\A y \in {v, 0} : x >= y) => x = u
    OBVIOUS
  <2> HIDE DEF u
  <2> QED
    BY <2>1, <2>2 DEF Max
<1> DEFINE c == IF u > h THEN h ELSE u
<1> HIDE DEF u
<1>3. Min({u, h}) = c
  <2>1. c \in {u, h} /\ \A y \in {u, h} : c <= y
    BY <1>1
  <2>2. \A x \in {u, h} : (\A y \in {u, h} : x <= y) => x = c
    BY <1>1
  <2> HIDE DEF c
  <2> QED
    BY <2>1, <2>2 DEF Min
<1>4. Clamp(v, 0, h) = c
  BY <1>2, <1>3 DEF Clamp
<1> QED
  BY <1>4 DEF u

\* The caret stays within its line, and two offsets keep their order.
LEMMA RemapIs ==
    ASSUME NEW before \in Texts, NEW after \in Texts, NEW c \in Int, NEW d \in Int, c <= d
    PROVE  /\ Remap(c, before, after) \in 0..Len(after) /\ Remap(d, before, after) \in 0..Len(after)
           /\ Remap(c, before, after) <= Remap(d, before, after)
<1> DEFINE h == Len(after)
           x == c + h - Len(before)
           y == d + h - Len(before)
<1>1. h \in Nat /\ Len(before) \in Nat
  BY DEF Texts
<1>2. Remap(c, before, after) = Clamp(x, 0, h) /\ Remap(d, before, after) = Clamp(y, 0, h)
  BY DEF Remap
<1> HIDE DEF h
<1>3. x \in Int /\ y \in Int /\ x <= y
  BY <1>1
<1> HIDE DEF x, y
<1>4. /\ Clamp(x, 0, h) = IF x < 0 THEN 0 ELSE IF x > h THEN h ELSE x
      /\ Clamp(y, 0, h) = IF y < 0 THEN 0 ELSE IF y > h THEN h ELSE y
  BY <1>1, <1>3, ClampIs
<1>5. Clamp(x, 0, h) \in 0..h /\ Clamp(y, 0, h) \in 0..h /\ Clamp(x, 0, h) <= Clamp(y, 0, h)
  BY <1>1, <1>3, <1>4
<1> QED
  BY <1>2, <1>5 DEF h

\* The indent and the body of a line are texts.
LEMMA StripIs ==
    ASSUME NEW line \in Texts
    PROVE  StripPrefix(line).indent \in Texts /\ StripPrefix(line).body \in Texts
<1> DEFINE n == Len(line)
           i == Run(line, 0, Blank)
           rest == From(line, i)
           h == HeadingLen(rest)
           q == StripPrefix(line)
<1>1. n \in Nat /\ i \in 0..n
  BY WidthsFit DEF Texts
<1>2. rest \in Texts /\ Len(rest) = n - i
  BY <1>1, TextCut
<1>3. h \in 0..(n - i)
  <2> HIDE DEF rest
  <2> QED
    BY <1>2, WidthsFit
<1>4. \A k \in 0..n : Slice(line, 0, k) \in Texts /\ From(line, k) \in Texts
  BY TextCut
<1>5. /\ TaskLen(line) \in 0..n /\ BulletLen(line) \in 0..n /\ OrderedLen(line) \in 0..n /\ QuoteLen(line) \in 0..n
  BY WidthsFit
<1>6. q.indent = Slice(line, 0, i) /\ (\/ q.body = From(line, i + h) \/ q.body = From(line, TaskLen(line))
        \/ q.body = From(line, BulletLen(line)) \/ q.body = From(line, OrderedLen(line))
        \/ q.body = From(line, QuoteLen(line)) \/ q.body = From(line, i))
  BY DEF StripPrefix
<1> HIDE DEF n, i, h, q, rest
<1>7. i + h \in 0..n
  BY <1>1, <1>3
<1> QED
  BY <1>1, <1>4, <1>5, <1>6, <1>7 DEF q

\* Short texts.
LEMMA ShortTexts ==
    ASSUME NEW a \in Characters, NEW b \in Characters, NEW c \in Characters, NEW d \in Characters,
           NEW e \in Characters, NEW f \in Characters
    PROVE  /\ <<a>> \in Texts /\ <<a, b>> \in Texts /\ <<a, b, c>> \in Texts /\ <<a, b, c, d>> \in Texts
           /\ <<a, b, c, d, e, f>> \in Texts
<1>1. <<a>> \in Seq(Characters) /\ <<a, b>> \in Seq(Characters) /\ <<a, b, c>> \in Seq(Characters)
  OBVIOUS
<1>2. <<a, b, c, d>> \in Seq(Characters) /\ <<a, b, c, d, e, f>> \in Seq(Characters)
  OBVIOUS
<1> QED
  BY <1>1, <1>2 DEF Texts

\* The prefixes of the blocks.
LEMMA BlockPrefixIs ==
    ASSUME NEW target \in DOMAIN BLOCK_PREFIX
    PROVE  BLOCK_PREFIX[target] \in Texts
<1>1. /\ "#" \in Characters /\ " " \in Characters /\ "-" \in Characters /\ "[" \in Characters
      /\ "]" \in Characters /\ ">" \in Characters
  BY DEF Characters, Blank
<1>2. <<"#", " ">> \in Texts /\ <<"#", "#", " ">> \in Texts /\ <<"#", "#", "#", " ">> \in Texts
  BY <1>1, ShortTexts, Zenon
<1>3. <<"-", " ">> \in Texts /\ <<"-", " ", "[", " ", "]", " ">> \in Texts /\ <<">", " ">> \in Texts
  BY <1>1, ShortTexts, ZenonT(60)
<1>4. /\ BLOCK_PREFIX.h1 \in Texts /\ BLOCK_PREFIX.h2 \in Texts /\ BLOCK_PREFIX.h3 \in Texts
      /\ BLOCK_PREFIX.bullet \in Texts /\ BLOCK_PREFIX.task \in Texts /\ BLOCK_PREFIX.quote \in Texts
  BY <1>2, <1>3 DEF BLOCK_PREFIX
<1>5. target \in {"h1", "h2", "h3", "bullet", "task", "quote"}
  BY DEF BLOCK_PREFIX
<1> QED
  BY <1>4, <1>5

\* A line written in another kind is a text.
LEMMA PrefixedIs ==
    ASSUME NEW stripped, stripped.indent \in Texts, stripped.body \in Texts,
           NEW target \in BlockCommands \cup {"paragraph"}, NEW n \in Nat
    PROVE  Prefixed(stripped, target, n) \in Texts
<1> DEFINE mark == IF target = "ordered" THEN Counter[n] \o <<".", " ">>
                   ELSE IF target = "paragraph" THEN <<>>
                   ELSE BLOCK_PREFIX[target]
<1>0. "." \in Characters /\ " " \in Characters
  BY DEF Characters, Blank
<1>1. mark \in Texts
  <2>1. CASE target = "ordered"
    <3>1. <<".", " ">> \in Texts
      BY <1>0, ShortTexts, Zenon
    <3>2. Counter[n] \in Texts
      <4>1. Counter[n] \in Seq(Digit)
        BY CounterTyped
      <4>2. Digit \subseteq Characters
        BY DEF Characters, WORD
      <4>3. Counter[n] \in Seq(Characters)
        BY ONLY <4>1, <4>2, SeqMonotonic
      <4> QED
        BY <4>3 DEF Texts
    <3> QED
      BY <2>1, <3>1, <3>2, JoinTwo
  <2>2. CASE target = "paragraph"
    <3>1. mark = <<>>
      BY <2>2
    <3>2. <<>> \in Texts
      BY DEF Texts
    <3> HIDE DEF mark
    <3> QED
      BY ONLY <3>1, <3>2
  <2>3. CASE target \in DOMAIN BLOCK_PREFIX
    <3>1. target \notin {"ordered", "paragraph"}
      BY <2>3 DEF BLOCK_PREFIX
    <3>2. mark = BLOCK_PREFIX[target]
      BY <3>1
    <3> HIDE DEF mark
    <3> QED
      <4>1. BLOCK_PREFIX[target] \in Texts
        BY ONLY <2>3, BlockPrefixIs
      <4> QED
        BY ONLY <3>2, <4>1
  <2> QED
    BY <2>1, <2>2, <2>3 DEF BlockCommands
<1>2. Prefixed(stripped, target, n) = stripped.indent \o mark \o stripped.body
  BY DEF Prefixed
<1> HIDE DEF mark
<1> QED
  BY <1>1, <1>2, JoinThree

\* The mark of an inline command.
LEMMA InlineMarkIs ==
    ASSUME NEW kind \in InlineCommands
    PROVE  INLINE_MARKS[kind] \in Texts /\ Len(INLINE_MARKS[kind]) \in Nat /\ Len(INLINE_MARKS[kind]) > 0
<1> DEFINE M == INLINE_MARKS
<1>1. "*" \in Characters /\ "~" \in Characters /\ BackTick \in Characters
  BY DEF Characters
<1>2. /\ <<"*", "*">> \in Texts /\ <<"*">> \in Texts /\ <<"~", "~">> \in Texts /\ <<BackTick>> \in Texts
  BY <1>1, ShortTexts, Zenon
<1>3. M.bold \in Texts /\ M.italic \in Texts /\ M.strike \in Texts /\ M.code \in Texts
  BY <1>2 DEF INLINE_MARKS
<1>4. Len(M.bold) = 2 /\ Len(M.italic) = 1 /\ Len(M.strike) = 2 /\ Len(M.code) = 1
  BY DEF INLINE_MARKS
<1>5. kind \in {"bold", "italic", "strike", "code"}
  BY DEF InlineCommands, INLINE_MARKS
<1> HIDE DEF M
<1>6. M[kind] \in Texts /\ (Len(M[kind]) = 1 \/ Len(M[kind]) = 2)
  BY <1>3, <1>4, <1>5
<1> DEFINE l == Len(M[kind])
<1>8. l = 1 \/ l = 2
  BY ONLY <1>6
<1> HIDE DEF l
<1>9. l \in Nat /\ l > 0
  BY ONLY <1>8
<1>7. Len(M[kind]) \in Nat /\ Len(M[kind]) > 0
  BY ONLY <1>9 DEF l
<1> QED
  BY <1>6, <1>7, Zenon DEF M

\* Wrapping and unwrapping leave a selection of the text.
LEMMA InlineFits ==
    ASSUME NEW src, NEW s, Fits(src, s), NEW kind \in InlineCommands
    PROVE  Fits(ApplyInline(src, s, kind).text, ApplyInline(src, s, kind).selection)
<1> DEFINE mark == INLINE_MARKS[kind]
           w == Len(mark)
           n == Len(src)
           a == s.start
           b == s.end
           selected == Slice(src, a, b)
           inner == Slice(selected, w, Len(selected) - w)
<1>1. mark \in Texts /\ w \in Nat /\ w > 0
  BY InlineMarkIs
<1>2. src \in Texts /\ n \in Nat /\ a \in Nat /\ b \in Nat /\ a <= b /\ b <= n
  BY DEF Fits, Texts
<1>3. selected \in Texts /\ Len(selected) = b - a
  BY <1>2, SliceTyped
<1>4. ApplyInline(src, s, kind) =
        IF ~RunsOn(src, s, mark) /\ Hugged(src, s, mark)
        THEN Edit(Slice(src, 0, a - w) \o selected \o From(src, b + w), a - w, b - w)
        ELSE IF Swallowed(selected, mark)
        THEN Edit(Slice(src, 0, a) \o inner \o From(src, b), a, a + Len(inner))
        ELSE Edit(Slice(src, 0, a) \o mark \o selected \o mark \o From(src, b), a + w, b + w)
  BY DEF ApplyInline
<1> DEFINE E == ApplyInline(src, s, kind)
<1>5. CASE ~RunsOn(src, s, mark) /\ Hugged(src, s, mark)
  <2>1. a >= w /\ Slice(src, b, b + w) = mark
    BY <1>5 DEF Hugged
  <2>2. Len(Slice(src, b, b + w)) = w
    BY <2>1
  <2>3. E = Edit(Slice(src, 0, a - w) \o selected \o From(src, b + w), a - w, b - w)
    BY <1>4, <1>5
  <2> HIDE DEF E, mark, w, n, selected, a, b
  <2>4. b + w <= n
    BY <1>1, <1>2, <2>2, WholeSlice DEF n
  <2> DEFINE x == a - w
             y == b + w
  <2>5. x \in 0..n /\ y \in 0..n
    BY <1>1, <1>2, <2>1, <2>4
  <2> HIDE DEF x, y
  <2>6. Slice(src, 0, x) \in Texts /\ Len(Slice(src, 0, x)) = x /\ From(src, y) \in Texts /\ Len(From(src, y)) = n - y
    BY <1>2, <2>5, TextCut DEF n
  <2> DEFINE t == Slice(src, 0, x) \o selected \o From(src, y)
  <2>7. t \in Texts /\ Len(t) = x + (b - a) + (n - y)
    BY <1>3, <2>6, JoinThree
  <2>8. E = Edit(t, x, b - w)
    BY <2>3 DEF x, y
  <2> HIDE DEF t
  <2> DEFINE z == b - w
  <2>9. x \in Nat /\ z \in Nat /\ x <= z /\ z <= Len(t)
    BY <1>1, <1>2, <2>1, <2>4, <2>7 DEF x, y
  <2>10. E = Edit(t, x, z)
    BY <2>8
  <2> HIDE DEF z
  <2>11. Fits(Edit(t, x, z).text, Edit(t, x, z).selection)
    BY <2>7, <2>9, EditFits
  <2> QED
    BY <2>10, <2>11 DEF E
<1>6. CASE ~(~RunsOn(src, s, mark) /\ Hugged(src, s, mark)) /\ Swallowed(selected, mark)
  <2>1. Len(selected) >= 2 * w
    BY <1>6 DEF Swallowed
  <2>2. E = Edit(Slice(src, 0, a) \o inner \o From(src, b), a, a + Len(inner))
    BY <1>4, <1>6
  <2> HIDE DEF E
  <2>3. inner \in Texts /\ Len(inner) = (Len(selected) - w) - w
    <3> DEFINE v == Len(selected) - w
    <3> HIDE DEF w, mark, selected
    <3>1. v \in Nat /\ w <= v /\ v <= Len(selected)
      BY <1>1, <1>2, <1>3, <2>1
    <3> HIDE DEF v
    <3>2. Slice(selected, w, v) \in Texts /\ Len(Slice(selected, w, v)) = v - w
      BY <1>1, <1>3, <3>1, SliceTyped
    <3> QED
      BY <3>2 DEF v
  <2> HIDE DEF inner, mark, w, n, selected, a, b
  <2>4. a \in 0..n /\ b \in 0..n
    BY <1>2
  <2>5. Slice(src, 0, a) \in Texts /\ Len(Slice(src, 0, a)) = a /\ From(src, b) \in Texts /\ Len(From(src, b)) = n - b
    BY <1>2, <2>4, TextCut DEF n
  <2> DEFINE t == Slice(src, 0, a) \o inner \o From(src, b)
             z == a + Len(inner)
  <2>6. t \in Texts /\ Len(t) = a + Len(inner) + (n - b)
    BY <2>3, <2>5, JoinThree
  <2>7. E = Edit(t, a, z)
    BY <2>2
  <2> HIDE DEF t
  <2>8. z \in Nat /\ a <= z /\ z <= Len(t)
    BY <1>1, <1>2, <1>3, <2>1, <2>3, <2>6
  <2> HIDE DEF z
  <2>9. Fits(Edit(t, a, z).text, Edit(t, a, z).selection)
    BY <1>2, <2>6, <2>8, EditFits
  <2> QED
    BY <2>7, <2>9 DEF E
<1>7. CASE ~(~RunsOn(src, s, mark) /\ Hugged(src, s, mark)) /\ ~Swallowed(selected, mark)
  <2>2. E = Edit(Slice(src, 0, a) \o mark \o selected \o mark \o From(src, b), a + w, b + w)
    BY <1>4, <1>7
  <2> HIDE DEF E, mark, w, n, selected, a, b
  <2>4. a \in 0..n /\ b \in 0..n
    BY <1>2
  <2>5. Slice(src, 0, a) \in Texts /\ Len(Slice(src, 0, a)) = a /\ From(src, b) \in Texts /\ Len(From(src, b)) = n - b
    BY <1>2, <2>4, TextCut DEF n
  <2> DEFINE u == Slice(src, 0, a) \o mark \o selected
             t == u \o mark \o From(src, b)
             x == a + w
             z == b + w
  <2>6. u \in Texts /\ Len(u) = a + w + (b - a)
    BY <1>1, <1>3, <2>5, JoinThree DEF w
  <2>7. E = Edit(t, x, z)
    BY <2>2
  <2> HIDE DEF u
  <2>8. t \in Texts /\ Len(t) = Len(u) + w + (n - b)
    BY <1>1, <2>5, <2>6, JoinThree DEF w
  <2> HIDE DEF t
  <2>9. x \in Nat /\ z \in Nat /\ x <= z /\ z <= Len(t)
    BY <1>1, <1>2, <2>6, <2>8
  <2> HIDE DEF x, z
  <2>10. Fits(Edit(t, x, z).text, Edit(t, x, z).selection)
    BY <2>8, <2>9, EditFits
  <2> QED
    BY <2>7, <2>10 DEF E
<1> QED
  BY <1>5, <1>6, <1>7

\* So does a link.
LEMMA LinkLeavesFit ==
    ASSUME NEW src, NEW s, Fits(src, s)
    PROVE  Fits(ApplyLink(src, s).text, ApplyLink(src, s).selection)
<1> DEFINE n == Len(src)
           a == s.start
           b == s.end
           label == Slice(src, a, b)
           E == ApplyLink(src, s)
           x == a + Len(label) + 3
<1>1. src \in Texts /\ n \in Nat /\ a \in Nat /\ b \in Nat /\ a <= b /\ b <= n /\ a \in 0..n /\ b \in 0..n
  BY DEF Fits, Texts
<1>2. label \in Texts /\ Len(label) = b - a
  BY <1>1, SliceTyped
<1>3. "[" \in Characters /\ "]" \in Characters /\ "(" \in Characters /\ ")" \in Characters
  BY DEF Characters
<1> DEFINE open == <<"[">>
           shut == <<"]", "(", ")">>
<1>4. open \in Texts /\ shut \in Texts
  BY <1>3, ShortTexts, ZenonT(60)
<1>5. Len(open) = 1 /\ Len(shut) = 3
  OBVIOUS
<1>6. E = Edit(Slice(src, 0, a) \o open \o label \o shut \o From(src, b), x, x)
  BY DEF ApplyLink
<1> HIDE DEF E, n, a, b, label, open, shut
<1>7. Slice(src, 0, a) \in Texts /\ Len(Slice(src, 0, a)) = a /\ From(src, b) \in Texts /\ Len(From(src, b)) = n - b
  BY <1>1, TextCut DEF n
<1> DEFINE u == Slice(src, 0, a) \o open \o label
           t == u \o shut \o From(src, b)
<1>8. u \in Texts /\ Len(u) = a + 1 + (b - a)
  <2> DEFINE p == Slice(src, 0, a)
  <2>1. p \in Texts /\ Len(p) = a
    BY <1>7
  <2> HIDE DEF p
  <2>2. p \o open \o label \in Texts /\ Len(p \o open \o label) = Len(p) + Len(open) + Len(label)
    BY ONLY <1>2, <1>4, <2>1, JoinThree
  <2>3. u = p \o open \o label
    BY DEF p
  <2> HIDE DEF u
  <2> QED
    BY ONLY <1>2, <1>5, <2>1, <2>2, <2>3
<1>9. E = Edit(t, x, x)
  BY <1>6
<1> HIDE DEF u
<1>10. t \in Texts /\ Len(t) = Len(u) + 3 + (n - b)
  <2> DEFINE q == From(src, b)
  <2>1. q \in Texts /\ Len(q) = n - b
    BY <1>7
  <2> HIDE DEF q
  <2>2. u \o shut \o q \in Texts /\ Len(u \o shut \o q) = Len(u) + Len(shut) + Len(q)
    BY ONLY <1>4, <1>8, <2>1, JoinThree
  <2>3. t = u \o shut \o q
    BY DEF q
  <2> HIDE DEF t
  <2> QED
    BY ONLY <1>5, <2>1, <2>2, <2>3
<1> HIDE DEF t
<1>11. x \in Nat /\ x <= x /\ x <= Len(t)
  BY <1>1, <1>2, <1>8, <1>10
<1> HIDE DEF x
<1>12. Fits(Edit(t, x, x).text, Edit(t, x, x).selection)
  BY <1>10, <1>11, EditFits
<1> QED
  BY <1>9, <1>12 DEF E

\* The lines of a text and where they start: the lines of a selection.
LEMMA LinesTouched ==
    ASSUME NEW src, NEW s, Fits(src, s)
    PROVE  LET lines == LinesOf(src)
               starts == LineStarts(lines)
               first == LineIndexAt(starts, s.start)
               last == LineIndexAt(starts, s.end)
           IN  /\ lines \in Seq(Texts) /\ lines # <<>> /\ Len(lines) \in Nat
               /\ \A i \in 1..Len(lines) : lines[i] \in Texts /\ starts[i] \in Nat
               /\ first \in 1..Len(lines) /\ last \in 1..Len(lines)
<1> DEFINE lines == LinesOf(src)
           starts == LineStarts(lines)
<1>1. lines \in Seq(Texts) /\ lines # <<>> /\ Len(lines) \in Nat /\ \A i \in 1..Len(lines) : lines[i] \in Texts
  BY LinesAre DEF Fits
<1>2. s.start \in Nat /\ s.end \in Nat
  BY DEF Fits
<1> HIDE DEF lines
<1>3. \A o \in Nat : LineIndexAt(LineStarts(lines), o) \in 1..Len(lines)
  BY <1>1, LineIndexIs
<1>4. \A i \in 1..Len(lines) : starts[i] \in Nat
  BY <1>1, SerializedIs
<1> QED
  BY <1>1, <1>2, <1>3, <1>4 DEF lines

\* What a block command makes of the lines, as ApplyBlock defines it.
Target(lines, first, last, kind) ==
  IF \A line \in ToSet(SubSeq(lines, first, last)) : StripPrefix(line).kind = kind THEN "paragraph" ELSE kind
\* The lines once the touched ones are of the target kind.
Rewritten(lines, first, last, target) ==
  [i \in DOMAIN lines |->
     IF i \in first..last THEN Prefixed(StripPrefix(lines[i]), target, i - first + 1) ELSE lines[i]]

\* The lines stay as many as they were, and stay texts.
LEMMA RewrittenIs ==
    ASSUME NEW lines \in Seq(Texts), NEW first \in 1..Len(lines), NEW last \in 1..Len(lines),
           NEW target \in BlockCommands \cup {"paragraph"}
    PROVE  /\ Rewritten(lines, first, last, target) \in Seq(Texts)
           /\ Len(Rewritten(lines, first, last, target)) = Len(lines)
<1> DEFINE n == Len(lines)
           r == Rewritten(lines, first, last, target)
           new(i) == IF i \in first..last THEN Prefixed(StripPrefix(lines[i]), target, i - first + 1) ELSE lines[i]
<1>1. n \in Nat /\ DOMAIN lines = 1..n /\ first \in 1..n
  OBVIOUS
<1>2. r = [i \in 1..n |-> new(i)]
  BY <1>1 DEF Rewritten
<1>3. ASSUME NEW i \in 1..n PROVE new(i) \in Texts
  <2>1. lines[i] \in Texts
    OBVIOUS
  <2>2. CASE i \in first..last
    <3>1. StripPrefix(lines[i]).indent \in Texts /\ StripPrefix(lines[i]).body \in Texts
      BY <2>1, StripIs
    <3> DEFINE k == i - first + 1
    <3>2. k \in Nat
      BY <1>1, <2>2
    <3> HIDE DEF k
    <3>3. Prefixed(StripPrefix(lines[i]), target, k) \in Texts
      BY <3>1, <3>2, PrefixedIs
    <3> QED
      BY <2>2, <3>3 DEF k
  <2>3. CASE ~(i \in first..last)
    BY <2>1, <2>3
  <2> QED
    BY <2>2, <2>3
<1> HIDE DEF n, r, new
<1>4. r \in [1..n -> Texts]
  BY <1>2, <1>3
<1>5. r \in Seq(Texts) /\ Len(r) = n
  BY <1>1, <1>4
<1> QED
  BY <1>5 DEF n, r

\* A block command leaves a selection of the text it writes.
LEMMA BlockLeavesFit ==
    ASSUME NEW src, NEW s, Fits(src, s), NEW kind \in BlockCommands
    PROVE  Fits(ApplyBlock(src, s, kind).text, ApplyBlock(src, s, kind).selection)
<1> DEFINE lines == LinesOf(src)
           starts == LineStarts(lines)
           first == LineIndexAt(starts, s.start)
           last == LineIndexAt(starts, s.end)
           target == Target(lines, first, last, kind)
           next == Rewritten(lines, first, last, target)
           nextStarts == LineStarts(next)
           Moved(offset) == nextStarts[first] + Remap(offset - starts[first], lines[first], next[first])
           t == SerializeLines(next)
           E == ApplyBlock(src, s, kind)
<1>1. E = IF last > first THEN Edit(t, nextStarts[first], nextStarts[last] + Len(next[last]))
          ELSE Edit(t, Moved(s.start), Moved(s.end))
  BY DEF ApplyBlock, Target, Rewritten
<1>2. lines \in Seq(Texts) /\ lines # <<>> /\ Len(lines) \in Nat
      /\ (\A i \in 1..Len(lines) : lines[i] \in Texts /\ starts[i] \in Nat)
      /\ first \in 1..Len(lines) /\ last \in 1..Len(lines)
  BY LinesTouched
<1>3. s.start \in Nat /\ s.end \in Nat /\ s.start <= s.end
  BY DEF Fits
<1>4. target \in BlockCommands \cup {"paragraph"}
  BY DEF Target
<1> HIDE DEF lines, starts, first, last, target
<1>5. next \in Seq(Texts) /\ Len(next) = Len(lines)
  BY <1>2, <1>4, RewrittenIs
<1> HIDE DEF next
<1>6. next # <<>> /\ first \in 1..Len(next) /\ last \in 1..Len(next)
  BY <1>2, <1>5
<1>7. t \in Texts /\ \A i \in 1..Len(next) :
         nextStarts[i] \in Nat /\ Len(next[i]) \in Nat /\ nextStarts[i] + Len(next[i]) <= Len(t)
  BY <1>5, <1>6, SerializedIs
<1>8. /\ nextStarts[first] \in Nat /\ Len(next[first]) \in Nat /\ nextStarts[first] + Len(next[first]) <= Len(t)
      /\ nextStarts[last] \in Nat /\ Len(next[last]) \in Nat /\ nextStarts[last] + Len(next[last]) <= Len(t)
  BY <1>6, <1>7
<1>9. Len(t) \in Nat
  BY <1>7 DEF Texts
<1>10. CASE last > first
  <2>1. nextStarts[first] + 1 + Len(next[first]) <= nextStarts[last]
    <3>1. first < last
      BY <1>2, <1>10
    <3> QED
      BY <1>5, <1>6, <3>1, StartsRise
  <2> DEFINE x == nextStarts[first]
             y == nextStarts[last]
             k == Len(next[first])
             l == Len(next[last])
             m == Len(t)
             z == y + l
  <2>5. x \in Nat /\ k \in Nat /\ y \in Nat /\ l \in Nat /\ y + l <= m /\ x + 1 + k <= y
    BY <1>8, <2>1
  <2>6. m \in Nat
    BY <1>9
  <2> HIDE DEF x, y, k, l, m
  <2>7. x \in Nat /\ z \in Nat /\ x <= z /\ z <= m
    BY ONLY <2>5, <2>6
  <2>2. x \in Nat /\ z \in Nat /\ x <= z /\ z <= Len(t)
    BY <2>7 DEF m
  <2>3. E = Edit(t, x, z)
    BY <1>1, <1>10 DEF x, y, l
  <2> HIDE DEF E, t, x, z
  <2>4. Fits(Edit(t, x, z).text, Edit(t, x, z).selection)
    BY <1>7, <2>2, EditFits
  <2> QED
    BY <2>3, <2>4 DEF E
<1>11. CASE ~(last > first)
  <2> DEFINE before == lines[first]
             after == next[first]
             c == s.start - starts[first]
             d == s.end - starts[first]
             x == Moved(s.start)
             z == Moved(s.end)
             base == nextStarts[first]
  <2>1. before \in Texts /\ starts[first] \in Nat
    BY <1>2
  <2>2. after \in Texts
    BY <1>5, <1>6
  <2>3. c \in Int /\ d \in Int /\ c <= d
    BY <1>3, <2>1
  <2>4. E = Edit(t, x, z)
    BY <1>1, <1>11
  <2>5. x = base + Remap(c, before, after) /\ z = base + Remap(d, before, after)
    OBVIOUS
  <2> HIDE DEF E, x, z, c, d, before, t, base
  <2>6. base \in Nat /\ Len(after) \in Nat /\ base + Len(after) <= Len(t)
    BY <1>8 DEF base
  <2> HIDE DEF after
  <2>7. /\ Remap(c, before, after) \in 0..Len(after) /\ Remap(d, before, after) \in 0..Len(after)
        /\ Remap(c, before, after) <= Remap(d, before, after)
    BY <2>1, <2>2, <2>3, RemapIs
  <2>8. x \in Nat /\ z \in Nat /\ x <= z /\ z <= Len(t)
    BY ONLY <1>9, <2>5, <2>6, <2>7
  <2>9. Fits(Edit(t, x, z).text, Edit(t, x, z).selection)
    BY <1>7, <2>8, EditFits
  <2> QED
    BY <2>4, <2>9 DEF E
<1> QED
  BY <1>10, <1>11

\* A list with other lines put in.
LEMMA PutIn ==
    ASSUME NEW head \in Seq(Texts), NEW mid \in Seq(Texts), NEW rest \in Seq(Texts)
    PROVE  /\ head \o mid \o rest \in Seq(Texts)
           /\ Len(head \o mid \o rest) = Len(head) + Len(mid) + Len(rest)
           /\ \A i \in 1..Len(head) : (head \o mid \o rest)[i] = head[i]
           /\ \A i \in 1..Len(mid) : (head \o mid \o rest)[Len(head) + i] = mid[i]
<1> DEFINE a == head \o mid
           b == a \o rest
<1>1. Len(head) \in Nat /\ Len(mid) \in Nat /\ Len(rest) \in Nat
  OBVIOUS
<1>2. a \in Seq(Texts) /\ Len(a) = Len(head) + Len(mid)
      /\ \A i \in 1..(Len(head) + Len(mid)) : a[i] = IF i <= Len(head) THEN head[i] ELSE mid[i - Len(head)]
  BY ConcatProperties
<1> HIDE DEF a
<1>21. a \in Seq(Texts)
  BY <1>2
<1>3. b \in Seq(Texts) /\ Len(b) = Len(a) + Len(rest)
      /\ \A i \in 1..(Len(a) + Len(rest)) : b[i] = IF i <= Len(a) THEN a[i] ELSE rest[i - Len(a)]
  BY ONLY <1>21, ConcatProperties, Zenon
<1> HIDE DEF b
<1>4. \A i \in 1..Len(head) : b[i] = head[i]
  BY <1>1, <1>2, <1>3
<1>5. ASSUME NEW i \in 1..Len(mid) PROVE b[Len(head) + i] = mid[i]
  <2> DEFINE k == Len(head) + i
  <2>1. k \in 1..(Len(head) + Len(mid)) /\ ~(k <= Len(head)) /\ k - Len(head) = i
    BY <1>1
  <2> HIDE DEF k
  <2>2. k \in 1..(Len(a) + Len(rest)) /\ k <= Len(a)
    BY <1>1, <1>2, <2>1
  <2> QED
    BY <1>2, <1>3, <2>1, <2>2 DEF k
<1> QED
  BY <1>2, <1>3, <1>4, <1>5 DEF a, b

\* The caret stands behind the opening fence, or on the line that follows the rule.
LEMMA InsertLeavesFit ==
    ASSUME NEW src, NEW s, Fits(src, s), NEW kind
    PROVE  Fits(InsertBlock(src, s, kind).text, InsertBlock(src, s, kind).selection)
<1> DEFINE lines == LinesOf(src)
           starts == LineStarts(lines)
           first == LineIndexAt(starts, s.start)
           last == LineIndexAt(starts, s.end)
           ticks == <<BackTick, BackTick, BackTick>>
           fenced == SubSeq(lines, 1, first - 1) \o <<ticks>> \o SubSeq(lines, first, last)
                       \o <<ticks>> \o From(lines, last)
           blank == Run(lines[last], 0, Blank) = Len(lines[last])
           upTo == IF blank THEN last - 1 ELSE last
           head == SubSeq(lines, 1, upTo)
           rule == << <<"-", "-", "-">>, <<>> >>
           ruled == head \o rule \o From(lines, last)
           caret == LineStarts(ruled)[Len(head) + 2]
           E == InsertBlock(src, s, kind)
<1>1. E = IF kind = "fence" THEN Edit(SerializeLines(fenced), starts[first] + 3, starts[first] + 3)
          ELSE Edit(SerializeLines(ruled), caret, caret)
  BY DEF InsertBlock
<1>2. lines \in Seq(Texts) /\ lines # <<>> /\ Len(lines) \in Nat
      /\ (\A i \in 1..Len(lines) : lines[i] \in Texts /\ starts[i] \in Nat)
      /\ first \in 1..Len(lines) /\ last \in 1..Len(lines)
  BY LinesTouched
<1>3. upTo \in 0..Len(lines)
  BY <1>2
<1>4. ticks \in Texts /\ Len(ticks) = 3
  <2>1. BackTick \in Characters
    BY DEF Characters
  <2>2. ticks \in Texts
    BY <2>1, ShortTexts, Zenon
  <2> QED
    BY <2>2
<1>5. rule \in Seq(Texts) /\ Len(rule) = 2
  <2>1. "-" \in Characters
    BY DEF Characters, Blank
  <2> DEFINE hr == <<"-", "-", "-">>
             no == <<>>
  <2>2. hr \in Texts
    BY <2>1, ShortTexts, Zenon
  <2>3. no \in Texts
    BY DEF Texts
  <2>4. rule = <<hr, no>>
    OBVIOUS
  <2> HIDE DEF hr, no, rule
  <2>5. <<hr, no>> \in Seq(Texts) /\ Len(<<hr, no>>) = 2
    BY ONLY <2>2, <2>3
  <2> QED
    BY ONLY <2>4, <2>5
<1> HIDE DEF lines, starts, first, last, ticks, blank, upTo, rule
<1>6. From(lines, last) \in Seq(Texts)
  <2>1. last \in 0..Len(lines)
    BY <1>2
  <2>2. SubSeq(lines, last + 1, Len(lines)) \in Seq(Texts)
    BY <1>2, <2>1, CutList
  <2> QED
    BY <2>2 DEF From
<1>7. CASE kind = "fence"
  <2> DEFINE top == SubSeq(lines, 1, first - 1)
             one == <<ticks>>
             mid == SubSeq(lines, first, last)
             a == top \o one \o mid
             t == SerializeLines(fenced)
             c == starts[first] + 3
             p == first - 1
  <2>1. p \in 0..Len(lines) /\ p + 1 = first /\ p \in Nat
    BY <1>2
  <2>2. top \in Seq(Texts) /\ Len(top) = p /\ \A i \in 1..p : top[i] = lines[i]
    <3> HIDE DEF p
    <3>1. SubSeq(lines, 1, p) \in Seq(Texts) /\ Len(SubSeq(lines, 1, p)) = p /\ \A i \in 1..p : SubSeq(lines, 1, p)[i] = lines[i]
      BY <1>2, <2>1, CutList
    <3> QED
      BY <3>1 DEF p
  <2>3. one \in Seq(Texts) /\ Len(one) = 1 /\ one[1] = ticks
    <3>1. one \in Seq(Texts)
      BY <1>4
    <3> QED
      BY <3>1
  <2>4. mid \in Seq(Texts)
    BY <1>2
  <2>5. fenced = a \o one \o From(lines, last)
    OBVIOUS
  <2>50. E = Edit(t, c, c)
    BY <1>1, <1>7
  <2> HIDE DEF top, one, mid, p, E
  <2>6. a \in Seq(Texts) /\ Len(a) = Len(top) + Len(one) + Len(mid)
        /\ (\A i \in 1..Len(top) : a[i] = top[i]) /\ \A i \in 1..Len(one) : a[Len(top) + i] = one[i]
    BY <2>2, <2>3, <2>4, PutIn, ZenonT(60)
  <2> HIDE DEF a
  <2>7. fenced \in Seq(Texts) /\ Len(fenced) = Len(a) + Len(one) + Len(From(lines, last))
        /\ \A i \in 1..Len(a) : fenced[i] = a[i]
    <3> DEFINE r == From(lines, last)
               f == a \o one \o r
    <3>1. r \in Seq(Texts) /\ a \in Seq(Texts) /\ one \in Seq(Texts)
      BY <1>6, <2>3, <2>6
    <3> HIDE DEF r
    <3>2. f \in Seq(Texts) /\ Len(f) = Len(a) + Len(one) + Len(r) /\ \A i \in 1..Len(a) : f[i] = a[i]
      BY ONLY <3>1, PutIn
    <3>3. f = fenced
      BY <2>5 DEF r
    <3> HIDE DEF f
    <3> QED
      BY <3>2, <3>3 DEF r
  <2> HIDE DEF fenced
  <2>8. Len(mid) \in Nat /\ Len(From(lines, last)) \in Nat
    BY <1>6, <2>4
  <2>9. first \in 1..Len(a) /\ first \in 1..Len(fenced) /\ (\A i \in 1..p : i \in 1..Len(a))
    BY <2>1, <2>2, <2>3, <2>6, <2>7, <2>8
  <2>10. \A i \in 1..p : fenced[i] = lines[i]
    BY <2>2, <2>6, <2>7, <2>9
  <2>11. fenced[first] = ticks
    <3>1. 1 \in 1..Len(one) /\ Len(top) + 1 = first
      BY <2>1, <2>2, <2>3
    <3>2. a[first] = one[1]
      BY <2>6, <3>1
    <3> QED
      BY <2>3, <2>7, <2>9, <3>2
  <2>12. LineStarts(fenced)[first] = starts[first]
    <3>1. \A i \in 1..(first - 1) : lines[i] = fenced[i]
      BY <2>10 DEF p
    <3> QED
      BY <1>2, <2>7, <2>9, <3>1, StartsShared DEF starts
  <2>13. fenced # <<>>
    BY <2>9
  <2>14. t \in Texts /\ LineStarts(fenced)[first] + Len(fenced[first]) <= Len(t)
    BY <2>7, <2>9, <2>13, SerializedIs
  <2> HIDE DEF t
  <2>15. c \in Nat /\ c <= Len(t) /\ c <= c
    <3> DEFINE x == starts[first]
               m == Len(t)
    <3>1. x \in Nat /\ x + 3 <= m
      BY <1>2, <1>4, <2>11, <2>12, <2>14
    <3>2. m \in Nat
      BY <2>14 DEF Texts
    <3>3. c = x + 3
      OBVIOUS
    <3> HIDE DEF x, m, c
    <3>4. c \in Nat /\ c <= m /\ c <= c
      BY ONLY <3>1, <3>2, <3>3
    <3> QED
      BY <3>4 DEF m
  <2> HIDE DEF c
  <2>16. Fits(Edit(t, c, c).text, Edit(t, c, c).selection)
    BY <2>14, <2>15, EditFits
  <2> QED
    BY <2>16, <2>50 DEF E
<1>8. CASE kind # "fence"
  <2> DEFINE t == SerializeLines(ruled)
             p == Len(head) + 2
  <2>1. head \in Seq(Texts) /\ Len(head) = upTo
    BY <1>2, <1>3, CutList
  <2>50. E = Edit(t, caret, caret)
    BY <1>1, <1>8
  <2> HIDE DEF head, E
  <2>2. ruled \in Seq(Texts) /\ Len(ruled) = Len(head) + Len(rule) + Len(From(lines, last))
    BY <1>5, <1>6, <2>1, PutIn
  <2> HIDE DEF ruled
  <2>3. Len(From(lines, last)) \in Nat /\ Len(head) \in Nat
    BY <1>6, <2>1
  <2>4. p \in 1..Len(ruled) /\ ruled # <<>>
    BY <1>5, <2>2, <2>3
  <2> HIDE DEF p
  <2>5. t \in Texts /\ LineStarts(ruled)[p] \in Nat /\ Len(ruled[p]) \in Nat /\ LineStarts(ruled)[p] + Len(ruled[p]) <= Len(t)
    BY <2>2, <2>4, SerializedIs
  <2>6. Len(t) \in Nat
    BY <2>5 DEF Texts
  <2>7. caret = LineStarts(ruled)[p]
    BY DEF p
  <2> DEFINE x == LineStarts(ruled)[p]
             l == Len(ruled[p])
             m == Len(t)
  <2>8. x \in Nat /\ l \in Nat /\ x + l <= m /\ m \in Nat
    BY <2>5, <2>6
  <2> HIDE DEF x, l, m
  <2>9. x \in Nat /\ x <= m /\ x <= x
    BY ONLY <2>8
  <2>10. caret \in Nat /\ caret <= Len(t) /\ caret <= caret
    BY <2>7, <2>9 DEF x, m
  <2> HIDE DEF caret, t
  <2>11. Fits(Edit(t, caret, caret).text, Edit(t, caret, caret).selection)
    BY <2>5, <2>10, EditFits
  <2> QED
    BY <2>11, <2>50 DEF E
<1> QED
  BY <1>7, <1>8

\* Every command, run on a selection of a text, leaves a text and a selection of it.
LEMMA CommandsFit ==
    ASSUME NEW src, NEW s, Fits(src, s), NEW cmd \in NOTE_COMMANDS
    PROVE  Fits(RunCommand(cmd, src, s).text, RunCommand(cmd, src, s).selection)
<1>1. CASE cmd \in InlineCommands
  BY <1>1, InlineFits DEF RunCommand
<1>2. CASE cmd \notin InlineCommands /\ cmd \in BlockCommands
  BY <1>2, BlockLeavesFit DEF RunCommand
<1>3. CASE cmd \notin InlineCommands /\ cmd \notin BlockCommands /\ cmd = "link"
  <2>1. RunCommand(cmd, src, s) = ApplyLink(src, s)
    BY <1>3 DEF RunCommand
  <2> QED
    BY <2>1, LinkLeavesFit
<1>4. CASE cmd \notin InlineCommands /\ cmd \notin BlockCommands /\ cmd # "link"
  <2>1. RunCommand(cmd, src, s) = InsertBlock(src, s, cmd)
    BY <1>4 DEF RunCommand
  <2> QED
    BY <2>1, InsertLeavesFit
<1> QED
  BY <1>1, <1>2, <1>3, <1>4

\* A click on a box leaves a text, which still reaches the line clicked.
LEMMA ToggleKeepsTheLine ==
    ASSUME NEW src \in Texts, NEW i \in 1..Len(LinesOf(src))
    PROVE  /\ LineStarts(LinesOf(src))[i] \in Nat
           /\ ToggleTask(src, LineStarts(LinesOf(src))[i]) \in Texts
           /\ LineStarts(LinesOf(src))[i] <= Len(ToggleTask(src, LineStarts(LinesOf(src))[i]))
<1> DEFINE lines == LinesOf(src)
           starts == LineStarts(lines)
           offset == starts[i]
           box == BulletLen(lines[i]) + 2
           mark == IF lines[i][box] = " " THEN "x" ELSE " "
           ticked == [lines EXCEPT ![i] = [lines[i] EXCEPT ![box] = mark]]
           T == ToggleTask(src, offset)
<1>1. lines \in Seq(Texts) /\ lines # <<>> /\ Len(lines) \in Nat /\ lines[i] \in Texts /\ i \in 1..Len(lines)
  BY LinesAre
<1>2. LineIndexAt(starts, offset) = i /\ offset \in Nat
  BY <1>1, LineIndexOfStart
<1>3. T = IF TaskLen(lines[i]) > 0 THEN SerializeLines(ticked) ELSE src
  BY <1>2 DEF ToggleTask
<1>4. SerializeLines(lines) = src
  BY PutTogether
<1>5. mark \in Characters
  <2>1. "x" \in Characters /\ " " \in Characters
    BY DEF Characters, WORD, Letter, Blank
  <2> QED
    BY <2>1
<1> HIDE DEF lines, starts, offset, box, mark, T
<1>6. offset <= Len(src)
  <2>1. starts[i] \in Nat /\ Len(lines[i]) \in Nat /\ starts[i] + Len(lines[i]) <= Len(SerializeLines(lines))
    BY <1>1, SerializedIs DEF starts
  <2>2. Len(src) \in Nat
    BY DEF Texts
  <2> QED
    BY <1>4, <2>1, <2>2 DEF offset
<1>7. CASE TaskLen(lines[i]) > 0
  <2> DEFINE l == [lines[i] EXCEPT ![box] = mark]
             t == SerializeLines(ticked)
  <2>1. l \in Texts
    <3>1. lines[i] \in Seq(Characters)
      BY <1>1 DEF Texts
    <3> DEFINE w == lines[i]
    <3>3. w \in Seq(Characters) /\ l = [w EXCEPT ![box] = mark]
      BY <3>1
    <3> HIDE DEF w, l
    <3>5. w \in [1..Len(w) -> Characters] /\ Len(w) \in Nat
      BY ONLY <3>3
    <3>6. [w EXCEPT ![box] = mark] \in [1..Len(w) -> Characters]
      BY ONLY <1>5, <3>5, Zenon
    <3>4. [w EXCEPT ![box] = mark] \in Seq(Characters)
      BY ONLY <3>5, <3>6
    <3>2. l \in Seq(Characters)
      BY <3>3, <3>4
    <3> QED
      BY <3>2 DEF Texts
  <2> HIDE DEF l
  <2>2. ticked = [lines EXCEPT ![i] = l]
    BY DEF l
  <2> HIDE DEF ticked
  <2>3. ticked \in Seq(Texts) /\ Len(ticked) = Len(lines) /\ \A k \in 1..(i - 1) : lines[k] = ticked[k]
    BY <1>1, <2>1, <2>2
  <2>4. ticked # <<>> /\ i \in 1..Len(ticked)
    BY <1>1, <2>3
  <2>5. LineStarts(ticked)[i] = offset
    BY <1>1, <2>3, <2>4, StartsShared DEF offset, starts
  <2>6. t \in Texts /\ Len(ticked[i]) \in Nat /\ LineStarts(ticked)[i] + Len(ticked[i]) <= Len(t)
    BY <2>3, <2>4, SerializedIs
  <2>7. Len(t) \in Nat
    BY <2>6 DEF Texts
  <2> HIDE DEF t
  <2>8. offset <= Len(t)
    BY <1>2, <2>5, <2>6, <2>7
  <2> QED
    BY <1>2, <1>3, <1>7, <2>6, <2>8 DEF T, t, offset, starts, lines
<1>8. CASE ~(TaskLen(lines[i]) > 0)
  BY <1>2, <1>3, <1>6, <1>8 DEF T, offset, starts, lines
<1> QED
  BY <1>7, <1>8

\* The note is a text and the selection is one it has.
CommandsInv ==
    /\ Fits(noteText, sel)
    /\ pressed \in NOTE_COMMANDS \cup {"tick", "nothing"}
    /\ presses \in 0..MaxPresses

\* The invariant holds of a note that is opened ...
LEMMA CommandsStart == NoteCommandsInit => CommandsInv
<1> SUFFICES ASSUME NoteCommandsInit PROVE CommandsInv
  OBVIOUS
<1>1. noteText \in Texts
  BY NoteTextsAssumption DEF NoteCommandsInit, Texts
<1>2. Len(noteText) \in Nat
  BY <1>1 DEF Texts
<1>3. sel.start = 0 /\ sel.end = 0
  BY DEF NoteCommandsInit
<1>4. Fits(noteText, sel)
  BY <1>1, <1>2, <1>3 DEF Fits
<1>5. pressed \in NOTE_COMMANDS \cup {"tick", "nothing"}
  BY DEF NoteCommandsInit
<1>6. presses \in 0..MaxPresses
  BY PressesAssumption DEF NoteCommandsInit
<1> QED
  BY <1>4, <1>5, <1>6 DEF CommandsInv

\* ... and every selection, command and click keeps it.
LEMMA CommandsKeep == CommandsInv /\ [NoteCommandsNext]_commandVars => CommandsInv'
<1> SUFFICES ASSUME CommandsInv, [NoteCommandsNext]_commandVars PROVE CommandsInv'
  OBVIOUS
<1>1. Fits(noteText, sel) /\ pressed \in NOTE_COMMANDS \cup {"tick", "nothing"} /\ presses \in 0..MaxPresses
  BY DEF CommandsInv
<1>2. noteText \in Texts /\ Len(noteText) \in Nat
  BY <1>1 DEF Fits, Texts
<1>3. ASSUME presses < MaxPresses, presses' = presses + 1 PROVE presses' \in 0..MaxPresses
  BY <1>1, <1>3, PressesAssumption
<1>4. ASSUME NEW start \in 0..Len(noteText), NEW end \in start..Len(noteText), Select(start, end)
      PROVE  CommandsInv'
  <2>1. noteText' = noteText /\ sel' = [start |-> start, end |-> end] /\ pressed' = "nothing" /\ presses' = presses
    BY <1>4 DEF Select
  <2>2. sel'.start = start /\ sel'.end = end
    BY <2>1
  <2>3. Fits(noteText', sel')
    BY <1>2, <2>1, <2>2 DEF Fits
  <2> QED
    BY <1>1, <2>1, <2>3 DEF CommandsInv, Fits
<1>5. ASSUME NEW cmd \in NOTE_COMMANDS, Press(cmd) PROVE CommandsInv'
  <2>1. /\ presses < MaxPresses /\ presses' = presses + 1 /\ pressed' = cmd
        /\ noteText' = RunCommand(cmd, noteText, sel).text /\ sel' = RunCommand(cmd, noteText, sel).selection
    BY <1>5 DEF Press
  <2>2. Fits(noteText', sel')
    BY <1>1, <2>1, CommandsFit
  <2>3. presses' \in 0..MaxPresses
    BY <1>3, <2>1
  <2> QED
    BY <2>1, <2>2, <2>3 DEF CommandsInv, Fits
<1>6. ASSUME NEW i \in 1..Len(noteText), Tick(i) PROVE CommandsInv'
  <2> DEFINE lines == LinesOf(noteText)
             offset == LineStarts(lines)[i]
  <2>1. /\ presses < MaxPresses /\ presses' = presses + 1 /\ pressed' = "tick" /\ i \in DOMAIN lines
        /\ noteText' = ToggleTask(noteText, offset) /\ sel' = [start |-> offset, end |-> offset]
    BY <1>6 DEF Tick
  <2>2. i \in 1..Len(lines)
    BY <1>2, <2>1, LinesAre
  <2>3. offset \in Nat /\ noteText' \in Texts /\ offset <= Len(noteText')
    BY <1>2, <2>1, <2>2, ToggleKeepsTheLine
  <2>4. sel'.start = offset /\ sel'.end = offset
    BY <2>1
  <2> HIDE DEF offset
  <2>5. Fits(noteText', sel')
    BY <2>3, <2>4 DEF Fits
  <2>6. presses' \in 0..MaxPresses
    BY <1>3, <2>1
  <2> QED
    BY <2>1, <2>5, <2>6 DEF CommandsInv, Fits
<1>7. CASE UNCHANGED commandVars
  BY <1>1, <1>7 DEF commandVars, CommandsInv, Fits
<1> QED
  BY <1>4, <1>5, <1>6, <1>7 DEF NoteCommandsNext

\* What it says of the selection, in the words of the type invariant.
LEMMA CommandsImply == CommandsInv => NoteCommandsTypeOK /\ ViewIsTheText
<1> SUFFICES ASSUME CommandsInv PROVE NoteCommandsTypeOK /\ ViewIsTheText
  OBVIOUS
<1>1. noteText \in Texts
  BY DEF CommandsInv, Fits
<1>2. ViewIsTheText
  BY <1>1, ViewHolds
<1>3. sel.start \in 0..sel.end /\ sel.end \in 0..Len(noteText)
  <2>1. Len(noteText) \in Nat
    BY <1>1 DEF Texts
  <2> QED
    BY <2>1 DEF CommandsInv, Fits
<1> QED
  BY <1>1, <1>2, <1>3 DEF NoteCommandsTypeOK, CommandsInv, Texts

\* Whatever is pressed, in any order and on any text, the selection is one the
\* text has (lib/note_commands.js).
THEOREM CommandsTypeCorrect == NoteCommandsSpec => []NoteCommandsTypeOK
  BY CommandsStart, CommandsKeep, CommandsImply, PTL DEF NoteCommandsSpec

\* What is shown is what is in the file, for every text that commands can make
\* of another: no character is lost in the decorations, and the buttons tell
\* what a press would do (lib/note_markdown.js, lib/note_commands.js).
THEOREM ViewIsAlwaysTheText == NoteCommandsSpec => []ViewIsTheText
  BY CommandsStart, CommandsKeep, CommandsImply, PTL DEF NoteCommandsSpec

(***************************************************************************)
(* The commands keep the words.  A text is mute when it holds no word.     *)
(***************************************************************************)
Mute == Characters \ {"a", "b"}
MuteTexts == Seq(Mute)

\* The words of two texts put together.
LEMMA WordsJoin ==
    ASSUME NEW s \in Texts, NEW t \in Texts
    PROVE  /\ s \o t \in Texts /\ Words(s \o t) = Words(s) \o Words(t)
           /\ Words(s) \in Texts /\ Words(t) \in Texts
<1>1. s \in Seq(Characters) /\ t \in Seq(Characters)
  BY DEF Texts
<1>2. s \o t \in Seq(Characters)
  BY <1>1
<1> DEFINE S == {"a", "b"}
<1> HIDE DEF S
<1>3. Only(s \o t, S) = Only(s, S) \o Only(t, S)
  BY ONLY <1>1, OnlyOfConcat
<1>4. Only(s, S) \in Seq(Characters) /\ Only(t, S) \in Seq(Characters)
  BY ONLY <1>1, OnlyKeeps
<1> QED
  BY ONLY <1>2, <1>3, <1>4 DEF Texts, Words, S

\* A mute text has no words.
LEMMA MuteIsSilent ==
    ASSUME NEW m \in MuteTexts
    PROVE  m \in Texts /\ Words(m) = <<>>
<1>1. Mute \subseteq Characters
  BY DEF Mute
<1>2. m \in Seq(Characters) /\ m \in Seq(Mute)
  <2>1. m \in Seq(Mute)
    BY DEF MuteTexts
  <2> QED
    BY ONLY <1>1, <2>1, SeqMonotonic
<1> DEFINE I == {i \in DOMAIN m : m[i] \in {"a", "b"}}
           w == PickAt(m, I)
<1>3. \A i \in DOMAIN m : m[i] \notin {"a", "b"}
  <2> SUFFICES ASSUME NEW i \in DOMAIN m PROVE m[i] \notin {"a", "b"}
    OBVIOUS
  <2>1. m[i] \in Mute
    BY <1>2
  <2> QED
    BY <2>1 DEF Mute
<1>4. w \in Seq(Characters) /\ Range(w) = {m[i] : i \in {j \in DOMAIN m : j \in I}}
  BY <1>2, PickAtRange
<1>5. {m[i] : i \in {j \in DOMAIN m : j \in I}} = {}
  BY <1>3
<1> HIDE DEF w, I
<1>6. w = <<>>
  <2>1. Range(w) = {}
    BY <1>4, <1>5
  <2>2. \A i \in DOMAIN w : w[i] \in Range(w)
    BY DEF Range
  <2>3. DOMAIN w = {}
    BY <2>1, <2>2
  <2> QED
    BY <1>4, <2>3
<1> QED
  BY <1>2, <1>6 DEF w, I, Words, Only, Texts

\* Two mute texts make one.
LEMMA MuteJoin ==
    ASSUME NEW m \in MuteTexts, NEW n \in MuteTexts
    PROVE  m \o n \in MuteTexts /\ Len(m \o n) = Len(m) + Len(n) /\ Len(m) \in Nat /\ Len(n) \in Nat
<1>1. m \in Seq(Mute) /\ n \in Seq(Mute)
  BY DEF MuteTexts
<1>2. m \o n \in Seq(Mute) /\ Len(m \o n) = Len(m) + Len(n) /\ Len(m) \in Nat /\ Len(n) \in Nat
  BY <1>1
<1> QED
  BY <1>2 DEF MuteTexts

\* What is mute adds no word before or behind.
LEMMA MuteAround ==
    ASSUME NEW m \in MuteTexts, NEW t \in Texts
    PROVE  /\ m \o t \in Texts /\ Words(m \o t) = Words(t)
           /\ t \o m \in Texts /\ Words(t \o m) = Words(t)
<1>1. m \in Texts /\ Words(m) = <<>>
  BY MuteIsSilent
<1>2. /\ m \o t \in Texts /\ Words(m \o t) = Words(m) \o Words(t) /\ Words(t) \in Texts
      /\ t \o m \in Texts /\ Words(t \o m) = Words(t) \o Words(m)
  BY <1>1, WordsJoin
<1> DEFINE w == Words(t)
<1>3. w \in Seq(Characters)
  BY <1>2 DEF Texts
<1> HIDE DEF w
<1>4. <<>> \o w = w /\ w \o <<>> = w
  BY ONLY <1>3, ConcatEmptySeq
<1> QED
  BY <1>1, <1>2, <1>4 DEF w

\* Short lists of anything.
LEMMA ShortMutes ==
    ASSUME NEW a \in Mute, NEW b \in Mute, NEW c \in Mute, NEW d \in Mute, NEW e \in Mute, NEW f \in Mute
    PROVE  /\ <<a>> \in MuteTexts /\ <<a, b>> \in MuteTexts /\ <<a, b, c>> \in MuteTexts
           /\ <<a, b, c, d>> \in MuteTexts /\ <<a, b, c, d, e, f>> \in MuteTexts /\ <<>> \in MuteTexts
<1>1. <<a>> \in Seq(Mute) /\ <<a, b>> \in Seq(Mute) /\ <<a, b, c>> \in Seq(Mute)
  OBVIOUS
<1>2. <<a, b, c, d>> \in Seq(Mute) /\ <<a, b, c, d, e, f>> \in Seq(Mute) /\ <<>> \in Seq(Mute)
  OBVIOUS
<1> QED
  BY <1>1, <1>2 DEF MuteTexts

\* The characters of markers.
LEMMA MarksAreMute ==
    /\ "#" \in Mute /\ " " \in Mute /\ "-" \in Mute /\ "[" \in Mute /\ "]" \in Mute /\ ">" \in Mute
    /\ "." \in Mute /\ "*" \in Mute /\ "~" \in Mute /\ "(" \in Mute /\ ")" \in Mute /\ "+" \in Mute
    /\ "x" \in Mute /\ "X" \in Mute /\ BackTick \in Mute /\ NL \in Mute
    /\ Digit \subseteq Mute /\ Blank \subseteq Mute
<1>1. /\ "#" \in Mute /\ " " \in Mute /\ "-" \in Mute /\ "[" \in Mute /\ "]" \in Mute /\ ">" \in Mute
      /\ "." \in Mute /\ "*" \in Mute /\ "~" \in Mute /\ "(" \in Mute /\ ")" \in Mute /\ "+" \in Mute
  BY DEF Mute, Characters, Blank
<1>2. "x" \in Mute /\ "X" \in Mute /\ BackTick \in Mute /\ NL \in Mute
  BY DEF Mute, Characters, WORD, Letter, BackTick, NL
<1>3. Digit \subseteq Mute
  BY DEF Mute, Characters, WORD, Digit
<1>4. Blank \subseteq Mute
  BY DEF Mute, Characters, Blank
<1> QED
  BY <1>1, <1>2, <1>3, <1>4

\* The marks of the inline commands, and the prefixes of the blocks, are mute.
LEMMA InlineMarkIsMute ==
    ASSUME NEW kind \in InlineCommands
    PROVE  INLINE_MARKS[kind] \in MuteTexts
<1> DEFINE M == INLINE_MARKS
<1>1. "*" \in Mute /\ "~" \in Mute /\ BackTick \in Mute
  BY MarksAreMute
<1>2. /\ <<"*", "*">> \in MuteTexts /\ <<"*">> \in MuteTexts /\ <<"~", "~">> \in MuteTexts
      /\ <<BackTick>> \in MuteTexts
  BY <1>1, ShortMutes, Zenon
<1>3. M.bold \in MuteTexts /\ M.italic \in MuteTexts /\ M.strike \in MuteTexts /\ M.code \in MuteTexts
  BY <1>2 DEF INLINE_MARKS
<1>4. kind \in {"bold", "italic", "strike", "code"}
  BY DEF InlineCommands, INLINE_MARKS
<1> HIDE DEF M
<1>5. M[kind] \in MuteTexts
  BY <1>3, <1>4
<1> QED
  BY <1>5 DEF M

\* The same of the prefixes of the blocks.
LEMMA BlockPrefixIsMute ==
    ASSUME NEW target \in DOMAIN BLOCK_PREFIX
    PROVE  BLOCK_PREFIX[target] \in MuteTexts
<1>1. /\ "#" \in Mute /\ " " \in Mute /\ "-" \in Mute /\ "[" \in Mute /\ "]" \in Mute /\ ">" \in Mute
  BY MarksAreMute
<1>2. <<"#", " ">> \in MuteTexts /\ <<"#", "#", " ">> \in MuteTexts /\ <<"#", "#", "#", " ">> \in MuteTexts
  BY <1>1, ShortMutes, Zenon
<1>3. <<"-", " ">> \in MuteTexts /\ <<"-", " ", "[", " ", "]", " ">> \in MuteTexts /\ <<">", " ">> \in MuteTexts
  BY <1>1, ShortMutes, ZenonT(60)
<1>4. /\ BLOCK_PREFIX.h1 \in MuteTexts /\ BLOCK_PREFIX.h2 \in MuteTexts /\ BLOCK_PREFIX.h3 \in MuteTexts
      /\ BLOCK_PREFIX.bullet \in MuteTexts /\ BLOCK_PREFIX.task \in MuteTexts /\ BLOCK_PREFIX.quote \in MuteTexts
  BY <1>2, <1>3 DEF BLOCK_PREFIX
<1>5. target \in {"h1", "h2", "h3", "bullet", "task", "quote"}
  BY DEF BLOCK_PREFIX
<1> QED
  BY <1>4, <1>5

\* What a line begins with in its new kind, without its indent.
NewMark(target, n) == IF target = "ordered" THEN Counter[n] \o <<".", " ">>
                      ELSE IF target = "paragraph" THEN <<>>
                      ELSE BLOCK_PREFIX[target]

\* What is put before a line has no words, whatever its kind and its number.
LEMMA NewMarkIsMute ==
    ASSUME NEW target \in BlockCommands \cup {"paragraph"}, NEW n \in Nat
    PROVE  NewMark(target, n) \in MuteTexts
<1>1. CASE target = "ordered"
  <2>1. "." \in Mute /\ " " \in Mute
    BY MarksAreMute
  <2>2. <<".", " ">> \in MuteTexts
    BY <2>1, ShortMutes, Zenon
  <2>3. Counter[n] \in MuteTexts
    <3>1. Counter[n] \in Seq(Digit) /\ Digit \subseteq Mute
      BY CounterTyped, MarksAreMute
    <3>2. Counter[n] \in Seq(Mute)
      BY ONLY <3>1, SeqMonotonic
    <3> QED
      BY <3>2 DEF MuteTexts
  <2>4. Counter[n] \o <<".", " ">> \in MuteTexts
    BY <2>2, <2>3, MuteJoin
  <2>5. NewMark(target, n) = Counter[n] \o <<".", " ">>
    BY <1>1 DEF NewMark
  <2> QED
    BY ONLY <2>4, <2>5
<1>2. CASE target = "paragraph"
  <2>1. NewMark(target, n) = <<>>
    BY <1>2 DEF NewMark
  <2>2. <<>> \in MuteTexts
    BY DEF MuteTexts
  <2> QED
    BY ONLY <2>1, <2>2
<1>3. CASE target \in DOMAIN BLOCK_PREFIX
  <2>1. target \notin {"ordered", "paragraph"}
    BY <1>3 DEF BLOCK_PREFIX
  <2>2. NewMark(target, n) = BLOCK_PREFIX[target]
    BY <2>1 DEF NewMark
  <2>3. BLOCK_PREFIX[target] \in MuteTexts
    BY ONLY <1>3, BlockPrefixIsMute
  <2> QED
    BY ONLY <2>2, <2>3
<1> QED
  BY <1>1, <1>2, <1>3 DEF BlockCommands

\* A slice of mute characters is a mute text.
LEMMA SliceIsMute ==
    ASSUME NEW s \in Texts, NEW a \in Nat, NEW b \in Nat, a <= b, b <= Len(s),
           \A k \in (a + 1)..b : s[k] \in Mute
    PROVE  Slice(s, a, b) \in MuteTexts
<1>1. Len(s) \in Nat
  BY DEF Texts
<1>2. Slice(s, a, b) = SubSeq(s, a + 1, b)
  BY <1>1 DEF Slice
<1>3. SubSeq(s, a + 1, b) \in Seq(Mute)
  <2> DEFINE c == a + 1
  <2>1. c \in Int /\ b \in Int /\ \A k \in c..b : s[k] \in Mute
    OBVIOUS
  <2> HIDE DEF c
  <2>2. SubSeq(s, c, b) \in Seq(Mute)
    BY ONLY <2>1, SubSeqProperties
  <2> QED
    BY <2>2 DEF c
<1> QED
  BY <1>2, <1>3 DEF MuteTexts

\* The first places of a line are mute.
MuteTo(line, w) == \A k \in 1..w : line[k] \in Mute

\* The indent.
LEMMA IndentIsMute ==
    ASSUME NEW line \in Texts
    PROVE  MuteTo(line, Run(line, 0, Blank))
<1> DEFINE i == Run(line, 0, Blank)
<1>1. /\ i \in Nat /\ \A j \in (0 + 1)..(0 + i) : j \in 1..Len(line) /\ line[j] \in Blank
  BY RunIs
<1>2. Blank \subseteq Mute
  BY MarksAreMute
<1> HIDE DEF i
<1>3. \A k \in 1..i : k \in (0 + 1)..(0 + i)
  BY <1>1
<1> QED
  BY <1>1, <1>2, <1>3 DEF MuteTo, i

\* A marker: what is mute, a mark, and blanks.
LEMMA MarkAndGap ==
    ASSUME NEW line \in Texts, NEW i \in Nat, MuteTo(line, i), At(line, i) # "", At(line, i) \in Mute
    PROVE  MuteTo(line, i + 1) /\ MuteTo(line, i + 1 + Run(line, i + 1, Blank))
<1> DEFINE c == i + 1
           g == Run(line, c, Blank)
<1>0. i \in Nat /\ i \in Int
  BY ONLY i \in Nat
<1>1. c \in Nat
  BY ONLY <1>0
<1>2. line[c] \in Mute
  <2>1. At(line, i) = line[i + 1]
    BY <1>0, AtIs, Zenon
  <2>2. At(line, i) \in Mute
    OBVIOUS
  <2> QED
    BY ONLY <2>1, <2>2
<1>3. /\ g \in Nat /\ \A j \in (c + 1)..(c + g) : j \in 1..Len(line) /\ line[j] \in Blank
  BY <1>1, RunIs
<1>4. Blank \subseteq Mute
  BY MarksAreMute
<1> HIDE DEF g
<1>5. \A k \in 1..c : k = c \/ k \in 1..i
  BY ONLY <1>0
<1>6. MuteTo(line, c)
  BY <1>2, <1>5 DEF MuteTo
<1> HIDE DEF c
<1>7. \A k \in 1..(c + g) : k \in 1..c \/ k \in (c + 1)..(c + g)
  BY ONLY <1>1, <1>3
<1>8. MuteTo(line, c + g)
  BY <1>3, <1>4, <1>6, <1>7 DEF MuteTo
<1> QED
  BY <1>6, <1>8 DEF c, g

\* The marker of a bullet.
LEMMA BulletIsMute ==
    ASSUME NEW line \in Texts
    PROVE  MuteTo(line, BulletLen(line))
<1> DEFINE i == Run(line, 0, Blank)
           g == Run(line, i + 1, Blank)
<1>1. i \in Nat /\ MuteTo(line, i)
  BY RunIs, IndentIsMute
<1>2. BulletLen(line) = IF At(line, i) \in {"-", "*", "+"} /\ g > 0 THEN i + 1 + g ELSE 0
  BY DEF BulletLen
<1> HIDE DEF i
<1>3. CASE At(line, i) \in {"-", "*", "+"} /\ g > 0
  <2>1. At(line, i) # "" /\ At(line, i) \in Mute
    BY <1>3, MarksAreMute
  <2>2. MuteTo(line, i + 1 + g)
    BY <1>1, <2>1, MarkAndGap
  <2> QED
    BY <1>2, <1>3, <2>2
<1>4. CASE ~(At(line, i) \in {"-", "*", "+"} /\ g > 0)
  <2>1. BulletLen(line) = 0
    BY <1>2, <1>4
  <2> QED
    BY <2>1 DEF MuteTo
<1> QED
  BY <1>3, <1>4

\* The marker of a task, with its box.
LEMMA TaskIsMute ==
    ASSUME NEW line \in Texts
    PROVE  MuteTo(line, TaskLen(line))
<1> DEFINE b == BulletLen(line)
           c == b + 1
           d == b + 2
           g == Run(line, b + 3, Blank)
<1>1. b \in Nat /\ MuteTo(line, b)
  BY WidthsFit, BulletIsMute
<1>2. TaskLen(line) = IF b > 0 /\ At(line, b) = "[" /\ At(line, b + 1) \in {" ", "x", "X"}
                         /\ At(line, b + 2) = "]" /\ g > 0 THEN b + 3 + g ELSE 0
  BY DEF TaskLen
<1> HIDE DEF b
<1>3. CASE /\ b > 0 /\ At(line, b) = "[" /\ At(line, b + 1) \in {" ", "x", "X"}
           /\ At(line, b + 2) = "]" /\ g > 0
  <2>1. At(line, b) # "" /\ At(line, b) \in Mute
    BY <1>3, MarksAreMute
  <2>2. At(line, c) # "" /\ At(line, c) \in Mute
    BY <1>3, MarksAreMute
  <2>3. At(line, d) # "" /\ At(line, d) \in Mute
    BY <1>3, MarksAreMute
  <2>4. MuteTo(line, b + 1)
    BY <1>1, <2>1, MarkAndGap
  <2>5. c \in Nat /\ d \in Nat /\ c + 1 = d /\ d + 1 = b + 3
    BY <1>1
  <2>6. MuteTo(line, c)
    BY <2>4
  <2> HIDE DEF c, d
  <2>7. MuteTo(line, d)
    BY <2>2, <2>5, <2>6, MarkAndGap
  <2>8. MuteTo(line, d + 1 + Run(line, d + 1, Blank))
    BY ONLY line \in Texts, <2>3, <2>5, <2>7, MarkAndGap
  <2>9. MuteTo(line, b + 3 + g)
    BY <2>5, <2>8
  <2> QED
    BY <1>2, <1>3, <2>9
<1>4. CASE ~(/\ b > 0 /\ At(line, b) = "[" /\ At(line, b + 1) \in {" ", "x", "X"}
             /\ At(line, b + 2) = "]" /\ g > 0)
  <2>1. TaskLen(line) = 0
    BY <1>2, <1>4
  <2> QED
    BY <2>1 DEF MuteTo
<1> QED
  BY <1>3, <1>4

\* The marker of a numbered line.
LEMMA OrderedIsMute ==
    ASSUME NEW line \in Texts
    PROVE  MuteTo(line, OrderedLen(line))
<1> DEFINE i == Run(line, 0, Blank)
           n == Run(line, i, Digit)
           m == i + n
           g == Run(line, m + 1, Blank)
<1>1. i \in Nat /\ MuteTo(line, i)
  BY RunIs, IndentIsMute
<1>2. OrderedLen(line) = IF n \in 1..9 /\ At(line, m) \in {".", ")"} /\ g > 0 THEN m + 1 + g ELSE 0
  BY DEF OrderedLen
<1> HIDE DEF i
<1>3. n \in Nat /\ \A j \in (i + 1)..(i + n) : j \in 1..Len(line) /\ line[j] \in Digit
  BY <1>1, RunIs
<1>4. Digit \subseteq Mute
  BY MarksAreMute
<1> HIDE DEF n
<1>5. m \in Nat /\ \A k \in 1..m : k \in 1..i \/ k \in (i + 1)..(i + n)
  BY <1>1, <1>3
<1> HIDE DEF m
<1>6. MuteTo(line, m)
  <2>1. \A k \in 1..m : line[k] \in Mute
    BY <1>1, <1>3, <1>4, <1>5 DEF MuteTo
  <2> QED
    BY <2>1 DEF MuteTo
<1>7. CASE n \in 1..9 /\ At(line, m) \in {".", ")"} /\ g > 0
  <2>1. At(line, m) # "" /\ At(line, m) \in Mute
    BY <1>7, MarksAreMute
  <2>2. MuteTo(line, m + 1 + g)
    BY <1>5, <1>6, <2>1, MarkAndGap
  <2> QED
    BY <1>2, <1>7, <2>2
<1>8. CASE ~(n \in 1..9 /\ At(line, m) \in {".", ")"} /\ g > 0)
  <2>1. OrderedLen(line) = 0
    BY <1>2, <1>8
  <2> QED
    BY <2>1 DEF MuteTo
<1> QED
  BY <1>7, <1>8

\* The marker of a quotation.
LEMMA QuoteIsMute ==
    ASSUME NEW line \in Texts
    PROVE  MuteTo(line, QuoteLen(line))
<1> DEFINE i == Run(line, 0, Blank)
           c == i + 1
<1>1. i \in Nat /\ MuteTo(line, i)
  BY RunIs, IndentIsMute
<1>2. QuoteLen(line) = IF At(line, i) = ">" THEN c + (IF At(line, c) \in Blank THEN 1 ELSE 0) ELSE 0
  BY DEF QuoteLen
<1> HIDE DEF i
<1>3. CASE At(line, i) = ">"
  <2>1. At(line, i) # "" /\ At(line, i) \in Mute
    BY <1>3, MarksAreMute
  <2>2. MuteTo(line, c) /\ c \in Nat
    <3>1. MuteTo(line, i + 1)
      BY <1>1, <2>1, MarkAndGap
    <3>2. i + 1 \in Nat
      BY ONLY <1>1
    <3> QED
      BY <3>1, <3>2
  <2> HIDE DEF c
  <2>3. CASE At(line, c) \in Blank
    <3>1. At(line, c) # "" /\ At(line, c) \in Mute
      BY <2>3, MarksAreMute DEF Blank
    <3>2. MuteTo(line, c + 1)
      BY <2>2, <3>1, MarkAndGap
    <3> QED
      BY <1>2, <1>3, <2>3, <3>2
  <2>4. CASE At(line, c) \notin Blank
    <3>1. QuoteLen(line) = c + 0 /\ c + 0 = c
      BY <1>2, <1>3, <2>2, <2>4
    <3> QED
      BY <2>2, <3>1
  <2> QED
    BY <2>3, <2>4
<1>4. CASE At(line, i) # ">"
  <2>1. QuoteLen(line) = 0
    BY <1>2, <1>4
  <2> QED
    BY <2>1 DEF MuteTo
<1> QED
  BY <1>3, <1>4

\* The marker of a heading.
LEMMA HeadingIsMute ==
    ASSUME NEW line \in Texts
    PROVE  MuteTo(line, HeadingLen(line))
<1> DEFINE v == Run(line, 0, {"#"})
           g == Run(line, v, Blank)
<1>1. HeadingLen(line) = IF v \in 1..6 /\ g > 0 THEN v + g ELSE 0
  BY DEF HeadingLen
<1>2. v \in Nat /\ \A j \in (0 + 1)..(0 + v) : j \in 1..Len(line) /\ line[j] \in {"#"}
  BY RunIs
<1> HIDE DEF v
<1>3. g \in Nat /\ \A j \in (v + 1)..(v + g) : j \in 1..Len(line) /\ line[j] \in Blank
  BY <1>2, RunIs
<1>4. Blank \subseteq Mute /\ "#" \in Mute
  BY MarksAreMute
<1> HIDE DEF g
<1>5. \A k \in 1..(v + g) : k \in (0 + 1)..(0 + v) \/ k \in (v + 1)..(v + g)
  BY ONLY <1>2, <1>3
<1>6. \A k \in 1..(v + g) : line[k] \in Mute
  BY <1>2, <1>3, <1>4, <1>5
<1>7. CASE v \in 1..6 /\ g > 0
  <2>1. HeadingLen(line) = v + g
    BY <1>1, <1>7
  <2> QED
    BY <1>6, <2>1 DEF MuteTo
<1>8. CASE ~(v \in 1..6 /\ g > 0)
  <2>1. HeadingLen(line) = 0
    BY <1>1, <1>8
  <2> QED
    BY <2>1 DEF MuteTo
<1> QED
  BY <1>7, <1>8

\* What stripPrefix takes off the line.
StripWidth(line) ==
  LET indent == Run(line, 0, Blank)
      heading == HeadingLen(From(line, indent))
  IN  IF heading > 0 THEN indent + heading
      ELSE IF TaskLen(line) > 0 THEN TaskLen(line)
      ELSE IF BulletLen(line) > 0 THEN BulletLen(line)
      ELSE IF OrderedLen(line) > 0 THEN OrderedLen(line)
      ELSE IF QuoteLen(line) > 0 THEN QuoteLen(line)
      ELSE indent

\* stripPrefix keeps the indent and what is behind the marker; what it drops has no words.
LEMMA StripIsCut ==
    ASSUME NEW line \in Texts
    PROVE  /\ StripWidth(line) \in 0..Len(line) /\ MuteTo(line, StripWidth(line))
           /\ StripPrefix(line).indent = Slice(line, 0, Run(line, 0, Blank))
           /\ StripPrefix(line).body = From(line, StripWidth(line))
<1> DEFINE n == Len(line)
           i == Run(line, 0, Blank)
           rest == From(line, i)
           h == HeadingLen(rest)
           q == StripPrefix(line)
           w == StripWidth(line)
<1>1. n \in Nat /\ i \in 0..n /\ MuteTo(line, i)
  BY WidthsFit, IndentIsMute DEF Texts
<1>2. rest \in Texts /\ Len(rest) = n - i /\ \A k \in 1..(n - i) : rest[k] = line[i + k]
  BY <1>1, TextCut
<1>3. /\ TaskLen(line) \in 0..n /\ BulletLen(line) \in 0..n /\ OrderedLen(line) \in 0..n /\ QuoteLen(line) \in 0..n
  BY WidthsFit
<1>4. /\ MuteTo(line, TaskLen(line)) /\ MuteTo(line, BulletLen(line))
      /\ MuteTo(line, OrderedLen(line)) /\ MuteTo(line, QuoteLen(line))
  BY TaskIsMute, BulletIsMute, OrderedIsMute, QuoteIsMute
<1>5. w = i + h \/ w = TaskLen(line) \/ w = BulletLen(line) \/ w = OrderedLen(line) \/ w = QuoteLen(line) \/ w = i
  BY DEF StripWidth
<1>6. q.indent = Slice(line, 0, i) /\ q.body = From(line, w)
  BY DEF StripPrefix, StripWidth
<1> HIDE DEF n, i, rest, q, w
<1>7. h \in 0..(n - i) /\ MuteTo(rest, h)
  BY <1>2, WidthsFit, HeadingIsMute
<1> HIDE DEF h
<1>8. i + h \in 0..n /\ MuteTo(line, i + h)
  <2>1. i + h \in 0..n
    BY <1>1, <1>7
  <2>2. ASSUME NEW k \in 1..(i + h) PROVE line[k] \in Mute
    <3>1. CASE k <= i
      <4>1. k \in 1..i
        BY <1>1, <1>7, <3>1
      <4> QED
        BY <1>1, <4>1 DEF MuteTo
    <3>2. CASE ~(k <= i)
      <4> DEFINE l == k - i
      <4>1. l \in 1..h /\ l \in 1..(n - i) /\ i + l = k
        BY <1>1, <1>7, <3>2
      <4> HIDE DEF l
      <4>2. rest[l] \in Mute /\ rest[l] = line[i + l]
        BY <1>2, <1>7, <4>1 DEF MuteTo
      <4> QED
        BY <4>1, <4>2
    <3> QED
      BY <3>1, <3>2
  <2> QED
    BY <2>1, <2>2 DEF MuteTo
<1>9. w \in 0..n /\ MuteTo(line, w)
  BY <1>1, <1>3, <1>4, <1>5, <1>8
<1> QED
  BY <1>6, <1>9 DEF n, i, q, w

\* Two texts put together are cut where they meet.
LEMMA CutOfJoin ==
    ASSUME NEW p \in Texts, NEW q \in Texts
    PROVE  /\ p \o q \in Texts /\ Len(p) \in 0..Len(p \o q) /\ Len(p \o q) = Len(p) + Len(q)
           /\ Slice(p \o q, 0, Len(p)) = p /\ From(p \o q, Len(p)) = q
<1> DEFINE t == p \o q
           a == Len(p)
           u == Slice(t, 0, a)
           v == From(t, a)
<1>1. p \in Seq(Characters) /\ q \in Seq(Characters) /\ a \in Nat /\ Len(q) \in Nat
  BY DEF Texts
<1>2. /\ t \in Seq(Characters) /\ Len(t) = a + Len(q)
      /\ \A i \in 1..(a + Len(q)) : t[i] = IF i <= a THEN p[i] ELSE q[i - a]
  BY ONLY <1>1, ConcatProperties
<1> HIDE DEF t, a
<1>3. t \in Texts /\ a \in 0..Len(t)
  BY <1>1, <1>2 DEF Texts
<1>4. /\ u \in Texts /\ Len(u) = a /\ v \in Texts /\ u \o v = t /\ \A k \in 1..a : u[k] = t[k]
  BY <1>3, TextCut
<1> HIDE DEF u, v
<1>5. ASSUME NEW k \in 1..a PROVE u[k] = p[k]
  <2>1. k \in 1..(a + Len(q)) /\ k <= a
    BY <1>1
  <2> QED
    BY <1>2, <1>4, <2>1
<1>6. u \in Seq(Characters) /\ v \in Seq(Characters)
  BY <1>4 DEF Texts
<1>7. Len(u) = Len(p) /\ \A k \in 1..Len(u) : u[k] = p[k]
  BY <1>4, <1>5 DEF a
<1>8. u = p
  BY ONLY <1>1, <1>6, <1>7, SeqEqual
<1>9. p \o v = p \o q
  BY <1>4, <1>8 DEF t
<1>10. v = q
  BY ONLY <1>1, <1>6, <1>9, ConcatSimplifications
<1> QED
  BY <1>2, <1>3, <1>8, <1>10 DEF t, a, u, v

\* And so are three.
LEMMA CutsOfJoin ==
    ASSUME NEW p \in Texts, NEW q \in Texts, NEW r \in Texts
    PROVE  LET t == p \o q \o r
           IN  /\ t \in Texts /\ Len(p) + Len(q) \in Nat
               /\ Slice(t, 0, Len(p)) = p
               /\ Slice(t, Len(p), Len(p) + Len(q)) = q
               /\ From(t, Len(p) + Len(q)) = r
<1> DEFINE h == p \o q
           t == h \o r
           a == Len(p)
           b == Len(h)
           m == Slice(t, a, b)
<1>1. h \in Texts /\ b = a + Len(q) /\ Slice(h, 0, a) = p /\ From(h, a) = q /\ a \in 0..b
  BY CutOfJoin
<1>2. p \in Seq(Characters) /\ q \in Seq(Characters) /\ r \in Seq(Characters) /\ h \in Seq(Characters)
      /\ a \in Nat /\ b \in Nat
  BY <1>1 DEF Texts
<1>3. t \in Texts /\ b \in 0..Len(t) /\ Slice(t, 0, b) = h /\ From(t, b) = r /\ Len(t) \in Nat
  <2>1. h \in Texts /\ r \in Texts
    BY <1>1
  <2> HIDE DEF h
  <2>2. t \in Texts /\ b \in 0..Len(t) /\ Slice(t, 0, b) = h /\ From(t, b) = r
    BY ONLY <2>1, CutOfJoin
  <2> HIDE DEF t
  <2> QED
    BY <2>2 DEF Texts
<1>4. Slice(t, 0, a) = p
  <2> DEFINE w == q \o r
  <2>1. w \in Texts
    BY JoinTwo
  <2>2. t = p \o w
    BY ONLY <1>2, ConcatAssociative DEF t, h, w
  <2> HIDE DEF w, t
  <2> QED
    BY <2>1, <2>2, CutOfJoin
<1> HIDE DEF t, h
<1>5. Slice(t, 0, a) \o m = Slice(t, 0, b) /\ m \in Texts
  <2>1. 0 \in Nat /\ a \in 0..Len(t) /\ b \in a..Len(t) /\ a <= b /\ b <= Len(t)
    BY <1>1, <1>2, <1>3
  <2> QED
    BY <1>2, <1>3, <2>1, SlicesJoin, SliceTyped
<1>6. p \o m = p \o q /\ m \in Seq(Characters)
  <2>1. p \o m = h /\ m \in Seq(Characters)
    BY <1>3, <1>4, <1>5 DEF Texts
  <2> QED
    BY <2>1 DEF h
<1> HIDE DEF m
<1>7. m = q
  BY ONLY <1>2, <1>6, ConcatSimplifications
<1> QED
  BY <1>1, <1>2, <1>3, <1>4, <1>7 DEF m, t, h

\* The words of the beginning of a text whose beginning is mute.
LEMMA WordsUpTo ==
    ASSUME NEW p \in MuteTexts, NEW q \in Texts, NEW c \in 0..(Len(p) + Len(q))
    PROVE  /\ c <= Len(p) => Words(Slice(p \o q, 0, c)) = <<>>
           /\ c > Len(p) => Words(Slice(p \o q, 0, c)) = Words(Slice(q, 0, c - Len(p)))
<1> DEFINE t == p \o q
           a == Len(p)
<1>1. p \in Texts /\ p \in Seq(Mute) /\ q \in Seq(Characters) /\ p \in Seq(Characters)
  BY MuteIsSilent DEF Texts, MuteTexts
<1>2. /\ t \in Texts /\ a \in 0..Len(t) /\ Len(t) = a + Len(q) /\ Slice(t, 0, a) = p /\ From(t, a) = q
  BY <1>1, CutOfJoin
<1>3. a \in Nat /\ Len(q) \in Nat /\ c \in Nat /\ c <= a + Len(q)
  BY <1>1
<1>4. ASSUME c <= a PROVE Words(Slice(t, 0, c)) = <<>>
  <2>1. \A k \in 1..a : t[k] = p[k] /\ p[k] \in Mute
    <3>1. \A k \in 1..a : p[k] \in Mute
      BY <1>1
    <3> HIDE DEF t
    <3>2. \A k \in 1..a : Slice(t, 0, a)[k] = t[k]
      BY <1>2, TextCut
    <3> QED
      BY <1>2, <3>1, <3>2
  <2>2. 0 \in Nat /\ 0 <= c /\ c <= Len(t) /\ \A k \in (0 + 1)..c : k \in 1..a
    BY <1>2, <1>3, <1>4
  <2> HIDE DEF t, a
  <2>3. \A k \in (0 + 1)..c : t[k] \in Mute
    BY <2>1, <2>2
  <2>4. Slice(t, 0, c) \in MuteTexts
    BY <1>2, <1>3, <2>2, <2>3, SliceIsMute
  <2> QED
    BY <2>4, MuteIsSilent
<1>5. ASSUME c > a PROVE Words(Slice(t, 0, c)) = Words(Slice(q, 0, c - a))
  <2> DEFINE d == c - a
             r == Slice(q, 0, d)
             f == From(q, d)
             h == p \o r
  <2>1. d \in 0..Len(q) /\ a + d = c
    BY <1>3, <1>5
  <2> HIDE DEF d
  <2>2. r \in Texts /\ Len(r) = d /\ f \in Texts /\ r \o f = q
    BY <2>1, TextCut
  <2> HIDE DEF r, f
  <2>3. r \in Seq(Characters) /\ f \in Seq(Characters)
    BY <2>2 DEF Texts
  <2>4. t = h \o f
    <3>1. (p \o r) \o f = p \o (r \o f)
      BY ONLY <1>1, <2>3, ConcatAssociative
    <3> QED
      BY <2>2, <3>1
  <2>5. h \in Texts /\ Len(h) = a + d /\ Words(h) = Words(r)
    BY <1>1, <2>2, JoinTwo, MuteAround
  <2> HIDE DEF h
  <2>6. Slice(t, 0, Len(h)) = h
    <3>1. Slice(h \o f, 0, Len(h)) = h
      BY <2>2, <2>5, CutOfJoin
    <3> QED
      BY <2>4, <3>1
  <2>7. Words(Slice(t, 0, c)) = Words(r)
    BY <2>1, <2>5, <2>6
  <2> QED
    BY <2>7 DEF r, d
<1> QED
  BY <1>4, <1>5

\* Two lines with mute beginnings and the same rest: the words in front of an offset stay in
\* front of where the offset goes (remap).
LEMMA RemapKeepsWords ==
    ASSUME NEW m \in MuteTexts, NEW n \in MuteTexts, NEW q \in Texts, NEW c \in 0..(Len(m) + Len(q))
    PROVE  LET d == Remap(c, m \o q, n \o q)
           IN  /\ d \in 0..(Len(n) + Len(q))
               /\ Words(Slice(n \o q, 0, d)) = Words(Slice(m \o q, 0, c))
<1> DEFINE a == Len(m)
           b == Len(n)
           l == Len(q)
           d == Remap(c, m \o q, n \o q)
<1>1. a \in Nat /\ b \in Nat /\ l \in Nat /\ Len(m \o q) = a + l /\ Len(n \o q) = b + l
  <2>1. m \in Texts /\ n \in Texts
    BY MuteIsSilent
  <2> QED
    BY <2>1, JoinTwo
<1>2. d = Clamp(c + (b + l) - (a + l), 0, b + l)
  BY <1>1 DEF Remap
<1>3. c \in Nat /\ c <= a + l
  BY <1>1
<1> HIDE DEF a, b, l, d
<1>4. d = IF c + b < a THEN 0 ELSE c + b - a
  <2> DEFINE v == c + (b + l) - (a + l)
             h == b + l
  <2>1. v \in Int /\ h \in Nat /\ v <= h /\ v = c + b - a
    BY <1>1, <1>3
  <2>2. d = Clamp(v, 0, h)
    BY <1>2
  <2> HIDE DEF v, h
  <2>3. d = IF v < 0 THEN 0 ELSE IF v > h THEN h ELSE v
    BY <2>1, <2>2, ClampIs
  <2> QED
    BY <1>1, <1>3, <2>1, <2>3
<1>5. d \in 0..(b + l) /\ (c <= a => d <= b) /\ (c > a => d > b /\ d - b = c - a)
  BY <1>1, <1>3, <1>4
<1>6. CASE c <= a
  <2>1. Words(Slice(m \o q, 0, c)) = <<>>
    BY <1>6, WordsUpTo DEF a
  <2>2. Words(Slice(n \o q, 0, d)) = <<>>
    BY <1>5, <1>6, WordsUpTo DEF b, l
  <2> QED
    BY <1>5, <2>1, <2>2 DEF b, l, d
<1>7. CASE c > a
  <2>1. Words(Slice(m \o q, 0, c)) = Words(Slice(q, 0, c - a))
    BY <1>7, WordsUpTo DEF a
  <2>2. Words(Slice(n \o q, 0, d)) = Words(Slice(q, 0, d - b))
    BY <1>5, <1>7, WordsUpTo DEF b, l
  <2>3. d - b = c - a
    BY <1>5, <1>7
  <2> QED
    BY <1>5, <2>1, <2>2, <2>3 DEF b, l, d
<1> QED
  BY <1>1, <1>3, <1>6, <1>7

\* A line that is written in another kind keeps its words, and an offset its place among them.
LEMMA LineKeepsWords ==
    ASSUME NEW line \in Texts, NEW target \in BlockCommands \cup {"paragraph"}, NEW k \in Nat
    PROVE  LET after == Prefixed(StripPrefix(line), target, k)
           IN  /\ after \in Texts /\ Words(after) = Words(line)
               /\ \A c \in 0..Len(line) :
                    LET d == Remap(c, line, after)
                    IN  d \in 0..Len(after) /\ Words(Slice(after, 0, d)) = Words(Slice(line, 0, c))
<1> DEFINE w == StripWidth(line)
           i == Run(line, 0, Blank)
           m == Slice(line, 0, w)
           q == From(line, w)
           e == Slice(line, 0, i)
           n == e \o NewMark(target, k)
           after == Prefixed(StripPrefix(line), target, k)
<1>1. w \in 0..Len(line) /\ MuteTo(line, w) /\ StripPrefix(line).indent = e /\ StripPrefix(line).body = q
  BY StripIsCut
<1>2. i \in 0..Len(line) /\ MuteTo(line, i) /\ Len(line) \in Nat
  BY WidthsFit, IndentIsMute DEF Texts
<1>3. after = (e \o NewMark(target, k)) \o q
  BY <1>1 DEF Prefixed, NewMark
<1> HIDE DEF w, i, after
<1>4. m \in MuteTexts /\ e \in MuteTexts
  <2>1. ASSUME NEW x \in 0..Len(line), MuteTo(line, x) PROVE Slice(line, 0, x) \in MuteTexts
    <3>1. 0 \in Nat /\ x \in Nat /\ 0 <= x /\ x <= Len(line)
      BY <1>2
    <3>2. \A j \in (0 + 1)..x : line[j] \in Mute
      <4>1. 0 + 1 = 1
        OBVIOUS
      <4> QED
        BY <2>1, <4>1 DEF MuteTo
    <3> QED
      BY <3>1, <3>2, SliceIsMute
  <2> QED
    BY <1>1, <1>2, <2>1
<1>5. q \in Texts /\ m \o q = line
  BY <1>1, TextCut
<1>6. n \in MuteTexts
  BY <1>4, NewMarkIsMute, MuteJoin
<1> HIDE DEF m, q, e, n
<1>7. after = n \o q
  BY <1>3 DEF n
<1>8. after \in Texts /\ Words(after) = Words(q) /\ Words(line) = Words(q)
  <2>1. n \o q \in Texts /\ Words(n \o q) = Words(q) /\ Words(m \o q) = Words(q)
    BY <1>4, <1>5, <1>6, MuteAround
  <2> QED
    BY <1>5, <1>7, <2>1
<1>9. Len(line) = Len(m) + Len(q) /\ Len(after) = Len(n) + Len(q)
  <2>1. m \in Texts /\ n \in Texts
    BY <1>4, <1>6, MuteIsSilent
  <2>2. Len(m \o q) = Len(m) + Len(q) /\ Len(n \o q) = Len(n) + Len(q)
    BY <1>5, <2>1, JoinTwo
  <2> QED
    BY <1>5, <1>7, <2>2
<1>10. ASSUME NEW c \in 0..Len(line)
       PROVE  Remap(c, line, after) \in 0..Len(after)
              /\ Words(Slice(after, 0, Remap(c, line, after))) = Words(Slice(line, 0, c))
  <2>1. c \in 0..(Len(m) + Len(q))
    BY <1>9
  <2>2. LET d == Remap(c, m \o q, n \o q)
        IN  d \in 0..(Len(n) + Len(q)) /\ Words(Slice(n \o q, 0, d)) = Words(Slice(m \o q, 0, c))
    BY ONLY <1>4, <1>5, <1>6, <2>1, RemapKeepsWords
  <2> QED
    BY ONLY <1>5, <1>7, <1>9, <2>2
<1> QED
  BY <1>8, <1>10 DEF after

\* Three texts put together.
LEMMA JoinAssociates ==
    ASSUME NEW s \in Texts, NEW t \in Texts, NEW u \in Texts
    PROVE  (s \o t) \o u = s \o (t \o u)
<1>1. s \in Seq(Characters) /\ t \in Seq(Characters) /\ u \in Seq(Characters)
  BY DEF Texts
<1> QED
  BY ONLY <1>1, ConcatAssociative

\* The lines up to one, and that one.
LEMMA LinesUpTo ==
    ASSUME NEW lines \in Seq(Texts), NEW i \in 1..Len(lines)
    PROVE  /\ SubSeq(lines, 1, i - 1) \in Seq(Texts) /\ SubSeq(lines, 1, i) \in Seq(Texts) /\ lines[i] \in Texts
           /\ SubSeq(lines, 1, i) = Append(SubSeq(lines, 1, i - 1), lines[i])
           /\ Broken(SubSeq(lines, 1, i)) = Broken(SubSeq(lines, 1, i - 1)) \o (<<NL>> \o lines[i])
<1> DEFINE j == i - 1
           p == SubSeq(lines, 1, j)
           q == SubSeq(lines, 1, i)
           l == lines[i]
           r == Append(p, l)
<1>1. i \in 0..Len(lines) /\ j \in 0..Len(lines) /\ i \in Nat /\ j \in Nat /\ i = j + 1 /\ l \in Texts
  OBVIOUS
<1>2. q \in Seq(Texts) /\ Len(q) = i /\ \A k \in 1..i : q[k] = lines[k]
  BY <1>1, CutList
<1> HIDE DEF j, q, l
<1>3. p \in Seq(Texts) /\ Len(p) = j /\ \A k \in 1..j : p[k] = lines[k]
  BY <1>1, CutList
<1> HIDE DEF p
<1>4. r \in Seq(Texts) /\ Len(r) = j + 1 /\ (\A k \in 1..j : r[k] = p[k]) /\ r[j + 1] = l
  <2>1. p \in Seq(Texts) /\ l \in Texts
    BY <1>1, <1>3
  <2>2. /\ r \in Seq(Texts) /\ Len(r) = Len(p) + 1 /\ (\A k \in 1..Len(p) : r[k] = p[k]) /\ r[Len(p) + 1] = l
    BY ONLY <2>1, AppendProperties
  <2> HIDE DEF r
  <2> QED
    BY <1>3, <2>2
<1> HIDE DEF r
<1>5. \A k \in 1..i : k \in 1..j \/ k = j + 1
  BY ONLY <1>1
<1>6. \A k \in 1..i : q[k] = r[k]
  BY <1>1, <1>2, <1>3, <1>4, <1>5 DEF l
<1>7. q = r
  BY ONLY <1>1, <1>2, <1>4, <1>6
<1>8. Broken(r) = Broken(p) \o (<<NL>> \o l)
  BY <1>1, <1>3, BrokenAppend DEF r
<1> QED
  BY <1>1, <1>2, <1>3, <1>7, <1>8 DEF j, p, q, l, r

\* Breaks are no words.
LEMMA WordsOfBreak ==
    ASSUME NEW l \in Texts
    PROVE  <<NL>> \o l \in Texts /\ Words(<<NL>> \o l) = Words(l)
<1>1. NL \in Mute
  BY MarksAreMute
<1>2. <<NL>> \in MuteTexts
  BY <1>1, ShortMutes, Zenon
<1> QED
  BY <1>2, MuteAround

\* Lines with the same words make texts with the same words, up to each of them.
LEMMA SameWordsOfLines ==
    ASSUME NEW a \in Seq(Texts), NEW b \in Seq(Texts), Len(a) = Len(b),
           NEW n \in 0..Len(a), \A i \in 1..n : Words(a[i]) = Words(b[i])
    PROVE  Words(Broken(SubSeq(a, 1, n))) = Words(Broken(SubSeq(b, 1, n)))
<1> DEFINE W(s, k) == Words(Broken(SubSeq(s, 1, k)))
           T == {k \in Nat : k <= n => W(a, k) = W(b, k)}
<1>1. 0 \in T
  <2>1. SubSeq(a, 1, 0) = <<>> /\ SubSeq(b, 1, 0) = <<>>
    BY SubSeqEmpty
  <2> QED
    BY <2>1
<1>2. ASSUME NEW k \in Nat, k \in T PROVE k + 1 \in T
  <2> SUFFICES ASSUME k + 1 <= n PROVE W(a, k + 1) = W(b, k + 1)
    OBVIOUS
  <2> DEFINE i == k + 1
  <2>1. i \in 1..n /\ i \in 1..Len(a) /\ i \in 1..Len(b) /\ i - 1 = k /\ k <= n
    OBVIOUS
  <2>2. W(a, k) = W(b, k)
    BY <1>2, <2>1
  <2> HIDE DEF i
  <2>3. ASSUME NEW s \in Seq(Texts), i \in 1..Len(s) PROVE W(s, i) = W(s, k) \o Words(s[i])
    <3> DEFINE p == SubSeq(s, 1, k)
               q == <<NL>> \o s[i]
    <3>1. p \in Seq(Texts) /\ s[i] \in Texts /\ Broken(SubSeq(s, 1, i)) = Broken(p) \o q
      <4>1. /\ SubSeq(s, 1, i - 1) \in Seq(Texts) /\ s[i] \in Texts
            /\ Broken(SubSeq(s, 1, i)) = Broken(SubSeq(s, 1, i - 1)) \o (<<NL>> \o s[i])
        BY <2>3, LinesUpTo
      <4> QED
        BY <2>1, <4>1
    <3>2. q \in Texts /\ Words(q) = Words(s[i])
      BY <3>1, WordsOfBreak
    <3>3. Broken(p) \in Texts
      BY <3>1, BrokenIs
    <3> HIDE DEF p, q
    <3>4. Words(Broken(p) \o q) = Words(Broken(p)) \o Words(q)
      BY <3>2, <3>3, WordsJoin
    <3> QED
      BY <3>1, <3>2, <3>4 DEF p
  <2> HIDE DEF W
  <2>4. W(a, i) = W(a, k) \o Words(a[i]) /\ W(b, i) = W(b, k) \o Words(b[i])
    BY <2>1, <2>3
  <2>5. Words(a[i]) = Words(b[i])
    BY <2>1
  <2>6. W(a, i) = W(b, i)
    BY ONLY <2>2, <2>4, <2>5
  <2> QED
    BY <2>6 DEF i
<1>3. T \in SUBSET Nat
  OBVIOUS
<1> HIDE DEF T
<1>4. T = Nat
  BY <1>1, <1>2, <1>3, ByInduction
<1>5. n \in T /\ n <= n
  BY <1>4
<1> QED
  BY <1>5 DEF T

\* A text is its lines put together, behind a break.
LEMMA SerializedBroken ==
    ASSUME NEW lines \in Seq(Texts), lines # <<>>
    PROVE  /\ SerializeLines(lines) \in Texts /\ Broken(lines) = <<NL>> \o SerializeLines(lines)
           /\ Words(SerializeLines(lines)) = Words(Broken(lines))
<1> DEFINE b == Broken(lines)
           t == Tail(b)
<1>1. SerializeLines(lines) = t /\ t \in Texts
  BY SerializedIs DEF SerializeLines
<1>2. b = <<NL>> \o t
  <2> DEFINE n == Len(lines)
             p == SubSeq(lines, 1, 1)
             q == SubSeq(lines, 2, n)
             r == lines[1] \o Broken(q)
  <2>1. 1 \in 1..n /\ 1 \in 0..n /\ 1 - 1 = 0 /\ 1 + 1 = 2 /\ n \in Nat
    OBVIOUS
  <2>2. p \in Seq(Texts) /\ q \in Seq(Texts) /\ lines = p \o q
    BY <2>1, CutList
  <2>3. lines[1] \in Texts /\ Broken(p) = Broken(SubSeq(lines, 1, 0)) \o (<<NL>> \o lines[1])
    BY <2>1, LinesUpTo
  <2>4. Broken(SubSeq(lines, 1, 0)) = <<>>
    <3>1. SubSeq(lines, 1, 0) = <<>>
      BY SubSeqEmpty
    <3>2. <<>> \in Seq(Texts)
      OBVIOUS
    <3>3. Breaks(<<>>) \in Seq(Texts) /\ Len(Breaks(<<>>)) = 0
      BY <3>2, BreaksAre
    <3>4. Breaks(<<>>) = <<>>
      BY <3>3
    <3> QED
      BY <3>1, <3>2, <3>4, BrokenIs, FlattenNothing
  <2>5. <<NL>> \in Seq(Characters) /\ lines[1] \in Seq(Characters) /\ Broken(q) \in Seq(Characters)
    BY <2>2, <2>3, BrokenIs, NLIsACharacter DEF Texts
  <2>6. b = Broken(p) \o Broken(q)
    BY <2>2, BrokenConcat
  <2> DEFINE x == lines[1]
             y == Broken(q)
             h == <<NL>> \o x
  <2>7. Broken(p) = <<>> \o h
    BY <2>3, <2>4
  <2> HIDE DEF b, x, y, p, q, n
  <2>8. h \in Seq(Characters) /\ x \in Seq(Characters) /\ y \in Seq(Characters)
    <3>1. <<NL>> \in Seq(Characters) /\ x \in Seq(Characters) /\ y \in Seq(Characters)
      BY <2>5 DEF x, y
    <3> QED
      BY <3>1
  <2>9. <<>> \o h = h
    BY ONLY <2>8, ConcatEmptySeq
  <2>10. b = (<<NL>> \o x) \o y
    BY <2>6, <2>7, <2>9 DEF y
  <2>11. (<<NL>> \o x) \o y = <<NL>> \o (x \o y)
    BY ONLY <2>5, <2>8, ConcatAssociative
  <2> DEFINE z == x \o y
  <2>12. z \in Seq(Characters)
    BY ONLY <2>8
  <2>13. b = <<NL>> \o z
    BY <2>10, <2>11
  <2> HIDE DEF z
  <2>14. Tail(<<NL>> \o z) = z
    BY ONLY <2>12, <2>5
  <2> QED
    BY ONLY <2>13, <2>14 DEF t
<1>3. Words(b) = Words(t)
  <2> HIDE DEF b, t
  <2>1. Words(<<NL>> \o t) = Words(t)
    BY <1>1, WordsOfBreak
  <2> QED
    BY <1>2, <2>1
<1> QED
  BY <1>1, <1>2, <1>3 DEF b, t

\* The words in front of a place of a line: those of the lines before it, and those in front of
\* the place in the line.
LEMMA WordsBefore ==
    ASSUME NEW lines \in Seq(Texts), NEW i \in 1..Len(lines), NEW c \in 0..Len(lines[i])
    PROVE  LET text == SerializeLines(lines)
               d == LineStarts(lines)[i] + c
               before == SubSeq(lines, 1, i - 1)
           IN  /\ d \in 0..Len(text) /\ LineStarts(lines)[i] \in Nat
               /\ Words(Slice(text, 0, d)) = Words(Broken(before)) \o Words(Slice(lines[i], 0, c))
               /\ Words(Broken(before)) \in Texts
<1> DEFINE text == SerializeLines(lines)
           s == LineStarts(lines)[i]
           d == s + c
           before == SubSeq(lines, 1, i - 1)
           B == Broken(before)
           l == lines[i]
           R == Broken(SubSeq(lines, i + 1, Len(lines)))
           u == Slice(l, 0, c)
           v == From(l, c)
<1>1. lines # <<>> /\ i \in 0..Len(lines) /\ i \in Nat
  OBVIOUS
<1>2. text \in Texts /\ Broken(lines) = <<NL>> \o text
  BY <1>1, SerializedBroken
<1>3. before \in Seq(Texts) /\ l \in Texts /\ Broken(SubSeq(lines, 1, i)) = B \o (<<NL>> \o l)
  BY LinesUpTo
<1>4. /\ SubSeq(lines, 1, i) \in Seq(Texts) /\ SubSeq(lines, i + 1, Len(lines)) \in Seq(Texts)
      /\ lines = SubSeq(lines, 1, i) \o SubSeq(lines, i + 1, Len(lines))
  BY <1>1, CutList
<1>5. B \in Texts /\ R \in Texts
  BY <1>3, <1>4, BrokenIs
<1>6. Broken(lines) = (B \o (<<NL>> \o l)) \o R
  <2>1. Broken(lines) = Broken(SubSeq(lines, 1, i)) \o R
    BY <1>4, BrokenConcat
  <2> QED
    BY <1>3, <2>1
<1>7. s = Len(B) /\ s \in Nat
  <2>1. s = Len(Broken(SubSeq(lines, 1, i - 1)))
    BY DEF LineStarts
  <2> QED
    BY <1>5, <2>1 DEF Texts
<1>8. d \in 0..Len(text) /\ c \in Nat /\ c \in 0..Len(l) /\ Len(l) \in Nat
  <2>1. s + Len(l) <= Len(text) /\ Len(l) \in Nat
    BY <1>1, SerializedIs
  <2>2. Len(text) \in Nat
    BY <1>2 DEF Texts
  <2> HIDE DEF text, s, l
  <2>3. c \in 0..Len(l)
    BY DEF l
  <2> QED
    BY <1>7, <2>1, <2>2, <2>3
<1> HIDE DEF text, s, before, B, l, R
<1>9. u \in Texts /\ Len(u) = c /\ v \in Texts /\ u \o v = l
  BY <1>3, <1>8, TextCut
<1> HIDE DEF u, v
<1> DEFINE x == B \o (<<NL>> \o u)
           y == v \o R
           m == <<NL>> \o Slice(text, 0, d)
           o == From(text, d)
<1>10. <<NL>> \in Texts /\ Len(<<NL>>) = 1
  BY NLIsACharacter
<1>11. x \in Texts /\ y \in Texts /\ x \o y = Broken(lines) /\ Len(x) = s + (1 + c)
  <2> DEFINE g == <<NL>> \o u
  <2>1. g \in Texts /\ Len(g) = 1 + c
    BY ONLY <1>9, <1>10, JoinTwo
  <2>2. g \o v = <<NL>> \o l
    <3>1. (<<NL>> \o u) \o v = <<NL>> \o (u \o v)
      BY ONLY <1>9, <1>10, JoinAssociates
    <3> QED
      BY <1>9, <3>1
  <2> HIDE DEF g
  <2>3. x = B \o g
    BY DEF g
  <2> HIDE DEF x
  <2>4. x \in Texts /\ Len(x) = s + (1 + c) /\ y \in Texts
    <3>1. B \o g \in Texts /\ Len(B \o g) = Len(B) + Len(g) /\ v \o R \in Texts
      BY ONLY <1>5, <1>9, <2>1, JoinTwo
    <3> QED
      BY ONLY <1>7, <2>1, <2>3, <3>1
  <2>6. x \o (v \o R) = (x \o v) \o R
    <3>1. (x \o v) \o R = x \o (v \o R)
      <4>1. x \in Texts /\ v \in Texts /\ R \in Texts
        BY ONLY <1>5, <1>9, <2>4
      <4> QED
        BY ONLY <4>1, JoinAssociates
    <3> QED
      BY ONLY <3>1
  <2>7. x \o v = B \o (g \o v)
    <3>1. (B \o g) \o v = B \o (g \o v)
      BY ONLY <1>5, <1>9, <2>1, JoinAssociates, ZenonT(60)
    <3> QED
      BY ONLY <2>3, <3>1
  <2>8. x \o y = (B \o (<<NL>> \o l)) \o R
    BY ONLY <2>2, <2>6, <2>7
  <2> QED
    BY ONLY <1>6, <2>4, <2>8
<1>12. m \in Texts /\ o \in Texts /\ m \o o = Broken(lines) /\ Len(m) = 1 + d
  <2> DEFINE z == Slice(text, 0, d)
  <2>1. z \in Texts /\ Len(z) = d /\ o \in Texts /\ z \o o = text
    BY <1>2, <1>8, TextCut
  <2>2. m = <<NL>> \o z
    OBVIOUS
  <2> HIDE DEF z, o, m
  <2>3. (<<NL>> \o z) \o o = <<NL>> \o (z \o o)
    BY ONLY <1>10, <2>1, JoinAssociates
  <2>4. <<NL>> \o z \in Texts /\ Len(<<NL>> \o z) = Len(<<NL>>) + Len(z)
    BY ONLY <1>10, <2>1, JoinTwo
  <2> QED
    BY ONLY <1>2, <1>10, <2>1, <2>2, <2>3, <2>4
<1> HIDE DEF x, y, m, o
<1>13. Len(x) = Len(m)
  <2> HIDE DEF d
  <2>1. d = s + c
    BY DEF d
  <2> QED
    BY <1>7, <1>8, <1>11, <1>12, <2>1
<1>14. x = m
  <2>1. Slice(x \o y, 0, Len(x)) = x
    BY <1>11, CutOfJoin
  <2>2. Slice(m \o o, 0, Len(m)) = m
    BY <1>12, CutOfJoin
  <2> QED
    BY <1>11, <1>12, <1>13, <2>1, <2>2
<1>15. Words(m) = Words(Slice(text, 0, d))
  <2>1. Slice(text, 0, d) \in Texts
    BY <1>2, <1>8, TextCut
  <2> QED
    BY <2>1, WordsOfBreak DEF m
<1>16. Words(x) = Words(B) \o Words(u) /\ Words(B) \in Texts
  <2> DEFINE g == <<NL>> \o u
  <2>1. g \in Texts /\ Words(g) = Words(u)
    BY <1>9, WordsOfBreak
  <2> HIDE DEF g
  <2>2. Words(B \o g) = Words(B) \o Words(g) /\ Words(B) \in Texts
    BY ONLY <1>5, <2>1, WordsJoin
  <2>3. x = B \o g
    BY DEF x, g
  <2> QED
    BY ONLY <2>1, <2>2, <2>3
<1> QED
  BY <1>7, <1>8, <1>14, <1>15, <1>16 DEF text, s, before, B, l, u

\* The words of a text in three parts, and of what an edit selects in it.
LEMMA WordsOfParts ==
    ASSUME NEW p \in Texts, NEW q \in Texts, NEW r \in Texts
    PROVE  LET e == Edit(p \o q \o r, Len(p), Len(p) + Len(q))
           IN  /\ Words(e.text) = Words(p) \o Words(q) \o Words(r)
               /\ Before(e.text, e.selection) = Words(p)
               /\ Chosen(e.text, e.selection) = Words(q)
<1> DEFINE h == p \o q
           t == p \o q \o r
           e == Edit(t, Len(p), Len(p) + Len(q))
<1>1. e.text = t /\ e.selection.start = Len(p) /\ e.selection.end = Len(p) + Len(q)
  BY DEF Edit
<1>2. Slice(t, 0, Len(p)) = p /\ Slice(t, Len(p), Len(p) + Len(q)) = q
  BY CutsOfJoin
<1>3. h \in Texts /\ Words(h) = Words(p) \o Words(q)
  BY WordsJoin
<1>4. Words(t) = Words(p) \o Words(q) \o Words(r)
  <2>1. t = h \o r
    OBVIOUS
  <2> HIDE DEF h
  <2>2. Words(h \o r) = Words(h) \o Words(r)
    BY <1>3, WordsJoin
  <2> QED
    BY <1>3, <2>1, <2>2
<1> HIDE DEF t, e
<1> QED
  BY <1>1, <1>2, <1>4 DEF Before, Chosen, e, t

\* A text cut in three at two offsets.
LEMMA ThreeCuts ==
    ASSUME NEW src \in Texts, NEW a \in Nat, NEW b \in Nat, a <= b, b <= Len(src)
    PROVE  /\ Slice(src, 0, a) \in Texts /\ Len(Slice(src, 0, a)) = a
           /\ Slice(src, a, b) \in Texts /\ Len(Slice(src, a, b)) = b - a
           /\ From(src, b) \in Texts
           /\ Slice(src, 0, a) \o Slice(src, a, b) = Slice(src, 0, b)
           /\ Slice(src, a, b) \o From(src, b) = From(src, a)
           /\ src = Slice(src, 0, a) \o Slice(src, a, b) \o From(src, b)
<1> DEFINE n == Len(src)
<1>1. n \in Nat /\ 0 \in Nat /\ 0 <= a /\ a \in 0..n /\ b \in 0..n /\ b \in a..n /\ n \in b..n /\ a \in 0..n /\ n <= n /\ n - 0 = n
  BY DEF Texts
<1>2. Slice(src, 0, a) \o Slice(src, a, b) = Slice(src, 0, b)
  BY <1>1, SlicesJoin
<1>3. Slice(src, a, b) \o Slice(src, b, n) = Slice(src, a, n)
  BY <1>1, SlicesJoin
<1>4. Slice(src, b, n) = From(src, b) /\ Slice(src, a, n) = From(src, a)
  BY <1>1 DEF Slice, From
<1>5. Slice(src, 0, b) \o From(src, b) = src /\ From(src, b) \in Texts /\ Slice(src, 0, a) \in Texts
      /\ Len(Slice(src, 0, a)) = a
  BY <1>1, TextCut
<1>6. Slice(src, a, b) \in Texts /\ Len(Slice(src, a, b)) = b - a
  BY <1>1, SliceTyped
<1> QED
  BY ONLY <1>2, <1>3, <1>4, <1>5, <1>6

\* What a mark hugs: unwrapping keeps the words.
LEMMA UnhuggedWords ==
    ASSUME NEW src \in Texts, NEW a \in Nat, NEW b \in Nat, NEW w \in Nat,
           w <= a, a <= b, b + w <= Len(src),
           Slice(src, a - w, a) \in MuteTexts, Slice(src, b, b + w) \in MuteTexts
    PROVE  LET e == Edit(Slice(src, 0, a - w) \o Slice(src, a, b) \o From(src, b + w), a - w, b - w)
           IN  /\ Words(e.text) = Words(src)
               /\ Before(e.text, e.selection) = Words(Slice(src, 0, a))
               /\ Chosen(e.text, e.selection) = Words(Slice(src, a, b))
<1> DEFINE x == a - w
           y == b + w
           z == b - w
           p == Slice(src, 0, x)
           q == Slice(src, a, b)
           r == From(src, y)
           P == Slice(src, 0, a)
           R == From(src, b)
           m == Slice(src, x, a)
           n == Slice(src, b, y)
<1>1. x \in Nat /\ y \in Nat /\ z \in Nat /\ x <= a /\ b <= y /\ y <= Len(src) /\ a <= Len(src) /\ b <= Len(src)
      /\ x + (b - a) = z
  BY DEF Texts
<1>2. m \in MuteTexts /\ n \in MuteTexts
  OBVIOUS
<1> HIDE DEF x, y, z
<1>a. src \in Texts /\ a \in Nat /\ b \in Nat /\ a <= b
  OBVIOUS
<1>3. p \in Texts /\ Len(p) = x /\ p \o m = P
  <2>1. x \in Nat /\ x <= a /\ a <= Len(src)
    BY <1>1
  <2>2. /\ Slice(src, 0, x) \in Texts /\ Len(Slice(src, 0, x)) = x
        /\ Slice(src, 0, x) \o Slice(src, x, a) = Slice(src, 0, a)
    BY ONLY <1>a, <2>1, ThreeCuts
  <2> QED
    BY ONLY <2>2 DEF p, m, P
<1>4. r \in Texts /\ n \o r = R
  <2>1. y \in Nat /\ b <= y /\ y <= Len(src)
    BY <1>1
  <2>2. From(src, y) \in Texts /\ Slice(src, b, y) \o From(src, y) = From(src, b)
    BY ONLY <1>a, <2>1, ThreeCuts
  <2> QED
    BY ONLY <2>2 DEF r, n, R
<1>5. q \in Texts /\ Len(q) = b - a /\ src = P \o q \o R /\ P \in Texts /\ R \in Texts
  <2>1. b <= Len(src)
    BY <1>1
  <2>2. /\ Slice(src, a, b) \in Texts /\ Len(Slice(src, a, b)) = b - a
        /\ src = Slice(src, 0, a) \o Slice(src, a, b) \o From(src, b)
        /\ Slice(src, 0, a) \in Texts /\ From(src, b) \in Texts
    BY ONLY <1>a, <2>1, ThreeCuts
  <2> QED
    BY ONLY <2>2 DEF q, P, R
<1> HIDE DEF p, q, r, P, R, m, n
<1>6. Words(P) = Words(p) /\ Words(R) = Words(r)
  <2>1. Words(p \o m) = Words(p) /\ Words(n \o r) = Words(r)
    BY <1>2, <1>3, <1>4, MuteAround
  <2> QED
    BY <1>3, <1>4, <2>1
<1>b. P \in Texts /\ q \in Texts /\ R \in Texts /\ p \in Texts /\ r \in Texts
  BY <1>3, <1>4, <1>5
<1>7. Words(src) = Words(P) \o Words(q) \o Words(R)
  <2>1. Edit(P \o q \o R, Len(P), Len(P) + Len(q)).text = P \o q \o R
    BY DEF Edit
  <2>2. LET e == Edit(P \o q \o R, Len(P), Len(P) + Len(q))
        IN  /\ Words(e.text) = Words(P) \o Words(q) \o Words(R)
            /\ Before(e.text, e.selection) = Words(P)
            /\ Chosen(e.text, e.selection) = Words(q)
    BY ONLY <1>b, WordsOfParts, ZenonT(60)
  <2>3. src = P \o q \o R
    BY <1>5
  <2> QED
    BY ONLY <2>1, <2>2, <2>3
<1>8. LET e == Edit(p \o q \o r, Len(p), Len(p) + Len(q))
      IN  /\ Words(e.text) = Words(p) \o Words(q) \o Words(r)
          /\ Before(e.text, e.selection) = Words(p)
          /\ Chosen(e.text, e.selection) = Words(q)
  BY ONLY <1>b, WordsOfParts, ZenonT(60)
<1>9. Len(p) = x /\ Len(p) + Len(q) = z
  BY <1>1, <1>3, <1>5
<1>10. LET e == Edit(p \o q \o r, x, z)
       IN  /\ Words(e.text) = Words(src)
           /\ Before(e.text, e.selection) = Words(P)
           /\ Chosen(e.text, e.selection) = Words(q)
  BY ONLY <1>6, <1>7, <1>8, <1>9
<1> QED
  BY <1>10 DEF x, y, z, p, q, r, P

\* A mark at both ends of the selection: what is between has the words.
LEMMA SwallowedWords ==
    ASSUME NEW t \in Texts, NEW mark \in MuteTexts, Swallowed(t, mark)
    PROVE  LET w == Len(mark)
               inner == Slice(t, w, Len(t) - w)
           IN  inner \in Texts /\ Words(inner) = Words(t)
<1> DEFINE w == Len(mark)
           l == Len(t)
           k == l - w
           p == Slice(t, 0, w)
           q == Slice(t, w, k)
           r == From(t, k)
<1>1. w \in Nat /\ l \in Nat /\ l >= 2 * w
  <2>1. w \in Nat
    BY DEF MuteTexts
  <2>2. l \in Nat
    BY DEF Texts
  <2> QED
    BY <2>1, <2>2 DEF Swallowed
<1>2. k \in Nat /\ w <= k /\ k <= l /\ k + w = l
  BY <1>1
<1>3. \A i \in 1..w : mark[i] \in Mute
  BY DEF MuteTexts
<1>4. \A i \in 1..w : t[i] = mark[i]
  <2>1. SubSeq(mark, 1, w) = SubSeq(t, 1, w)
    BY DEF Swallowed, IsPrefix
  <2>2. \A i \in 1..w : SubSeq(mark, 1, w)[i] = mark[i]
    <3>1. mark \in Seq(Mute) /\ w \in 0..Len(mark)
      BY <1>1 DEF MuteTexts
    <3> QED
      BY <3>1, CutList
  <2>3. \A i \in 1..w : SubSeq(t, 1, w)[i] = t[i]
    <3>1. t \in Seq(Characters) /\ w \in 0..Len(t)
      BY <1>1 DEF Texts
    <3> QED
      BY <3>1, CutList
  <2> QED
    BY <2>1, <2>2, <2>3
<1>5. \A i \in 1..w : t[k + i] \in Mute
  <2> DEFINE rm == Reverse(mark)
             rt == Reverse(t)
  <2>1. /\ rm \in Seq(Mute) /\ Len(rm) = w /\ \A i \in 1..w : rm[i] = mark[w - i + 1]
    <3>1. rm = [i \in 1..w |-> mark[(w - i) + 1]]
      BY DEF Reverse
    <3>2. \A i \in 1..w : (w - i) + 1 \in 1..w
      BY <1>1
    <3>3. rm \in [1..w -> Mute]
      BY <1>3, <3>1, <3>2
    <3> HIDE DEF rm
    <3> QED
      BY <1>1, <3>1, <3>3
  <2>2. /\ rt \in Seq(Characters) /\ Len(rt) = l /\ \A i \in 1..l : rt[i] = t[l - i + 1]
    <3>1. rt = [i \in 1..l |-> t[(l - i) + 1]]
      BY DEF Reverse
    <3>2. \A i \in 1..l : (l - i) + 1 \in 1..l
      BY <1>1
    <3>3. rt \in [1..l -> Characters]
      <4>1. t \in Seq(Characters)
        BY DEF Texts
      <4>2. \A i \in 1..l : t[i] \in Characters
        BY <4>1
      <4> QED
        BY <3>1, <3>2, <4>2
    <3> HIDE DEF rt
    <3> QED
      BY <1>1, <3>1, <3>3
  <2>3. SubSeq(rm, 1, Len(rm)) = SubSeq(rt, 1, Len(rm))
    BY DEF Swallowed, IsSuffix, IsPrefix
  <2> HIDE DEF rm, rt
  <2>4. \A i \in 1..w : SubSeq(rm, 1, w)[i] = rm[i]
    <3>1. w \in 0..Len(rm)
      BY <1>1, <2>1
    <3> QED
      BY <2>1, <3>1, CutList
  <2>5. \A i \in 1..w : SubSeq(rt, 1, w)[i] = rt[i]
    <3>1. w \in 0..Len(rt)
      BY <1>1, <2>2
    <3> QED
      BY <2>2, <3>1, CutList
  <2>6. \A i \in 1..w : rt[i] = rm[i]
    BY <2>1, <2>3, <2>4, <2>5
  <2> SUFFICES ASSUME NEW i \in 1..w PROVE t[k + i] \in Mute
    OBVIOUS
  <2> DEFINE j == w - i + 1
  <2>7. j \in 1..w /\ j \in 1..l /\ l - j + 1 = k + i /\ w - j + 1 = i
    BY <1>1, <1>2
  <2> HIDE DEF j
  <2>8. rt[j] = t[k + i] /\ rm[j] = mark[i] /\ rt[j] = rm[j]
    BY <2>1, <2>2, <2>6, <2>7
  <2> QED
    BY <1>3, <2>8
<1> HIDE DEF w, l, k
<1>6. w <= Len(t) /\ k <= Len(t)
  BY <1>1, <1>2 DEF l
<1>7. /\ p \in Texts /\ q \in Texts /\ r \in Texts /\ t = p \o q \o r
  BY ONLY <1>1, <1>2, <1>6, t \in Texts, ThreeCuts, ZenonT(60)
<1>8. p \in MuteTexts
  <2>1. 0 \in Nat /\ 0 <= w /\ \A i \in (0 + 1)..w : i \in 1..w
    BY <1>1
  <2>2. \A i \in (0 + 1)..w : t[i] \in Mute
    BY <1>3, <1>4, <2>1
  <2> QED
    BY <1>1, <1>6, <2>1, <2>2, SliceIsMute
<1>9. r \in MuteTexts
  <2>1. \A i \in (k + 1)..l : t[i] \in Mute
    <3> SUFFICES ASSUME NEW i \in (k + 1)..l PROVE t[i] \in Mute
      OBVIOUS
    <3> DEFINE j == i - k
    <3>1. j \in 1..w /\ k + j = i
      BY <1>1, <1>2
    <3> HIDE DEF j
    <3> QED
      BY <1>5, <3>1
  <2>2. l <= Len(t) /\ Slice(t, k, l) = From(t, k)
    BY <1>1 DEF l, Slice, From
  <2>3. Slice(t, k, l) \in MuteTexts
    BY <1>1, <1>2, <2>1, <2>2, SliceIsMute
  <2> QED
    BY <2>2, <2>3
<1> HIDE DEF p, q, r
<1>10. Words(t) = Words(q)
  <2> DEFINE h == p \o q
  <2>1. h \in Texts /\ Words(h) = Words(q)
    BY <1>7, <1>8, MuteAround
  <2>2. t = h \o r
    BY <1>7
  <2> HIDE DEF h
  <2>3. Words(h \o r) = Words(h)
    BY <1>9, <2>1, MuteAround
  <2> QED
    BY <2>1, <2>2, <2>3
<1> QED
  BY <1>7, <1>10 DEF q, w, l, k

\* An edit that leaves the words, those before the selection and those in it.
SameWords(e, src, s) ==
    /\ Words(e.text) = Words(src)
    /\ Before(e.text, e.selection) = Before(src, s)
    /\ Chosen(e.text, e.selection) = Chosen(src, s)

\* The words of a text, by the cuts at two offsets.
LEMMA WordsInThree ==
    ASSUME NEW src \in Texts, NEW a \in Nat, NEW b \in Nat, a <= b, b <= Len(src)
    PROVE  Words(src) = Words(Slice(src, 0, a)) \o Words(Slice(src, a, b)) \o Words(From(src, b))
<1> DEFINE p == Slice(src, 0, a)
           q == Slice(src, a, b)
           r == From(src, b)
<1>1. p \in Texts /\ q \in Texts /\ r \in Texts /\ src = p \o q \o r
  BY ONLY src \in Texts, a \in Nat, b \in Nat, a <= b, b <= Len(src), ThreeCuts
<1> HIDE DEF p, q, r
<1>2. Edit(p \o q \o r, Len(p), Len(p) + Len(q)).text = p \o q \o r
  BY DEF Edit
<1>3. LET e == Edit(p \o q \o r, Len(p), Len(p) + Len(q))
      IN  /\ Words(e.text) = Words(p) \o Words(q) \o Words(r)
          /\ Before(e.text, e.selection) = Words(p)
          /\ Chosen(e.text, e.selection) = Words(q)
  BY ONLY <1>1, WordsOfParts, ZenonT(60)
<1>4. Words(src) = Words(p) \o Words(q) \o Words(r)
  BY ONLY <1>1, <1>2, <1>3
<1> QED
  BY <1>4 DEF p, q, r

\* Wrapping a selection with two marks, and unwrapping one with its marks inside.
LEMMA WrapKeepsWords ==
    ASSUME NEW src, NEW s, Fits(src, s), NEW m \in MuteTexts, NEW n \in MuteTexts
    PROVE  SameWords(Edit(Slice(src, 0, s.start) \o m \o Slice(src, s.start, s.end) \o n \o From(src, s.end),
                          s.start + Len(m), s.end + Len(m)), src, s)
<1> DEFINE a == s.start
           b == s.end
           p == Slice(src, 0, a)
           q == Slice(src, a, b)
           r == From(src, b)
           pm == p \o m
           nr == n \o r
           w == Len(m)
           t == p \o m \o q \o n \o r
<1>1. src \in Texts /\ a \in Nat /\ b \in Nat /\ a <= b /\ b <= Len(src)
  BY DEF Fits
<1>2. p \in Texts /\ q \in Texts /\ r \in Texts /\ Len(p) = a /\ Len(q) = b - a
  BY ONLY <1>1, ThreeCuts
<1>3. Words(src) = Words(p) \o Words(q) \o Words(r)
  BY ONLY <1>1, WordsInThree
<1>4. m \in Texts /\ n \in Texts /\ m \in MuteTexts /\ n \in MuteTexts
  BY MuteIsSilent
<1> HIDE DEF p, q, r, a, b
<1>5. pm \in Texts /\ nr \in Texts /\ t = pm \o q \o nr /\ Words(t) = Words(p) \o Words(q) \o Words(r)
  <2> DEFINE h == pm \o q
  <2>1. pm \in Texts /\ nr \in Texts /\ Words(pm) = Words(p) /\ Words(nr) = Words(r)
    BY ONLY <1>2, <1>4, MuteAround DEF pm, nr
  <2>2. t = (h \o n) \o r
    BY DEF t, pm
  <2> HIDE DEF pm
  <2>3. h \in Texts
    BY ONLY <1>2, <2>1, JoinTwo
  <2>4. Words(h) = Words(pm) \o Words(q)
    BY ONLY <1>2, <2>1, WordsJoin
  <2> HIDE DEF h
  <2>5. (h \o n) \o r = h \o nr
    BY ONLY <1>2, <1>4, <2>3, JoinAssociates DEF nr
  <2> HIDE DEF nr
  <2>6. Words(h \o nr) = Words(h) \o Words(nr)
    BY ONLY <2>1, <2>3, WordsJoin
  <2>7. t = h \o nr
    BY ONLY <2>2, <2>5
  <2> QED
    BY ONLY <2>1, <2>4, <2>6, <2>7 DEF h
<1>6. Words(pm) = Words(p)
  BY ONLY <1>2, <1>4, MuteAround
<1>7. Len(pm) = a + w /\ Len(pm) + Len(q) = b + w
  <2>1. Len(pm) = Len(p) + w /\ w \in Nat
    BY <1>2, <1>4, JoinTwo
  <2> QED
    BY <1>1, <1>2, <2>1
<1> HIDE DEF pm, nr, t, w
<1>8. LET e == Edit(pm \o q \o nr, Len(pm), Len(pm) + Len(q))
      IN  /\ Words(e.text) = Words(pm) \o Words(q) \o Words(nr)
          /\ Before(e.text, e.selection) = Words(pm)
          /\ Chosen(e.text, e.selection) = Words(q)
  BY ONLY <1>2, <1>5, WordsOfParts, ZenonT(60)
<1>9. Edit(pm \o q \o nr, Len(pm), Len(pm) + Len(q)) = Edit(t, a + w, b + w)
  BY ONLY <1>5, <1>7
<1>10. Edit(t, a + w, b + w).text = t
  BY DEF Edit
<1>11. LET e == Edit(t, a + w, b + w)
       IN  /\ Words(e.text) = Words(src)
           /\ Before(e.text, e.selection) = Words(p)
           /\ Chosen(e.text, e.selection) = Words(q)
  BY ONLY <1>3, <1>5, <1>6, <1>8, <1>9, <1>10
<1> QED
  BY <1>11 DEF SameWords, Before, Chosen, p, q, r, t, w, a, b

\* The button of an inline style adds and removes marks, and nothing else.
LEMMA InlineKeepsWords ==
    ASSUME NEW src, NEW s, Fits(src, s), NEW kind \in InlineCommands
    PROVE  SameWords(ApplyInline(src, s, kind), src, s)
<1> DEFINE mark == INLINE_MARKS[kind]
           w == Len(mark)
           a == s.start
           b == s.end
           p == Slice(src, 0, a)
           q == Slice(src, a, b)
           r == From(src, b)
           inner == Slice(q, w, Len(q) - w)
           E == ApplyInline(src, s, kind)
<1>1. mark \in Texts /\ w \in Nat /\ w > 0 /\ mark \in MuteTexts
  BY InlineMarkIs, InlineMarkIsMute
<1>2. src \in Texts /\ a \in Nat /\ b \in Nat /\ a <= b /\ b <= Len(src) /\ Len(src) \in Nat
  BY DEF Fits, Texts
<1>3. E = IF ~RunsOn(src, s, mark) /\ Hugged(src, s, mark)
          THEN Edit(Slice(src, 0, a - w) \o q \o From(src, b + w), a - w, b - w)
          ELSE IF Swallowed(q, mark)
          THEN Edit(p \o inner \o r, a, a + Len(inner))
          ELSE Edit(p \o mark \o q \o mark \o r, a + w, b + w)
  BY DEF ApplyInline
<1>4. CASE ~RunsOn(src, s, mark) /\ Hugged(src, s, mark)
  <2>1. a >= w /\ Slice(src, b, b + w) = mark /\ Slice(src, a - w, a) = mark
    BY <1>4 DEF Hugged
  <2>2. Len(Slice(src, b, b + w)) = w
    BY <2>1
  <2>3. E = Edit(Slice(src, 0, a - w) \o q \o From(src, b + w), a - w, b - w)
    BY <1>3, <1>4
  <2> HIDE DEF E, mark, w, q, a, b
  <2>4. b + w <= Len(src)
    BY <1>1, <1>2, <2>2, WholeSlice
  <2>5. w <= a /\ Slice(src, a - w, a) \in MuteTexts /\ Slice(src, b, b + w) \in MuteTexts
    BY <1>1, <1>2, <2>1
  <2>6. LET e == Edit(Slice(src, 0, a - w) \o Slice(src, a, b) \o From(src, b + w), a - w, b - w)
        IN  /\ Words(e.text) = Words(src)
            /\ Before(e.text, e.selection) = Words(Slice(src, 0, a))
            /\ Chosen(e.text, e.selection) = Words(Slice(src, a, b))
    BY ONLY <1>1, <1>2, <2>4, <2>5, UnhuggedWords
  <2>7. /\ Words(E.text) = Words(src)
        /\ Before(E.text, E.selection) = Words(Slice(src, 0, a))
        /\ Chosen(E.text, E.selection) = Words(Slice(src, a, b))
    BY ONLY <2>3, <2>6 DEF q
  <2>8. Before(src, s) = Words(Slice(src, 0, a)) /\ Chosen(src, s) = Words(Slice(src, a, b))
    BY DEF Before, Chosen, a, b
  <2> QED
    BY ONLY <2>7, <2>8 DEF SameWords, E
<1>5. CASE ~(~RunsOn(src, s, mark) /\ Hugged(src, s, mark)) /\ Swallowed(q, mark)
  <2>1. E = Edit(p \o inner \o r, a, a + Len(inner))
    BY <1>3, <1>5
  <2>2. p \in Texts /\ q \in Texts /\ r \in Texts /\ Len(p) = a
    BY ONLY <1>2, ThreeCuts
  <2>3. Words(src) = Words(p) \o Words(q) \o Words(r)
    BY ONLY <1>2, WordsInThree
  <2> HIDE DEF p, q, r, E, mark
  <2>4. Swallowed(q, mark)
    BY <1>5
  <2>5. inner \in Texts /\ Words(inner) = Words(q)
    BY ONLY <1>1, <2>2, <2>4, SwallowedWords
  <2> HIDE DEF inner, w
  <2>6. LET e == Edit(p \o inner \o r, Len(p), Len(p) + Len(inner))
        IN  /\ Words(e.text) = Words(p) \o Words(inner) \o Words(r)
            /\ Before(e.text, e.selection) = Words(p)
            /\ Chosen(e.text, e.selection) = Words(inner)
    BY ONLY <2>2, <2>5, WordsOfParts, ZenonT(60)
  <2>7. /\ Words(E.text) = Words(src)
        /\ Before(E.text, E.selection) = Words(p)
        /\ Chosen(E.text, E.selection) = Words(q)
    BY ONLY <2>1, <2>2, <2>3, <2>5, <2>6
  <2>8. Before(src, s) = Words(p) /\ Chosen(src, s) = Words(q)
    BY DEF Before, Chosen, p, q, a, b
  <2> QED
    BY ONLY <2>7, <2>8 DEF SameWords, E
<1>6. CASE ~(~RunsOn(src, s, mark) /\ Hugged(src, s, mark)) /\ ~Swallowed(q, mark)
  <2>1. E = Edit(p \o mark \o q \o mark \o r, a + w, b + w)
    BY <1>3, <1>6
  <2> HIDE DEF E, mark
  <2>2. SameWords(Edit(Slice(src, 0, s.start) \o mark \o Slice(src, s.start, s.end) \o mark \o From(src, s.end),
                       s.start + Len(mark), s.end + Len(mark)), src, s)
    BY ONLY Fits(src, s), <1>1, WrapKeepsWords
  <2>3. SameWords(E, src, s)
    BY ONLY <2>1, <2>2
  <2> QED
    BY ONLY <2>3 DEF E
<1> QED
  BY ONLY <1>4, <1>5, <1>6

\* A link keeps the words too.
LEMMA LinkKeepsWords ==
    ASSUME NEW src, NEW s, Fits(src, s)
    PROVE  Words(ApplyLink(src, s).text) = Words(src)
<1> DEFINE m == <<"[">>
           n == <<"]", "(", ")">>
           t == Slice(src, 0, s.start) \o m \o Slice(src, s.start, s.end) \o n \o From(src, s.end)
<1>1. m \in MuteTexts /\ n \in MuteTexts
  BY MarksAreMute, ShortMutes
<1>2. ApplyLink(src, s).text = t
  BY DEF ApplyLink, Edit
<1> HIDE DEF m, n
<1>3. SameWords(Edit(t, s.start + Len(m), s.end + Len(m)), src, s)
  BY ONLY Fits(src, s), <1>1, WrapKeepsWords
<1>4. Edit(t, s.start + Len(m), s.end + Len(m)).text = t
  BY DEF Edit
<1> QED
  BY ONLY <1>2, <1>3, <1>4 DEF SameWords

\* What begins and what ends a text put together, and what is left when equal beginnings go.
LEMMA EndsOfJoin ==
    ASSUME NEW u \in Texts, NEW v \in Texts
    PROVE  IsPrefix(u, u \o v) /\ IsSuffix(v, u \o v) /\ IsPrefix(u, u) /\ IsSuffix(u, u)
<1> DEFINE t == u \o v
           m == Len(u)
           n == Len(v)
           rv == Reverse(v)
           rt == Reverse(t)
<1>1. m \in Nat /\ n \in Nat /\ t \in Texts /\ Len(t) = m + n
  BY JoinTwo
<1>2. (\A i \in 1..m : t[i] = u[i]) /\ (\A i \in 1..n : t[m + i] = v[i])
  BY DEF Texts
<1>3. IsPrefix(u, t)
  <2>1. u \in Seq(Characters) /\ t \in Seq(Characters) /\ m \in 0..Len(u) /\ m \in 0..Len(t)
    BY <1>1 DEF Texts
  <2>2. /\ SubSeq(u, 1, m) \in Seq(Characters) /\ Len(SubSeq(u, 1, m)) = m /\ \A k \in 1..m : SubSeq(u, 1, m)[k] = u[k]
        /\ SubSeq(t, 1, m) \in Seq(Characters) /\ Len(SubSeq(t, 1, m)) = m /\ \A k \in 1..m : SubSeq(t, 1, m)[k] = t[k]
    BY ONLY <2>1, CutList
  <2> DEFINE x == SubSeq(u, 1, m)
             y == SubSeq(t, 1, m)
  <2> HIDE DEF x, y, t
  <2>3. x \in Seq(Characters) /\ y \in Seq(Characters) /\ Len(x) = Len(y) /\ \A k \in 1..Len(x) : x[k] = y[k]
    BY <1>2, <2>2 DEF x, y
  <2>4. x = y
    BY ONLY <2>3, SeqEqual
  <2>5. m <= Len(t)
    BY <1>1
  <2> QED
    BY <2>4, <2>5 DEF IsPrefix, x, y
<1>4. IsPrefix(u, u) /\ IsSuffix(u, u)
  <2>1. m <= m /\ Len(Reverse(u)) = m
    BY <1>1 DEF Reverse
  <2> QED
    BY <2>1 DEF IsPrefix, IsSuffix
<1>5. IsSuffix(v, t)
  <2>1. Len(rv) = n /\ Len(rt) = m + n
    BY <1>1 DEF Reverse
  <2>2. (\A i \in 1..n : rv[i] = v[(n - i) + 1]) /\ (\A i \in 1..(m + n) : rt[i] = t[((m + n) - i) + 1])
    BY <1>1 DEF Reverse
  <2> HIDE DEF t, rv, rt, m, n
  <2>3. ASSUME NEW i \in 1..n PROVE rv[i] = rt[i]
    <3> DEFINE j == (n - i) + 1
    <3>1. i \in 1..(m + n) /\ j \in 1..n /\ ((m + n) - i) + 1 = m + j
      BY <1>1
    <3>2. rv[i] = v[j]
      BY <2>2
    <3> HIDE DEF j
    <3>3. rt[i] = t[m + j] /\ t[m + j] = v[j]
      BY <1>2, <2>2, <3>1
    <3> QED
      BY <3>2, <3>3
  <2>4. SubSeq(rv, 1, n) = [i \in 1..n |-> rv[i]] /\ SubSeq(rt, 1, n) = [i \in 1..n |-> rt[i]]
    <3>1. rv \in Seq(Characters) /\ rt \in Seq(Characters)
      <4>1. \A i \in 1..n : (n - i) + 1 \in 1..n /\ v[(n - i) + 1] \in Characters
        BY <1>1 DEF Texts, n
      <4>2. \A i \in 1..(m + n) : ((m + n) - i) + 1 \in 1..(m + n) /\ t[((m + n) - i) + 1] \in Characters
        BY <1>1 DEF Texts
      <4>3. rv = [i \in 1..n |-> v[(n - i) + 1]] /\ rt = [i \in 1..(m + n) |-> t[((m + n) - i) + 1]]
        BY <1>1 DEF Reverse, rv, rt, n
      <4>4. rv \in [1..n -> Characters] /\ rt \in [1..(m + n) -> Characters]
        BY <4>1, <4>2, <4>3
      <4>5. m + n \in Nat
        BY <1>1
      <4> QED
        BY <1>1, <4>4, <4>5
    <3>2. n \in 0..Len(rv) /\ n \in 0..Len(rt)
      BY <1>1, <2>1
    <3>3. /\ SubSeq(rv, 1, n) \in Seq(Characters) /\ Len(SubSeq(rv, 1, n)) = n /\ \A k \in 1..n : SubSeq(rv, 1, n)[k] = rv[k]
          /\ SubSeq(rt, 1, n) \in Seq(Characters) /\ Len(SubSeq(rt, 1, n)) = n /\ \A k \in 1..n : SubSeq(rt, 1, n)[k] = rt[k]
      BY ONLY <3>1, <3>2, CutList
    <3> QED
      BY <3>3
  <2>5. SubSeq(rv, 1, n) = SubSeq(rt, 1, n)
    BY <2>3, <2>4
  <2>6. n <= Len(rt)
    BY <1>1, <2>1
  <2> QED
    BY <2>1, <2>5, <2>6 DEF IsSuffix, IsPrefix, rv, rt
<1> QED
  BY <1>3, <1>4, <1>5

\* What follows the same beginning is the same.
LEMMA CancelLeft ==
    ASSUME NEW u \in Texts, NEW v \in Texts, NEW w \in Texts, u \o v = u \o w
    PROVE  v = w
BY ConcatSimplifications DEF Texts

\* The last line ends the text.
LEMMA LastLineEnds ==
    ASSUME NEW lines \in Seq(Texts), lines # <<>>
    PROVE  LineStarts(lines)[Len(lines)] + Len(lines[Len(lines)]) = Len(SerializeLines(lines))
<1> DEFINE n == Len(lines)
           B == Broken(SubSeq(lines, 1, n - 1))
           l == lines[n]
           text == SerializeLines(lines)
<1>1. n \in 1..Len(lines) /\ SubSeq(lines, 1, n) = lines
  BY CutList
<1>2. SubSeq(lines, 1, n - 1) \in Seq(Texts) /\ l \in Texts /\ Broken(lines) = B \o (<<NL>> \o l)
  BY <1>1, LinesUpTo
<1>3. B \in Texts
  BY <1>2, BrokenIs
<1>4. text \in Texts /\ Broken(lines) = <<NL>> \o text
  BY SerializedBroken
<1>5. LineStarts(lines)[n] = Len(B)
  BY <1>1 DEF LineStarts
<1> HIDE DEF text, l, B, n
<1>6. <<NL>> \o l \in Texts /\ Len(<<NL>> \o l) = 1 + Len(l) /\ Len(l) \in Nat
  BY <1>2, NLIsACharacter, JoinTwo
<1>7. Len(<<NL>> \o text) = 1 + Len(text) /\ Len(text) \in Nat
  BY <1>4, NLIsACharacter, JoinTwo
<1>8. Len(B \o (<<NL>> \o l)) = Len(B) + (1 + Len(l)) /\ Len(B) \in Nat
  BY ONLY <1>3, <1>6, JoinTwo
<1>9. Len(B) + Len(l) = Len(text)
  BY ONLY <1>2, <1>4, <1>6, <1>7, <1>8
<1> QED
  BY <1>5, <1>9 DEF n, l, text

\* The line that contains an offset does contain it.
LEMMA LineHolds ==
    ASSUME NEW text \in Texts, NEW offset \in Nat, offset <= Len(text)
    PROVE  LET lines == LinesOf(text)
               i == LineIndexAt(LineStarts(lines), offset)
           IN  i \in 1..Len(lines) /\ offset - LineStarts(lines)[i] \in 0..Len(lines[i])
<1> DEFINE lines == LinesOf(text)
           starts == LineStarts(lines)
           i == LineIndexAt(starts, offset)
           n == Len(lines)
<1>1. lines \in Seq(Texts) /\ lines # <<>> /\ n \in Nat /\ \A j \in 1..n : lines[j] \in Texts
  BY LinesAre
<1>2. SerializeLines(lines) = text
  BY PutTogether
<1> HIDE DEF lines
<1>3. i \in 1..n /\ starts[i] <= offset /\ \A j \in 1..n : starts[j] <= offset => j <= i
  BY <1>1, LineIndexIs
<1>4. starts[i] \in Nat /\ Len(lines[i]) \in Nat
  BY <1>1, <1>3, SerializedIs
<1> HIDE DEF starts, i, n
<1>5. offset <= starts[i] + Len(lines[i])
  <2>1. CASE i = n
    <3>1. starts[n] + Len(lines[n]) = Len(text)
      BY <1>1, <1>2, LastLineEnds DEF starts, n
    <3> QED
      BY <2>1, <3>1
  <2>2. CASE i # n
    <3>1. i + 1 \in 1..n /\ i \in 1..n
      BY <1>1, <1>3, <2>2
    <3>2. starts[i + 1] = starts[i] + 1 + Len(lines[i])
      BY <1>1, <3>1, StartsAre DEF starts, n
    <3>3. ~(starts[i + 1] <= offset)
      BY <1>3, <3>1
    <3> DEFINE a == starts[i]
               b == starts[i + 1]
               l == Len(lines[i])
    <3> HIDE DEF a, b, l
    <3>4. a \in Nat /\ l \in Nat /\ b = a + 1 + l /\ ~(b <= offset)
      BY <1>4, <3>2, <3>3 DEF a, b, l
    <3>5. offset <= a + l
      BY ONLY <3>4, offset \in Nat
    <3> QED
      BY <3>5 DEF a, l
  <2> QED
    BY <2>1, <2>2
<1>6. offset - starts[i] \in 0..Len(lines[i])
  <2> DEFINE a == starts[i]
             l == Len(lines[i])
  <2>1. a \in Nat /\ l \in Nat /\ a <= offset /\ offset <= a + l
    BY <1>3, <1>4, <1>5
  <2> HIDE DEF a, l
  <2>2. offset - a \in 0..l
    BY ONLY <2>1, offset \in Nat
  <2> QED
    BY <2>2 DEF a, l
<1> QED
  BY <1>3, <1>6 DEF i, starts, n, lines

\* The lines a block command rewrites have the words they had.
LEMMA RewrittenWords ==
    ASSUME NEW lines \in Seq(Texts), NEW first \in 1..Len(lines), NEW last \in 1..Len(lines),
           NEW target \in BlockCommands \cup {"paragraph"}, NEW i \in 1..Len(lines)
    PROVE  Words(lines[i]) = Words(Rewritten(lines, first, last, target)[i])
<1>1. lines[i] \in Texts /\ first \in Nat /\ i \in Nat /\ i \in DOMAIN lines
  OBVIOUS
<1> DEFINE k == i - first + 1
           after == Prefixed(StripPrefix(lines[i]), target, k)
<1>2. Rewritten(lines, first, last, target)[i] = IF i \in first..last THEN after ELSE lines[i]
  BY <1>1 DEF Rewritten
<1>3. CASE i \in first..last
  <2>1. k \in Nat
    BY <1>1, <1>3
  <2> HIDE DEF k
  <2>2. Words(after) = Words(lines[i])
    BY <1>1, <2>1, LineKeepsWords
  <2> QED
    BY <1>2, <1>3, <2>2
<1>4. CASE ~(i \in first..last)
  BY <1>2, <1>4
<1> QED
  BY <1>3, <1>4

\* Lines with the same words make texts with the same words.
LEMMA SameWordsOfTexts ==
    ASSUME NEW a \in Seq(Texts), NEW b \in Seq(Texts), Len(a) = Len(b), a # <<>>,
           \A i \in 1..Len(a) : Words(a[i]) = Words(b[i])
    PROVE  Words(SerializeLines(a)) = Words(SerializeLines(b))
<1>1. Len(a) \in 0..Len(a) /\ b # <<>> /\ Len(b) \in 0..Len(b)
  OBVIOUS
<1>2. SubSeq(a, 1, Len(a)) = a /\ SubSeq(b, 1, Len(b)) = b
  OBVIOUS
<1>3. Words(Broken(SubSeq(a, 1, Len(a)))) = Words(Broken(SubSeq(b, 1, Len(a))))
  BY <1>1, SameWordsOfLines
<1>4. Words(Broken(a)) = Words(Broken(b))
  BY <1>2, <1>3
<1> QED
  BY <1>1, <1>4, SerializedBroken

\* The words of a text, cut at one offset or at two.
LEMMA WordsCut ==
    ASSUME NEW t \in Texts, NEW a \in Nat, NEW b \in Nat, a <= b, b <= Len(t)
    PROVE  /\ Words(Slice(t, 0, a)) \in Texts /\ Words(Slice(t, a, b)) \in Texts /\ Words(From(t, b)) \in Texts
           /\ Words(Slice(t, 0, b)) = Words(Slice(t, 0, a)) \o Words(Slice(t, a, b))
           /\ Words(t) = Words(Slice(t, 0, b)) \o Words(From(t, b))
           /\ Words(From(t, a)) = Words(Slice(t, a, b)) \o Words(From(t, b))
<1> DEFINE p == Slice(t, 0, a)
           q == Slice(t, a, b)
           r == From(t, b)
           pq == Slice(t, 0, b)
           qr == From(t, a)
<1>1. p \in Texts /\ q \in Texts /\ r \in Texts /\ p \o q = pq /\ q \o r = qr
  BY ONLY t \in Texts, a \in Nat, b \in Nat, a <= b, b <= Len(t), ThreeCuts
<1>2. pq \in Texts /\ pq \o r = t
  <2>1. b \in 0..Len(t)
    BY DEF Texts
  <2> QED
    BY <2>1, TextCut
<1> HIDE DEF p, q, r, pq, qr
<1>3. Words(p) \in Texts /\ Words(q) \in Texts /\ Words(r) \in Texts
  BY <1>1, WordsJoin
<1>4. Words(p \o q) = Words(p) \o Words(q)
  BY ONLY <1>1, WordsJoin
<1>5. Words(q \o r) = Words(q) \o Words(r)
  BY ONLY <1>1, WordsJoin
<1>6. Words(pq \o r) = Words(pq) \o Words(r)
  BY ONLY <1>1, <1>2, WordsJoin
<1> QED
  BY <1>1, <1>2, <1>3, <1>4, <1>5, <1>6 DEF p, q, r, pq, qr

\* Two texts with the same words, cut at offsets with the same words before them: the cuts have
\* the same words.
LEMMA SelectionKept ==
    ASSUME NEW t \in Texts, NEW u \in Texts, Words(t) = Words(u),
           NEW a \in Nat, NEW b \in Nat, a <= b, b <= Len(t),
           NEW c \in Nat, NEW d \in Nat, c <= d, d <= Len(u),
           Words(Slice(t, 0, a)) = Words(Slice(u, 0, c)), Words(Slice(t, 0, b)) = Words(Slice(u, 0, d))
    PROVE  Words(Slice(t, a, b)) = Words(Slice(u, c, d)) /\ Words(From(t, b)) = Words(From(u, d))
<1>1. /\ Words(Slice(t, 0, a)) \in Texts /\ Words(Slice(t, a, b)) \in Texts /\ Words(From(t, b)) \in Texts
      /\ Words(Slice(t, 0, b)) = Words(Slice(t, 0, a)) \o Words(Slice(t, a, b))
      /\ Words(t) = Words(Slice(t, 0, b)) \o Words(From(t, b))
  BY WordsCut
<1>2. /\ Words(Slice(u, c, d)) \in Texts /\ Words(From(u, d)) \in Texts
      /\ Words(Slice(u, 0, d)) = Words(Slice(u, 0, c)) \o Words(Slice(u, c, d))
      /\ Words(u) = Words(Slice(u, 0, d)) \o Words(From(u, d))
  BY WordsCut
<1>3. Words(Slice(t, 0, b)) \in Texts
  <2>1. b <= b
    OBVIOUS
  <2> QED
    BY <2>1, WordsCut
<1> DEFINE p == Words(Slice(t, 0, a))
           q == Words(Slice(t, a, b))
           r == Words(From(t, b))
           pq == Words(Slice(t, 0, b))
           v == Words(Slice(u, c, d))
           w == Words(From(u, d))
<1>6. p \in Texts /\ q \in Texts /\ r \in Texts /\ pq \in Texts /\ v \in Texts /\ w \in Texts
  BY <1>1, <1>2, <1>3
<1>7. p \o q = p \o v /\ pq \o r = pq \o w
  BY <1>1, <1>2
<1> HIDE DEF p, q, r, pq, v, w
<1>4. q = v
  BY ONLY <1>6, <1>7, CancelLeft
<1>5. r = w
  BY ONLY <1>6, <1>7, CancelLeft
<1> USE DEF q, r, v, w
<1> QED
  BY <1>4, <1>5

\* Two lists of lines with the same words, line by line: a place in one of them.
LEMMA PlaceKept ==
    ASSUME NEW lines \in Seq(Texts), NEW next \in Seq(Texts), Len(lines) = Len(next), NEW i \in 1..Len(lines),
           \A k \in 1..Len(lines) : Words(lines[k]) = Words(next[k]),
           NEW c \in 0..Len(lines[i]), NEW d \in 0..Len(next[i]),
           Words(Slice(next[i], 0, d)) = Words(Slice(lines[i], 0, c))
    PROVE  Words(Slice(SerializeLines(next), 0, LineStarts(next)[i] + d))
             = Words(Slice(SerializeLines(lines), 0, LineStarts(lines)[i] + c))
<1> DEFINE B == SubSeq(lines, 1, i - 1)
           C == SubSeq(next, 1, i - 1)
<1>1. Words(Broken(B)) = Words(Broken(C))
  <2>1. i - 1 \in 0..Len(lines) /\ \A k \in 1..(i - 1) : k \in 1..Len(lines)
    OBVIOUS
  <2>2. \A k \in 1..(i - 1) : Words(lines[k]) = Words(next[k])
    BY <2>1
  <2> QED
    BY <2>1, <2>2, SameWordsOfLines
<1>2. i \in 1..Len(next)
  OBVIOUS
<1>3. Words(Slice(SerializeLines(lines), 0, LineStarts(lines)[i] + c)) = Words(Broken(B)) \o Words(Slice(lines[i], 0, c))
  BY WordsBefore
<1>4. Words(Slice(SerializeLines(next), 0, LineStarts(next)[i] + d)) = Words(Broken(C)) \o Words(Slice(next[i], 0, d))
  BY <1>2, WordsBefore
<1> QED
  BY <1>1, <1>3, <1>4

\* A break stands before every line but the first.
LEMMA BreakBefore ==
    ASSUME NEW lines \in Seq(Texts), NEW i \in 1..Len(lines), i > 1
    PROVE  LET text == SerializeLines(lines)
               s == LineStarts(lines)[i]
           IN  s \in 1..Len(text) /\ text[s] = NL
<1> DEFINE text == SerializeLines(lines)
           s == LineStarts(lines)[i]
           B == Broken(SubSeq(lines, 1, i - 1))
           l == lines[i]
           R == Broken(SubSeq(lines, i + 1, Len(lines)))
           g == <<NL>> \o l
           h == B \o g
<1>1. lines # <<>> /\ i \in 0..Len(lines) /\ i \in Nat
  OBVIOUS
<1>2. text \in Texts /\ Broken(lines) = <<NL>> \o text
  BY <1>1, SerializedBroken
<1>3. SubSeq(lines, 1, i - 1) \in Seq(Texts) /\ l \in Texts /\ Broken(SubSeq(lines, 1, i)) = B \o (<<NL>> \o l)
  BY LinesUpTo
<1>4. /\ SubSeq(lines, 1, i) \in Seq(Texts) /\ SubSeq(lines, i + 1, Len(lines)) \in Seq(Texts)
      /\ lines = SubSeq(lines, 1, i) \o SubSeq(lines, i + 1, Len(lines))
  BY <1>1, CutList
<1>5. B \in Texts /\ R \in Texts
  BY <1>3, <1>4, BrokenIs
<1>6. Broken(lines) = h \o R
  <2>1. Broken(lines) = Broken(SubSeq(lines, 1, i)) \o R
    BY <1>4, BrokenConcat
  <2> QED
    BY <1>3, <2>1
<1>7. s = Len(B) /\ s \in Nat
  <2>1. s = Len(Broken(SubSeq(lines, 1, i - 1)))
    BY DEF LineStarts
  <2> QED
    BY <1>5, <2>1 DEF Texts
<1>8. s >= 1 /\ s <= Len(text) /\ Len(text) \in Nat
  <2>1. s + Len(l) <= Len(text) /\ Len(l) \in Nat
    BY <1>1, SerializedIs
  <2>2. 1 \in 1..Len(lines) /\ 1 < i
    BY <1>1
  <2>3. LineStarts(lines)[1] + 1 + Len(lines[1]) <= s /\ LineStarts(lines)[1] \in Nat /\ Len(lines[1]) \in Nat
    BY <1>1, <2>2, StartsRise, SerializedIs
  <2>4. Len(text) \in Nat
    BY <1>2 DEF Texts
  <2> HIDE DEF text, s, l
  <2> QED
    BY <1>7, <2>1, <2>3, <2>4
<1> HIDE DEF text, s, B, l, R
<1>9. <<NL>> \in Texts /\ Len(<<NL>>) = 1 /\ g \in Texts /\ Len(g) = 1 + Len(l) /\ g[1] = NL /\ Len(l) \in Nat
  <2>1. <<NL>> \in Texts /\ Len(<<NL>>) = 1
    BY NLIsACharacter
  <2>2. g \in Texts /\ Len(g) = 1 + Len(l) /\ Len(l) \in Nat
    BY <1>3, <2>1, JoinTwo
  <2>3. g[1] = NL
    BY <1>3, <2>1 DEF Texts
  <2> QED
    BY <2>1, <2>2, <2>3
<1>10. (<<NL>> \o text)[s + 1] = text[s]
  <2>1. <<NL>> \in Seq(Characters) /\ text \in Seq(Characters) /\ s \in DOMAIN text
    BY <1>2, <1>7, <1>8, <1>9 DEF Texts
  <2>2. (<<NL>> \o text)[Len(<<NL>>) + s] = text[s]
    BY ONLY <2>1, ConcatPlaces
  <2>3. Len(<<NL>>) + s = s + 1
    BY ONLY <1>7, <1>9
  <2> QED
    BY ONLY <2>2, <2>3
<1> HIDE DEF g
<1>11. h \in Texts /\ h[s + 1] = NL /\ s + 1 \in DOMAIN h
  <2>1. B \in Seq(Characters) /\ g \in Seq(Characters) /\ 1 \in DOMAIN g
    BY <1>5, <1>9 DEF Texts
  <2>2. h \in Seq(Characters) /\ Len(B) + 1 \in DOMAIN h /\ h[Len(B) + 1] = g[1]
    BY ONLY <2>1, ConcatPlaces
  <2> QED
    BY <1>7, <1>9, <2>2 DEF Texts
<1> HIDE DEF h
<1>12. (h \o R)[s + 1] = NL
  <2>1. h \in Seq(Characters) /\ R \in Seq(Characters)
    BY <1>5, <1>11 DEF Texts
  <2>2. (h \o R)[s + 1] = h[s + 1]
    BY ONLY <2>1, <1>11, ConcatPlaces
  <2> QED
    BY <1>11, <2>2
<1>13. text[s] = NL
  BY <1>2, <1>6, <1>10, <1>12
<1>14. s \in 1..Len(text)
  BY <1>7, <1>8
<1> QED
  BY <1>13, <1>14 DEF text, s

\* A caret of the one line a block command rewrites: as many words before it as there were.
LEMMA MovedKeepsWords ==
    ASSUME NEW lines \in Seq(Texts), NEW first \in 1..Len(lines),
           NEW target \in BlockCommands \cup {"paragraph"}, NEW o \in Nat,
           o - LineStarts(lines)[first] \in 0..Len(lines[first])
    PROVE  LET next == Rewritten(lines, first, first, target)
               p == LineStarts(next)[first] + Remap(o - LineStarts(lines)[first], lines[first], next[first])
           IN  Words(Slice(SerializeLines(next), 0, p)) = Words(Slice(SerializeLines(lines), 0, o))
<1> DEFINE next == Rewritten(lines, first, first, target)
           line == lines[first]
           after == Prefixed(StripPrefix(line), target, 1)
           a == LineStarts(lines)[first]
           c == o - a
           d == Remap(c, line, after)
<1>1. next \in Seq(Texts) /\ Len(next) = Len(lines)
  BY RewrittenIs
<1>2. \A k \in 1..Len(lines) : Words(lines[k]) = Words(next[k])
  BY RewrittenWords
<1>3. next[first] = after
  <2>1. first \in DOMAIN lines /\ first \in first..first /\ first - first + 1 = 1
    OBVIOUS
  <2> QED
    BY <2>1 DEF Rewritten
<1>4. line \in Texts /\ 1 \in Nat /\ c \in 0..Len(line)
  OBVIOUS
<1>5. a \in Nat
  <2>1. lines # <<>>
    OBVIOUS
  <2> QED
    BY <2>1, SerializedIs
<1> HIDE DEF next, c
<1>6. d \in 0..Len(after) /\ Words(Slice(after, 0, d)) = Words(Slice(line, 0, c))
  BY <1>4, LineKeepsWords
<1> HIDE DEF d, after
<1>7. d \in 0..Len(next[first]) /\ Words(Slice(next[first], 0, d)) = Words(Slice(lines[first], 0, c)) /\ c \in 0..Len(lines[first])
  BY <1>3, <1>4, <1>6
<1>8. Words(Slice(SerializeLines(next), 0, LineStarts(next)[first] + d))
        = Words(Slice(SerializeLines(lines), 0, LineStarts(lines)[first] + c))
  <2> HIDE DEF line, a
  <2>1. lines \in Seq(Texts) /\ first \in 1..Len(lines)
    OBVIOUS
  <2> QED
    BY ONLY <1>1, <1>2, <1>7, <2>1, PlaceKept
<1>9. a + c = o
  <2> HIDE DEF a
  <2> QED
    BY ONLY <1>5, o \in Nat DEF c
<1>10. d = Remap(o - LineStarts(lines)[first], lines[first], next[first])
  BY <1>3 DEF d, c
<1> QED
  BY <1>8, <1>9, <1>10 DEF next

\* What follows a block command: the words stay, and the selection follows them.
BlockFollows(e, src, s) ==
    /\ Words(e.text) = Words(src)
    /\ IF SpansLines(src, s)
       THEN /\ IsPrefix(Before(e.text, e.selection), Before(src, s))
            /\ IsSuffix(After(e.text, e.selection), After(src, s))
       ELSE /\ Before(e.text, e.selection) = Before(src, s)
            /\ Chosen(e.text, e.selection) = Chosen(src, s)

\* When words before and after are the same and so are the words between, the selection follows.
LEMMA SameCutsFollow ==
    ASSUME NEW src, NEW s, Fits(src, s), NEW t, NEW x, NEW z, Fits(Edit(t, x, z).text, Edit(t, x, z).selection),
           Words(t) = Words(src),
           Words(Slice(t, 0, x)) = Words(Slice(src, 0, s.start)),
           Words(Slice(t, 0, z)) = Words(Slice(src, 0, s.end))
    PROVE  BlockFollows(Edit(t, x, z), src, s)
<1> DEFINE e == Edit(t, x, z)
           a == s.start
           b == s.end
<1>1. e.text = t /\ e.selection.start = x /\ e.selection.end = z
  BY DEF Edit
<1>2. t \in Texts /\ x \in Nat /\ z \in Nat /\ x <= z /\ z <= Len(t)
  BY <1>1 DEF Fits
<1>3. src \in Texts /\ a \in Nat /\ b \in Nat /\ a <= b /\ b <= Len(src)
  BY DEF Fits
<1>4. Words(t) = Words(src) /\ Words(Slice(t, 0, x)) = Words(Slice(src, 0, a))
      /\ Words(Slice(t, 0, z)) = Words(Slice(src, 0, b))
  OBVIOUS
<1> HIDE DEF e
<1>5. Words(Slice(t, x, z)) = Words(Slice(src, a, b)) /\ Words(From(t, z)) = Words(From(src, b))
  <2> HIDE DEF a, b
  <2> QED
    BY ONLY <1>2, <1>3, <1>4, SelectionKept
<1>6. Words(Slice(src, 0, a)) \in Texts /\ Words(From(src, b)) \in Texts
  <2> HIDE DEF a, b
  <2> QED
    BY ONLY <1>3, WordsCut
<1>7. /\ IsPrefix(Words(Slice(src, 0, a)), Words(Slice(src, 0, a)))
      /\ IsSuffix(Words(From(src, b)), Words(From(src, b)))
  BY ONLY <1>6, EndsOfJoin
<1>8. /\ Before(e.text, e.selection) = Before(src, s) /\ Chosen(e.text, e.selection) = Chosen(src, s)
      /\ After(e.text, e.selection) = After(src, s)
  BY ONLY <1>1, <1>4, <1>5 DEF Before, Chosen, After, a, b
<1>9. IsPrefix(Before(src, s), Before(src, s)) /\ IsSuffix(After(src, s), After(src, s))
  BY ONLY <1>7 DEF Before, After, a, b
<1>10. Words(e.text) = Words(src)
  BY ONLY <1>1, <1>4
<1>11. BlockFollows(e, src, s)
  BY ONLY <1>8, <1>9, <1>10 DEF BlockFollows
<1> QED
  BY ONLY <1>11 DEF e

\* A selection that widens to whole lines: no word of another line joins it.
LEMMA WiderCutsFollow ==
    ASSUME NEW src, NEW s, Fits(src, s), NEW t, NEW x, NEW z, Fits(Edit(t, x, z).text, Edit(t, x, z).selection),
           Words(t) = Words(src), SpansLines(src, s),
           NEW c \in Nat, NEW d \in Nat, c <= s.start, s.end <= d, d <= Len(src),
           Words(Slice(t, 0, x)) = Words(Slice(src, 0, c)),
           Words(Slice(t, 0, z)) = Words(Slice(src, 0, d))
    PROVE  BlockFollows(Edit(t, x, z), src, s)
<1> DEFINE e == Edit(t, x, z)
           a == s.start
           b == s.end
<1>1. e.text = t /\ e.selection.start = x /\ e.selection.end = z
  BY DEF Edit
<1>2. t \in Texts /\ x \in Nat /\ z \in Nat /\ x <= z /\ z <= Len(t)
  BY <1>1 DEF Fits
<1>3. src \in Texts /\ a \in Nat /\ b \in Nat /\ a <= b /\ b <= Len(src) /\ Len(src) \in Nat
  BY DEF Fits, Texts
<1>4. c \in Nat /\ d \in Nat /\ c <= a /\ b <= d /\ d <= Len(src)
  OBVIOUS
<1>a. Words(t) = Words(src) /\ Words(Slice(t, 0, x)) = Words(Slice(src, 0, c))
      /\ Words(Slice(t, 0, z)) = Words(Slice(src, 0, d)) /\ SpansLines(src, s)
  OBVIOUS
<1> HIDE DEF e, a, b
<1>5. c <= d /\ a <= Len(src)
  BY ONLY <1>3, <1>4
<1>6. Words(From(t, z)) = Words(From(src, d))
  BY ONLY <1>2, <1>3, <1>4, <1>5, <1>a, SelectionKept
<1>7. /\ Words(Slice(src, 0, c)) \in Texts /\ Words(Slice(src, c, a)) \in Texts
      /\ Words(Slice(src, 0, a)) = Words(Slice(src, 0, c)) \o Words(Slice(src, c, a))
  BY ONLY <1>3, <1>4, <1>5, WordsCut
<1>8. /\ Words(Slice(src, b, d)) \in Texts /\ Words(From(src, d)) \in Texts
      /\ Words(From(src, b)) = Words(Slice(src, b, d)) \o Words(From(src, d))
  BY ONLY <1>3, <1>4, WordsCut
<1> DEFINE p == Words(Slice(src, 0, c))
           q == Words(Slice(src, c, a))
           u == Words(Slice(src, b, d))
           v == Words(From(src, d))
<1>9. p \in Texts /\ q \in Texts /\ u \in Texts /\ v \in Texts
  BY <1>7, <1>8
<1>10. Before(src, s) = p \o q /\ After(src, s) = u \o v
  BY <1>7, <1>8 DEF Before, After, a, b
<1>11. Before(e.text, e.selection) = p /\ After(e.text, e.selection) = v
  BY ONLY <1>1, <1>6, <1>a DEF Before, After, p, v
<1> HIDE DEF p, q, u, v
<1>12. IsPrefix(p, p \o q)
  BY ONLY <1>9, EndsOfJoin
<1>13. IsSuffix(v, u \o v)
  BY ONLY <1>9, EndsOfJoin
<1>14. Words(e.text) = Words(src)
  BY ONLY <1>1, <1>a
<1>15. BlockFollows(e, src, s)
  BY ONLY <1>10, <1>11, <1>12, <1>13, <1>14, <1>a DEF BlockFollows
<1> QED
  BY ONLY <1>15 DEF e

\* The line the selection starts in comes no later than the one it ends in.
LEMMA TouchedInOrder ==
    ASSUME NEW src, NEW s, Fits(src, s)
    PROVE  LET starts == LineStarts(LinesOf(src))
           IN  LineIndexAt(starts, s.start) <= LineIndexAt(starts, s.end)
<1> DEFINE lines == LinesOf(src)
           starts == LineStarts(lines)
           first == LineIndexAt(starts, s.start)
           last == LineIndexAt(starts, s.end)
           a == s.start
           b == s.end
           k == starts[first]
<1>1. lines \in Seq(Texts) /\ lines # <<>> /\ first \in 1..Len(lines) /\ k \in Nat
  BY LinesTouched
<1>2. a \in Nat /\ b \in Nat /\ a <= b
  BY DEF Fits
<1> HIDE DEF lines
<1>3. k <= a
  BY <1>1, <1>2, LineIndexIs
<1>4. \A i \in 1..Len(lines) : starts[i] <= b => i <= last
  BY <1>1, <1>2, LineIndexIs
<1>5. k <= b
  <2> HIDE DEF k, a, b
  <2> QED
    BY <1>1, <1>2, <1>3
<1> HIDE DEF starts, first, last
<1>6. first <= last
  BY <1>1, <1>4, <1>5
<1> QED
  BY <1>6 DEF first, last, starts, lines

\* A block command changes markers only, and its selection follows the words.
LEMMA BlockKeepsWords ==
    ASSUME NEW src, NEW s, Fits(src, s), NEW kind \in BlockCommands
    PROVE  BlockFollows(ApplyBlock(src, s, kind), src, s)
<1> DEFINE lines == LinesOf(src)
           starts == LineStarts(lines)
           first == LineIndexAt(starts, s.start)
           last == LineIndexAt(starts, s.end)
           target == Target(lines, first, last, kind)
           next == Rewritten(lines, first, last, target)
           nextStarts == LineStarts(next)
           Moved(offset) == nextStarts[first] + Remap(offset - starts[first], lines[first], next[first])
           t == SerializeLines(next)
           E == ApplyBlock(src, s, kind)
           a == s.start
           b == s.end
<1>1. E = IF last > first THEN Edit(t, nextStarts[first], nextStarts[last] + Len(next[last]))
          ELSE Edit(t, Moved(a), Moved(b))
  BY DEF ApplyBlock, Target, Rewritten
<1>2. lines \in Seq(Texts) /\ lines # <<>> /\ Len(lines) \in Nat
      /\ (\A i \in 1..Len(lines) : lines[i] \in Texts /\ starts[i] \in Nat)
      /\ first \in 1..Len(lines) /\ last \in 1..Len(lines)
  BY LinesTouched
<1>3. a \in Nat /\ b \in Nat /\ a <= b /\ b <= Len(src) /\ src \in Texts /\ Len(src) \in Nat
  BY DEF Fits, Texts
<1>4. target \in BlockCommands \cup {"paragraph"}
  BY DEF Target
<1>5. Fits(E.text, E.selection)
  BY BlockLeavesFit
<1>6. src = SerializeLines(lines)
  BY <1>3, PutTogether
<1>7. a - starts[first] \in 0..Len(lines[first])
  <2>1. a <= Len(src)
    BY <1>3
  <2> QED
    BY <1>3, <2>1, LineHolds
<1>8. b - starts[last] \in 0..Len(lines[last])
  BY <1>3, LineHolds
<1>9. first <= last
  BY TouchedInOrder
<1> HIDE DEF lines, starts, first, last, target
<1>10. next \in Seq(Texts) /\ Len(next) = Len(lines)
  BY <1>2, <1>4, RewrittenIs
<1>11. \A i \in 1..Len(lines) : Words(lines[i]) = Words(next[i])
  BY <1>2, <1>4, RewrittenWords
<1>12. Words(t) = Words(src)
  <2> HIDE DEF next
  <2> QED
    BY <1>2, <1>6, <1>10, <1>11, SameWordsOfTexts
<1>13. CASE last = first
  <2>1. E = Edit(t, Moved(a), Moved(b))
    BY <1>1, <1>2, <1>13
  <2>2. next = Rewritten(lines, first, first, target)
    BY <1>13
  <2>3. b - starts[first] \in 0..Len(lines[first])
    BY <1>8, <1>13
  <2>4. Words(Slice(t, 0, Moved(a))) = Words(Slice(src, 0, a))
    <3>1. LET n == Rewritten(lines, first, first, target)
              p == LineStarts(n)[first] + Remap(a - LineStarts(lines)[first], lines[first], n[first])
          IN  Words(Slice(SerializeLines(n), 0, p)) = Words(Slice(SerializeLines(lines), 0, a))
      <4> HIDE DEF a
      <4> QED
        BY ONLY <1>2, <1>3, <1>4, <1>7, MovedKeepsWords DEF starts
    <3> QED
      BY ONLY <1>6, <2>2, <3>1 DEF starts
  <2>5. Words(Slice(t, 0, Moved(b))) = Words(Slice(src, 0, b))
    <3>1. LET n == Rewritten(lines, first, first, target)
              p == LineStarts(n)[first] + Remap(b - LineStarts(lines)[first], lines[first], n[first])
          IN  Words(Slice(SerializeLines(n), 0, p)) = Words(Slice(SerializeLines(lines), 0, b))
      <4> HIDE DEF b
      <4> QED
        BY ONLY <1>2, <1>3, <1>4, <2>3, MovedKeepsWords DEF starts
    <3> QED
      BY ONLY <1>6, <2>2, <3>1 DEF starts
  <2> DEFINE x == Moved(a)
             z == Moved(b)
  <2> HIDE DEF E, t, x, z
  <2>6. Fits(Edit(t, x, z).text, Edit(t, x, z).selection)
    BY <1>5, <2>1 DEF x, z
  <2>7. Words(Slice(t, 0, x)) = Words(Slice(src, 0, s.start)) /\ Words(Slice(t, 0, z)) = Words(Slice(src, 0, s.end))
    BY <2>4, <2>5 DEF x, z
  <2>8. BlockFollows(Edit(t, x, z), src, s)
    BY ONLY Fits(src, s), <1>12, <2>6, <2>7, SameCutsFollow
  <2> QED
    BY <2>1, <2>8 DEF E, x, z
<1>14. CASE last > first
  <2> HIDE DEF next
  <2> DEFINE x == nextStarts[first]
             z == nextStarts[last] + Len(next[last])
             c == starts[first]
             d == starts[last] + Len(lines[last])
  <2>1. E = Edit(t, x, z)
    BY <1>1, <1>14
  <2>2. first \in 1..Len(next) /\ last \in 1..Len(next) /\ next # <<>>
    BY <1>2, <1>10
  <2>3. nextStarts[first] \in Nat /\ starts[first] \in Nat /\ starts[last] \in Nat
        /\ Len(lines[first]) \in Nat /\ Len(lines[last]) \in Nat /\ Len(next[last]) \in Nat /\ Len(next[first]) \in Nat
        /\ starts[last] + Len(lines[last]) <= Len(src)
    <3>1. \A i \in 1..Len(next) : LineStarts(next)[i] \in Nat /\ Len(next[i]) \in Nat
      BY <1>10, <2>2, SerializedIs
    <3>2. \A i \in 1..Len(lines) : LineStarts(lines)[i] \in Nat /\ Len(lines[i]) \in Nat
             /\ LineStarts(lines)[i] + Len(lines[i]) <= Len(SerializeLines(lines))
      BY <1>2, SerializedIs
    <3> QED
      BY <1>2, <1>6, <2>2, <3>1, <3>2 DEF starts
  <2>4. starts[first] + 1 + Len(lines[first]) <= starts[last]
    BY <1>2, <1>14, StartsRise DEF starts
  <2>5. Words(Slice(t, 0, x)) = Words(Slice(src, 0, c))
    <3>1. 0 \in 0..Len(lines[first]) /\ 0 \in 0..Len(next[first])
      BY <2>3
    <3>2. Slice(next[first], 0, 0) = <<>> /\ Slice(lines[first], 0, 0) = <<>>
      BY <2>3 DEF Slice
    <3>3. Words(Slice(next[first], 0, 0)) = Words(Slice(lines[first], 0, 0))
      BY <3>2
    <3>4. Words(Slice(SerializeLines(next), 0, LineStarts(next)[first] + 0))
            = Words(Slice(SerializeLines(lines), 0, LineStarts(lines)[first] + 0))
      BY ONLY <1>2, <1>10, <1>11, <3>1, <3>3, PlaceKept
    <3>5. LineStarts(next)[first] + 0 = x /\ LineStarts(lines)[first] + 0 = c
      BY <2>3 DEF starts
    <3> QED
      BY <1>6, <3>4, <3>5
  <2>6. Words(Slice(t, 0, z)) = Words(Slice(src, 0, d))
    <3> DEFINE k == Len(lines[last])
               l == Len(next[last])
    <3>1. k \in 0..Len(lines[last]) /\ l \in 0..Len(next[last])
      BY <2>3
    <3>2. Slice(next[last], 0, l) = next[last] /\ Slice(lines[last], 0, k) = lines[last]
      <4>1. next[last] \in Texts /\ lines[last] \in Texts
        BY <1>2, <1>10, <2>2
      <4>2. SubSeq(next[last], 1, l) = next[last] /\ SubSeq(lines[last], 1, k) = lines[last]
        BY <4>1 DEF Texts
      <4> QED
        BY <2>3, <4>2 DEF Slice
    <3>3. Words(Slice(next[last], 0, l)) = Words(Slice(lines[last], 0, k))
      BY <1>2, <1>11, <3>2
    <3> HIDE DEF k, l
    <3>4. Words(Slice(SerializeLines(next), 0, LineStarts(next)[last] + l))
            = Words(Slice(SerializeLines(lines), 0, LineStarts(lines)[last] + k))
      BY ONLY <1>2, <1>10, <1>11, <3>1, <3>3, PlaceKept
    <3> QED
      BY <1>6, <3>4 DEF k, l, starts
  <2>7. c \in Nat /\ d \in Nat /\ c <= s.start /\ s.end <= d /\ d <= Len(src)
    <3> DEFINE f == starts[first]
               g == starts[last]
               k == Len(lines[last])
               m == Len(lines[first])
    <3>1. f \in Nat /\ g \in Nat /\ k \in Nat /\ m \in Nat /\ a - f \in 0..m /\ b - g \in 0..k /\ g + k <= Len(src)
      BY <1>7, <1>8, <2>3
    <3> HIDE DEF f, g, k, m, a, b
    <3>2. f \in Nat /\ g + k \in Nat /\ f <= a /\ b <= g + k /\ g + k <= Len(src)
      BY ONLY <1>3, <3>1
    <3> QED
      BY <3>2 DEF f, g, k, a, b
  <2>8. SpansLines(src, s)
    <3> DEFINE g == starts[last]
               k == g - a
               q == Slice(src, a, b)
    <3>1. last > 1
      BY <1>2, <1>14
    <3>2. g \in 1..Len(src) /\ src[g] = NL
      BY <1>2, <1>6, <3>1, BreakBefore DEF starts
    <3>3. a < g /\ g <= b
      <4> DEFINE f == starts[first]
                 l == Len(lines[last])
                 m == Len(lines[first])
      <4>1. f \in Nat /\ g \in Nat /\ l \in Nat /\ m \in Nat /\ a - f \in 0..m /\ b - g \in 0..l /\ f + 1 + m <= g
        BY <1>7, <1>8, <2>3, <2>4
      <4> HIDE DEF f, g, l, m, a, b
      <4> QED
        BY ONLY <1>3, <4>1
    <3> HIDE DEF g, a, b
    <3>4. k \in 1..(b - a) /\ a + k = g /\ b \in a..Len(src)
      BY <1>3, <3>2, <3>3
    <3>5. Len(q) = b - a /\ q[k] = src[a + k]
      <4>1. src \in Seq(Characters)
        BY <1>3 DEF Texts
      <4> HIDE DEF k
      <4> QED
        BY <1>3, <3>4, <4>1, SliceIs
    <3>6. k \in 1..Len(q) /\ q[k] = NL
      BY <3>2, <3>4, <3>5
    <3> QED
      BY <3>6 DEF SpansLines, Contains, a, b
  <2> HIDE DEF E, t, x, z, c, d
  <2>9. Fits(Edit(t, x, z).text, Edit(t, x, z).selection)
    BY <1>5, <2>1
  <2>10. BlockFollows(Edit(t, x, z), src, s)
    BY ONLY Fits(src, s), <1>12, <2>5, <2>6, <2>7, <2>8, <2>9, WiderCutsFollow
  <2> QED
    BY <2>1, <2>10 DEF E
<1>15. last = first \/ last > first
  BY <1>2, <1>9
<1> QED
  BY ONLY <1>13, <1>14, <1>15

\* The words of lists of lines put together, and of lines that have none.
BW(p) == Words(Broken(p))

\* The words of lines put behind lines.
LEMMA WordsOfLists ==
    ASSUME NEW p \in Seq(Texts), NEW q \in Seq(Texts)
    PROVE  p \o q \in Seq(Texts) /\ BW(p \o q) = BW(p) \o BW(q) /\ BW(p) \in Texts /\ BW(q) \in Texts
<1>1. p \o q \in Seq(Texts) /\ Broken(p \o q) = Broken(p) \o Broken(q)
  BY BrokenConcat
<1>2. Broken(p) \in Texts /\ Broken(q) \in Texts
  BY BrokenIs
<1>3. /\ Words(Broken(p) \o Broken(q)) = Words(Broken(p)) \o Words(Broken(q))
      /\ Words(Broken(p)) \in Texts /\ Words(Broken(q)) \in Texts
  BY ONLY <1>2, WordsJoin
<1> QED
  BY ONLY <1>1, <1>3 DEF BW

\* A line of markers has no words.
LEMMA SilentLine ==
    ASSUME NEW m \in MuteTexts
    PROVE  <<m>> \in Seq(Texts) /\ BW(<<m>>) = <<>>
<1>1. m \in Texts /\ Words(m) = <<>>
  BY MuteIsSilent
<1> DEFINE one == <<m>>
<1>2. one \in Seq(Texts) /\ Len(one) = 1 /\ one[1] = m
  BY <1>1
<1>3. Append(<<>>, m) = one /\ <<>> \in Seq(Texts) /\ Broken(<<>>) = <<>>
  BY <1>1, FlattenNothing DEF Broken
<1> HIDE DEF one
<1>4. Broken(one) = <<>> \o (<<NL>> \o m)
  BY <1>1, <1>3, BrokenAppend
<1>5. <<NL>> \o m \in Texts /\ Words(<<NL>> \o m) = <<>>
  BY <1>1, WordsOfBreak
<1>6. Broken(one) = <<NL>> \o m
  <2> DEFINE x == <<NL>> \o m
  <2>1. x \in Texts /\ Broken(one) = <<>> \o x
    BY <1>4, <1>5
  <2> HIDE DEF x
  <2>2. <<>> \o x = x
    BY <2>1 DEF Texts
  <2> QED
    BY <2>1, <2>2 DEF x
<1>7. BW(one) = <<>>
  BY <1>5, <1>6 DEF BW
<1> QED
  BY <1>2, <1>7 DEF one

\* A line of markers put behind lines adds none.
LEMMA SilentAfter ==
    ASSUME NEW p \in Seq(Texts), NEW q \in Seq(Texts), BW(q) = <<>>
    PROVE  p \o q \in Seq(Texts) /\ BW(p \o q) = BW(p)
<1>1. p \o q \in Seq(Texts) /\ BW(p \o q) = BW(p) \o BW(q) /\ BW(p) \in Texts
  BY WordsOfLists
<1> DEFINE x == BW(p)
<1>2. x \in Texts /\ BW(p \o q) = x \o <<>>
  BY <1>1
<1> HIDE DEF x
<1>3. x \o <<>> = x
  BY <1>2 DEF Texts
<1> QED
  BY <1>1, <1>2, <1>3 DEF x

\* The lines a selection touches, those before and those after.
LEMMA TouchedLines ==
    ASSUME NEW lines \in Seq(Texts), NEW first \in 1..Len(lines), NEW last \in first..Len(lines)
    PROVE  /\ SubSeq(lines, 1, first - 1) \in Seq(Texts) /\ SubSeq(lines, first, last) \in Seq(Texts)
           /\ SubSeq(lines, 1, last) \in Seq(Texts) /\ From(lines, last) \in Seq(Texts)
           /\ SubSeq(lines, 1, first - 1) \o SubSeq(lines, first, last) = SubSeq(lines, 1, last)
           /\ SubSeq(lines, 1, last) \o From(lines, last) = lines
<1>1. first - 1 \in 0..Len(lines) /\ last \in 0..Len(lines) /\ first \in Nat /\ last \in Nat
  OBVIOUS
<1>2. SubSeq(lines, 1, first - 1) \in Seq(Texts) /\ SubSeq(lines, 1, last) \in Seq(Texts)
      /\ From(lines, last) \in Seq(Texts) /\ SubSeq(lines, 1, last) \o From(lines, last) = lines
  BY <1>1, CutList DEF From
<1>3. SubSeq(lines, first, last) \in Seq(Texts)
  OBVIOUS
<1>4. SubSeq(lines, 1, first - 1) \o SubSeq(lines, first, last) = SubSeq(lines, 1, last)
  <2> DEFINE k == first - 1
  <2>1. 1 \in 1..(Len(lines) + 1) /\ k \in (1 - 1)..Len(lines) /\ last \in k..Len(lines) /\ k + 1 = first
    OBVIOUS
  <2> HIDE DEF k
  <2>2. SubSeq(lines, 1, k) \o SubSeq(lines, k + 1, last) = SubSeq(lines, 1, last)
    BY <2>1, ConcatAdjacentSubSeq
  <2> QED
    BY <2>1, <2>2 DEF k
<1> QED
  BY <1>2, <1>3, <1>4

\* What a fence and a rule make of the lines before, between and after.
Fenced(h, k, m, r) == h \o k \o m \o k \o r
Ruled(h, k, r) == h \o k \o r
Kept(h, m, r) == h \o m \o r
Pair(h, r) == h \o r

\* A fence around lines adds no word.
LEMMA FenceKeepsWords ==
    ASSUME NEW h \in Seq(Texts), NEW m \in Seq(Texts), NEW r \in Seq(Texts),
           NEW k \in Seq(Texts), BW(k) = <<>>
    PROVE  BW(Fenced(h, k, m, r)) = BW(Kept(h, m, r))
<1> DEFINE hk == h \o k
           hkm == hk \o m
           hkmk == hkm \o k
           hm == h \o m
<1>1. hk \in Seq(Texts) /\ BW(hk) = BW(h)
  BY SilentAfter
<1> HIDE DEF hk
<1>2. hkm \in Seq(Texts) /\ BW(hkm) = BW(h) \o BW(m)
  BY <1>1, WordsOfLists
<1> HIDE DEF hkm
<1>3. hkmk \in Seq(Texts) /\ BW(hkmk) = BW(h) \o BW(m)
  BY <1>2, SilentAfter
<1> HIDE DEF hkmk
<1>4. hkmk \o r \in Seq(Texts) /\ BW(hkmk \o r) = (BW(h) \o BW(m)) \o BW(r)
  BY <1>3, WordsOfLists
<1>5. hm \in Seq(Texts) /\ BW(hm) = BW(h) \o BW(m)
  BY WordsOfLists
<1> HIDE DEF hm
<1>6. BW(hm \o r) = (BW(h) \o BW(m)) \o BW(r)
  BY <1>5, WordsOfLists
<1> QED
  BY <1>4, <1>6 DEF hkmk, hkm, hk, hm, Fenced, Kept

\* A rule after lines adds no word, and a blank line it replaces had none.
LEMMA RuleKeepsWords ==
    ASSUME NEW h \in Seq(Texts), NEW k \in Seq(Texts), NEW r \in Seq(Texts), NEW b \in Seq(Texts),
           BW(k) = <<>>, BW(b) = <<>>
    PROVE  BW(Ruled(h, k, r)) = BW(Kept(h, b, r))
<1> DEFINE hk == h \o k
           hb == h \o b
<1>1. hk \in Seq(Texts) /\ BW(hk) = BW(h)
  BY SilentAfter
<1>2. hb \in Seq(Texts) /\ BW(hb) = BW(h)
  BY SilentAfter
<1> HIDE DEF hk, hb
<1>3. BW(hk \o r) = BW(h) \o BW(r)
  BY <1>1, WordsOfLists
<1>4. BW(hb \o r) = BW(h) \o BW(r)
  BY <1>2, WordsOfLists
<1> QED
  BY <1>3, <1>4 DEF hk, hb, Ruled, Kept

\* A rule after lines with nothing to replace.
LEMMA RuleAddsNoWord ==
    ASSUME NEW h \in Seq(Texts), NEW k \in Seq(Texts), NEW r \in Seq(Texts), BW(k) = <<>>
    PROVE  BW(Ruled(h, k, r)) = BW(Pair(h, r))
<1> DEFINE hk == h \o k
<1>1. hk \in Seq(Texts) /\ BW(hk) = BW(h)
  BY SilentAfter
<1> HIDE DEF hk
<1>2. BW(hk \o r) = BW(h) \o BW(r)
  BY <1>1, WordsOfLists
<1>3. BW(h \o r) = BW(h) \o BW(r)
  BY WordsOfLists
<1> QED
  BY <1>2, <1>3 DEF hk, Ruled, Pair

\* A fence or a rule keeps the words of the note.
LEMMA InsertKeepsWords ==
    ASSUME NEW src, NEW s, Fits(src, s), NEW kind
    PROVE  Words(InsertBlock(src, s, kind).text) = Words(src)
<1> DEFINE lines == LinesOf(src)
           starts == LineStarts(lines)
           first == LineIndexAt(starts, s.start)
           last == LineIndexAt(starts, s.end)
           ticks == <<BackTick, BackTick, BackTick>>
           fenced == SubSeq(lines, 1, first - 1) \o <<ticks>> \o SubSeq(lines, first, last)
                       \o <<ticks>> \o From(lines, last)
           blank == Run(lines[last], 0, Blank) = Len(lines[last])
           upTo == IF blank THEN last - 1 ELSE last
           head == SubSeq(lines, 1, upTo)
           rule == << <<"-", "-", "-">>, <<>> >>
           ruled == head \o rule \o From(lines, last)
           caret == LineStarts(ruled)[Len(head) + 2]
           E == InsertBlock(src, s, kind)
<1>1. E = IF kind = "fence" THEN Edit(SerializeLines(fenced), starts[first] + 3, starts[first] + 3)
          ELSE Edit(SerializeLines(ruled), caret, caret)
  BY DEF InsertBlock
<1>2. lines \in Seq(Texts) /\ lines # <<>> /\ first \in 1..Len(lines) /\ last \in 1..Len(lines)
      /\ lines[last] \in Texts
  BY LinesTouched
<1>3. first <= last
  BY TouchedInOrder
<1>4. src = SerializeLines(lines)
  BY PutTogether DEF Fits
<1>5. E.text = IF kind = "fence" THEN SerializeLines(fenced) ELSE SerializeLines(ruled)
  BY <1>1 DEF Edit
<1> HIDE DEF lines, starts, first, last, E
<1>6. last \in first..Len(lines) /\ last \in last..Len(lines)
  BY <1>2, <1>3
<1> DEFINE top == SubSeq(lines, 1, first - 1)
           mid == SubSeq(lines, first, last)
           rest == From(lines, last)
           upToLast == SubSeq(lines, 1, last)
           before == SubSeq(lines, 1, last - 1)
           there == SubSeq(lines, last, last)
<1>7. top \in Seq(Texts) /\ mid \in Seq(Texts) /\ rest \in Seq(Texts) /\ upToLast \in Seq(Texts)
      /\ top \o mid = upToLast /\ upToLast \o rest = lines
  BY <1>2, <1>6, TouchedLines
<1>8. before \in Seq(Texts) /\ there \in Seq(Texts) /\ before \o there = upToLast
  BY <1>2, <1>6, TouchedLines
<1>9. there = <<lines[last]>>
  <2>1. last \in Nat /\ lines \in Seq(Texts)
    BY <1>2
  <2>2. there \in Seq(Texts) /\ Len(there) = 1 /\ there[1] = lines[last]
    BY <1>2, <2>1, <1>8
  <2> DEFINE x == lines[last]
             two == <<x>>
  <2>3. two \in Seq(Texts) /\ Len(two) = 1 /\ two[1] = x
    BY <1>2
  <2>4. x = lines[last]
    OBVIOUS
  <2> HIDE DEF there, two, x
  <2>5. there = two
    BY ONLY <2>2, <2>3, <2>4, SeqEqual
  <2> QED
    BY ONLY <2>5 DEF two, x
<1>10. BW(lines) = Words(src)
  BY <1>2, <1>4, SerializedBroken DEF BW
<1>11. CASE kind = "fence"
  <2> DEFINE one == <<ticks>>
  <2>1. ticks \in MuteTexts
    BY MarksAreMute, ShortMutes
  <2> HIDE DEF ticks
  <2>2. one \in Seq(Texts) /\ BW(one) = <<>>
    BY <2>1, SilentLine
  <2> HIDE DEF one, top, mid, rest, upToLast
  <2>3. BW(Fenced(top, one, mid, rest)) = BW(Kept(top, mid, rest))
    BY ONLY <1>7, <2>2, FenceKeepsWords
  <2>4. fenced = top \o one \o mid \o one \o rest /\ fenced = Fenced(top, one, mid, rest)
    BY DEF top, one, mid, rest, Fenced
  <2> HIDE DEF fenced
  <2>5. BW(fenced) = BW(lines)
    <3>1. Kept(top, mid, rest) = lines
      BY <1>7 DEF Kept
    <3> QED
      BY <2>3, <2>4, <3>1
  <2>6. fenced \in Seq(Texts) /\ fenced # <<>>
    <3> DEFINE a == top \o one \o mid
               f == a \o one \o rest
    <3>1. a \in Seq(Texts)
      BY <1>7, <2>2, PutIn
    <3>2. Len(one) = 1
      BY DEF one
    <3>3. f = fenced
      BY <2>4
    <3> HIDE DEF a
    <3>4. f \in Seq(Texts) /\ Len(f) = Len(a) + Len(one) + Len(rest) /\ Len(a) \in Nat /\ Len(rest) \in Nat
      BY <1>7, <2>2, <3>1, PutIn
    <3> HIDE DEF f
    <3>6. Len(f) # 0
      BY <3>2, <3>4
    <3> QED
      BY <3>3, <3>4, <3>6
  <2>7. Words(SerializeLines(fenced)) = BW(fenced)
    BY <2>6, SerializedBroken DEF BW
  <2> QED
    BY <1>5, <1>10, <1>11, <2>5, <2>7 DEF E
<1>12. CASE kind # "fence"
  <2> DEFINE hr == <<"-", "-", "-">>
             no == <<>>
  <2>1. hr \in MuteTexts /\ no \in MuteTexts
    BY MarksAreMute, ShortMutes
  <2>2. rule \in Seq(Texts) /\ BW(rule) = <<>> /\ Len(rule) = 2
    <3>1. <<hr>> \in Seq(Texts) /\ BW(<<hr>>) = <<>> /\ <<no>> \in Seq(Texts) /\ BW(<<no>>) = <<>>
      BY <2>1, SilentLine
    <3>2. rule = <<hr>> \o <<no>> /\ Len(rule) = 2
      OBVIOUS
    <3> HIDE DEF hr, no, rule
    <3>3. <<hr>> \o <<no>> \in Seq(Texts) /\ BW(<<hr>> \o <<no>>) = BW(<<hr>>)
      BY ONLY <3>1, SilentAfter
    <3> QED
      BY ONLY <3>1, <3>2, <3>3
  <2> HIDE DEF rule, before, there, upToLast, rest
  <2>30. before \in Seq(Texts) /\ upToLast \in Seq(Texts)
    BY <1>7, <1>8
  <2>3. head \in Seq(Texts) /\ BW(Ruled(head, rule, rest)) = BW(lines)
    <3>1. CASE blank
      <4> DEFINE w == lines[last]
      <4>1. w \in MuteTexts
        <5>1. w \in Texts /\ Run(w, 0, Blank) = Len(w) /\ MuteTo(w, Run(w, 0, Blank))
          BY <1>2, <3>1, IndentIsMute
        <5> HIDE DEF w
        <5>2. \A k \in 1..Len(w) : w[k] \in Mute
          BY <5>1 DEF MuteTo
        <5>3. w \in Seq(Characters)
          BY <5>1 DEF Texts
        <5>4. w \in Seq(Mute)
          BY ONLY <5>2, <5>3
        <5> QED
          BY <5>4 DEF MuteTexts
      <4>2. there \in Seq(Texts) /\ BW(there) = <<>>
        BY <1>9, <4>1, SilentLine
      <4>3. head = before
        BY <3>1 DEF before
      <4>4. BW(Ruled(before, rule, rest)) = BW(Kept(before, there, rest))
        BY ONLY <1>7, <1>8, <2>2, <4>2, RuleKeepsWords
      <4>5. Kept(before, there, rest) = lines
        BY ONLY <1>7, <1>8 DEF Kept
      <4> QED
        BY ONLY <4>3, <4>4, <4>5, <2>30
    <3>2. CASE ~blank
      <4>3. head = upToLast
        BY <3>2 DEF upToLast
      <4>4. BW(Ruled(upToLast, rule, rest)) = BW(lines)
        <5>1. Pair(upToLast, rest) = lines
          BY <1>7 DEF Pair
        <5>2. BW(Ruled(upToLast, rule, rest)) = BW(Pair(upToLast, rest))
          BY ONLY <1>7, <2>2, RuleAddsNoWord
        <5> QED
          BY ONLY <5>1, <5>2
      <4> QED
        BY ONLY <4>3, <4>4, <2>30
    <3> QED
      BY <3>1, <3>2
  <2>4. ruled = head \o rule \o rest /\ ruled = Ruled(head, rule, rest)
    BY DEF rest, Ruled
  <2>5. BW(ruled) = BW(lines)
    BY ONLY <2>3, <2>4
  <2> HIDE DEF ruled, head
  <2>6. ruled \in Seq(Texts) /\ ruled # <<>>
    <3> DEFINE f == head \o rule \o rest
    <3> HIDE DEF head
    <3>0. head \in Seq(Texts) /\ rule \in Seq(Texts) /\ rest \in Seq(Texts)
      BY <1>7, <2>2, <2>3
    <3>1. f \in Seq(Texts) /\ Len(f) = Len(head) + Len(rule) + Len(rest)
      BY ONLY <3>0, PutIn
    <3>2. Len(head) \in Nat /\ Len(rest) \in Nat
      BY <1>7, <2>3
    <3>3. f = ruled
      BY <2>4
    <3> HIDE DEF f
    <3>4. Len(f) # 0
      BY <2>2, <3>1, <3>2
    <3> QED
      BY <3>1, <3>3, <3>4
  <2>7. Words(SerializeLines(ruled)) = BW(ruled)
    BY <2>6, SerializedBroken DEF BW
  <2>8. E.text = SerializeLines(ruled)
    BY <1>5, <1>12 DEF ruled, head
  <2> QED
    BY <1>10, <2>5, <2>7, <2>8 DEF E
<1> QED
  BY <1>11, <1>12

\* The last break of a text, when no line has one: no later in one reading than in the other.
LEMMA NoLaterBreak ==
    ASSUME NEW B \in Texts, NEW C \in Texts, NEW l \in Texts, NEW m \in Texts, NEW t \in Texts,
           t = B \o (<<NL>> \o l), t = C \o (<<NL>> \o m), \A j \in 1..Len(m) : m[j] # NL
    PROVE  ~(Len(C) < Len(B))
<1> DEFINE g == <<NL>> \o l
           h == <<NL>> \o m
           x == Len(B)
           y == Len(C)
           j == x - y
<1>1. <<NL>> \in Seq(Characters) /\ l \in Seq(Characters) /\ m \in Seq(Characters) /\ B \in Seq(Characters)
      /\ C \in Seq(Characters) /\ Len(<<NL>>) = 1 /\ 1 \in DOMAIN <<NL>>
  BY NLIsACharacter DEF Texts
<1>2. g \in Seq(Characters) /\ 1 \in DOMAIN g /\ g[1] = NL /\ Len(g) = 1 + Len(l)
  BY <1>1
<1>3. h \in Seq(Characters) /\ Len(h) = 1 + Len(m) /\ \A k \in 1..Len(m) : h[1 + k] = m[k]
  BY <1>1
<1>4. x \in Nat /\ y \in Nat /\ Len(l) \in Nat /\ Len(m) \in Nat
  BY <1>1
<1> HIDE DEF g, h
<1>5. t[x + 1] = NL
  <2>1. (B \o g)[Len(B) + 1] = g[1]
    BY <1>1, <1>2, ConcatPlaces
  <2>2. t = B \o g
    BY DEF g
  <2> QED
    BY <1>2, <2>1, <2>2
<1>6. Len(t) = x + Len(g) /\ Len(t) = y + Len(h)
  <2>1. t = B \o g /\ t = C \o h
    BY DEF g, h
  <2>2. Len(B \o g) = x + Len(g) /\ Len(C \o h) = y + Len(h)
    <3>1. B \in Texts /\ C \in Texts /\ g \in Texts /\ h \in Texts
      BY <1>1, <1>2, <1>3 DEF Texts
    <3>2. Len(B \o g) = Len(B) + Len(g)
      BY ONLY <3>1, JoinTwo
    <3>3. Len(C \o h) = Len(C) + Len(h)
      BY ONLY <3>1, JoinTwo
    <3> QED
      BY ONLY <3>2, <3>3
  <2> QED
    BY <2>1, <2>2
<1> SUFFICES ASSUME y < x PROVE FALSE
  OBVIOUS
<1> HIDE DEF x, y
<1>7. j \in 1..Len(m) /\ y + (1 + j) = x + 1 /\ 1 + j \in 1..Len(h)
  <2> DEFINE u == Len(l)
             v == Len(m)
  <2>1. u \in Nat /\ v \in Nat /\ x + (1 + u) = y + (1 + v) /\ Len(h) = 1 + v
    BY <1>2, <1>3, <1>4, <1>6
  <2> HIDE DEF u, v
  <2>2. j \in 1..v /\ y + (1 + j) = x + 1 /\ 1 + j \in 1..Len(h)
    BY <1>4, <2>1
  <2> QED
    BY <2>2 DEF v
<1> HIDE DEF j
<1>8. t[x + 1] = m[j]
  <2> DEFINE k == 1 + j
  <2>1. k \in DOMAIN h
    BY <1>3, <1>7
  <2>2. h[k] = m[j]
    BY <1>3, <1>7
  <2> HIDE DEF k
  <2>3. (C \o h)[Len(C) + k] = h[k]
    <3>1. C \in Seq(Characters) /\ h \in Seq(Characters)
      BY <1>1, <1>3
    <3> QED
      BY ONLY <2>1, <3>1, ConcatPlaces, SMTT(30)
  <2>4. t = C \o h
    BY DEF h
  <2>5. Len(C) + k = x + 1
    BY <1>7 DEF k, y
  <2> QED
    BY <2>2, <2>3, <2>4, <2>5
<1> QED
  BY <1>5, <1>7, <1>8

\* Lines, a break and the last line.
Ended(B, l) == B \o (<<NL>> \o l)

\* A list of lines is read off the text it makes: no other list makes the same text.
LEMMA LastLineIs ==
    ASSUME NEW B \in Texts, NEW C \in Texts, NEW l \in Seq(Plain), NEW m \in Seq(Plain), Ended(B, l) = Ended(C, m)
    PROVE  B = C /\ l = m
<1> DEFINE t == B \o (<<NL>> \o l)
           g == <<NL>> \o l
           h == <<NL>> \o m
<1>1. l \in Texts /\ m \in Texts /\ <<NL>> \in Texts
  BY PlainTexts, NLIsACharacter
<1>2. (\A j \in 1..Len(l) : l[j] # NL) /\ (\A j \in 1..Len(m) : m[j] # NL)
  BY DEF Plain
<1>3. g \in Texts /\ h \in Texts
  BY <1>1, JoinTwo
<1>4. t = B \o g /\ t = C \o h
  BY DEF Ended
<1> HIDE DEF g, h, t
<1>5. t \in Texts
  BY <1>3, <1>4, JoinTwo
<1>6. ~(Len(C) < Len(B))
  <2>1. t = B \o (<<NL>> \o l) /\ t = C \o (<<NL>> \o m)
    BY <1>4 DEF g, h
  <2> QED
    BY ONLY B \in Texts, C \in Texts, <1>1, <1>2, <1>5, <2>1, NoLaterBreak
<1>7. ~(Len(B) < Len(C))
  <2>1. t = B \o (<<NL>> \o l) /\ t = C \o (<<NL>> \o m)
    BY <1>4 DEF g, h
  <2> QED
    BY ONLY B \in Texts, C \in Texts, <1>1, <1>2, <1>5, <2>1, NoLaterBreak
<1>8. Len(B) = Len(C)
  BY <1>6, <1>7 DEF Texts
<1>9. Slice(B \o g, 0, Len(B)) = B /\ From(B \o g, Len(B)) = g /\ Slice(C \o h, 0, Len(C)) = C /\ From(C \o h, Len(C)) = h
  BY <1>3, CutOfJoin
<1>10. B = C /\ g = h
  BY <1>4, <1>8, <1>9
<1>11. l = m
  <2>1. <<NL>> \o l = <<NL>> \o m
    BY <1>10 DEF g, h
  <2> QED
    BY ONLY <1>1, <2>1, CancelLeft
<1> QED
  BY <1>10, <1>11

\* Lines but the last, a break and the last line.
LEMMA PageEnds ==
    ASSUME NEW p \in Seq(Seq(Plain)), p # <<>>
    PROVE  /\ FrontOf(p) \in Seq(Seq(Plain)) /\ Len(FrontOf(p)) = Len(p) - 1 /\ p[Len(p)] \in Seq(Plain)
           /\ p = Append(FrontOf(p), p[Len(p)])
           /\ Broken(p) = Broken(FrontOf(p)) \o (<<NL>> \o p[Len(p)])
           /\ Broken(FrontOf(p)) \in Texts /\ Broken(p) # <<>>
<1> DEFINE f == FrontOf(p)
           l == p[Len(p)]
           B == Broken(f)
           g == <<NL>> \o l
<1>1. f \in Seq(Seq(Plain)) /\ Len(f) = Len(p) - 1 /\ l \in Seq(Plain) /\ p = Append(f, l)
  BY FrontAndLast
<1> HIDE DEF f, l
<1>2. f \in Seq(Texts) /\ l \in Texts
  BY <1>1, PlainTexts
<1>3. Broken(Append(f, l)) = B \o g /\ B \in Texts
  BY <1>2, BrokenAppend, BrokenIs
<1>4. g \in Texts /\ Len(g) = 1 + Len(l) /\ Len(l) \in Nat
  BY <1>2, NLIsACharacter, JoinTwo
<1> HIDE DEF B, g
<1>5. Len(B \o g) = Len(B) + Len(g) /\ Len(B) \in Nat
  BY ONLY <1>3, <1>4, JoinTwo
<1>6. B \o g # <<>>
  <2> DEFINE z == B \o g
  <2>1. Len(z) # 0
    BY <1>4, <1>5
  <2> HIDE DEF z
  <2>2. z # <<>>
    BY <2>1
  <2> QED
    BY <2>2 DEF z
<1>7. Broken(p) = B \o g
  BY <1>1, <1>3
<1> QED
  BY <1>1, <1>3, <1>6, <1>7 DEF f, l, B, g

\* Two lists of lines that make the same text are the same list.
SameFor(n) == \A p, q \in Seq(Seq(Plain)) : Len(p) = n /\ Broken(p) = Broken(q) => p = q

\* Pages that read the same are the same, of any number of lines.
LEMMA SameForAll == \A n \in Nat : SameFor(n)
<1> DEFINE T == {n \in Nat : SameFor(n)}
<1>0. Broken(<<>>) = <<>>
  BY FlattenNothing DEF Broken
<1>1. 0 \in T
  <2> SUFFICES ASSUME NEW p \in Seq(Seq(Plain)), NEW q \in Seq(Seq(Plain)), Len(p) = 0, Broken(p) = Broken(q)
               PROVE  p = q
    BY DEF SameFor
  <2>1. p = <<>>
    OBVIOUS
  <2>2. Broken(q) = <<>>
    BY <1>0, <2>1
  <2>3. q = <<>>
    BY <2>2, PageEnds
  <2> QED
    BY <2>1, <2>3
<1>2. ASSUME NEW n \in Nat, n \in T PROVE n + 1 \in T
  <2> SUFFICES ASSUME NEW p \in Seq(Seq(Plain)), NEW q \in Seq(Seq(Plain)), Len(p) = n + 1, Broken(p) = Broken(q)
               PROVE  p = q
    BY DEF SameFor
  <2>1. p # <<>>
    <3>1. Len(p) # 0
      OBVIOUS
    <3> QED
      BY <3>1
  <2>2. q # <<>>
    <3>1. Broken(p) # <<>>
      BY <2>1, PageEnds
    <3> QED
      BY <1>0, <3>1
  <2> DEFINE f == FrontOf(p)
             l == p[Len(p)]
             g == FrontOf(q)
             m == q[Len(q)]
             B == Broken(f)
             C == Broken(g)
  <2>3. /\ f \in Seq(Seq(Plain)) /\ Len(f) = Len(p) - 1 /\ l \in Seq(Plain) /\ p = Append(f, l)
        /\ Broken(p) = B \o (<<NL>> \o l) /\ B \in Texts
    BY <2>1, PageEnds
  <2>4. /\ g \in Seq(Seq(Plain)) /\ m \in Seq(Plain) /\ q = Append(g, m)
        /\ Broken(q) = C \o (<<NL>> \o m) /\ C \in Texts
    BY <2>2, PageEnds
  <2>5. SameFor(n)
    BY <1>2
  <2>6. Len(f) = n
    <3> HIDE DEF f
    <3> QED
      BY <2>3
  <2> HIDE DEF f, l, g, m
  <2>7. Ended(B, l) = Ended(C, m)
    BY <2>3, <2>4 DEF Ended
  <2> HIDE DEF B, C
  <2>70. B \in Texts /\ C \in Texts /\ l \in Seq(Plain) /\ m \in Seq(Plain)
    BY <2>3, <2>4
  <2>8. B = C /\ l = m
    BY ONLY <2>7, <2>70, LastLineIs
  <2>9. f = g
    BY <2>3, <2>4, <2>5, <2>6, <2>8 DEF SameFor, B, C
  <2> QED
    BY <2>3, <2>4, <2>8, <2>9
<1>3. T \in SUBSET Nat
  OBVIOUS
<1> HIDE DEF T
<1>4. T = Nat
  BY <1>1, <1>2, <1>3, ByInduction
<1> QED
  BY <1>4 DEF T

\* What is written from a list of lines is read back as that list.
LEMMA ReadBack ==
    ASSUME NEW p \in Pages
    PROVE  LinesOf(SerializeLines(p)) = p
<1> DEFINE t == SerializeLines(p)
           q == LinesOf(t)
<1>1. p \in Seq(Seq(Plain)) /\ p # <<>>
  BY DEF Pages
<1>2. p \in Seq(Texts)
  BY <1>1, PlainTexts
<1>3. t \in Texts /\ Broken(p) = <<NL>> \o t
  BY <1>1, <1>2, SerializedBroken
<1> HIDE DEF t
<1>4. q \in Pages /\ Broken(q) = <<NL>> \o t
  BY <1>3, LinesOfIs
<1> HIDE DEF q
<1>5. q \in Seq(Seq(Plain)) /\ Broken(p) = Broken(q)
  BY <1>3, <1>4 DEF Pages
<1>6. p = q
  <2>1. Len(p) \in Nat
    BY <1>1
  <2>2. SameFor(Len(p))
    BY <2>1, SameForAll
  <2> QED
    BY <1>1, <1>5, <2>2 DEF SameFor
<1> QED
  BY <1>6 DEF q, t

\* Lines as long as others begin where they do, and make a text as long.
LEMMA SameLengths ==
    ASSUME NEW a \in Seq(Texts), NEW b \in Seq(Texts), a # <<>>, Len(a) = Len(b),
           \A k \in 1..Len(a) : Len(a[k]) = Len(b[k])
    PROVE  Len(SerializeLines(a)) = Len(SerializeLines(b))
<1> DEFINE n == Len(a)
           x == LineStarts(a)
           y == LineStarts(b)
           T == {k \in Nat : k + 1 <= n => x[k + 1] = y[k + 1]}
<1>1. n \in Nat /\ n > 0 /\ b # <<>> /\ Len(b) = n
  OBVIOUS
<1>2. x[1] = 0 /\ \A i \in 1..n : i + 1 \in 1..n => x[i + 1] = x[i] + 1 + Len(a[i])
  BY <1>1, StartsAre
<1>3. y[1] = 0 /\ \A i \in 1..n : i + 1 \in 1..n => y[i + 1] = y[i] + 1 + Len(b[i])
  BY <1>1, StartsAre
<1>4. \A k \in 1..n : Len(a[k]) = Len(b[k])
  OBVIOUS
<1>5. x[n] + Len(a[n]) = Len(SerializeLines(a)) /\ y[n] + Len(b[n]) = Len(SerializeLines(b))
  BY <1>1, LastLineEnds
<1> HIDE DEF n, x, y
<1>6. 0 \in T
  BY <1>2, <1>3
<1>7. ASSUME NEW k \in Nat, k \in T PROVE k + 1 \in T
  <2> SUFFICES ASSUME (k + 1) + 1 <= n PROVE x[(k + 1) + 1] = y[(k + 1) + 1]
    OBVIOUS
  <2> DEFINE i == k + 1
  <2>1. i \in 1..n /\ i + 1 \in 1..n /\ k + 1 <= n
    BY <1>1
  <2>2. x[i] = y[i]
    BY <1>7, <2>1
  <2> HIDE DEF i
  <2>3. x[i + 1] = y[i + 1]
    BY <1>2, <1>3, <1>4, <2>1, <2>2
  <2> QED
    BY <2>3 DEF i
<1>8. T \in SUBSET Nat
  OBVIOUS
<1> HIDE DEF T
<1>9. T = Nat
  BY <1>6, <1>7, <1>8, ByInduction
<1>10. x[n] = y[n]
  <2>1. n - 1 \in T /\ (n - 1) + 1 <= n /\ (n - 1) + 1 = n
    BY <1>1, <1>9
  <2> QED
    BY <2>1 DEF T
<1>11. n \in 1..n
  BY <1>1
<1> QED
  BY <1>4, <1>5, <1>10, <1>11

\* A run depends on what it covers and on the character that ends it.
LEMMA RunSame ==
    ASSUME NEW s \in Texts, NEW t \in Texts, Len(s) = Len(t), NEW i \in Nat, NEW allowed,
           \A j \in (i + 1)..(i + Run(s, i, allowed) + 1) : j \in 1..Len(s) => s[j] = t[j]
    PROVE  Run(t, i, allowed) = Run(s, i, allowed)
<1> DEFINE r == Run(s, i, allowed)
           q == Run(t, i, allowed)
           n == Len(s)
<1>1. r \in Nat /\ (\A j \in (i + 1)..(i + r) : j \in 1..n /\ s[j] \in allowed)
      /\ (i + r < n => s[i + r + 1] \notin allowed)
  BY RunIs
<1>2. q \in Nat /\ (\A j \in (i + 1)..(i + q) : j \in 1..n /\ t[j] \in allowed)
      /\ (i + q < n => t[i + q + 1] \notin allowed)
  BY RunIs
<1>3. n \in Nat
  BY DEF Texts
<1>4. \A j \in (i + 1)..(i + r + 1) : j \in 1..n => s[j] = t[j]
  OBVIOUS
<1> HIDE DEF r, q, n
<1>5. ~(r < q)
  <2> SUFFICES ASSUME r < q PROVE FALSE
    OBVIOUS
  <2> DEFINE k == i + r + 1
  <2>1. k \in (i + 1)..(i + q) /\ k \in (i + 1)..(i + r + 1)
    BY <1>1, <1>2
  <2>2. k \in 1..n /\ t[k] \in allowed
    BY <1>2, <2>1
  <2>3. i + r < n
    BY <1>1, <1>3, <2>2
  <2>4. s[k] \notin allowed
    BY <1>1, <2>3
  <2> HIDE DEF k
  <2> QED
    BY <1>4, <2>1, <2>2, <2>4
<1>6. ~(q < r)
  <2> SUFFICES ASSUME q < r PROVE FALSE
    OBVIOUS
  <2> DEFINE k == i + q + 1
  <2>1. k \in (i + 1)..(i + r) /\ k \in (i + 1)..(i + r + 1)
    BY <1>1, <1>2
  <2>2. k \in 1..n /\ s[k] \in allowed
    BY <1>1, <2>1
  <2>3. i + q < n
    BY <1>2, <1>3, <2>2
  <2>4. t[k] \notin allowed
    BY <1>2, <2>3
  <2> HIDE DEF k
  <2> QED
    BY <1>4, <2>1, <2>2, <2>4
<1>7. r = q
  BY <1>1, <1>2, <1>5, <1>6
<1> QED
  BY <1>7 DEF r, q

\* The parts of a task: the indent, the mark of a bullet, the box and what follows it.
LEMMA TaskParts ==
    ASSUME NEW w \in Texts, TaskLen(w) > 0
    PROVE  LET i == Run(w, 0, Blank)
               gap == Run(w, i + 1, Blank)
               b == BulletLen(w)
           IN  /\ i \in Nat /\ gap \in Nat /\ b \in Nat /\ Len(w) \in Nat
               /\ gap > 0 /\ b = i + 1 + gap /\ b + 3 <= Len(w)
               /\ w[i + 1] \in {"-", "*", "+"} /\ w[b + 1] = "[" /\ w[b + 2] \in {" ", "x", "X"} /\ w[b + 3] = "]"
               /\ Run(w, b + 3, Blank) \in Nat /\ Run(w, b + 3, Blank) > 0
               /\ TaskLen(w) = b + 3 + Run(w, b + 3, Blank)
<1> DEFINE i == Run(w, 0, Blank)
           gap == Run(w, i + 1, Blank)
           b == BulletLen(w)
           last == Run(w, b + 3, Blank)
<1>1. i \in Nat /\ Len(w) \in Nat
  <2>1. 0 \in Nat
    OBVIOUS
  <2> QED
    BY <2>1, RunIs DEF Texts
<1>2. i + 1 \in Nat
  BY <1>1
<1>3. gap \in Nat
  BY <1>2, RunIs
<1>20. b \in Nat
  BY WidthsFit
<1>4. b > 0 /\ At(w, b) = "[" /\ At(w, b + 1) \in {" ", "x", "X"} /\ At(w, b + 2) = "]" /\ last > 0
      /\ TaskLen(w) = b + 3 + last
  <2> DEFINE is == b > 0 /\ At(w, b) = "[" /\ At(w, b + 1) \in {" ", "x", "X"} /\ At(w, b + 2) = "]" /\ last > 0
  <2>1. TaskLen(w) = IF is THEN b + 3 + last ELSE 0
    BY DEF TaskLen
  <2> HIDE DEF b, last, is
  <2>2. is
    <3> SUFFICES ASSUME ~is PROVE FALSE
      OBVIOUS
    <3>1. TaskLen(w) = 0
      BY <2>1
    <3>2. TaskLen(w) > 0
      OBVIOUS
    <3> QED
      BY ONLY <3>1, <3>2
  <2>3. TaskLen(w) = b + 3 + last
    BY <2>1, <2>2, Zenon
  <2> QED
    BY <2>2, <2>3, Zenon DEF is
<1>5. At(w, i) \in {"-", "*", "+"} /\ gap > 0 /\ b = i + 1 + gap
  <2> DEFINE is == At(w, i) \in {"-", "*", "+"} /\ gap > 0
  <2>1. b = IF is THEN i + 1 + gap ELSE 0
    BY DEF BulletLen
  <2>2. b > 0
    BY <1>4
  <2> HIDE DEF b, i, gap, is
  <2>3. is
    <3> SUFFICES ASSUME ~is PROVE FALSE
      OBVIOUS
    <3>1. b = 0
      BY <2>1
    <3> QED
      BY ONLY <2>2, <3>1
  <2>4. b = i + 1 + gap
    BY <2>1, <2>3, Zenon
  <2> QED
    BY <2>3, <2>4, Zenon DEF is
<1>6. b \in Nat
  BY <1>20
<1>7. last \in Nat
  <2>1. b + 3 \in Nat
    BY <1>6
  <2> QED
    BY <2>1, RunIs
<1> HIDE DEF i, gap, b, last
<1>8. w[i + 1] \in {"-", "*", "+"}
  <2>0. At(w, i) # ""
    BY <1>5
  <2>1. i \in Int
    BY <1>1
  <2> QED
    BY <1>5, <2>0, <2>1, AtIs
<1>9. w[b + 1] = "["
  <2>0. At(w, b) # ""
    BY <1>4
  <2>1. b \in Int
    BY <1>6
  <2> QED
    BY <1>4, <2>0, <2>1, AtIs
<1>10. w[b + 2] \in {" ", "x", "X"}
  <2> DEFINE k == b + 1
  <2>0. At(w, k) # ""
    BY <1>4
  <2>1. k \in Int
    BY <1>6
  <2>2. At(w, k) = w[k + 1]
    <3> HIDE DEF k
    <3> QED
      BY <2>0, <2>1, AtIs
  <2>3. k + 1 = b + 2
    BY <1>6
  <2> QED
    BY <1>4, <2>2, <2>3
<1>11. w[b + 3] = "]" /\ b + 3 <= Len(w)
  <2> DEFINE k == b + 2
  <2>0. At(w, k) # ""
    BY <1>4
  <2>1. k \in Int
    BY <1>6
  <2>2. At(w, k) = w[k + 1] /\ k \in 0..(Len(w) - 1)
    <3> HIDE DEF k
    <3> QED
      BY <2>0, <2>1, AtIs
  <2>3. k + 1 = b + 3 /\ b + 3 <= Len(w)
    BY <1>1, <1>6, <2>2
  <2> QED
    BY <1>4, <2>2, <2>3
<1> QED
  BY <1>1, <1>3, <1>4, <1>5, <1>6, <1>7, <1>8, <1>9, <1>10, <1>11 DEF i, gap, b, last

\* A line with the character of its box changed.
Ticked(w, x) == [w EXCEPT ![BulletLen(w) + 2] = x]

\* One character changes, and no other.
LEMMA TickedIs ==
    ASSUME NEW w \in Texts, TaskLen(w) > 0, NEW x \in Characters
    PROVE  /\ Ticked(w, x) \in Texts /\ Len(Ticked(w, x)) = Len(w)
           /\ Ticked(w, x)[BulletLen(w) + 2] = x
           /\ \A k \in 1..Len(w) : k # BulletLen(w) + 2 => Ticked(w, x)[k] = w[k]
<1> DEFINE b == BulletLen(w)
           box == b + 2
           n == Len(w)
           v == [w EXCEPT ![box] = x]
<1>1. b \in Nat /\ n \in Nat /\ b + 3 <= n
  BY TaskParts
<1> HIDE DEF b, n
<1>2. box \in 1..n
  BY <1>1
<1>3. w \in Seq(Characters)
  BY DEF Texts
<1>4. w \in [1..n -> Characters] /\ n \in Nat
  BY ONLY <1>1, <1>3 DEF n
<1> HIDE DEF box
<1>5. v \in [1..n -> Characters] /\ v[box] = x /\ \A k \in 1..n : k # box => v[k] = w[k]
  BY ONLY <1>2, <1>4, x \in Characters, Zenon
<1> HIDE DEF v
<1>6. v \in Seq(Characters) /\ Len(v) = n
  BY ONLY <1>4, <1>5
<1>7. v = Ticked(w, x)
  BY DEF v, box, b, Ticked
<1> QED
  BY <1>5, <1>6, <1>7 DEF Texts, box, b, n

\* A character of a text, at an offset of it.
LEMMA AtPlace ==
    ASSUME NEW s \in Texts, NEW i \in Nat, i < Len(s)
    PROVE  At(s, i) = s[i + 1]
<1>1. i \in 0..(Len(s) - 1)
  BY DEF Texts
<1> QED
  BY <1>1 DEF At

\* The line is the task it was, whatever the box holds.
LEMMA TickedRuns ==
    ASSUME NEW w \in Texts, TaskLen(w) > 0, NEW x, x \in {" ", "x"}
    PROVE  LET v == Ticked(w, x)
           IN  /\ v \in Texts /\ Run(v, 0, Blank) = Run(w, 0, Blank)
               /\ BulletLen(v) = BulletLen(w) /\ TaskLen(v) = TaskLen(w)
<1> DEFINE v == Ticked(w, x)
           i == Run(w, 0, Blank)
           j == i + 1
           gap == Run(w, j, Blank)
           b == BulletLen(w)
           c == b + 3
           last == Run(w, c, Blank)
           n == Len(w)
           m == Len(v)
           long == TaskLen(w)
<1>1. /\ i \in Nat /\ gap \in Nat /\ b \in Nat /\ n \in Nat
      /\ gap > 0 /\ b = i + 1 + gap /\ b + 3 <= n
      /\ last \in Nat /\ last > 0 /\ long = b + 3 + last
  BY TaskParts
<1>2. w[i + 1] \in {"-", "*", "+"} /\ w[b + 1] = "[" /\ w[b + 3] = "]"
  BY TaskParts
<1>3. x \in Characters
  BY DEF Characters, WORD, Letter, Blank
<1>4. v \in Texts /\ m = n /\ v[b + 2] = x /\ \A k \in 1..n : k # b + 2 => v[k] = w[k]
  BY <1>3, TickedIs
<1>5. Run(w, j, Blank) = gap /\ Run(w, c, Blank) = last /\ Run(w, 0, Blank) = i
      /\ Len(v) = m /\ Len(w) = n
  OBVIOUS
<1>6. w \in Texts /\ BulletLen(w) = b /\ TaskLen(w) = long
  OBVIOUS
<1>60. j = i + 1 /\ c = b + 3
  OBVIOUS
<1> HIDE DEF v, i, j, gap, b, c, last, n, m, long
<1>7. Len(w) = Len(v)
  BY ONLY <1>4, <1>5
<1>40. v \in Texts
  BY ONLY <1>4
<1>41. m = n
  BY ONLY <1>4
<1>8. 0 \in Nat /\ j \in Nat /\ c \in Nat
  BY ONLY <1>1, <1>60
<1>9. Run(v, 0, Blank) = i
  <2>1. \A k \in (0 + 1)..(0 + i + 1) : k \in 1..n => w[k] = v[k]
    <3>1. \A k \in (0 + 1)..(0 + i + 1) : k # b + 2
      BY ONLY <1>1
    <3> QED
      BY ONLY <1>4, <3>1
  <2>2. \A k \in (0 + 1)..(0 + Run(w, 0, Blank) + 1) : k \in 1..Len(w) => w[k] = v[k]
    BY ONLY <2>1, <1>5
  <2>3. Run(v, 0, Blank) = Run(w, 0, Blank)
    BY ONLY <1>40, <1>6, <1>7, <1>8, <2>2, RunSame
  <2> QED
    BY ONLY <2>3, <1>5
<1>10. Run(v, j, Blank) = gap
  <2>1. \A k \in (j + 1)..(j + gap + 1) : k \in 1..n => w[k] = v[k]
    <3>1. \A k \in (j + 1)..(j + gap + 1) : k # b + 2
      BY ONLY <1>1, <1>60
    <3> QED
      BY ONLY <1>4, <3>1
  <2>2. \A k \in (j + 1)..(j + Run(w, j, Blank) + 1) : k \in 1..Len(w) => w[k] = v[k]
    BY ONLY <2>1, <1>5
  <2>3. Run(v, j, Blank) = Run(w, j, Blank)
    BY ONLY <1>40, <1>6, <1>7, <1>8, <2>2, RunSame
  <2> QED
    BY ONLY <2>3, <1>5
<1>11. Run(v, c, Blank) = last
  <2>1. \A k \in (c + 1)..(c + last + 1) : k \in 1..n => w[k] = v[k]
    <3>1. \A k \in (c + 1)..(c + last + 1) : k # b + 2
      BY ONLY <1>1, <1>60
    <3> QED
      BY ONLY <1>4, <3>1
  <2>2. \A k \in (c + 1)..(c + Run(w, c, Blank) + 1) : k \in 1..Len(w) => w[k] = v[k]
    BY ONLY <2>1, <1>5
  <2>3. Run(v, c, Blank) = Run(w, c, Blank)
    BY ONLY <1>40, <1>6, <1>7, <1>8, <2>2, RunSame
  <2> QED
    BY ONLY <2>3, <1>5
<1>12. At(v, i) = w[i + 1]
  <2>1. i \in Nat /\ i < m /\ i + 1 \in 1..n /\ i + 1 # b + 2
    BY ONLY <1>1, <1>41
  <2>2. At(v, i) = v[i + 1]
    BY ONLY <1>4, <1>5, <2>1, AtPlace
  <2> QED
    BY ONLY <1>4, <2>1, <2>2
<1>13. At(v, b) = w[b + 1]
  <2>1. b \in Nat /\ b < m /\ b + 1 \in 1..n /\ b + 1 # b + 2
    BY ONLY <1>1, <1>41
  <2>2. At(v, b) = v[b + 1]
    BY ONLY <1>4, <1>5, <2>1, AtPlace
  <2> QED
    BY ONLY <1>4, <2>1, <2>2
<1>14. At(v, b + 1) = x
  <2> DEFINE k == b + 1
  <2>1. k \in Nat /\ k < m /\ k + 1 = b + 2
    BY ONLY <1>1, <1>41
  <2> HIDE DEF k
  <2>2. At(v, k) = v[k + 1]
    BY ONLY <1>4, <1>5, <2>1, AtPlace
  <2>3. At(v, k) = x
    BY ONLY <1>4, <2>1, <2>2
  <2> QED
    BY ONLY <2>3 DEF k
<1>15. At(v, b + 2) = w[b + 3]
  <2> DEFINE k == b + 2
  <2>1. k \in Nat /\ k < m /\ k + 1 = b + 3 /\ b + 3 \in 1..n /\ b + 3 # b + 2
    BY ONLY <1>1, <1>41
  <2> HIDE DEF k
  <2>2. At(v, k) = v[k + 1]
    BY ONLY <1>4, <1>5, <2>1, AtPlace
  <2>3. At(v, k) = w[b + 3]
    BY ONLY <1>4, <2>1, <2>2
  <2> QED
    BY ONLY <2>3 DEF k
<1>16. BulletLen(v) = b
  <2> DEFINE is == At(v, i) \in {"-", "*", "+"} /\ gap > 0
  <2>1. BulletLen(v) = IF is THEN i + 1 + gap ELSE 0
    BY ONLY <1>9, <1>10, <1>60 DEF BulletLen
  <2>2. is
    BY ONLY <1>1, <1>2, <1>12, Zenon
  <2> HIDE DEF is
  <2>3. BulletLen(v) = i + 1 + gap
    BY ONLY <2>1, <2>2, Zenon
  <2> QED
    BY ONLY <1>1, <2>3
<1>17. TaskLen(v) = long
  <2> DEFINE is == b > 0 /\ At(v, b) = "[" /\ At(v, b + 1) \in {" ", "x", "X"} /\ At(v, b + 2) = "]" /\ last > 0
  <2>1. TaskLen(v) = IF is THEN b + 3 + last ELSE 0
    BY ONLY <1>11, <1>16, <1>60 DEF TaskLen
  <2>2. b > 0 /\ last > 0
    BY ONLY <1>1
  <2>3. At(v, b + 1) \in {" ", "x", "X"}
    BY ONLY <1>14, x \in {" ", "x"}
  <2>4. At(v, b) = "[" /\ At(v, b + 2) = "]"
    BY ONLY <1>2, <1>13, <1>15, Zenon
  <2>5. is
    BY ONLY <2>2, <2>3, <2>4, Zenon
  <2> HIDE DEF is
  <2>6. TaskLen(v) = b + 3 + last
    BY ONLY <2>1, <2>5, Zenon
  <2> QED
    BY ONLY <1>1, <2>6
<1>18. v \in Texts /\ Run(v, 0, Blank) = Run(w, 0, Blank) /\ BulletLen(v) = BulletLen(w) /\ TaskLen(v) = TaskLen(w)
  BY ONLY <1>4, <1>5, <1>6, <1>9, <1>16, <1>17
<1> QED
  BY <1>18 DEF v

\* The mark of a bullet and the bracket of a box are no fence, no rule and no heading.
LEMMA MarksTellApart ==
    /\ {"-", "*", "+"} \cap {BackTick, "~"} = {}
    /\ {"-", "*", "+"} \cap {"#"} = {} /\ Blank \cap {"#"} = {}
    /\ "[" \notin Blank /\ "[" \notin {"-", "*", "_"}
BY DEF BackTick, Blank

\* A task is no fence, whose first character would be that of a fence and is the mark of a bullet.
LEMMA TaskIsNoFence ==
    ASSUME NEW w \in Texts, TaskLen(w) > 0
    PROVE  ~FENCE(w)
<1> DEFINE i == Run(w, 0, Blank)
           gap == Run(w, i + 1, Blank)
           b == BulletLen(w)
           n == Len(w)
           t == Slice(w, i, i + 3)
<1>1. i \in Nat /\ gap \in Nat /\ b \in Nat /\ n \in Nat /\ gap > 0 /\ b = i + 1 + gap /\ b + 3 <= n
  BY TaskParts
<1>2. w[i + 1] \in {"-", "*", "+"}
  BY TaskParts
<1>3. FENCE(w) <=> \E c \in {BackTick, "~"} : t = <<c, c, c>>
  BY DEF FENCE
<1>4. w \in Seq(Characters) /\ Len(w) = n
  BY DEF Texts
<1> HIDE DEF i, gap, b, n
<1>5. t[1] = w[i + 1]
  <2> DEFINE e == i + 3
  <2>1. i \in Nat /\ e \in i..n /\ 1 \in 1..(e - i)
    BY ONLY <1>1
  <2> HIDE DEF e
  <2>2. Slice(w, i, e)[1] = w[i + 1]
    BY ONLY <1>4, <2>1, SliceIs
  <2> QED
    BY ONLY <2>2 DEF e
<1> HIDE DEF t
<1>6. ASSUME NEW c \in {BackTick, "~"}, t = <<c, c, c>>
      PROVE  FALSE
  <2>1. t[1] = c
    BY <1>6
  <2> QED
    BY <1>2, <1>5, <1>6, <2>1, MarksTellApart
<1> QED
  BY <1>3, <1>6

\* A task is no heading: its first character is a blank or the mark of a bullet.
LEMMA TaskIsNoHeading ==
    ASSUME NEW w \in Texts, TaskLen(w) > 0
    PROVE  HeadingLen(w) = 0
<1> DEFINE i == Run(w, 0, Blank)
           level == Run(w, 0, {"#"})
<1>1. i \in Nat
  BY TaskParts
<1>2. w[i + 1] \in {"-", "*", "+"}
  BY TaskParts
<1>3. \A j \in (0 + 1)..(0 + i) : w[j] \in Blank
  BY RunIs
<1>4. level \in Nat /\ \A j \in (0 + 1)..(0 + level) : w[j] \in {"#"}
  BY RunIs
<1> HIDE DEF i, level
<1>5. w[1] \notin {"#"}
  <2>1. CASE i = 0
    <3>1. w[1] \in {"-", "*", "+"}
      BY ONLY <1>2, <2>1
    <3> QED
      BY ONLY <3>1, MarksTellApart
  <2>2. CASE i # 0
    <3>1. 1 \in (0 + 1)..(0 + i)
      BY ONLY <1>1, <2>2
    <3>2. w[1] \in Blank
      BY ONLY <1>3, <3>1, Zenon
    <3> QED
      BY ONLY <3>2, MarksTellApart
  <2> QED
    BY ONLY <2>1, <2>2
<1>6. level = 0
  <2> SUFFICES ASSUME level # 0 PROVE FALSE
    OBVIOUS
  <2>1. level \in Nat
    BY <1>4
  <2>2. 1 \in (0 + 1)..(0 + level)
    BY ONLY <2>1, level # 0
  <2>3. w[1] \in {"#"}
    BY ONLY <1>4, <2>2, Zenon
  <2> QED
    BY ONLY <2>3, <1>5
<1>7. level \notin 1..6
  BY ONLY <1>6
<1> QED
  BY ONLY <1>7 DEF HeadingLen, level

\* A task is no rule: its bracket is no character of one.
LEMMA TaskIsNoRule ==
    ASSUME NEW w \in Texts, TaskLen(w) > 0
    PROVE  ~HR(w)
<1> DEFINE b == BulletLen(w)
           n == Len(w)
           I == {j \in DOMAIN w : w[j] \notin Blank}
           bare == AllBut(w, Blank)
<1>1. b \in Nat /\ n \in Nat /\ b + 3 <= n
  BY TaskParts
<1>2. w[b + 1] = "["
  BY TaskParts
<1>3. w \in Seq(Characters) /\ DOMAIN w = 1..n
  BY DEF Texts
<1>4. bare = PickAt(w, I)
  BY DEF AllBut
<1>5. HR(w) => \E c \in {"-", "*", "_"} : \A k \in 1..Len(bare) : bare[k] = c
  BY DEF HR
<1> HIDE DEF b, n, bare
<1>6. bare \in Seq(Characters) /\ Range(bare) = {w[k] : k \in {j \in DOMAIN w : j \in I}}
  BY ONLY <1>3, <1>4, PickAtRange
<1>7. b + 1 \in I
  <2>1. b + 1 \in 1..n
    BY ONLY <1>1
  <2> QED
    BY ONLY <1>2, <1>3, <2>1, MarksTellApart
<1>8. "[" \in Range(bare)
  BY ONLY <1>2, <1>6, <1>7
<1>9. PICK k \in DOMAIN bare : bare[k] = "["
  BY ONLY <1>8 DEF Range
<1>10. k \in 1..Len(bare)
  BY ONLY <1>6, k \in DOMAIN bare
<1> SUFFICES ASSUME HR(w) PROVE FALSE
  OBVIOUS
<1>11. PICK c \in {"-", "*", "_"} : \A m \in 1..Len(bare) : bare[m] = c
  BY <1>5
<1>12. bare[k] = c
  BY ONLY <1>10, <1>11, Zenon
<1> QED
  BY <1>9, <1>11, <1>12, MarksTellApart

\* So it is shown as a task, wherever no fence holds it (blockOf).
LEMMA TaskIsShown ==
    ASSUME NEW w \in Texts, TaskLen(w) > 0
    PROVE  ~FENCE(w) /\ BlockOf(w).kind = "task"
<1>1. ~FENCE(w) /\ ~HR(w) /\ HeadingLen(w) = 0
  BY TaskIsNoFence, TaskIsNoRule, TaskIsNoHeading
<1>2. ~(HeadingLen(w) > 0)
  BY ONLY <1>1
<1>3. TaskLen(w) > 0
  OBVIOUS
<1>4. BlockOf(w) = [kind |-> "task", width |-> TaskLen(w)]
  BY ONLY <1>1, <1>2, <1>3, Zenon DEF BlockOf
<1> QED
  BY <1>1, <1>4

\* A line shown as a task is one, and no fence holds it.
LEMMA ShownIsTask ==
    ASSUME NEW w \in Texts, NEW inFence, DecorateLine(w, inFence).kind = "task"
    PROVE  ~FENCE(w) /\ ~inFence /\ TaskLen(w) > 0
<1>1. CASE FENCE(w)
  <2>1. DecorateLine(w, inFence).kind = "fence"
    BY <1>1 DEF DecorateLine
  <2> QED
    BY <2>1
<1>2. CASE ~FENCE(w) /\ inFence
  <2>1. DecorateLine(w, inFence).kind = "code"
    BY <1>2 DEF DecorateLine
  <2> QED
    BY <2>1
<1>3. CASE ~FENCE(w) /\ ~inFence
  <2>1. DecorateLine(w, inFence).kind = BlockOf(w).kind
    BY <1>3 DEF DecorateLine
  <2>2. BlockOf(w).kind = "task"
    BY <2>1
  <2> DEFINE level == Run(w, 0, {"#"})
             h == HeadingLen(w) > 0
             t == TaskLen(w) > 0
  <2>3. h => level \in 1..6
    <3> DEFINE g == Run(w, level, Blank)
               is == level \in 1..6 /\ g > 0
    <3>1. HeadingLen(w) = IF is THEN level + g ELSE 0
      BY DEF HeadingLen
    <3> HIDE DEF is
    <3>2. ~is => HeadingLen(w) = 0
      BY ONLY <3>1, Zenon
    <3>3. ~is => ~(HeadingLen(w) > 0)
      BY ONLY <3>2
    <3> QED
      BY <3>3 DEF is
  <2>4. level \in 1..6 => Headings[level] # "task"
    <3>1. \A k \in 1..6 : Headings[k] \in {"h1", "h2", "h3", "h4", "h5", "h6"}
      BY DEF Headings
    <3> QED
      BY <3>1
  <2> HIDE DEF level, h, t
  <2>5. ~h
    <3> SUFFICES ASSUME h PROVE FALSE
      OBVIOUS
    <3>1. Headings[level] # "task"
      BY <2>3, <2>4
    <3>2. BlockOf(w).kind = (IF HR(w) THEN "hr" ELSE Headings[level])
      BY DEF BlockOf, h, level
    <3> QED
      BY <2>2, <3>1, <3>2
  <2>6. t
    <3> SUFFICES ASSUME ~t PROVE FALSE
      OBVIOUS
    <3>1. BlockOf(w).kind \in {"hr", "bullet", "ordered", "quote", "paragraph"}
      BY <2>5 DEF BlockOf, h, t
    <3> QED
      BY <2>2, <3>1
  <2> QED
    BY <1>3, <2>6 DEF t
<1> QED
  BY <1>1, <1>2, <1>3

\* The words of a text whose first characters are no words are those of the rest.
LEMMA WordsBehind ==
    ASSUME NEW v \in Texts, NEW k \in 0..Len(v), MuteTo(v, k)
    PROVE  Words(v) = Words(From(v, k))
<1> DEFINE p == Slice(v, 0, k)
           r == From(v, k)
<1>1. v = p \o r /\ r \in Texts
  BY TextCut
<1>2. 0 \in Nat /\ k \in Nat /\ 0 <= k /\ k <= Len(v)
  BY DEF Texts
<1>3. \A j \in (0 + 1)..k : v[j] \in Mute
  BY DEF MuteTo
<1>4. p \in MuteTexts
  <2> HIDE DEF p
  <2>1. Slice(v, 0, k) \in MuteTexts
    BY ONLY <1>2, <1>3, v \in Texts, SliceIsMute
  <2> QED
    BY ONLY <2>1 DEF p
<1> HIDE DEF p, r
<1>5. Words(p \o r) = Words(r)
  BY ONLY <1>1, <1>4, MuteAround
<1> QED
  BY ONLY <1>1, <1>5 DEF r

\* A box holds no word: a line ticked keeps its words (toggleTask).
LEMMA TickedKeepsWords ==
    ASSUME NEW w \in Texts, TaskLen(w) > 0, NEW x, x \in {" ", "x"}
    PROVE  /\ Ticked(w, x) \in Texts /\ Len(Ticked(w, x)) = Len(w)
           /\ Words(Ticked(w, x)) = Words(w)
<1> DEFINE v == Ticked(w, x)
           b == BulletLen(w)
           T == TaskLen(w)
           n == Len(w)
           last == Run(w, b + 3, Blank)
<1>1. b \in Nat /\ n \in Nat /\ last \in Nat /\ T = b + 3 + last
  BY TaskParts
<1>2. T \in 0..n
  BY WidthsFit
<1>3. x \in Characters
  BY DEF Characters, WORD, Letter, Blank
<1>4. v \in Texts /\ Len(v) = n /\ \A k \in 1..n : k # b + 2 => v[k] = w[k]
  BY <1>3, TickedIs
<1>5. TaskLen(v) = T
  BY TickedRuns
<1>6. MuteTo(w, T) /\ MuteTo(v, TaskLen(v))
  BY <1>4, TaskIsMute
<1>7. w \in Texts /\ Len(w) = n
  OBVIOUS
<1> HIDE DEF v, b, T, n, last
<1>8. Words(w) = Words(From(w, T))
  BY ONLY <1>2, <1>6, <1>7, WordsBehind
<1>9. Words(v) = Words(From(v, T))
  BY ONLY <1>2, <1>4, <1>5, <1>6, WordsBehind
<1>10. From(v, T) = From(w, T)
  <2> DEFINE f == From(v, T)
             g == From(w, T)
             d == n - T
  <2>1. f \in Texts /\ Len(f) = d /\ \A k \in 1..d : f[k] = v[T + k]
    BY ONLY <1>2, <1>4, TextCut
  <2>2. g \in Texts /\ Len(g) = d /\ \A k \in 1..d : g[k] = w[T + k]
    BY ONLY <1>2, <1>7, TextCut
  <2>3. f \in Seq(Characters) /\ g \in Seq(Characters)
    BY ONLY <2>1, <2>2 DEF Texts
  <2> HIDE DEF f, g
  <2>4. \A k \in 1..d : T + k \in 1..n /\ T + k # b + 2
    BY ONLY <1>1, <1>2
  <2>5. \A k \in 1..d : f[k] = g[k]
    BY ONLY <2>1, <2>2, <2>4, <1>4
  <2>6. Len(f) = Len(g) /\ \A k \in 1..Len(f) : f[k] = g[k]
    BY ONLY <2>1, <2>2, <2>5
  <2>7. f = g
    BY ONLY <2>3, <2>6, SeqEqual
  <2> QED
    BY ONLY <2>7 DEF f, g
<1>11. Words(v) = Words(w)
  BY ONLY <1>8, <1>9, <1>10
<1> QED
  BY <1>4, <1>11 DEF v, n

\* A line ticked stays a line.
LEMMA TickedIsALine ==
    ASSUME NEW w \in Texts, w \in Seq(Plain), TaskLen(w) > 0, NEW x, x \in {" ", "x"}
    PROVE  Ticked(w, x) \in Seq(Plain)
<1> DEFINE v == Ticked(w, x)
           b == BulletLen(w)
           n == Len(w)
<1>1. x \in Plain /\ x \in Characters
  BY DEF Plain, NL, Characters, WORD, Letter, Blank
<1>2. v \in Texts /\ Len(v) = n /\ v[b + 2] = x /\ \A k \in 1..n : k # b + 2 => v[k] = w[k]
  BY <1>1, TickedIs
<1>3. \A k \in 1..n : w[k] \in Plain
  BY ONLY w \in Seq(Plain)
<1>4. v \in Seq(Characters)
  BY <1>2 DEF Texts
<1> HIDE DEF v, b, n
<1>5. \A k \in 1..n : v[k] \in Plain
  BY ONLY <1>1, <1>2, <1>3
<1>6. n \in Nat /\ v = [k \in 1..n |-> v[k]]
  BY ONLY <1>2, <1>4
<1>7. v \in Seq(Plain)
  BY ONLY <1>5, <1>6
<1> QED
  BY <1>7 DEF v

\* The lines with the box of one of them changed.
OtherMark(w) == IF w[BulletLen(w) + 2] = " " THEN "x" ELSE " "
TickedLines(lines, i) == [lines EXCEPT ![i] = Ticked(lines[i], OtherMark(lines[i]))]

\* The mark a click leaves is a blank or an x.
LEMMA OtherMarkIs == ASSUME NEW w PROVE OtherMark(w) \in {" ", "x"}
BY DEF OtherMark

\* What toggleTask makes of a line that is a task.
LEMMA ToggleIs ==
    ASSUME NEW src \in Texts, NEW i \in 1..Len(LinesOf(src)), TaskLen(LinesOf(src)[i]) > 0
    PROVE  ToggleTask(src, LineStarts(LinesOf(src))[i]) = SerializeLines(TickedLines(LinesOf(src), i))
<1> DEFINE lines == LinesOf(src)
           starts == LineStarts(lines)
           offset == starts[i]
           box == BulletLen(lines[i]) + 2
           mark == IF lines[i][box] = " " THEN "x" ELSE " "
           ticked == [lines EXCEPT ![i] = [lines[i] EXCEPT ![box] = mark]]
           T == ToggleTask(src, offset)
<1>1. lines \in Seq(Texts) /\ i \in 1..Len(lines)
  BY LinesAre
<1>2. LineIndexAt(starts, offset) = i
  BY <1>1, LineIndexOfStart
<1>3. T = IF TaskLen(lines[i]) > 0 THEN SerializeLines(ticked) ELSE src
  BY <1>2 DEF ToggleTask
<1>4. ticked = TickedLines(lines, i)
  BY DEF TickedLines, Ticked, OtherMark
<1>5. TaskLen(lines[i]) > 0
  OBVIOUS
<1> HIDE DEF ticked, T, lines
<1>6. T = SerializeLines(TickedLines(lines, i))
  BY ONLY <1>3, <1>4, <1>5
<1> QED
  BY <1>6 DEF T, offset, starts, lines

\* The lines of it: one changes, none comes or goes, and the words and the length stay.
LEMMA TickedLinesAre ==
    ASSUME NEW lines \in Pages, NEW i \in 1..Len(lines), TaskLen(lines[i]) > 0
    PROVE  LET p == TickedLines(lines, i)
           IN  /\ p \in Pages /\ Len(p) = Len(lines)
               /\ p[i] = Ticked(lines[i], OtherMark(lines[i]))
               /\ \A k \in 1..Len(lines) : k # i => p[k] = lines[k]
               /\ Words(SerializeLines(p)) = Words(SerializeLines(lines))
               /\ Len(SerializeLines(p)) = Len(SerializeLines(lines))
<1> DEFINE w == lines[i]
           x == OtherMark(w)
           v == Ticked(w, x)
           p == TickedLines(lines, i)
           n == Len(lines)
<1>1. lines \in Seq(Seq(Plain)) /\ lines # <<>> /\ lines \in Seq(Texts)
  BY PlainTexts DEF Pages
<1>2. w \in Seq(Plain) /\ w \in Texts
  BY <1>1
<1>3. x \in {" ", "x"}
  BY OtherMarkIs
<1>4. TaskLen(w) > 0 /\ i \in 1..n
  OBVIOUS
<1>5. p = [lines EXCEPT ![i] = v]
  BY DEF TickedLines
<1> HIDE DEF w, x, p
<1>6. v \in Texts /\ Len(v) = Len(w) /\ Words(v) = Words(w)
  BY ONLY <1>2, <1>3, <1>4, TickedKeepsWords
<1>7. v \in Seq(Plain)
  BY ONLY <1>2, <1>3, <1>4, TickedIsALine
<1> HIDE DEF v
<1>8. n \in Nat /\ lines \in [1..n -> Seq(Plain)] /\ n > 0
  BY ONLY <1>1 DEF n
<1> HIDE DEF n
<1>9. p \in [1..n -> Seq(Plain)] /\ p[i] = v /\ \A k \in 1..n : k # i => p[k] = lines[k]
  BY ONLY <1>4, <1>5, <1>7, <1>8, Zenon
<1>10. p \in Seq(Seq(Plain)) /\ Len(p) = n
  BY ONLY <1>8, <1>9
<1>11. p # <<>>
  BY ONLY <1>8, <1>10
<1>12. p \in Pages
  BY ONLY <1>10, <1>11 DEF Pages
<1>13. p \in Seq(Texts)
  BY ONLY <1>10, PlainTexts
<1>14. Len(lines) = n /\ lines[i] = w
  BY DEF n, w
<1>15. Len(p) = Len(lines)
  BY ONLY <1>10, <1>14
<1>16. \A k \in 1..Len(p) : Words(p[k]) = Words(lines[k])
  <2>1. \A k \in 1..n : Words(p[k]) = Words(lines[k])
    BY ONLY <1>6, <1>9, <1>14
  <2> QED
    BY ONLY <2>1, <1>10
<1>17. \A k \in 1..Len(p) : Len(p[k]) = Len(lines[k])
  <2>1. \A k \in 1..n : Len(p[k]) = Len(lines[k])
    BY ONLY <1>6, <1>9, <1>14
  <2> QED
    BY ONLY <2>1, <1>10
<1>18. Words(SerializeLines(p)) = Words(SerializeLines(lines))
  BY ONLY <1>1, <1>11, <1>13, <1>15, <1>16, SameWordsOfTexts
<1>19. Len(SerializeLines(p)) = Len(SerializeLines(lines))
  BY ONLY <1>1, <1>11, <1>13, <1>15, <1>17, SameLengths
<1> QED
  BY <1>9, <1>12, <1>15, <1>18, <1>19 DEF p, v, x, w, n

\* The kinds of lines, as TickKeepsTheTask compares them.
KindsOf(lines) == LET d == Decorate(lines) IN [k \in DOMAIN d |-> d[k].kind]

\* The kinds, line by line.
LEMMA KindsAre ==
    ASSUME NEW lines, Len(lines) \in Nat
    PROVE  KindsOf(lines) = [k \in 1..Len(lines) |-> DecorateLine(lines[k], InFence(lines, k)).kind]
BY DEF KindsOf, Decorate

\* A line shown as a task is shown as one when its box has changed, and so is every other line as
\* what it was: the line was no fence, and is none.
LEMMA TickedKinds ==
    ASSUME NEW lines \in Pages, NEW i \in 1..Len(lines),
           DecorateLine(lines[i], InFence(lines, i)).kind = "task"
    PROVE  KindsOf(TickedLines(lines, i)) = KindsOf(lines)
<1> DEFINE w == lines[i]
           x == OtherMark(w)
           v == Ticked(w, x)
           p == TickedLines(lines, i)
           n == Len(lines)
<1>1. lines \in Seq(Texts) /\ n \in Nat
  BY PlainTexts DEF Pages
<1>2. w \in Texts
  BY <1>1
<1>3. x \in {" ", "x"}
  BY OtherMarkIs
<1>4. ~FENCE(w) /\ ~InFence(lines, i) /\ TaskLen(w) > 0
  BY <1>2, ShownIsTask
<1>5. Len(p) = n /\ p[i] = v /\ \A k \in 1..n : k # i => p[k] = lines[k]
  BY <1>4, TickedLinesAre
<1>6. v \in Texts /\ TaskLen(v) = TaskLen(w)
  BY <1>2, <1>3, <1>4, TickedRuns
<1>7. ~FENCE(v) /\ BlockOf(v).kind = "task"
  BY <1>4, <1>6, TaskIsShown
<1>8. i \in 1..n /\ lines[i] = w /\ Len(lines) = n /\ DecorateLine(lines[i], InFence(lines, i)).kind = "task"
  OBVIOUS
<1>80. KindsOf(lines) = [k \in 1..Len(lines) |-> DecorateLine(lines[k], InFence(lines, k)).kind]
  BY <1>1, KindsAre
<1> HIDE DEF w, x, v, p, n
<1>9. \A k \in 1..n : FENCE(p[k]) <=> FENCE(lines[k])
  BY ONLY <1>4, <1>5, <1>7, <1>8
<1>10. \A k \in 1..n : InFence(p, k) <=> InFence(lines, k)
  <2> SUFFICES ASSUME NEW k \in 1..n PROVE InFence(p, k) <=> InFence(lines, k)
    OBVIOUS
  <2>1. \A j \in 1..k - 1 : j \in 1..n
    BY ONLY <1>1, k \in 1..n
  <2>2. {j \in 1..k - 1 : FENCE(p[j])} = {j \in 1..k - 1 : FENCE(lines[j])}
    BY ONLY <2>1, <1>9
  <2> QED
    BY ONLY <2>2 DEF InFence
<1>11. DecorateLine(v, InFence(p, i)).kind = "task"
  <2>1. ~InFence(p, i)
    BY ONLY <1>4, <1>8, <1>10
  <2> QED
    BY ONLY <1>7, <2>1 DEF DecorateLine
<1>12. \A k \in 1..n : DecorateLine(p[k], InFence(p, k)).kind = DecorateLine(lines[k], InFence(lines, k)).kind
  <2> SUFFICES ASSUME NEW k \in 1..n
               PROVE  DecorateLine(p[k], InFence(p, k)).kind = DecorateLine(lines[k], InFence(lines, k)).kind
    OBVIOUS
  <2>1. CASE k = i
    BY ONLY <1>5, <1>8, <1>11, <2>1
  <2>2. CASE k # i
    <3>1. p[k] = lines[k] /\ (InFence(p, k) <=> InFence(lines, k))
      BY ONLY <1>5, <1>10, <2>2, k \in 1..n
    <3>2. DecorateLine(lines[k], InFence(p, k)).kind = DecorateLine(lines[k], InFence(lines, k)).kind
      BY ONLY <3>1 DEF DecorateLine
    <3> QED
      BY ONLY <3>1, <3>2
  <2> QED
    BY ONLY <2>1, <2>2
<1>13. KindsOf(p) = [k \in 1..Len(p) |-> DecorateLine(p[k], InFence(p, k)).kind]
  <2>1. Len(p) \in Nat
    BY ONLY <1>1, <1>5
  <2> QED
    BY ONLY <2>1, KindsAre
<1>14. KindsOf(p) = KindsOf(lines)
  BY ONLY <1>5, <1>8, <1>12, <1>13, <1>80
<1> QED
  BY ONLY <1>14 DEF p

\* The three kinds of commands.
LEMMA CommandsDiffer ==
    /\ InlineCommands \cap BlockCommands = {}
    /\ {"link", "fence", "hr", "tick", "nothing"} \cap (InlineCommands \cup BlockCommands) = {}
    /\ "tick" \notin NOTE_COMMANDS
BY DEF NOTE_COMMANDS, InlineCommands, BlockCommands, INLINE_MARKS, BLOCK_PREFIX

\* A click on the box of a line shown as a task.
LEMMA ToggleKeeps ==
    ASSUME NEW src \in Texts, NEW i \in 1..Len(LinesOf(src)),
           Decorate(LinesOf(src))[i].kind = "task"
    PROVE  LET t == ToggleTask(src, LineStarts(LinesOf(src))[i])
           IN  Words(t) = Words(src) /\ Len(t) = Len(src) /\ KindsOf(LinesOf(t)) = KindsOf(LinesOf(src))
<1> DEFINE lines == LinesOf(src)
           p == TickedLines(lines, i)
           t == ToggleTask(src, LineStarts(lines)[i])
<1>1. lines \in Pages /\ i \in 1..Len(lines)
  BY LinesOfIs
<1>2. lines[i] \in Texts
  BY LinesAre
<1>3. DecorateLine(lines[i], InFence(lines, i)).kind = "task"
  BY DEF Decorate
<1>4. TaskLen(lines[i]) > 0
  <2> HIDE DEF lines
  <2> QED
    BY ONLY <1>2, <1>3, ShownIsTask
<1>5. t = SerializeLines(p)
  BY <1>4, ToggleIs
<1>6. SerializeLines(lines) = src
  BY PutTogether
<1> HIDE DEF lines, t
<1>7. /\ p \in Pages /\ Words(SerializeLines(p)) = Words(SerializeLines(lines))
      /\ Len(SerializeLines(p)) = Len(SerializeLines(lines))
  BY ONLY <1>1, <1>4, TickedLinesAre
<1>8. KindsOf(p) = KindsOf(lines)
  BY ONLY <1>1, <1>3, TickedKinds
<1> HIDE DEF p
<1>9. LinesOf(t) = p
  BY ONLY <1>5, <1>7, ReadBack
<1>10. Words(t) = Words(src) /\ Len(t) = Len(src) /\ KindsOf(LinesOf(t)) = KindsOf(lines)
  BY ONLY <1>5, <1>6, <1>7, <1>8, <1>9
<1> QED
  BY ONLY <1>10 DEF t, lines

\* TickKeepsTheTask by the kinds above.
LEMMA TickKeepsIs ==
    TickKeepsTheTask <=> (pressed' = "tick" =>
        KindsOf(LinesOf(noteText')) = KindsOf(LinesOf(noteText)) /\ Len(noteText') = Len(noteText))
BY DEF TickKeepsTheTask, KindsOf

\* The words after a command, of whichever kind it is.
LEMMA CommandKeepsWords ==
    ASSUME NEW src, NEW s, Fits(src, s), NEW cmd \in NOTE_COMMANDS
    PROVE  LET e == RunCommand(cmd, src, s)
           IN  /\ Words(e.text) = Words(src)
               /\ cmd \in InlineCommands => SameWords(e, src, s)
               /\ cmd \in BlockCommands => BlockFollows(e, src, s)
<1> DEFINE e == RunCommand(cmd, src, s)
<1>1. CASE cmd \in InlineCommands
  <2>1. e = ApplyInline(src, s, cmd)
    BY <1>1 DEF RunCommand
  <2>2. SameWords(e, src, s)
    BY <1>1, <2>1, InlineKeepsWords
  <2>3. cmd \notin BlockCommands
    BY <1>1, CommandsDiffer
  <2> HIDE DEF e
  <2>4. Words(e.text) = Words(src)
    BY ONLY <2>2 DEF SameWords
  <2> QED
    BY <2>2, <2>3, <2>4 DEF e
<1>2. CASE cmd \in BlockCommands
  <2>1. cmd \notin InlineCommands
    BY <1>2, CommandsDiffer
  <2>2. e = ApplyBlock(src, s, cmd)
    BY <1>2, <2>1 DEF RunCommand
  <2>3. BlockFollows(e, src, s)
    BY <1>2, <2>2, BlockKeepsWords
  <2> HIDE DEF e
  <2>4. Words(e.text) = Words(src)
    BY ONLY <2>3 DEF BlockFollows
  <2> QED
    BY <2>1, <2>3, <2>4 DEF e
<1>3. CASE cmd \notin InlineCommands /\ cmd \notin BlockCommands /\ cmd = "link"
  <2>1. e = ApplyLink(src, s)
    BY <1>3 DEF RunCommand
  <2> HIDE DEF e
  <2>2. Words(e.text) = Words(src)
    BY <2>1, LinkKeepsWords
  <2> QED
    BY <1>3, <2>2 DEF e
<1>4. CASE cmd \notin InlineCommands /\ cmd \notin BlockCommands /\ cmd # "link"
  <2>1. e = InsertBlock(src, s, cmd)
    BY <1>4 DEF RunCommand
  <2> HIDE DEF e
  <2>2. Words(e.text) = Words(src)
    BY <2>1, InsertKeepsWords
  <2> QED
    BY <1>4, <2>2 DEF e
<1> QED
  BY <1>1, <1>2, <1>3, <1>4

\* What every step keeps, from the invariant: the words, what was chosen of them, and a task its kind.
LEMMA StepKeepsTheWords ==
    CommandsInv /\ [NoteCommandsNext]_commandVars
      => [WordsSurvive /\ SelectionFollowsTheWords /\ TickKeepsTheTask]_commandVars
<1> SUFFICES ASSUME CommandsInv, NoteCommandsNext
             PROVE  WordsSurvive /\ SelectionFollowsTheWords /\ TickKeepsTheTask
  OBVIOUS
<1>1. Fits(noteText, sel) /\ presses \in Nat
  BY PressesAssumption DEF CommandsInv
<1>2. noteText \in Texts
  BY <1>1 DEF Fits
<1>3. ASSUME NEW start \in 0..Len(noteText), NEW end \in start..Len(noteText), Select(start, end)
      PROVE  WordsSurvive /\ SelectionFollowsTheWords /\ TickKeepsTheTask
  <2>1. noteText' = noteText /\ pressed' = "nothing" /\ presses' = presses
    BY <1>3 DEF Select
  <2>2. ~(presses' > presses)
    BY ONLY <1>1, <2>1
  <2>3. WordsSurvive
    BY <2>1 DEF WordsSurvive
  <2>4. SelectionFollowsTheWords
    BY <2>2 DEF SelectionFollowsTheWords
  <2>5. TickKeepsTheTask
    BY <2>1, TickKeepsIs
  <2> QED
    BY <2>3, <2>4, <2>5
<1>4. ASSUME NEW cmd \in NOTE_COMMANDS, Press(cmd)
      PROVE  WordsSurvive /\ SelectionFollowsTheWords /\ TickKeepsTheTask
  <2> DEFINE e == RunCommand(cmd, noteText, sel)
  <2>1. noteText' = e.text /\ sel' = e.selection /\ pressed' = cmd
    BY <1>4 DEF Press
  <2>2. /\ Words(e.text) = Words(noteText)
        /\ cmd \in InlineCommands => SameWords(e, noteText, sel)
        /\ cmd \in BlockCommands => BlockFollows(e, noteText, sel)
    BY <1>1, CommandKeepsWords
  <2> HIDE DEF e
  <2>3. WordsSurvive
    BY ONLY <2>1, <2>2 DEF WordsSurvive
  <2>4. cmd # "tick"
    BY CommandsDiffer
  <2>5. TickKeepsTheTask
    BY <2>1, <2>4, TickKeepsIs
  <2>6. CASE cmd \in InlineCommands
    <3>1. cmd \notin BlockCommands
      BY <2>6, CommandsDiffer
    <3>2. /\ Before(noteText', sel') = Before(noteText, sel)
          /\ Chosen(noteText', sel') = Chosen(noteText, sel)
      BY ONLY <2>1, <2>2, <2>6 DEF SameWords
    <3> QED
      BY ONLY <2>1, <3>1, <3>2, <2>3, <2>5 DEF SelectionFollowsTheWords
  <2>7. CASE cmd \in BlockCommands
    <3>1. IF SpansLines(noteText, sel)
          THEN /\ IsPrefix(Before(noteText', sel'), Before(noteText, sel))
               /\ IsSuffix(After(noteText', sel'), After(noteText, sel))
          ELSE /\ Before(noteText', sel') = Before(noteText, sel)
               /\ Chosen(noteText', sel') = Chosen(noteText, sel)
      BY ONLY <2>1, <2>2, <2>7 DEF BlockFollows
    <3> QED
      BY ONLY <2>1, <2>7, <3>1, <2>3, <2>5 DEF SelectionFollowsTheWords
  <2>8. CASE cmd \notin InlineCommands \cup BlockCommands
    BY ONLY <2>1, <2>8, <2>3, <2>5 DEF SelectionFollowsTheWords
  <2> QED
    BY ONLY <2>6, <2>7, <2>8
<1>5. ASSUME NEW i \in 1..Len(noteText), Tick(i)
      PROVE  WordsSurvive /\ SelectionFollowsTheWords /\ TickKeepsTheTask
  <2> DEFINE lines == LinesOf(noteText)
             t == ToggleTask(noteText, LineStarts(lines)[i])
  <2>1. i \in DOMAIN lines /\ Decorate(lines)[i].kind = "task" /\ noteText' = t /\ pressed' = "tick"
    BY <1>5 DEF Tick
  <2>2. i \in 1..Len(lines)
    BY <1>2, <2>1, LinesAre
  <2>3. Words(t) = Words(noteText) /\ Len(t) = Len(noteText) /\ KindsOf(LinesOf(t)) = KindsOf(lines)
    BY <1>2, <2>1, <2>2, ToggleKeeps
  <2> HIDE DEF t
  <2>4. WordsSurvive
    BY ONLY <2>1, <2>3 DEF WordsSurvive
  <2>5. TickKeepsTheTask
    BY ONLY <2>1, <2>3, TickKeepsIs
  <2>6. pressed' \notin InlineCommands \cup BlockCommands
    BY <2>1, CommandsDiffer
  <2>7. SelectionFollowsTheWords
    BY ONLY <2>6 DEF SelectionFollowsTheWords
  <2> QED
    BY <2>4, <2>5, <2>7
<1> QED
  BY <1>3, <1>4, <1>5 DEF NoteCommandsNext

\* Commands and clicks, in any sequence, change markers only: no command loses a word of the note
\* (lib/note_commands.js), the selection stays on its words, and a box stays a box.
THEOREM WordsAreAlwaysKept == NoteCommandsSpec => CommandsKeepTheWords
<1>1. NoteCommandsInit => CommandsInv
  BY CommandsStart
<1>2. CommandsInv /\ [NoteCommandsNext]_commandVars => CommandsInv'
  BY CommandsKeep
<1>3. CommandsInv /\ [NoteCommandsNext]_commandVars
        => [WordsSurvive /\ SelectionFollowsTheWords /\ TickKeepsTheTask]_commandVars
  BY StepKeepsTheWords
<1> QED
  BY <1>1, <1>2, <1>3, PTL DEF NoteCommandsSpec, CommandsKeepTheWords
=============================================================================
