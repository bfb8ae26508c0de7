----------------------------- MODULE ListLemmas -----------------------------
(***************************************************************************)
(* What the operators that the models share do to a list: what it holds    *)
(* and whether an element stands in it twice.                              *)
(***************************************************************************)
EXTENDS Integers, SequencesExt, Lists, TLAPS,
        SequenceTheorems, FiniteSetTheorems, WellFoundedInduction

(* A sequence that is appended to holds what it held and the new element. *)
LEMMA AppendRange ==
    ASSUME NEW K, NEW s \in Seq(K), NEW e
    PROVE  Range(Append(s, e)) = Range(s) \cup {e}
<1>1. /\ Len(Append(s, e)) = Len(s) + 1 /\ DOMAIN Append(s, e) = 1..(Len(s) + 1)
      /\ \A i \in 1..Len(s) : Append(s, e)[i] = s[i]
      /\ Append(s, e)[Len(s) + 1] = e
      /\ Len(s) \in Nat /\ DOMAIN s = 1..Len(s)
  OBVIOUS
<1>2. 1..(Len(s) + 1) = 1..Len(s) \cup {Len(s) + 1}
  BY <1>1
<1> QED
  BY <1>1, <1>2 DEF Range

(* The head of a stream is one of its elements, and the tail keeps the others. *)
LEMMA TailRange ==
    ASSUME NEW K, NEW s \in Seq(K), s # <<>>
    PROVE  /\ Tail(s) \in Seq(K) /\ Head(s) \in Range(s)
           /\ Range(Tail(s)) \subseteq Range(s)
           /\ Range(s) \subseteq Range(Tail(s)) \cup {Head(s)}
<1>1. /\ Tail(s) \in Seq(K) /\ Len(Tail(s)) = Len(s) - 1 /\ Len(s) \in Nat \ {0}
      /\ \A i \in 1..(Len(s) - 1) : Tail(s)[i] = s[i + 1]
      /\ Head(s) = s[1] /\ DOMAIN s = 1..Len(s) /\ DOMAIN Tail(s) = 1..(Len(s) - 1)
  OBVIOUS
<1>2. \A i \in 1..Len(s) : i = 1 \/ (i - 1 \in 1..(Len(s) - 1) /\ (i - 1) + 1 = i)
  BY <1>1
<1>3. \A i \in 1..(Len(s) - 1) : i + 1 \in 1..Len(s)
  BY <1>1
<1>4. 1 \in 1..Len(s)
  BY <1>1
<1> DEFINE t == Tail(s)
<1> HIDE DEF t
<1>5. \A i \in 1..(Len(s) - 1) : t[i] = s[i + 1]
  BY <1>1 DEF t
<1>6. Range(t) \subseteq Range(s)
  BY <1>1, <1>3, <1>5 DEF Range, t
<1>7. \A i \in 1..Len(s) : s[i] \in Range(t) \/ s[i] = Head(s)
  <2> SUFFICES ASSUME NEW i \in 1..Len(s), i # 1 PROVE s[i] \in Range(t)
    BY <1>1
  <2>1. i - 1 \in 1..(Len(s) - 1) /\ (i - 1) + 1 = i
    BY <1>1
  <2>2. t[i - 1] = s[i] /\ i - 1 \in DOMAIN t
    BY <1>1, <1>5, <2>1 DEF t
  <2> QED
    BY <2>2 DEF Range
<1> QED
  BY <1>1, <1>4, <1>6, <1>7 DEF Range, t

(* What is left when one element of a list is taken out. *)
LEMMA RemoveAtRange ==
    ASSUME NEW K, NEW s \in Seq(K), NEW i \in 1..Len(s)
    PROVE  /\ RemoveAt(s, i) \in Seq(K) /\ Len(RemoveAt(s, i)) = Len(s) - 1
           /\ Range(RemoveAt(s, i)) \subseteq Range(s)
           /\ Range(s) \subseteq Range(RemoveAt(s, i)) \cup {s[i]}
           /\ IsInjective(s) => IsInjective(RemoveAt(s, i)) /\ s[i] \notin Range(RemoveAt(s, i))
<1> DEFINE n == Len(s)
           t == RemoveAt(s, i)
           p == SubSeq(s, 1, i - 1)
           q == SubSeq(s, i + 1, n)
<1>1. n \in Nat /\ n > 0 /\ DOMAIN s = 1..n /\ i \in 1..n /\ \A j \in 1..n : s[j] \in K
  OBVIOUS
<1> HIDE DEF n
<1>11. p \in Seq(K) /\ Len(p) = i - 1 /\ \A j \in 1..(i - 1) : p[j] = s[j]
  <2>1. \A j \in 1..(i - 1) : j \in 1..n
    BY <1>1
  <2> QED
    BY <1>1, <2>1, SubSeqProperties
<1>12. q \in Seq(K) /\ Len(q) = n - i /\ \A j \in 1..(n - i) : q[j] = s[i + j]
  <2>1. \A j \in (i + 1)..n : j \in 1..n
    BY <1>1
  <2>2. q \in Seq(K) /\ Len(q) = (IF i + 1 <= n THEN n - (i + 1) + 1 ELSE 0)
        /\ \A j \in 1..(n - (i + 1) + 1) : q[j] = s[(i + 1) + j - 1]
    BY <1>1, <2>1, SubSeqProperties
  <2>3. \A j \in 1..(n - i) : j \in 1..(n - (i + 1) + 1) /\ (i + 1) + j - 1 = i + j
    BY <1>1
  <2> QED
    BY <1>1, <2>2, <2>3
<1>13. t = p \o q
  BY DEF RemoveAt, n
<1> HIDE DEF p, q, t
<1>2. t \in Seq(K) /\ Len(t) = n - 1 /\ DOMAIN t = 1..(n - 1)
      /\ \A j \in 1..(n - 1) : t[j] = IF j <= i - 1 THEN p[j] ELSE q[j - (i - 1)]
  <2>1. t \in Seq(K) /\ Len(t) = (i - 1) + (n - i)
        /\ \A j \in 1..((i - 1) + (n - i)) : t[j] = IF j <= i - 1 THEN p[j] ELSE q[j - (i - 1)]
    BY <1>11, <1>12, <1>13, ConcatProperties
  <2>2. (i - 1) + (n - i) = n - 1
    BY <1>1
  <2> QED
    BY <2>1, <2>2
<1>3. \A j \in 1..(n - 1) : t[j] = IF j < i THEN s[j] ELSE s[j + 1]
  <2> TAKE j \in 1..(n - 1)
  <2>1. CASE j < i
    <3>1. j <= i - 1 /\ j \in 1..(i - 1)
      BY <1>1, <2>1
    <3> QED
      BY <1>11, <1>2, <2>1, <3>1
  <2>2. CASE ~(j < i)
    <3>1. ~(j <= i - 1) /\ j - (i - 1) \in 1..(n - i) /\ i + (j - (i - 1)) = j + 1
      BY <1>1, <2>2
    <3> QED
      BY <1>12, <1>2, <2>2, <3>1
  <2> QED
    BY <2>1, <2>2
<1>4. \A j \in 1..(n - 1) : j \in 1..n /\ j + 1 \in 1..n
  BY <1>1
<1>5. \A j \in 1..n : \/ j < i /\ j \in 1..(n - 1)
                      \/ j = i
                      \/ j - 1 \in 1..(n - 1) /\ ~(j - 1 < i) /\ (j - 1) + 1 = j
  BY <1>1
<1>6. Range(t) \subseteq Range(s)
  <2> SUFFICES ASSUME NEW j \in 1..(n - 1) PROVE t[j] \in Range(s)
    BY <1>2 DEF Range
  <2>1. t[j] = s[j] \/ t[j] = s[j + 1]
    BY <1>3
  <2> QED
    BY <1>1, <1>4, <2>1 DEF Range
<1>7. \A j \in 1..n : s[j] \in Range(t) \/ s[j] = s[i]
  <2> TAKE j \in 1..n
  <2>1. CASE j < i /\ j \in 1..(n - 1)
    BY <1>2, <1>3, <2>1 DEF Range
  <2>2. CASE j - 1 \in 1..(n - 1) /\ ~(j - 1 < i) /\ (j - 1) + 1 = j
    <3>1. t[j - 1] = s[j] /\ j - 1 \in DOMAIN t
      BY <1>2, <1>3, <2>2
    <3> QED
      BY <3>1 DEF Range
  <2> QED
    BY <1>5, <2>1, <2>2
<1>8. ASSUME IsInjective(s) PROVE IsInjective(t) /\ s[i] \notin Range(t)
  <2> DEFINE o(j) == IF j < i THEN j ELSE j + 1
  <2>1. \A j \in 1..(n - 1) : o(j) \in 1..n /\ o(j) # i
    BY <1>1
  <2>2. \A j, k \in 1..(n - 1) : o(j) = o(k) => j = k
    BY <1>1
  <2>3. \A j \in 1..(n - 1) : t[j] = s[o(j)]
    BY <1>3
  <2> HIDE DEF o
  <2>4. \A j, k \in 1..n : s[j] = s[k] => j = k
    BY <1>1, <1>8 DEF IsInjective
  <2>5. IsInjective(t)
    BY <1>2, <2>1, <2>2, <2>3, <2>4 DEF IsInjective
  <2>6. \A j \in 1..(n - 1) : t[j] # s[i]
    BY <1>1, <2>1, <2>3, <2>4
  <2> QED
    BY <1>2, <2>5, <2>6 DEF Range
<1> QED
  BY <1>1, <1>2, <1>6, <1>7, <1>8 DEF Range, t, n

(* A list without repetitions stays so when something new is appended. *)
LEMMA AppendKeepsApart ==
    ASSUME NEW K, NEW s \in Seq(K), NEW e \in K, e \notin Range(s), IsInjective(s)
    PROVE  IsInjective(Append(s, e))
<1>1. /\ DOMAIN Append(s, e) = 1..(Len(s) + 1) /\ Len(s) \in Nat /\ DOMAIN s = 1..Len(s)
      /\ \A i \in 1..Len(s) : Append(s, e)[i] = s[i]
      /\ Append(s, e)[Len(s) + 1] = e
  OBVIOUS
<1>2. 1..(Len(s) + 1) = 1..Len(s) \cup {Len(s) + 1}
  BY <1>1
<1>3. \A i \in 1..Len(s) : s[i] # e
  BY <1>1 DEF Range
<1> QED
  BY <1>1, <1>2, <1>3 DEF IsInjective

(* An order of the same length over the same keys has no key twice either. *)
LEMMA SameKeysApart ==
    ASSUME NEW K, NEW s \in Seq(K), NEW t \in Seq(K), Len(s) = Len(t), Range(s) = Range(t), IsInjective(t)
    PROVE  IsInjective(s)
<1> DEFINE n == Len(t)
           R == Range(t)
<1>1. n \in Nat /\ DOMAIN s = 1..n /\ DOMAIN t = 1..n
  OBVIOUS
<1> HIDE DEF n
<1>2. /\ R = {t[i] : i \in 1..n} /\ R = {s[i] : i \in 1..n}
      /\ t \in [1..n -> R] /\ s \in [1..n -> R]
  <2>1. R = {t[i] : i \in 1..n} /\ R = {s[i] : i \in 1..n}
    BY <1>1 DEF Range
  <2>2. t = [i \in 1..n |-> t[i]] /\ s = [i \in 1..n |-> s[i]]
    BY <1>1
  <2> HIDE DEF R
  <2> QED
    BY <2>1, <2>2
<1>11. t \in Surjection(1..n, R) /\ s \in Surjection(1..n, R)
  BY <1>2 DEF Surjection
<1>12. t \in Injection(1..n, R)
  BY <1>1, <1>2 DEF Injection
<1>3. IsFiniteSet(1..n)
  BY <1>1, FS_Interval
<1>4. s \in Injection(1..n, R)
  BY <1>11, <1>12, <1>3, FS_Surjection
<1> QED
  BY <1>4 DEF Injection

(* What a list holds when one element is put in. *)
LEMMA InsertAtRange ==
    ASSUME NEW K, NEW s \in Seq(K), NEW i \in 1..(Len(s) + 1), NEW e \in K
    PROVE  /\ InsertAt(s, i, e) \in Seq(K) /\ Len(InsertAt(s, i, e)) = Len(s) + 1
           /\ Range(InsertAt(s, i, e)) = Range(s) \cup {e}
<1> DEFINE n == Len(s)
           t == InsertAt(s, i, e)
           p == SubSeq(s, 1, i - 1)
           q == SubSeq(s, i, n)
<1>1. n \in Nat /\ DOMAIN s = 1..n /\ i \in 1..(n + 1) /\ \A j \in 1..n : s[j] \in K
  OBVIOUS
<1> HIDE DEF n
<1>11. p \in Seq(K) /\ Len(p) = i - 1 /\ \A j \in 1..(i - 1) : p[j] = s[j]
  <2>1. \A j \in 1..(i - 1) : j \in 1..n
    BY <1>1
  <2> QED
    BY <1>1, <2>1, SubSeqProperties
<1>12. q \in Seq(K) /\ Len(q) = n - i + 1 /\ \A j \in 1..(n - i + 1) : q[j] = s[i + j - 1]
  <2>1. \A j \in i..n : j \in 1..n
    BY <1>1
  <2> QED
    BY <1>1, <2>1, SubSeqProperties
<1>13. <<e>> \in Seq(K) /\ Len(<<e>>) = 1 /\ <<e>>[1] = e
  OBVIOUS
<1>d. t = (p \o <<e>>) \o q
  BY DEF InsertAt, n
<1> DEFINE r == p \o <<e>>
<1>e. r \in Seq(K) /\ Len(r) = i /\ \A j \in 1..i : r[j] = IF j < i THEN s[j] ELSE e
  <2>1. r \in Seq(K) /\ Len(r) = (i - 1) + 1
        /\ \A j \in 1..((i - 1) + 1) : r[j] = IF j <= i - 1 THEN p[j] ELSE <<e>>[j - (i - 1)]
    <3> HIDE DEF p
    <3> QED
      BY <1>11, <1>13, ConcatProperties
  <2>2. (i - 1) + 1 = i
    BY <1>1
  <2> HIDE DEF r, p
  <2>3. ASSUME NEW j \in 1..i PROVE r[j] = IF j < i THEN s[j] ELSE e
    <3>1. CASE j < i
      <4>1. j <= i - 1 /\ j \in 1..(i - 1)
        BY <1>1, <3>1
      <4> QED
        BY <1>11, <2>1, <2>2, <3>1, <4>1
    <3>2. CASE ~(j < i)
      <4>1. ~(j <= i - 1) /\ j - (i - 1) = 1
        BY <1>1, <3>2
      <4> QED
        BY <1>13, <2>1, <2>2, <3>2, <4>1
    <3> QED
      BY <3>1, <3>2
  <2> QED
    BY <2>1, <2>2, <2>3
<1>f. t = r \o q
  BY <1>d
<1> HIDE DEF p, q, r, t
<1>2. t \in Seq(K) /\ Len(t) = n + 1 /\ DOMAIN t = 1..(n + 1)
      /\ \A j \in 1..(n + 1) : t[j] = IF j <= i THEN r[j] ELSE q[j - i]
  <2>1. t \in Seq(K) /\ Len(t) = i + (n - i + 1)
        /\ \A j \in 1..(i + (n - i + 1)) : t[j] = IF j <= i THEN r[j] ELSE q[j - i]
    <3>1. /\ t \in Seq(K) /\ Len(t) = Len(r) + Len(q)
          /\ \A j \in 1..(Len(r) + Len(q)) : t[j] = IF j <= Len(r) THEN r[j] ELSE q[j - Len(r)]
      BY <1>12, <1>e, <1>f, ConcatProperties
    <3>2. Len(r) = i /\ Len(q) = n - i + 1
      BY <1>12, <1>e
    <3> QED
      BY <3>1, <3>2
  <2>2. i + (n - i + 1) = n + 1
    BY <1>1
  <2> QED
    BY <2>1, <2>2
<1>3. \A j \in 1..(n + 1) : t[j] = IF j < i THEN s[j] ELSE IF j = i THEN e ELSE s[j - 1]
  <2> TAKE j \in 1..(n + 1)
  <2>1. CASE j <= i
    <3>1. j \in 1..i /\ (j < i \/ j = i)
      BY <1>1, <2>1
    <3> QED
      BY <1>1, <1>2, <1>e, <2>1, <3>1
  <2>2. CASE ~(j <= i)
    <3>1. ~(j < i) /\ j # i /\ j - i \in 1..(n - i + 1) /\ i + (j - i) - 1 = j - 1
      BY <1>1, <2>2
    <3> QED
      BY <1>12, <1>2, <2>2, <3>1
  <2> QED
    BY <2>1, <2>2
<1>4. \A j \in 1..n : \/ j < i /\ j \in 1..(n + 1)
                      \/ j + 1 \in 1..(n + 1) /\ ~(j + 1 < i) /\ j + 1 # i /\ (j + 1) - 1 = j
  BY <1>1
<1>5. \A j \in 1..(n + 1) : (j < i => j \in 1..n) /\ (j < i \/ j = i \/ j - 1 \in 1..n)
  BY <1>1
<1>6. i \in 1..(n + 1) /\ ~(i < i)
  BY <1>1
<1>7. e \in Range(t)
  BY <1>2, <1>3, <1>6 DEF Range
<1>8. \A j \in 1..n : s[j] \in Range(t)
  <2> TAKE j \in 1..n
  <2>1. CASE j < i /\ j \in 1..(n + 1)
    BY <1>2, <1>3, <2>1 DEF Range
  <2>2. CASE j + 1 \in 1..(n + 1) /\ ~(j + 1 < i) /\ j + 1 # i /\ (j + 1) - 1 = j
    <3>1. t[j + 1] = s[j] /\ j + 1 \in DOMAIN t
      BY <1>2, <1>3, <2>2
    <3> QED
      BY <3>1 DEF Range
  <2> QED
    BY <1>4, <2>1, <2>2
<1>9. \A j \in 1..(n + 1) : t[j] \in Range(s) \cup {e}
  BY <1>1, <1>3, <1>5 DEF Range
<1> QED
  BY <1>1, <1>2, <1>7, <1>8, <1>9 DEF Range, t, n

(* A set of natural numbers has a least element.                           *)
LEMMA LeastNatural ==
    ASSUME NEW T \in SUBSET Nat, T # {}
    PROVE  \E x \in T : \A y \in T : x <= y
<1>1. PICK x \in T : \A y \in T : ~(<<y, x>> \in OpToRel(<, Nat))
  BY NatLessThanWellFounded, WFMin
<1>2. \A y \in T : ~(y < x)
  BY <1>1 DEF OpToRel
<1> QED
  BY <1>2

\* What holds at zero and passes from each number to the next holds of every number.
LEMMA ByInduction ==
    ASSUME NEW T \in SUBSET Nat, 0 \in T, \A n \in Nat : n \in T => n + 1 \in T
    PROVE  T = Nat
<1> SUFFICES ASSUME Nat \ T # {} PROVE FALSE
  OBVIOUS
<1>1. PICK x \in Nat \ T : \A y \in Nat \ T : x <= y
  BY LeastNatural
<1>2. x - 1 \in Nat /\ ~(x <= x - 1) /\ (x - 1) + 1 = x
  BY <1>1
<1> QED
  BY <1>1, <1>2

Picks(s, I, n, f) ==
    f = [k \in 0..n |-> IF k = 0 THEN <<>> ELSE IF k \in I THEN Append(f[k - 1], s[k]) ELSE f[k - 1]]

\* The recursion that picks the places in turn has a solution.
LEMMA PicksExist ==
    ASSUME NEW s, NEW I
    PROVE  \A n \in Nat : \E f : Picks(s, I, n, f)
<1> DEFINE T == {n \in Nat : \E f : Picks(s, I, n, f)}
<1>1. 0 \in T
  <2> DEFINE f == [k \in 0..0 |-> <<>>]
  <2>1. f = [k \in 0..0 |-> IF k = 0 THEN <<>> ELSE IF k \in I THEN Append(f[k - 1], s[k]) ELSE f[k - 1]]
    OBVIOUS
  <2> HIDE DEF f
  <2> QED
    BY <2>1 DEF Picks
<1>2. ASSUME NEW n \in Nat, n \in T PROVE n + 1 \in T
  <2>1. PICK f : Picks(s, I, n, f)
    BY <1>2
  <2> DEFINE last == IF n + 1 \in I THEN Append(f[n], s[n + 1]) ELSE f[n]
             g == [k \in 0..(n + 1) |-> IF k = n + 1 THEN last ELSE f[k]]
             h == [k \in 0..(n + 1) |-> IF k = 0 THEN <<>> ELSE IF k \in I THEN Append(g[k - 1], s[k]) ELSE g[k - 1]]
  <2>2. ASSUME NEW k \in 0..(n + 1) PROVE g[k] = h[k]
    <3>1. CASE k = 0
      <4>1. 0 \in 0..n /\ 0 # n + 1 /\ 0 \in 0..(n + 1)
        OBVIOUS
      <4>2. f[0] = <<>>
        BY <2>1, <4>1 DEF Picks
      <4> QED
        BY <3>1, <4>1, <4>2
    <3>2. CASE k \in 1..n
      <4>1. k # 0 /\ k # n + 1 /\ k \in 0..n /\ k - 1 \in 0..(n + 1) /\ k - 1 # n + 1
        BY <3>2
      <4>2. f[k] = IF k \in I THEN Append(f[k - 1], s[k]) ELSE f[k - 1]
        BY <2>1, <4>1 DEF Picks
      <4>3. g[k] = f[k] /\ g[k - 1] = f[k - 1]
        BY <4>1
      <4>4. h[k] = IF k \in I THEN Append(g[k - 1], s[k]) ELSE g[k - 1]
        BY <4>1
      <4> HIDE DEF g, h
      <4> QED
        BY <4>2, <4>3, <4>4
    <3>3. CASE k = n + 1
      <4>1. k # 0 /\ k - 1 = n /\ n \in 0..(n + 1) /\ n # n + 1
        BY <3>3
      <4>3. g[k] = last /\ g[k - 1] = f[n]
        BY <3>3, <4>1
      <4>4. h[k] = IF k \in I THEN Append(g[k - 1], s[k]) ELSE g[k - 1]
        BY <4>1
      <4> HIDE DEF g, h
      <4> QED
        BY <3>3, <4>3, <4>4
    <3> QED
      BY <3>1, <3>2, <3>3
  <2>3. g = h
    <3>1. g = [k \in 0..(n + 1) |-> g[k]] /\ h = [k \in 0..(n + 1) |-> h[k]]
      OBVIOUS
    <3> HIDE DEF g, h
    <3> QED
      BY <2>2, <3>1
  <2>4. Picks(s, I, n + 1, g)
    BY <2>3 DEF Picks
  <2> QED
    BY <2>4
<1> HIDE DEF T
<1>3. T = Nat
  <2>1. T \in SUBSET Nat
    BY DEF T
  <2> QED
    BY <1>1, <1>2, <2>1, ByInduction
<1> QED
  BY <1>3 DEF T

\* What is picked, by its recursion.
LEMMA PickAtIs ==
    ASSUME NEW K, NEW s \in Seq(K), NEW I
    PROVE  \E f : Picks(s, I, Len(s), f) /\ PickAt(s, I) = f[Len(s)]
<1>1. Len(s) \in Nat
  OBVIOUS
<1>2. \E f : Picks(s, I, Len(s), f)
  BY <1>1, PicksExist
<1> DEFINE f == CHOOSE f : Picks(s, I, Len(s), f)
<1>3. Picks(s, I, Len(s), f)
  BY <1>2
<1>4. PickAt(s, I) = f[Len(s)]
  BY DEF PickAt, Picks
<1> QED
  BY <1>3, <1>4

(* The places of what is picked: an increasing enumeration of those in I.  *)
Enumerates(m, t, s, I, n) ==
    /\ m \in [1..Len(t) -> 1..n]
    /\ \A k \in 1..Len(t) : m[k] \in I /\ t[k] = s[m[k]]
    /\ \A k, l \in 1..Len(t) : k < l => m[k] < m[l]
    /\ \A i \in 1..n : i \in I => \E k \in 1..Len(t) : m[k] = i

\* One more place that is picked is the last of the enumeration.
LEMMA EnumerationGrows ==
    ASSUME NEW K, NEW s \in Seq(K), NEW I, NEW n \in Nat, n + 1 \in I, n + 1 \in 1..Len(s),
           NEW t \in Seq(K), NEW m, Enumerates(m, t, s, I, n)
    PROVE  /\ Append(t, s[n + 1]) \in Seq(K)
           /\ \E q : Enumerates(q, Append(t, s[n + 1]), s, I, n + 1)
<1> DEFINE u == Append(t, s[n + 1])
           d == Len(t)
           q == [k \in 1..(d + 1) |-> IF k = d + 1 THEN n + 1 ELSE m[k]]
<1>1. /\ s[n + 1] \in K /\ d \in Nat
      /\ u \in Seq(K) /\ Len(u) = d + 1 /\ u[d + 1] = s[n + 1] /\ \A k \in 1..d : u[k] = t[k]
  OBVIOUS
<1>2. /\ m \in [1..d -> 1..n]
      /\ \A k \in 1..d : m[k] \in I /\ t[k] = s[m[k]]
      /\ \A k, l \in 1..d : k < l => m[k] < m[l]
      /\ \A i \in 1..n : i \in I => \E k \in 1..d : m[k] = i
  BY DEF Enumerates
<1> HIDE DEF u, d
<1>3. \A k \in 1..(d + 1) : k = d + 1 \/ (k \in 1..d /\ k # d + 1)
  BY <1>1
<1>4. \A k \in 1..d : q[k] = m[k] /\ k \in 1..(d + 1) /\ k # d + 1 /\ k < d + 1 /\ m[k] \in 1..n
  BY <1>1, <1>2
<1>5. q[d + 1] = n + 1 /\ d + 1 \in 1..(d + 1)
  BY <1>1
<1>6. q = [k \in 1..(d + 1) |-> q[k]]
  OBVIOUS
<1> HIDE DEF q
<1>7. \A j \in 1..n : j \in 1..(n + 1) /\ j < n + 1
  OBVIOUS
<1>8. ASSUME NEW k \in 1..(d + 1) PROVE q[k] \in 1..(n + 1) /\ q[k] \in I /\ u[k] = s[q[k]]
  <2>1. CASE k = d + 1
    <3>1. n + 1 \in 1..(n + 1)
      OBVIOUS
    <3> QED
      BY <1>1, <1>5, <2>1, <3>1
  <2>2. CASE k \in 1..d
    BY <1>1, <1>2, <1>4, <1>7, <2>2
  <2> QED
    BY <1>3, <2>1, <2>2
<1>9. ASSUME NEW k \in 1..(d + 1), NEW l \in 1..(d + 1), k < l PROVE q[k] < q[l]
  <2>1. k \in 1..d /\ k # d + 1
    BY <1>1, <1>9
  <2>2. CASE l = d + 1
    BY <1>4, <1>5, <1>7, <2>1, <2>2
  <2>3. CASE l \in 1..d
    BY <1>2, <1>4, <1>9, <2>1, <2>3
  <2> QED
    BY <1>3, <2>2, <2>3
<1>10. ASSUME NEW i \in 1..(n + 1), i \in I PROVE \E k \in 1..(d + 1) : q[k] = i
  <2>1. CASE i = n + 1
    BY <1>5, <2>1
  <2>2. CASE i \in 1..n
    BY <1>2, <1>4, <1>10, <2>2
  <2> QED
    BY <2>1, <2>2
<1>11. q \in [1..(d + 1) -> 1..(n + 1)]
  BY <1>6, <1>8
<1>12. Enumerates(q, u, s, I, n + 1)
  BY <1>1, <1>8, <1>9, <1>10, <1>11 DEF Enumerates
<1> QED
  BY <1>1, <1>12 DEF u

LEMMA PickAtEnumerates ==
    ASSUME NEW K, NEW s \in Seq(K), NEW I
    PROVE  PickAt(s, I) \in Seq(K) /\ \E m : Enumerates(m, PickAt(s, I), s, I, Len(s))
<1>1. PICK f : Picks(s, I, Len(s), f) /\ PickAt(s, I) = f[Len(s)]
  BY PickAtIs
<1> DEFINE N == Len(s)
           Good(n) == f[n] \in Seq(K) /\ \E m : Enumerates(m, f[n], s, I, n)
           T == {n \in Nat : n <= N => Good(n)}
<1>2. N \in Nat
  OBVIOUS
<1>3. \A k \in 0..N : f[k] = IF k = 0 THEN <<>> ELSE IF k \in I THEN Append(f[k - 1], s[k]) ELSE f[k - 1]
  BY <1>1 DEF Picks
<1> HIDE DEF N
<1>4. Good(0)
  <2>1. f[0] = <<>>
    BY <1>2, <1>3
  <2>2. Enumerates(<<>>, <<>>, s, I, 0)
    <3>1. <<>> \in [1..Len(<<>>) -> 1..0]
      BY SMT
    <3> QED
      BY <3>1 DEF Enumerates
  <2> QED
    BY <2>1, <2>2
<1>5. ASSUME NEW n \in Nat, n + 1 <= N, Good(n) PROVE Good(n + 1)
  <2>1. n + 1 \in 0..N /\ n + 1 # 0 /\ (n + 1) - 1 = n /\ n + 1 \in 1..N
    BY <1>2, <1>5
  <2>2. f[n + 1] = IF n + 1 \in I THEN Append(f[n], s[n + 1]) ELSE f[n]
    BY <1>3, <2>1
  <2>3. PICK m : Enumerates(m, f[n], s, I, n)
    BY <1>5
  <2>4. CASE n + 1 \in I
    BY <1>5, <2>1, <2>2, <2>3, <2>4, EnumerationGrows DEF N
  <2>5. CASE n + 1 \notin I
    <3>1. \A i \in 1..(n + 1) : i \in I => i \in 1..n
      BY <2>5
    <3>2. m \in [1..Len(f[n]) -> 1..(n + 1)]
      BY <2>3 DEF Enumerates
    <3>3. Enumerates(m, f[n], s, I, n + 1)
      BY <2>3, <3>1, <3>2 DEF Enumerates
    <3> QED
      BY <1>5, <2>2, <2>5, <3>3
  <2> QED
    BY <2>4, <2>5
<1> HIDE DEF Good
<1>6. 0 \in T /\ T \in SUBSET Nat
  BY <1>4
<1>7. ASSUME NEW n \in Nat, n \in T PROVE n + 1 \in T
  <2>1. n + 1 <= N => n <= N
    BY <1>2
  <2> QED
    BY <1>5, <1>7, <2>1
<1>8. N \in T
  <2> HIDE DEF T
  <2>1. T = Nat
    BY <1>6, <1>7, ByInduction
  <2> QED
    BY <1>2, <2>1
<1>9. Good(N)
  BY <1>2, <1>8
<1> QED
  BY <1>1, <1>9 DEF Good, N

\* What is picked is what stands at the places; a list without repetitions has none after.
LEMMA PickAtRange ==
    ASSUME NEW K, NEW s \in Seq(K), NEW I
    PROVE  /\ PickAt(s, I) \in Seq(K) /\ Len(PickAt(s, I)) \in Nat
           /\ Range(PickAt(s, I)) = {s[i] : i \in {j \in DOMAIN s : j \in I}}
           /\ IsInjective(s) => IsInjective(PickAt(s, I))
<1> DEFINE t == PickAt(s, I)
<1>1. t \in Seq(K)
  BY PickAtEnumerates
<1>2. PICK m : Enumerates(m, t, s, I, Len(s))
  BY PickAtEnumerates
<1> HIDE DEF t
<1>3. DOMAIN t = 1..Len(t) /\ DOMAIN s = 1..Len(s) /\ Len(t) \in Nat /\ Len(s) \in Nat
  BY <1>1
<1>4. /\ \A k \in 1..Len(t) : m[k] \in DOMAIN s /\ m[k] \in I /\ t[k] = s[m[k]]
      /\ \A k, l \in 1..Len(t) : k < l => m[k] < m[l]
      /\ \A i \in DOMAIN s : i \in I => \E k \in 1..Len(t) : m[k] = i
  BY <1>2, <1>3 DEF Enumerates
<1>5. Range(t) = {s[i] : i \in {j \in DOMAIN s : j \in I}}
  BY <1>3, <1>4 DEF Range
<1>6. ASSUME IsInjective(s) PROVE IsInjective(t)
  <2> SUFFICES ASSUME NEW k \in 1..Len(t), NEW l \in 1..Len(t), t[k] = t[l] PROVE k = l
    BY <1>3 DEF IsInjective
  <2>1. m[k] = m[l]
    BY <1>4, <1>6 DEF IsInjective
  <2>2. m[k] \in Nat
    BY <1>3, <1>4
  <2>3. ~(k < l) /\ ~(l < k)
    BY <1>4, <2>1, <2>2
  <2> QED
    BY <1>3, <2>3
<1> QED
  BY <1>1, <1>3, <1>5, <1>6 DEF t

(* A value computed over a list, step by step from a first one, exists.     *)
Folds(X, x0, F, n, f) == f \in [0..n -> X] /\ f[0] = x0 /\ \A k \in 1..n : f[k] = F[k][f[k - 1]]

LEMMA FoldExists ==
    ASSUME NEW X, NEW x0 \in X, NEW F \in [Nat -> [X -> X]], NEW n \in Nat
    PROVE  \E f : Folds(X, x0, F, n, f)
<1> DEFINE Done(f, m) == f \in [0..m -> X] /\ f[0] = x0 /\ \A k \in 1..m : f[k] = F[k][f[k - 1]]
           T == {m \in Nat : \E f : Done(f, m)}
<1>1. 0 \in T
  <2>1. Done([k \in 0..0 |-> x0], 0)
    OBVIOUS
  <2> QED
    BY <2>1
<1>2. ASSUME NEW m \in Nat, m \in T PROVE m + 1 \in T
  <2>1. PICK f : Done(f, m)
    BY <1>2
  <2> DEFINE g == [k \in 0..(m + 1) |-> IF k = m + 1 THEN F[m + 1][f[m]] ELSE f[k]]
  <2>2. \A k \in 0..m : k # m + 1 /\ k \in 0..(m + 1)
    OBVIOUS
  <2>3. \A k \in 0..m : g[k] = f[k] /\ f[k] \in X
    BY <2>1, <2>2
  <2>4. m \in 0..m /\ 0 \in 0..m /\ m + 1 \in 0..(m + 1) /\ m + 1 \in Nat
    OBVIOUS
  <2>5. g[m + 1] = F[m + 1][f[m]] /\ g[m + 1] \in X
    BY <2>3, <2>4
  <2>6. \A k \in 0..(m + 1) : k \in 0..m \/ k = m + 1
    OBVIOUS
  <2>7. g \in [0..(m + 1) -> X]
    <3>1. g = [k \in 0..(m + 1) |-> g[k]]
      OBVIOUS
    <3> HIDE DEF g
    <3> QED
      BY <2>3, <2>5, <2>6, <3>1
  <2> HIDE DEF g
  <2>8. \A k \in 1..(m + 1) : k = m + 1 \/ k \in 1..m
    OBVIOUS
  <2>9. \A k \in 1..m : k \in 0..m /\ k - 1 \in 0..m
    OBVIOUS
  <2>10. (m + 1) - 1 = m
    OBVIOUS
  <2>11. \A k \in 1..(m + 1) : g[k] = F[k][g[k - 1]]
    BY <2>1, <2>3, <2>4, <2>5, <2>8, <2>9, <2>10
  <2>12. Done(g, m + 1)
    BY <2>1, <2>3, <2>4, <2>7, <2>11
  <2> HIDE DEF Done
  <2> QED
    BY <2>12
<1> HIDE DEF T
<1>3. T = Nat
  <2>1. T \in SUBSET Nat
    BY DEF T
  <2> QED
    BY <1>1, <1>2, <2>1, ByInduction
<1> QED
  BY <1>3 DEF T, Folds

\* The places of two lists in a row.
LEMMA ConcatPlaces ==
    ASSUME NEW K, NEW s \in Seq(K), NEW t \in Seq(K)
    PROVE  /\ s \o t \in Seq(K)
           /\ \A i \in DOMAIN s : i \in DOMAIN (s \o t) /\ (s \o t)[i] = s[i] /\ s[i] \in K
           /\ \A j \in DOMAIN t : Len(s) + j \in DOMAIN (s \o t) /\ (s \o t)[Len(s) + j] = t[j] /\ t[j] \in K
           /\ \A i \in DOMAIN (s \o t) : i \in DOMAIN s \/ \E j \in DOMAIN t : i = Len(s) + j
           /\ \A i \in DOMAIN s, j \in DOMAIN t : i # Len(s) + j
<1> DEFINE c == s \o t
           a == Len(s)
           b == Len(t)
<1>1. /\ c \in Seq(K) /\ Len(c) = a + b
      /\ \A i \in 1..(a + b) : c[i] = IF i <= a THEN s[i] ELSE t[i - a]
  BY ConcatProperties
<1>2. DOMAIN s = 1..a /\ DOMAIN t = 1..b /\ a \in Nat /\ b \in Nat /\ DOMAIN c = 1..Len(c)
      /\ (\A i \in 1..a : s[i] \in K) /\ \A j \in 1..b : t[j] \in K
  BY <1>1
<1> HIDE DEF c, a, b
<1>3. \A i \in 1..a : i \in 1..(a + b) /\ i <= a
  BY <1>2
<1>4. \A j \in 1..b : a + j \in 1..(a + b) /\ ~(a + j <= a) /\ (a + j) - a = j
  BY <1>2
<1>5. \A i \in 1..(a + b) : i \in 1..a \/ (i - a \in 1..b /\ i = a + (i - a))
  BY <1>2
<1>6. \A i \in 1..a, j \in 1..b : i # a + j
  BY <1>2
<1>7. \A i \in 1..a : i \in DOMAIN c /\ c[i] = s[i]
  BY <1>1, <1>2, <1>3
<1>8. \A j \in 1..b : a + j \in DOMAIN c /\ c[a + j] = t[j]
  BY <1>1, <1>2, <1>4
<1>9. \A i \in DOMAIN c : i \in 1..a \/ \E j \in 1..b : i = a + j
  BY <1>1, <1>2, <1>5
<1> QED
  BY <1>1, <1>2, <1>6, <1>7, <1>8, <1>9 DEF c, a, b

\* The places of a list without its first.
LEMMA TailPlaces ==
    ASSUME NEW K, NEW s \in Seq(K), s # <<>>
    PROVE  /\ Tail(s) \in Seq(K) /\ Head(s) \in K /\ 1 \in DOMAIN s /\ Head(s) = s[1]
           /\ \A i \in DOMAIN Tail(s) : i + 1 \in DOMAIN s /\ i + 1 # 1 /\ Tail(s)[i] = s[i + 1] /\ i \in Nat
           /\ \A j \in DOMAIN s : j = 1 \/ \E i \in DOMAIN Tail(s) : j = i + 1
<1> DEFINE t == Tail(s)
           n == Len(s)
<1>1. /\ t \in Seq(K) /\ Len(t) = n - 1 /\ n \in Nat \ {0}
      /\ \A i \in 1..(n - 1) : t[i] = s[i + 1]
      /\ Head(s) = s[1] /\ DOMAIN s = 1..n /\ DOMAIN t = 1..(n - 1) /\ \A i \in 1..n : s[i] \in K
  OBVIOUS
<1> HIDE DEF t, n
<1>2. \A i \in 1..(n - 1) : i + 1 \in 1..n /\ i + 1 # 1 /\ i \in Nat
  BY <1>1
<1>3. \A j \in 1..n : j = 1 \/ (j - 1 \in 1..(n - 1) /\ j = (j - 1) + 1)
  BY <1>1
<1>4. 1 \in 1..n
  BY <1>1
<1>5. \A j \in 1..n : j = 1 \/ \E i \in 1..(n - 1) : j = i + 1
  BY <1>3
<1> QED
  BY <1>1, <1>2, <1>4, <1>5 DEF t, n

\* A list holds no more elements than it has places.
LEMMA RangeCardinality ==
    ASSUME NEW K, NEW s \in Seq(K)
    PROVE  IsFiniteSet(Range(s)) /\ Cardinality(Range(s)) \in Nat /\ Cardinality(Range(s)) <= Len(s)
<1>1. Len(s) \in Nat /\ DOMAIN s = 1..Len(s)
  OBVIOUS
<1>2. IsFiniteSet(1..Len(s)) /\ Cardinality(1..Len(s)) = Len(s)
  BY <1>1, FS_Interval
<1>3. s \in Surjection(1..Len(s), Range(s))
  <2>1. s = [i \in 1..Len(s) |-> s[i]]
    BY <1>1
  <2>2. \A i \in 1..Len(s) : s[i] \in Range(s)
    BY <1>1 DEF Range
  <2>3. \A x \in Range(s) : \E i \in 1..Len(s) : s[i] = x
    BY <1>1 DEF Range
  <2>4. s \in [1..Len(s) -> Range(s)]
    BY <2>1, <2>2
  <2> QED
    BY ONLY <2>3, <2>4 DEF Surjection
<1> QED
  BY <1>2, <1>3, FS_Surjection, FS_CardinalityType

\* A list of fewer: the first k.
LEMMA PrefixOf ==
    ASSUME NEW K, NEW s \in Seq(K), NEW k \in 0..Len(s)
    PROVE  /\ SubSeq(s, 1, k) \in Seq(K) /\ Range(SubSeq(s, 1, k)) \subseteq Range(s)
           /\ IsInjective(s) => IsInjective(SubSeq(s, 1, k))
<1> DEFINE p == SubSeq(s, 1, k)
<1>1. Len(s) \in Nat /\ DOMAIN s = 1..Len(s) /\ \A i \in 1..k : i \in 1..Len(s)
  OBVIOUS
<1>2. p \in Seq(K) /\ Len(p) = k /\ \A i \in 1..k : p[i] = s[i]
  BY <1>1, SubSeqProperties
<1> HIDE DEF p
<1>3. DOMAIN p = 1..k
  BY <1>2
<1> QED
  BY <1>1, <1>2, <1>3 DEF Range, IsInjective, p

\* The recursion has one solution, and that of a longer list begins with it.
LEMMA PicksAgree ==
    ASSUME NEW s, NEW t, NEW I, NEW J, NEW n \in Nat, NEW l \in Nat, NEW f, NEW g, n <= l,
           Picks(s, I, n, f), Picks(t, J, l, g),
           \A k \in 1..n : s[k] = t[k] /\ (k \in I <=> k \in J)
    PROVE  f[n] = g[n]
<1> DEFINE T == {k \in Nat : k <= n => f[k] = g[k]}
<1>1. /\ \A k \in 0..n : f[k] = IF k = 0 THEN <<>> ELSE IF k \in I THEN Append(f[k - 1], s[k]) ELSE f[k - 1]
      /\ \A k \in 0..l : g[k] = IF k = 0 THEN <<>> ELSE IF k \in J THEN Append(g[k - 1], t[k]) ELSE g[k - 1]
  BY DEF Picks
<1>2. 0 \in T
  <2>1. 0 \in 0..n /\ 0 \in 0..l
    OBVIOUS
  <2> QED
    BY <1>1, <2>1
<1>3. ASSUME NEW k \in Nat, k \in T PROVE k + 1 \in T
  <2> SUFFICES ASSUME k + 1 <= n PROVE f[k + 1] = g[k + 1]
    OBVIOUS
  <2>1. f[k] = g[k]
    BY <1>3
  <2>2. k + 1 \in 0..n /\ k + 1 \in 0..l /\ k + 1 # 0 /\ (k + 1) - 1 = k /\ k + 1 \in 1..n
    OBVIOUS
  <2>3. f[k + 1] = IF k + 1 \in I THEN Append(f[k], s[k + 1]) ELSE f[k]
    BY <1>1, <2>2
  <2>4. g[k + 1] = IF k + 1 \in J THEN Append(g[k], t[k + 1]) ELSE g[k]
    BY <1>1, <2>2
  <2> QED
    BY <2>1, <2>2, <2>3, <2>4
<1>4. T \in SUBSET Nat
  OBVIOUS
<1> HIDE DEF T
<1>5. T = Nat
  BY <1>2, <1>3, <1>4, ByInduction
<1> QED
  BY <1>5 DEF T

\* What a filter lets through of a list with one more element.
LEMMA OnlyOfAppend ==
    ASSUME NEW K, NEW s \in Seq(K), NEW e \in K, NEW S
    PROVE  Only(Append(s, e), S) = IF e \in S THEN Append(Only(s, S), e) ELSE Only(s, S)
<1> DEFINE u == Append(s, e)
           n == Len(s)
           I == {i \in DOMAIN s : s[i] \in S}
           J == {i \in DOMAIN u : u[i] \in S}
<1>1. /\ n \in Nat /\ u \in Seq(K) /\ Len(u) = n + 1 /\ DOMAIN s = 1..n /\ DOMAIN u = 1..(n + 1)
      /\ u[n + 1] = e /\ \A k \in 1..n : s[k] = u[k]
  OBVIOUS
<1> HIDE DEF u, n
<1>2. PICK f : Picks(s, I, n, f) /\ PickAt(s, I) = f[n]
  BY PickAtIs DEF n
<1>3. PICK g : Picks(u, J, n + 1, g) /\ PickAt(u, J) = g[n + 1]
  BY <1>1, PickAtIs
<1>4. f[n] = g[n]
  <2>1. \A k \in 1..n : s[k] = u[k] /\ (k \in I <=> k \in J)
    BY <1>1
  <2>2. n + 1 \in Nat /\ n <= n + 1
    BY <1>1
  <2> HIDE DEF I, J
  <2> QED
    BY <1>1, <1>2, <1>3, <2>1, <2>2, PicksAgree
<1>5. g[n + 1] = IF e \in S THEN Append(g[n], e) ELSE g[n]
  <2>1. n + 1 \in 0..(n + 1) /\ n + 1 # 0 /\ (n + 1) - 1 = n /\ (n + 1 \in J <=> e \in S)
    BY <1>1
  <2>2. g[n + 1] = IF n + 1 = 0 THEN <<>> ELSE IF n + 1 \in J THEN Append(g[(n + 1) - 1], u[n + 1]) ELSE g[(n + 1) - 1]
    BY <1>3, <2>1 DEF Picks
  <2> QED
    BY <1>1, <2>1, <2>2
<1>6. Only(s, S) = PickAt(s, I) /\ Only(u, S) = PickAt(u, J)
  BY DEF Only
<1> QED
  BY <1>2, <1>3, <1>4, <1>5, <1>6 DEF u

LEMMA OnlyOfNothing ==
    ASSUME NEW S
    PROVE  Only(<<>>, S) = <<>>
<1> DEFINE I == {i \in DOMAIN <<>> : <<>>[i] \in S}
<1>1. <<>> \in Seq({}) /\ Len(<<>>) = 0
  OBVIOUS
<1>2. PICK f : Picks(<<>>, I, 0, f) /\ PickAt(<<>>, I) = f[0]
  BY <1>1, PickAtIs
<1>3. f[0] = <<>>
  BY <1>2 DEF Picks
<1>4. Only(<<>>, S) = PickAt(<<>>, I)
  BY DEF Only
<1> QED
  BY <1>2, <1>3, <1>4

LEMMA OnlyKeeps ==
    ASSUME NEW K, NEW s \in Seq(K), NEW S
    PROVE  Only(s, S) \in Seq(K) /\ AllBut(s, S) \in Seq(K)
BY PickAtRange DEF Only, AllBut

\* A list is what comes before its last element, and that element.
FrontOf(s) == SubSeq(s, 1, Len(s) - 1)

LEMMA FrontAndLast ==
    ASSUME NEW K, NEW s \in Seq(K), s # <<>>
    PROVE  /\ FrontOf(s) \in Seq(K) /\ Len(FrontOf(s)) = Len(s) - 1 /\ s[Len(s)] \in K
           /\ s = Append(FrontOf(s), s[Len(s)])
<1> DEFINE t == FrontOf(s)
           n == Len(s) - 1
           e == s[Len(s)]
           u == Append(t, e)
<1>1. n \in Nat /\ Len(s) = n + 1 /\ Len(s) \in 1..Len(s)
  OBVIOUS
<1>2. e \in K
  BY <1>1
<1>3. t \in Seq(K) /\ Len(t) = n /\ \A i \in 1..n : t[i] = s[i]
  <2>1. \A i \in 1..n : i \in 1..Len(s)
    BY <1>1
  <2> QED
    BY <1>1, <2>1, SubSeqProperties, SMTT(30) DEF FrontOf
<1> HIDE DEF t, n, e
<1>4. u \in Seq(K) /\ Len(u) = n + 1 /\ (\A i \in 1..n : u[i] = t[i]) /\ u[n + 1] = e
  BY <1>2, <1>3
<1> HIDE DEF u
<1>5. \A i \in 1..Len(s) : u[i] = s[i]
  <2>1. \A i \in 1..(n + 1) : i \in 1..n \/ i = n + 1
    BY <1>1
  <2> QED
    BY <1>1, <1>3, <1>4, <2>1 DEF e
<1>6. u = s
  BY ONLY <1>1, <1>4, <1>5, s \in Seq(K)
<1> QED
  BY <1>1, <1>2, <1>3, <1>6 DEF t, n, e, u

LEMMA AppendOfConcat ==
    ASSUME NEW K, NEW s \in Seq(K), NEW t \in Seq(K), NEW e \in K
    PROVE  s \o Append(t, e) = Append(s \o t, e) /\ s \o t \in Seq(K)
<1> DEFINE c == s \o t
           a == Append(t, e)
           l == s \o a
           r == Append(c, e)
           m == Len(s)
           n == Len(t)
<1>1. m \in Nat /\ n \in Nat
  OBVIOUS
<1>2. c \in Seq(K) /\ Len(c) = m + n /\ \A i \in 1..(m + n) : c[i] = IF i <= m THEN s[i] ELSE t[i - m]
  BY ConcatProperties
<1>3. a \in Seq(K) /\ Len(a) = n + 1 /\ a[n + 1] = e /\ \A i \in 1..n : a[i] = t[i]
  OBVIOUS
<1> HIDE DEF a, c
<1>41. l \in Seq(K) /\ Len(l) = m + Len(a) /\ \A i \in 1..(m + Len(a)) : l[i] = IF i <= m THEN s[i] ELSE a[i - m]
  BY <1>3, Zenon, ConcatProperties DEF l, m
<1>4. l \in Seq(K) /\ Len(l) = m + (n + 1) /\ \A i \in 1..(m + (n + 1)) : l[i] = IF i <= m THEN s[i] ELSE a[i - m]
  BY <1>3, <1>41
<1> HIDE DEF m, n
<1>5. r \in Seq(K) /\ Len(r) = (m + n) + 1 /\ r[(m + n) + 1] = e /\ \A i \in 1..(m + n) : r[i] = c[i]
  BY <1>1, <1>2
<1> HIDE DEF l, r
<1>6. ASSUME NEW i \in 1..(m + (n + 1)) PROVE l[i] = r[i]
  <2>1. CASE i = (m + n) + 1
    <3>1. ~(i <= m) /\ i - m = n + 1
      BY <1>1, <2>1
    <3> QED
      BY <1>3, <1>4, <1>5, <2>1, <3>1
  <2>2. CASE i <= m
    <3>1. i \in 1..(m + n)
      BY <1>1, <2>2
    <3> QED
      BY <1>2, <1>4, <1>5, <2>2, <3>1
  <2>3. CASE ~(i <= m) /\ i # (m + n) + 1
    <3>1. i \in 1..(m + n) /\ i - m \in 1..n
      BY <1>1, <2>3
    <3> QED
      BY <1>2, <1>3, <1>4, <1>5, <2>3, <3>1
  <2> QED
    BY <2>1, <2>2, <2>3
<1>7. Len(l) = Len(r) /\ Len(l) = m + (n + 1)
  BY <1>1, <1>4, <1>5
<1>8. l = r
  BY ONLY <1>4, <1>5, <1>6, <1>7
<1> QED
  BY <1>2, <1>8 DEF a, c, l, r

\* A filter lets through of two lists what it lets through of each.
LEMMA OnlyOfConcat ==
    ASSUME NEW K, NEW s \in Seq(K), NEW t \in Seq(K), NEW S
    PROVE  Only(s \o t, S) = Only(s, S) \o Only(t, S)
<1> DEFINE T == {n \in Nat : \A u \in Seq(K) : Len(u) = n => Only(s \o u, S) = Only(s, S) \o Only(u, S)}
<1>1. Only(s, S) \in Seq(K)
  BY OnlyKeeps
<1>2. 0 \in T
  <2> SUFFICES ASSUME NEW u \in Seq(K), Len(u) = 0 PROVE Only(s \o u, S) = Only(s, S) \o Only(u, S)
    OBVIOUS
  <2>1. u = <<>> /\ s \o u = s
    OBVIOUS
  <2>2. Only(s, S) \o <<>> = Only(s, S)
    BY <1>1
  <2> QED
    BY <2>1, <2>2, OnlyOfNothing
<1>3. ASSUME NEW n \in Nat, n \in T PROVE n + 1 \in T
  <2> SUFFICES ASSUME NEW u \in Seq(K), Len(u) = n + 1 PROVE Only(s \o u, S) = Only(s, S) \o Only(u, S)
    OBVIOUS
  <2> DEFINE v == FrontOf(u)
             e == u[Len(u)]
             a == Only(s, S)
             b == Only(v, S)
             c == s \o v
  <2>1. v \in Seq(K) /\ Len(v) = n /\ e \in K /\ u = Append(v, e)
    <3>1. u # <<>> /\ Len(u) - 1 = n
      OBVIOUS
    <3> QED
      BY <3>1, FrontAndLast
  <2> HIDE DEF v, e
  <2>2. Only(c, S) = a \o b
    BY <1>3, <2>1
  <2>3. s \o u = Append(c, e) /\ c \in Seq(K)
    BY <2>1, AppendOfConcat
  <2>4. a \in Seq(K) /\ b \in Seq(K)
    BY <2>1, OnlyKeeps
  <2>6. Only(Append(c, e), S) = IF e \in S THEN Append(Only(c, S), e) ELSE Only(c, S)
    BY <2>1, <2>3, OnlyOfAppend
  <2>7. Only(Append(v, e), S) = IF e \in S THEN Append(b, e) ELSE b
    BY <2>1, OnlyOfAppend
  <2> HIDE DEF a, b, c
  <2>5. a \o Append(b, e) = Append(a \o b, e)
    BY ONLY <2>1, <2>4, AppendOfConcat
  <2> QED
    BY ONLY <2>1, <2>2, <2>3, <2>5, <2>6, <2>7 DEF a
<1>4. T \in SUBSET Nat
  OBVIOUS
<1> HIDE DEF T
<1>5. T = Nat
  BY <1>2, <1>3, <1>4, ByInduction
<1>6. Len(t) \in Nat
  OBVIOUS
<1> QED
  BY <1>5, <1>6 DEF T

(* A list is its first places and the others. *)
LEMMA CutList ==
    ASSUME NEW K, NEW s \in Seq(K), NEW a \in 0..Len(s)
    PROVE  /\ SubSeq(s, 1, a) \in Seq(K) /\ Len(SubSeq(s, 1, a)) = a
           /\ \A k \in 1..a : SubSeq(s, 1, a)[k] = s[k]
           /\ SubSeq(s, a + 1, Len(s)) \in Seq(K) /\ Len(SubSeq(s, a + 1, Len(s))) = Len(s) - a
           /\ \A k \in 1..(Len(s) - a) : SubSeq(s, a + 1, Len(s))[k] = s[a + k]
           /\ s = SubSeq(s, 1, a) \o SubSeq(s, a + 1, Len(s))
<1> DEFINE n == Len(s)
           p == SubSeq(s, 1, a)
           q == SubSeq(s, a + 1, n)
           c == p \o q
<1>1. n \in Nat /\ a \in Nat /\ a <= n
  OBVIOUS
<1> HIDE DEF n
<1>2. p \in Seq(K) /\ Len(p) = a /\ \A k \in 1..a : p[k] = s[k]
  <2>1. \A k \in 1..a : k \in 1..n
    BY <1>1
  <2> QED
    BY <1>1, <2>1, SubSeqProperties DEF n
<1>3. q \in Seq(K) /\ Len(q) = n - a /\ \A k \in 1..(n - a) : q[k] = s[a + k]
  <2>1. \A k \in (a + 1)..n : k \in 1..n
    BY <1>1
  <2>2. /\ q \in Seq(K) /\ Len(q) = IF a + 1 <= n THEN n - (a + 1) + 1 ELSE 0
        /\ \A k \in 1..(n - (a + 1) + 1) : q[k] = s[(a + 1) + k - 1]
    BY <1>1, <2>1, SubSeqProperties DEF n
  <2>3. /\ (IF a + 1 <= n THEN n - (a + 1) + 1 ELSE 0) = n - a
        /\ \A k \in 1..(n - a) : k \in 1..(n - (a + 1) + 1) /\ (a + 1) + k - 1 = a + k
    BY <1>1
  <2> QED
    BY <2>2, <2>3
<1> HIDE DEF p, q
<1>4. c \in Seq(K) /\ Len(c) = a + (n - a) /\ \A k \in 1..(a + (n - a)) : c[k] = IF k <= a THEN p[k] ELSE q[k - a]
  <2>1. c \in Seq(K) /\ Len(c) = Len(p) + Len(q) /\ \A k \in 1..(Len(p) + Len(q)) : c[k] = IF k <= Len(p) THEN p[k] ELSE q[k - Len(p)]
    BY <1>2, <1>3, ConcatProperties, Zenon
  <2> HIDE DEF c
  <2> QED
    BY <1>2, <1>3, <2>1
<1>5. a + (n - a) = n
  BY <1>1
<1> HIDE DEF c
<1>6. ASSUME NEW k \in 1..n PROVE c[k] = s[k]
  <2>1. CASE k <= a
    <3>1. k \in 1..a
      BY <1>1, <2>1
    <3> QED
      BY <1>2, <1>4, <1>5, <2>1, <3>1
  <2>2. CASE ~(k <= a)
    <3>1. k - a \in 1..(n - a) /\ a + (k - a) = k
      BY <1>1, <2>2
    <3> QED
      BY <1>3, <1>4, <1>5, <2>2, <3>1
  <2> QED
    BY <2>1, <2>2
<1>7. c = s
  BY ONLY <1>1, <1>4, <1>5, <1>6, s \in Seq(K), n = Len(s) DEF n
<1> QED
  BY <1>2, <1>3, <1>7 DEF c, n, p, q

(* Filtering twice. *)
LEMMA OnlyOfOnly ==
    ASSUME NEW K, NEW s \in Seq(K), NEW S, NEW C, C \subseteq S
    PROVE  Only(Only(s, S), C) = Only(s, C)
<1> DEFINE T == {n \in Nat : \A u \in Seq(K) : Len(u) = n => Only(Only(u, S), C) = Only(u, C)}
<1>1. 0 \in T
  <2> SUFFICES ASSUME NEW u \in Seq(K), Len(u) = 0 PROVE Only(Only(u, S), C) = Only(u, C)
    OBVIOUS
  <2>1. u = <<>>
    OBVIOUS
  <2> QED
    BY <2>1, OnlyOfNothing
<1>2. ASSUME NEW n \in Nat, n \in T PROVE n + 1 \in T
  <2> SUFFICES ASSUME NEW u \in Seq(K), Len(u) = n + 1 PROVE Only(Only(u, S), C) = Only(u, C)
    OBVIOUS
  <2> DEFINE v == FrontOf(u)
             e == u[Len(u)]
             a == Only(v, S)
  <2>1. v \in Seq(K) /\ Len(v) = n /\ e \in K /\ u = Append(v, e)
    <3>1. u # <<>> /\ Len(u) - 1 = n
      OBVIOUS
    <3> QED
      BY <3>1, FrontAndLast
  <2> HIDE DEF v, e
  <2>2. Only(a, C) = Only(v, C)
    BY <1>2, <2>1
  <2>3. a \in Seq(K)
    BY <2>1, OnlyKeeps
  <2>4. Only(u, S) = IF e \in S THEN Append(a, e) ELSE a
    BY <2>1, OnlyOfAppend
  <2>5. Only(u, C) = IF e \in C THEN Append(Only(v, C), e) ELSE Only(v, C)
    BY <2>1, OnlyOfAppend
  <2> HIDE DEF a
  <2>6. Only(Append(a, e), C) = IF e \in C THEN Append(Only(a, C), e) ELSE Only(a, C)
    BY <2>1, <2>3, OnlyOfAppend
  <2> QED
    BY ONLY <2>2, <2>4, <2>5, <2>6, C \subseteq S
<1>3. T \in SUBSET Nat
  OBVIOUS
<1> HIDE DEF T
<1>4. T = Nat
  BY <1>1, <1>2, <1>3, ByInduction
<1>5. Len(s) \in Nat
  OBVIOUS
<1> QED
  BY <1>4, <1>5 DEF T

\* What joins the lists of a list in turn.
Flattens(f, s, n) == f = [i \in 1..n |-> IF i = 1 THEN s[i] ELSE f[i - 1] \o s[i]]

\* The recursion that joins the lists of a list in turn has a solution.
LEMMA FlattensExist ==
    ASSUME NEW s
    PROVE  \A n \in Nat : \E f : Flattens(f, s, n)
<1> DEFINE T == {n \in Nat : \E f : Flattens(f, s, n)}
<1>1. 0 \in T
  <2> DEFINE f == [i \in 1..0 |-> <<>>]
  <2>1. f = [i \in 1..0 |-> IF i = 1 THEN s[i] ELSE f[i - 1] \o s[i]]
    OBVIOUS
  <2> HIDE DEF f
  <2> QED
    BY <2>1 DEF Flattens
<1>2. ASSUME NEW n \in Nat, n \in T PROVE n + 1 \in T
  <2>1. PICK f : Flattens(f, s, n)
    BY <1>2
  <2> DEFINE last == IF n = 0 THEN s[n + 1] ELSE f[n] \o s[n + 1]
             g == [i \in 1..(n + 1) |-> IF i = n + 1 THEN last ELSE f[i]]
             h == [i \in 1..(n + 1) |-> IF i = 1 THEN s[i] ELSE g[i - 1] \o s[i]]
  <2>2. ASSUME NEW k \in 1..(n + 1) PROVE g[k] = h[k]
    <3>1. CASE k \in 1..n
      <4>1. k # n + 1 /\ (k # 1 => k - 1 \in 1..(n + 1) /\ k - 1 # n + 1)
        BY <3>1
      <4>2. f[k] = IF k = 1 THEN s[k] ELSE f[k - 1] \o s[k]
        BY <2>1, <3>1 DEF Flattens
      <4>3. g[k] = f[k] /\ (k # 1 => g[k - 1] = f[k - 1])
        BY <4>1
      <4>4. h[k] = IF k = 1 THEN s[k] ELSE g[k - 1] \o s[k]
        BY <4>1
      <4> HIDE DEF g, h
      <4> QED
        BY <4>2, <4>3, <4>4
    <3>2. CASE k = n + 1
      <4>1. k - 1 = n /\ (k # 1 => n \in 1..(n + 1) /\ n # n + 1 /\ n # 0) /\ (k = 1 => n = 0)
        BY <3>2
      <4>3. g[k] = last /\ (k # 1 => g[k - 1] = f[n])
        BY <3>2, <4>1
      <4>4. h[k] = IF k = 1 THEN s[k] ELSE g[k - 1] \o s[k]
        BY <4>1
      <4> HIDE DEF g, h
      <4> QED
        BY <3>2, <4>1, <4>3, <4>4
    <3> QED
      BY <3>1, <3>2
  <2>3. g = h
    <3>1. g = [k \in 1..(n + 1) |-> g[k]] /\ h = [k \in 1..(n + 1) |-> h[k]]
      OBVIOUS
    <3> HIDE DEF g, h
    <3> QED
      BY <2>2, <3>1
  <2>4. Flattens(g, s, n + 1)
    BY <2>3 DEF Flattens
  <2> QED
    BY <2>4
<1> HIDE DEF T
<1>3. T = Nat
  <2>1. T \in SUBSET Nat
    BY DEF T
  <2> QED
    BY <1>1, <1>2, <2>1, ByInduction
<1> QED
  BY <1>3 DEF T

\* What is joined, by its recursion.
LEMMA FlattenIs ==
    ASSUME NEW s, Len(s) \in Nat, Len(s) # 0
    PROVE  \E f : Flattens(f, s, Len(s)) /\ FlattenSeq(s) = f[Len(s)]
<1>1. \E f : Flattens(f, s, Len(s))
  BY FlattensExist
<1> DEFINE f == CHOOSE f : Flattens(f, s, Len(s))
<1>2. Flattens(f, s, Len(s))
  BY <1>1
<1>3. FlattenSeq(s) = f[Len(s)]
  BY DEF FlattenSeq, Flattens
<1> QED
  BY <1>2, <1>3

\* The recursion has one solution, and that of a longer list begins with it.
LEMMA FlattensAgree ==
    ASSUME NEW s, NEW t, NEW n \in Nat, NEW l \in Nat, NEW f, NEW g, n <= l,
           Flattens(f, s, n), Flattens(g, t, l), \A k \in 1..n : s[k] = t[k]
    PROVE  \A k \in 1..n : f[k] = g[k]
<1> DEFINE T == {k \in Nat : k + 1 <= n => f[k + 1] = g[k + 1]}
<1>1. /\ \A k \in 1..n : f[k] = IF k = 1 THEN s[k] ELSE f[k - 1] \o s[k]
      /\ \A k \in 1..l : g[k] = IF k = 1 THEN t[k] ELSE g[k - 1] \o t[k]
  BY DEF Flattens
<1>2. 0 \in T
  <2> SUFFICES ASSUME 1 <= n PROVE f[1] = g[1]
    OBVIOUS
  <2>1. 1 \in 1..n /\ 1 \in 1..l
    OBVIOUS
  <2> QED
    BY <1>1, <2>1
<1>3. ASSUME NEW k \in Nat, k \in T PROVE k + 1 \in T
  <2> DEFINE j == k + 1
  <2> SUFFICES ASSUME j + 1 <= n PROVE f[j + 1] = g[j + 1]
    OBVIOUS
  <2>1. f[j] = g[j]
    BY <1>3
  <2>2. j + 1 \in 1..n /\ j + 1 \in 1..l /\ j + 1 # 1 /\ (j + 1) - 1 = j
    OBVIOUS
  <2> HIDE DEF j
  <2>3. f[j + 1] = f[j] \o s[j + 1]
    BY <1>1, <2>2
  <2>4. g[j + 1] = g[j] \o t[j + 1]
    BY <1>1, <2>2
  <2> QED
    BY <2>1, <2>2, <2>3, <2>4
<1>4. T \in SUBSET Nat
  OBVIOUS
<1> HIDE DEF T
<1>5. T = Nat
  BY <1>2, <1>3, <1>4, ByInduction
<1> SUFFICES ASSUME NEW k \in 1..n PROVE f[k] = g[k]
  OBVIOUS
<1>6. k - 1 \in T /\ (k - 1) + 1 = k /\ k <= n
  BY <1>5
<1> QED
  BY <1>6 DEF T

\* A list of lists with one more is joined to what the others make.
LEMMA FlattenAppend ==
    ASSUME NEW K, NEW s \in Seq(Seq(K)), NEW e \in Seq(K)
    PROVE  FlattenSeq(Append(s, e)) = FlattenSeq(s) \o e
<1> DEFINE t == Append(s, e)
           n == Len(s)
<1>1. n \in Nat /\ Len(t) = n + 1 /\ t[n + 1] = e /\ \A k \in 1..n : s[k] = t[k]
  OBVIOUS
<1> HIDE DEF t
<1>2. PICK g : Flattens(g, t, n + 1) /\ FlattenSeq(t) = g[n + 1]
  <2>1. Len(t) \in Nat /\ Len(t) # 0
    BY <1>1
  <2> HIDE DEF n
  <2> QED
    BY <1>1, <2>1, FlattenIs
<1>3. g[n + 1] = IF n = 0 THEN e ELSE g[n] \o e
  <2>1. n + 1 \in 1..(n + 1) /\ (n + 1) - 1 = n /\ (n + 1 = 1 <=> n = 0)
    BY <1>1
  <2> HIDE DEF n
  <2> QED
    BY <1>1, <1>2, <2>1 DEF Flattens
<1>4. CASE n = 0
  <2>1. s = <<>> /\ FlattenSeq(s) = s /\ <<>> \o e = e
    BY <1>4 DEF FlattenSeq
  <2> QED
    BY <1>2, <1>3, <1>4, <2>1 DEF t
<1>5. CASE n # 0
  <2>1. PICK f : Flattens(f, s, n) /\ FlattenSeq(s) = f[n]
    BY <1>1, <1>5, FlattenIs
  <2> DEFINE l == n + 1
  <2>2. n <= l /\ l \in Nat /\ n \in 1..n
    BY <1>1, <1>5
  <2>4. Flattens(f, s, n) /\ Flattens(g, t, l)
    BY <1>2, <2>1
  <2> HIDE DEF n, l
  <2>3. \A k \in 1..n : f[k] = g[k]
    BY ONLY <1>1, <2>2, <2>4, FlattensAgree, SMTT(30)
  <2> QED
    BY <1>2, <1>3, <1>5, <2>1, <2>2, <2>3 DEF t
<1> QED
  BY <1>4, <1>5

\* Joining no list gives nothing.
LEMMA FlattenNothing == FlattenSeq(<<>>) = <<>>
  BY DEF FlattenSeq

\* What is joined is a list of what the lists hold.
LEMMA FlattenTyped ==
    ASSUME NEW K, NEW s \in Seq(Seq(K))
    PROVE  FlattenSeq(s) \in Seq(K)
<1> DEFINE T == {n \in Nat : \A u \in Seq(Seq(K)) : Len(u) = n => FlattenSeq(u) \in Seq(K)}
<1>1. 0 \in T
  <2> SUFFICES ASSUME NEW u \in Seq(Seq(K)), Len(u) = 0 PROVE FlattenSeq(u) \in Seq(K)
    OBVIOUS
  <2>1. u = <<>> /\ <<>> \in Seq(K)
    OBVIOUS
  <2> QED
    BY <2>1, FlattenNothing
<1>2. ASSUME NEW n \in Nat, n \in T PROVE n + 1 \in T
  <2> SUFFICES ASSUME NEW u \in Seq(Seq(K)), Len(u) = n + 1 PROVE FlattenSeq(u) \in Seq(K)
    OBVIOUS
  <2> DEFINE v == FrontOf(u)
             e == u[Len(u)]
  <2>1. v \in Seq(Seq(K)) /\ Len(v) = n /\ e \in Seq(K) /\ u = Append(v, e)
    <3>1. u # <<>> /\ Len(u) - 1 = n
      OBVIOUS
    <3> QED
      BY <3>1, FrontAndLast
  <2> HIDE DEF v, e
  <2>2. FlattenSeq(v) \in Seq(K)
    BY <1>2, <2>1
  <2>3. FlattenSeq(u) = FlattenSeq(v) \o e
    BY <2>1, FlattenAppend
  <2> QED
    BY ONLY <2>1, <2>2, <2>3
<1>3. T \in SUBSET Nat
  OBVIOUS
<1> HIDE DEF T
<1>4. T = Nat
  BY <1>1, <1>2, <1>3, ByInduction
<1>5. Len(s) \in Nat
  OBVIOUS
<1> QED
  BY <1>4, <1>5 DEF T

\* Three lists in a row, joined from either side.
ConcatsAgree(K) == \A s, t, u \in Seq(K) : (s \o t) \o u = s \o (t \o u)

\* Putting three lists together in either order is the same.
LEMMA ConcatThree ==
    ASSUME NEW K
    PROVE  ConcatsAgree(K)
<1> SUFFICES ASSUME NEW s \in Seq(K), NEW t \in Seq(K), NEW u \in Seq(K)
             PROVE  (s \o t) \o u = s \o (t \o u)
  BY DEF ConcatsAgree
<1> DEFINE a == Len(s)
           b == Len(t)
           c == Len(u)
           p == s \o t
           q == t \o u
           l == p \o u
           r == s \o q
<1>1. a \in Nat /\ b \in Nat /\ c \in Nat
  OBVIOUS
<1>2. p \in Seq(K) /\ Len(p) = a + b /\ \A i \in 1..(a + b) : p[i] = IF i <= a THEN s[i] ELSE t[i - a]
  BY ConcatProperties
<1>3. q \in Seq(K) /\ Len(q) = b + c /\ \A i \in 1..(b + c) : q[i] = IF i <= b THEN t[i] ELSE u[i - b]
  BY ConcatProperties
<1> HIDE DEF p, q
<1>21. p \in Seq(K)
  BY <1>2
<1>31. q \in Seq(K)
  BY <1>3
<1>4. l \in Seq(K) /\ Len(l) = Len(p) + c /\ \A i \in 1..(Len(p) + c) : l[i] = IF i <= Len(p) THEN p[i] ELSE u[i - Len(p)]
  BY ONLY <1>21, u \in Seq(K), Zenon, ConcatProperties DEF l, c
<1>5. r \in Seq(K) /\ Len(r) = a + Len(q) /\ \A i \in 1..(a + Len(q)) : r[i] = IF i <= a THEN s[i] ELSE q[i - a]
  BY ONLY <1>31, s \in Seq(K), Zenon, ConcatProperties DEF r, a
<1> HIDE DEF l, r, a, b, c
<1>6. Len(l) = (a + b) + c /\ Len(r) = (a + b) + c /\ a + (b + c) = (a + b) + c
  BY <1>1, <1>2, <1>3, <1>4, <1>5
<1>7. ASSUME NEW i \in 1..((a + b) + c) PROVE l[i] = r[i]
  <2>1. l[i] = IF i <= a + b THEN p[i] ELSE u[i - (a + b)]
    BY <1>2, <1>4
  <2>2. r[i] = IF i <= a THEN s[i] ELSE q[i - a]
    BY <1>3, <1>5, <1>6
  <2>3. CASE i <= a
    <3>1. i \in 1..(a + b) /\ i <= a + b
      BY <1>1, <2>3
    <3> QED
      BY <1>2, <2>1, <2>2, <2>3, <3>1
  <2>4. CASE ~(i <= a) /\ i <= a + b
    <3>1. i \in 1..(a + b) /\ i - a \in 1..(b + c) /\ i - a <= b
      BY <1>1, <2>4
    <3> QED
      BY <1>2, <1>3, <2>1, <2>2, <2>4, <3>1
  <2>5. CASE ~(i <= a + b)
    <3>1. i - a \in 1..(b + c) /\ ~(i - a <= b) /\ ~(i <= a) /\ (i - a) - b = i - (a + b)
      BY <1>1, <2>5
    <3> QED
      BY <1>3, <2>1, <2>2, <2>5, <3>1
  <2> QED
    BY <2>3, <2>4, <2>5
<1>9. Len(l) = Len(r) /\ \A i \in 1..Len(l) : l[i] = r[i]
  BY <1>6, <1>7
<1>8. l = r
  BY ONLY <1>4, <1>5, <1>9
<1> QED
  BY <1>8 DEF p, q, l, r

\* Two lists of lists in a row are joined one after the other.
LEMMA FlattenConcat ==
    ASSUME NEW K, NEW s \in Seq(Seq(K)), NEW t \in Seq(Seq(K))
    PROVE  FlattenSeq(s \o t) = FlattenSeq(s) \o FlattenSeq(t)
<1> DEFINE T == {n \in Nat : \A u \in Seq(Seq(K)) : Len(u) = n => FlattenSeq(s \o u) = FlattenSeq(s) \o FlattenSeq(u)}
<1>1. FlattenSeq(s) \in Seq(K)
  BY FlattenTyped
<1>2. 0 \in T
  <2> SUFFICES ASSUME NEW u \in Seq(Seq(K)), Len(u) = 0 PROVE FlattenSeq(s \o u) = FlattenSeq(s) \o FlattenSeq(u)
    OBVIOUS
  <2>1. u = <<>> /\ s \o u = s
    OBVIOUS
  <2>2. FlattenSeq(s) \o <<>> = FlattenSeq(s)
    BY <1>1
  <2> QED
    BY <2>1, <2>2, FlattenNothing
<1>3. ASSUME NEW n \in Nat, n \in T PROVE n + 1 \in T
  <2> SUFFICES ASSUME NEW u \in Seq(Seq(K)), Len(u) = n + 1 PROVE FlattenSeq(s \o u) = FlattenSeq(s) \o FlattenSeq(u)
    OBVIOUS
  <2> DEFINE v == FrontOf(u)
             e == u[Len(u)]
             a == FlattenSeq(s)
             b == FlattenSeq(v)
             c == s \o v
  <2>1. v \in Seq(Seq(K)) /\ Len(v) = n /\ e \in Seq(K) /\ u = Append(v, e)
    <3>1. u # <<>> /\ Len(u) - 1 = n
      OBVIOUS
    <3> QED
      BY <3>1, FrontAndLast
  <2> HIDE DEF v, e
  <2>2. FlattenSeq(c) = a \o b
    BY <1>3, <2>1
  <2>3. s \o u = Append(c, e) /\ c \in Seq(Seq(K))
    <3> DEFINE S == Seq(K)
    <3>1. s \in Seq(S) /\ v \in Seq(S) /\ e \in S
      BY <2>1
    <3> HIDE DEF S
    <3>2. s \o Append(v, e) = Append(s \o v, e) /\ s \o v \in Seq(S)
      BY ONLY <3>1, AppendOfConcat
    <3> QED
      BY <2>1, <3>2 DEF S
  <2>4. b \in Seq(K)
    BY <2>1, FlattenTyped
  <2>6. FlattenSeq(Append(c, e)) = FlattenSeq(c) \o e
    BY <2>1, <2>3, FlattenAppend
  <2>7. FlattenSeq(Append(v, e)) = b \o e
    BY <2>1, FlattenAppend
  <2> HIDE DEF a, b, c
  <2>5. (a \o b) \o e = a \o (b \o e)
    <3>1. a \in Seq(K)
      BY <1>1 DEF a
    <3>2. e \in Seq(K)
      BY <2>1
    <3>3. b \in Seq(K)
      BY <2>4
    <3>4. ConcatsAgree(K)
      BY ConcatThree
    <3> QED
      BY ONLY <3>1, <3>2, <3>3, <3>4, Zenon DEF ConcatsAgree
  <2> QED
    BY ONLY <2>1, <2>2, <2>3, <2>5, <2>6, <2>7 DEF a
<1>4. T \in SUBSET Nat
  OBVIOUS
<1> HIDE DEF T
<1>5. T = Nat
  BY <1>2, <1>3, <1>4, ByInduction
<1>6. Len(t) \in Nat
  OBVIOUS
<1> QED
  BY <1>5, <1>6 DEF T

\* Joining one list gives it back.
LEMMA FlattenOne ==
    ASSUME NEW K, NEW e \in Seq(K)
    PROVE  FlattenSeq(<<e>>) = e
<1>1. <<>> \in Seq(Seq(K)) /\ <<e>> = Append(<<>>, e)
  OBVIOUS
<1>2. FlattenSeq(Append(<<>>, e)) = FlattenSeq(<<>>) \o e
  BY <1>1, FlattenAppend
<1> QED
  BY <1>1, <1>2, FlattenNothing

\* The greatest of some numbers below a bound.
LEMMA GreatestPlace ==
    ASSUME NEW n \in Nat, NEW S \in SUBSET (0..n), S # {}
    PROVE  Max(S) \in S /\ \A k \in S : k <= Max(S)
<1> DEFINE T == {n - k : k \in S}
<1>0. \A k \in S : k \in 0..n /\ k \in Nat /\ n - k \in Nat
  OBVIOUS
<1>1. T \in SUBSET Nat /\ T # {}
  BY <1>0
<1>2. PICK x \in T : \A y \in T : x <= y
  BY <1>1, LeastNatural
<1>3. PICK m \in S : x = n - m
  BY <1>2
<1>4. \A k \in S : m >= k
  <2> SUFFICES ASSUME NEW k \in S PROVE m >= k
    OBVIOUS
  <2>1. n - k \in T /\ n - m <= n - k
    BY <1>2, <1>3
  <2> QED
    BY <1>0, <1>3, <2>1
<1>5. Max(S) \in S /\ \A k \in S : Max(S) >= k
  BY <1>3, <1>4 DEF Max
<1> QED
  BY <1>5

\* The least of some numbers.
LEMMA LeastOf ==
    ASSUME NEW S \in SUBSET Nat, S # {}
    PROVE  Min(S) \in S /\ \A k \in S : Min(S) <= k
<1>1. \E x \in S : \A y \in S : x <= y
  BY LeastNatural
<1> QED
  BY <1>1 DEF Min
=============================================================================
