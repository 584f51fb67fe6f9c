--------------------------- MODULE ListLemmas ---------------------------
(***************************************************************************)
(* What the list operations of the models return, element by element:      *)
(* insertion and removal in the middle of a list.  The length of a list    *)
(* is named in the hypotheses, so that a proof that uses a lemma reasons   *)
(* about numbers only.  MinInSet is about the earliest of a set of times;  *)
(* the lemmas after it are about the elements of a queue as a set, and     *)
(* about sums.                                                             *)
(***************************************************************************)
EXTENDS Integers, FiniteSetsExt, SequencesExt, SequenceTheorems,
        FiniteSetTheorems, WellFoundedInduction, TLAPS

\* The elements of a piece of a sequence.
LEMMA SubSeqElements ==
    ASSUME NEW S, NEW s \in Seq(S), NEW m \in Nat, NEW n \in Nat,
           1 <= m, m <= n + 1, n <= Len(s)
    PROVE  /\ SubSeq(s, m, n) \in Seq(S)
           /\ Len(SubSeq(s, m, n)) = n - m + 1
           /\ \A i \in 1..(n - m + 1) : SubSeq(s, m, n)[i] = s[m + i - 1]
  OBVIOUS

\* The first k elements followed by those from position j on.
LEMMA Spliced ==
    ASSUME NEW S, NEW s \in Seq(S), NEW n \in Nat, Len(s) = n,
           NEW k \in Nat, NEW j \in Nat, k <= n, j >= 1, j <= n + 1
    PROVE  /\ SubSeq(s, 1, k) \o SubSeq(s, j, n) \in Seq(S)
           /\ Len(SubSeq(s, 1, k) \o SubSeq(s, j, n)) = k + n - j + 1
           /\ \A i \in 1..k : (SubSeq(s, 1, k) \o SubSeq(s, j, n))[i] = s[i]
           /\ \A i \in (k + 1)..(k + n - j + 1) :
                (SubSeq(s, 1, k) \o SubSeq(s, j, n))[i] = s[i - k + j - 1]
<1>1. ASSUME NEW l \in Seq(S), NEW r \in Seq(S), NEW m \in Nat,
             Len(l) = k, Len(r) = m, m = n - j + 1,
             \A i \in 1..k : l[i] = s[i],
             \A i \in 1..m : r[i] = s[j + i - 1]
      PROVE  /\ l \o r \in Seq(S)
             /\ Len(l \o r) = k + n - j + 1
             /\ \A i \in 1..k : (l \o r)[i] = s[i]
             /\ \A i \in (k + 1)..(k + n - j + 1) : (l \o r)[i] = s[i - k + j - 1]
  <2>1. /\ l \o r \in Seq(S)
        /\ Len(l \o r) = k + m
        /\ \A i \in 1..k : (l \o r)[i] = l[i]
        /\ \A i \in (k + 1)..(k + m) : (l \o r)[i] = r[i - k]
    <3>1. Len(l) = k /\ Len(r) = m
      BY <1>1
    <3> QED
      BY <3>1
  <2>2. ASSUME NEW i \in (k + 1)..(k + m) PROVE r[i - k] = s[i - k + j - 1]
    <3>1. i - k \in 1..m /\ j + (i - k) - 1 = i - k + j - 1
      OBVIOUS
    <3>2. \A h \in 1..m : r[h] = s[j + h - 1]
      BY <1>1
    <3>3. r[i - k] = s[j + (i - k) - 1]
      BY <3>1, <3>2, Zenon
    <3> QED
      BY <3>1, <3>3, Zenon
  <2>3. m = n - j + 1 /\ \A i \in 1..k : l[i] = s[i]
    BY <1>1
  <2>4. k + m = k + n - j + 1
    BY <2>3
  <2>5. \A i \in 1..k : (l \o r)[i] = s[i]
    BY <2>1, <2>3, Zenon
  <2>6. \A i \in (k + 1)..(k + m) : (l \o r)[i] = s[i - k + j - 1]
    BY <2>1, <2>2, Zenon
  <2>7. \A i \in (k + 1)..(k + n - j + 1) : (l \o r)[i] = s[i - k + j - 1]
    BY <2>4, <2>6, Zenon
  <2>8. l \o r \in Seq(S) /\ Len(l \o r) = k + n - j + 1
    BY <2>1, <2>4, Zenon
  <2> QED
    BY <2>5, <2>7, <2>8, Zenon
<1> QED
  BY <1>1, SubSeqElements

\* What RemoveAt returns, element by element.
LEMMA RemoveAtElements ==
    ASSUME NEW S, NEW s \in Seq(S), NEW n \in Nat, Len(s) = n, NEW k \in 1..n
    PROVE  /\ RemoveAt(s, k) \in Seq(S)
           /\ Len(RemoveAt(s, k)) = n - 1
           /\ \A i \in 1..(k - 1) : RemoveAt(s, k)[i] = s[i]
           /\ \A i \in k..(n - 1) : RemoveAt(s, k)[i] = s[i + 1]
<1>1. PICK h \in Nat : h = k - 1
  OBVIOUS
<1>2. PICK j \in Nat : j = k + 1
  OBVIOUS
<1>3. h <= n /\ j >= 1 /\ j <= n + 1
  BY <1>1, <1>2
<1>4. RemoveAt(s, k) = SubSeq(s, 1, h) \o SubSeq(s, j, n)
  BY <1>1, <1>2 DEF RemoveAt
<1>5. /\ RemoveAt(s, k) \in Seq(S)
      /\ Len(RemoveAt(s, k)) = h + n - j + 1
      /\ \A i \in 1..h : RemoveAt(s, k)[i] = s[i]
      /\ \A i \in (h + 1)..(h + n - j + 1) : RemoveAt(s, k)[i] = s[i - h + j - 1]
  <2>1. /\ SubSeq(s, 1, h) \o SubSeq(s, j, n) \in Seq(S)
        /\ Len(SubSeq(s, 1, h) \o SubSeq(s, j, n)) = h + n - j + 1
        /\ \A i \in 1..h : (SubSeq(s, 1, h) \o SubSeq(s, j, n))[i] = s[i]
        /\ \A i \in (h + 1)..(h + n - j + 1) :
             (SubSeq(s, 1, h) \o SubSeq(s, j, n))[i] = s[i - h + j - 1]
    BY <1>3, Spliced
  <2> QED
    BY <1>4, <2>1, Zenon
<1> QED
  BY <1>1, <1>2, <1>5

\* What InsertAt returns, element by element.
LEMMA InsertAtElements ==
    ASSUME NEW S, NEW s \in Seq(S), NEW n \in Nat, Len(s) = n,
           NEW k \in 1..n, NEW e \in S
    PROVE  /\ InsertAt(s, k + 1, e) \in Seq(S)
           /\ Len(InsertAt(s, k + 1, e)) = n + 1
           /\ \A i \in 1..k : InsertAt(s, k + 1, e)[i] = s[i]
           /\ InsertAt(s, k + 1, e)[k + 1] = e
           /\ \A i \in (k + 2)..(n + 1) : InsertAt(s, k + 1, e)[i] = s[i - 1]
<1>1. ASSUME NEW l \in Seq(S), Len(l) = k
      PROVE  /\ l \o <<e>> \in Seq(S) /\ Len(l \o <<e>>) = k + 1
             /\ \A i \in 1..k : (l \o <<e>>)[i] = l[i]
             /\ (l \o <<e>>)[k + 1] = e
  BY <1>1
<1>2. ASSUME NEW l \in Seq(S), NEW r \in Seq(S), NEW m \in Nat, NEW p \in Nat,
             Len(l) = p, p = k + 1, Len(r) = m, m = n - k,
             \A i \in 1..m : r[i] = s[k + i]
      PROVE  /\ l \o r \in Seq(S)
             /\ Len(l \o r) = n + 1
             /\ \A i \in 1..(k + 1) : (l \o r)[i] = l[i]
             /\ \A i \in (k + 2)..(n + 1) : (l \o r)[i] = s[i - 1]
  <2>1. /\ l \o r \in Seq(S)
        /\ Len(l \o r) = p + m
        /\ \A i \in 1..p : (l \o r)[i] = l[i]
        /\ \A i \in (p + 1)..(p + m) : (l \o r)[i] = r[i - p]
    <3>1. Len(l) = p /\ Len(r) = m
      BY <1>2
    <3> QED
      BY <3>1
  <2>2. ASSUME NEW i \in (p + 1)..(p + m) PROVE r[i - p] = s[i - 1]
    <3>1. i - p \in 1..m /\ k + (i - p) = i - 1
      BY <1>2
    <3>2. \A h \in 1..m : r[h] = s[k + h]
      BY <1>2
    <3>3. r[i - p] = s[k + (i - p)]
      BY <3>1, <3>2, Zenon
    <3> QED
      BY <3>1, <3>3, Zenon
  <2> QED
    BY <1>2, <2>1, <2>2
<1>3. /\ SubSeq(s, 1, k) \in Seq(S) /\ Len(SubSeq(s, 1, k)) = k
      /\ \A i \in 1..k : SubSeq(s, 1, k)[i] = s[i]
  OBVIOUS
<1>4. /\ SubSeq(s, k + 1, n) \in Seq(S) /\ Len(SubSeq(s, k + 1, n)) = n - k
      /\ \A i \in 1..(n - k) : SubSeq(s, k + 1, n)[i] = s[k + i]
  OBVIOUS
<1>5. InsertAt(s, k + 1, e) = (SubSeq(s, 1, k) \o <<e>>) \o SubSeq(s, k + 1, n)
  BY DEF InsertAt
<1>6. PICK l \in Seq(S) : /\ l = SubSeq(s, 1, k) \o <<e>> /\ Len(l) = k + 1
                          /\ \A i \in 1..k : l[i] = s[i]
                          /\ l[k + 1] = e
  <2>1. PICK q \in Seq(S) : /\ q = SubSeq(s, 1, k) /\ Len(q) = k
                            /\ \A i \in 1..k : q[i] = s[i]
    BY <1>3, Zenon
  <2>2. /\ q \o <<e>> \in Seq(S) /\ Len(q \o <<e>>) = k + 1
        /\ \A i \in 1..k : (q \o <<e>>)[i] = q[i]
        /\ (q \o <<e>>)[k + 1] = e
    BY <1>1, <2>1, Zenon
  <2> QED
    BY <2>1, <2>2, Zenon
<1>7. PICK r \in Seq(S) : /\ r = SubSeq(s, k + 1, n) /\ Len(r) = n - k
                          /\ \A i \in 1..(n - k) : r[i] = s[k + i]
  BY <1>4, Zenon
<1>8. /\ l \o r \in Seq(S)
      /\ Len(l \o r) = n + 1
      /\ \A i \in 1..(k + 1) : (l \o r)[i] = l[i]
      /\ \A i \in (k + 2)..(n + 1) : (l \o r)[i] = s[i - 1]
  <2>1. PICK m \in Nat : m = n - k
    OBVIOUS
  <2>2. PICK p \in Nat : p = k + 1
    OBVIOUS
  <2>3. Len(l) = p /\ Len(r) = m /\ \A i \in 1..m : r[i] = s[k + i]
    BY <1>6, <1>7, <2>1, <2>2, Zenon
  <2> QED
    BY <1>2, <2>1, <2>2, <2>3
<1>9. InsertAt(s, k + 1, e) = l \o r
  BY <1>5, <1>6, <1>7, Zenon
<1>10. (\A i \in 1..k : i \in 1..(k + 1)) /\ k + 1 \in 1..(k + 1)
  OBVIOUS
<1> QED
  BY <1>6, <1>8, <1>9, <1>10, Zenon

\* The same before the first place.
LEMMA InsertFirstElements ==
    ASSUME NEW S, NEW s \in Seq(S), NEW n \in Nat, Len(s) = n, NEW e \in S
    PROVE  /\ InsertAt(s, 1, e) \in Seq(S)
           /\ Len(InsertAt(s, 1, e)) = n + 1
           /\ InsertAt(s, 1, e)[1] = e
           /\ \A i \in 2..(n + 1) : InsertAt(s, 1, e)[i] = s[i - 1]
<1>1. InsertAt(s, 1, e) = SubSeq(s, 1, 1 - 1) \o <<e>> \o SubSeq(s, 1, Len(s))
  BY DEF InsertAt
<1>2. SubSeq(s, 1, 1 - 1) = <<>>
  OBVIOUS
<1>3. SubSeq(s, 1, Len(s)) = s
  OBVIOUS
<1>4. InsertAt(s, 1, e) = <<e>> \o s
  BY <1>1, <1>2, <1>3
<1>5. /\ <<e>> \o s \in Seq(S) /\ Len(<<e>> \o s) = n + 1 /\ (<<e>> \o s)[1] = e
      /\ \A i \in 1..n : (<<e>> \o s)[i + 1] = s[i]
  OBVIOUS
<1>6. ASSUME NEW i \in 2..(n + 1) PROVE (<<e>> \o s)[i] = s[i - 1]
  <2>1. i - 1 \in 1..n /\ (i - 1) + 1 = i
    OBVIOUS
  <2> QED
    BY <1>5, <2>1
<1> QED
  BY <1>4, <1>5, <1>6

\* A non-empty set of naturals has a least element, and Min is it.
LEMMA MinInSet ==
    ASSUME NEW S \in SUBSET Nat, S # {}
    PROVE  Min(S) \in S /\ \A y \in S : Min(S) <= y
<1>1. \E x \in S : \A y \in S : ~ (<<y, x>> \in OpToRel(<, Nat))
  BY NatLessThanWellFounded, WFMin
<1>2. OpToRel(<, Nat) = {ss \in Nat \X Nat : ss[1] < ss[2]}
  BY DEF OpToRel
<1>3. \E x \in S : \A y \in S : x <= y
  <2>1. PICK x \in S : \A y \in S : ~ (<<y, x>> \in OpToRel(<, Nat))
    BY <1>1
  <2>2. ASSUME NEW y \in S PROVE x <= y
    <3>1. ~ (<<y, x>> \in {ss \in Nat \X Nat : ss[1] < ss[2]})
      BY <1>2, <2>1
    <3> QED
      BY <3>1
  <2> QED
    BY <2>2
<1> QED
  BY <1>3 DEF Min

\* The elements of a queue, when one joins at the end, when others do, and when
\* the head leaves.
LEMMA ToSetOfAppend ==
    ASSUME NEW S, NEW s \in Seq(S), NEW e \in S
    PROVE  ToSet(Append(s, e)) = ToSet(s) \cup {e}
<1>1. PICK n \in Nat : n = Len(s)
  OBVIOUS
<1>2. /\ DOMAIN s = 1..n /\ DOMAIN Append(s, e) = 1..(n + 1)
      /\ \A i \in 1..n : Append(s, e)[i] = s[i]
      /\ Append(s, e)[n + 1] = e
  BY <1>1
<1>3. \A i \in 1..(n + 1) : i \in 1..n \/ i = n + 1
  OBVIOUS
<1>4. n + 1 \in 1..(n + 1) /\ \A i \in 1..n : i \in 1..(n + 1)
  OBVIOUS
<1> QED
  BY <1>2, <1>3, <1>4, Zenon DEF ToSet

LEMMA ToSetOfConcat ==
    ASSUME NEW S, NEW s \in Seq(S), NEW t \in Seq(S)
    PROVE  ToSet(s \o t) = ToSet(s) \cup ToSet(t)
<1>1. PICK n \in Nat : n = Len(s)
  OBVIOUS
<1>2. PICK m \in Nat : m = Len(t)
  OBVIOUS
<1>3. /\ DOMAIN s = 1..n /\ DOMAIN t = 1..m /\ DOMAIN (s \o t) = 1..(n + m)
      /\ \A i \in 1..n : (s \o t)[i] = s[i]
      /\ \A i \in 1..m : (s \o t)[n + i] = t[i]
  BY <1>1, <1>2
<1>4. \A i \in 1..(n + m) : i \in 1..n \/ \E h \in 1..m : i = n + h
  <2>1. ASSUME NEW i \in 1..(n + m), i \notin 1..n PROVE i - n \in 1..m /\ i = n + (i - n)
    BY <2>1
  <2> QED
    BY <2>1
<1>5. /\ \A i \in 1..n : i \in 1..(n + m)
      /\ \A i \in 1..m : n + i \in 1..(n + m)
  OBVIOUS
<1>6. ASSUME NEW x \in ToSet(s \o t) PROVE x \in ToSet(s) \cup ToSet(t)
  <2>1. PICK i \in 1..(n + m) : x = (s \o t)[i]
    BY <1>3, <1>6, Zenon DEF ToSet
  <2> QED
    BY <1>3, <1>4, <2>1, Zenon DEF ToSet
<1>7. ASSUME NEW x \in ToSet(s) PROVE x \in ToSet(s \o t)
  BY <1>3, <1>5, <1>7, Zenon DEF ToSet
<1>8. ASSUME NEW x \in ToSet(t) PROVE x \in ToSet(s \o t)
  BY <1>3, <1>5, <1>8, Zenon DEF ToSet
<1> QED
  BY <1>6, <1>7, <1>8

LEMMA ToSetOfTail ==
    ASSUME NEW S, NEW s \in Seq(S), s # << >>
    PROVE  /\ Head(s) \in ToSet(s)
           /\ ToSet(Tail(s)) \subseteq ToSet(s)
           /\ ToSet(s) \subseteq ToSet(Tail(s)) \cup {Head(s)}
<1>1. PICK n \in Nat : n = Len(s) /\ n >= 1
  OBVIOUS
<1>2. /\ DOMAIN s = 1..n /\ DOMAIN Tail(s) = 1..(n - 1)
      /\ \A i \in 1..(n - 1) : Tail(s)[i] = s[i + 1]
      /\ Head(s) = s[1]
  BY <1>1
<1>3. \A i \in 1..n : i = 1 \/ \E h \in 1..(n - 1) : i = h + 1
  <2>1. ASSUME NEW i \in 1..n, i # 1 PROVE i - 1 \in 1..(n - 1) /\ i = (i - 1) + 1
    BY <2>1
  <2> QED
    BY <2>1
<1>4. 1 \in 1..n /\ \A i \in 1..(n - 1) : i + 1 \in 1..n
  BY <1>1
<1>5. Head(s) \in ToSet(s)
  BY <1>2, <1>4, Zenon DEF ToSet
<1>6. ASSUME NEW x \in ToSet(Tail(s)) PROVE x \in ToSet(s)
  <2>1. PICK i \in 1..(n - 1) : x = Tail(s)[i]
    BY <1>2, <1>6 DEF ToSet
  <2>2. x = s[i + 1] /\ i + 1 \in DOMAIN s
    BY <1>2, <1>4, <2>1
  <2> QED
    BY <2>2, Zenon DEF ToSet
<1>7. ASSUME NEW x \in ToSet(s) PROVE x \in ToSet(Tail(s)) \cup {Head(s)}
  <2>1. PICK i \in 1..n : x = s[i]
    BY <1>2, <1>7 DEF ToSet
  <2>2. ASSUME NEW h \in 1..(n - 1), i = h + 1 PROVE x \in ToSet(Tail(s))
    <3>1. x = Tail(s)[h] /\ h \in DOMAIN Tail(s)
      BY <1>2, <2>1, <2>2
    <3> QED
      BY <3>1 DEF ToSet
  <2> QED
    BY <1>2, <1>3, <2>1, <2>2
<1> QED
  BY <1>5, <1>6, <1>7

-----------------------------------------------------------------------------
(***************************************************************************)
(* Sums over a finite set, as MapThenSumSet computes them: one element     *)
(* after the other.  Induction is over a smallest counterexample.          *)
(***************************************************************************)
SomeOf(s) == CHOOSE x \in s : TRUE

IsSumOf(it, g, S) ==
    it = [s \in SUBSET S |-> IF s = {} THEN 0 ELSE g[SomeOf(s)] + it[s \ {SomeOf(s)}]]

LEMMA SmallestSet ==
    ASSUME NEW S, IsFiniteSet(S), NEW B \in SUBSET (SUBSET S), B # {}
    PROVE  \E T \in B : \A U \in B : U \subseteq T => U = T
<1>1. FiniteSubsetsOf(S) = SUBSET S
  BY FS_FiniteSubsetsOfFinite
<1>2. IsWellFoundedOn(StrictSubsetOrdering(S), SUBSET S)
  BY <1>1, FS_StrictSubsetOrderingWellFounded
<1>3. PICK T \in B : \A U \in B : <<U, T>> \notin StrictSubsetOrdering(S)
  BY <1>2, WFMin
<1>4. ASSUME NEW U \in B, U \subseteq T, U # T PROVE FALSE
  <2>1. <<U, T>> \in StrictSubsetOrdering(S)
    BY <1>4 DEF StrictSubsetOrdering
  <2> QED
    BY <1>3, <2>1
<1> QED
  BY <1>4

\* The sums over all subsets of at most n elements.
UpTo(n, S) == {s \in SUBSET S : Cardinality(s) <= n}

IsSumUpTo(it, g, S, n) ==
    /\ it \in [UpTo(n, S) -> Int]
    /\ \A s \in UpTo(n, S) :
         it[s] = IF s = {} THEN 0 ELSE g[SomeOf(s)] + it[s \ {SomeOf(s)}]

LEMMA SumOneMore ==
    ASSUME NEW S, IsFiniteSet(S), NEW g \in [S -> Int], NEW n \in Nat,
           NEW it, IsSumUpTo(it, g, S, n)
    PROVE  \E jt : IsSumUpTo(jt, g, S, n + 1)
<1> DEFINE V(s) == IF s = {} THEN 0 ELSE g[SomeOf(s)] + it[s \ {SomeOf(s)}]
           jt == [s \in UpTo(n + 1, S) |-> V(s)]
<1>1. ASSUME NEW s \in UpTo(n + 1, S), s # {}
      PROVE  SomeOf(s) \in S /\ s \ {SomeOf(s)} \in UpTo(n, S)
  <2>1. SomeOf(s) \in s /\ s \in SUBSET S /\ IsFiniteSet(s)
    BY <1>1, FS_Subset DEF UpTo, SomeOf
  <2>2. /\ Cardinality(s) \in Nat /\ Cardinality(s) <= n + 1
        /\ Cardinality(s \ {SomeOf(s)}) = Cardinality(s) - 1
    BY <1>1, <2>1, FS_CardinalityType, FS_RemoveElement DEF UpTo
  <2> QED
    BY <2>1, <2>2 DEF UpTo
<1>2. \A s \in UpTo(n + 1, S) : V(s) \in Int
  BY <1>1 DEF IsSumUpTo
<1>3. \A s \in UpTo(n, S) : s \in UpTo(n + 1, S) /\ V(s) = it[s]
  <2>1. ASSUME NEW s \in UpTo(n, S) PROVE s \in UpTo(n + 1, S)
    <3>1. IsFiniteSet(s) /\ Cardinality(s) \in Nat
      BY FS_Subset, FS_CardinalityType DEF UpTo
    <3> QED
      BY <3>1 DEF UpTo
  <2> QED
    BY <2>1 DEF IsSumUpTo
<1>4. ASSUME NEW s \in UpTo(n + 1, S)
      PROVE  jt[s] = IF s = {} THEN 0 ELSE g[SomeOf(s)] + jt[s \ {SomeOf(s)}]
  <2>1. s # {} => jt[s \ {SomeOf(s)}] = it[s \ {SomeOf(s)}]
    BY <1>1, <1>3
  <2> QED
    BY <2>1
<1>5. jt \in [UpTo(n + 1, S) -> Int]
  BY <1>2
<1> HIDE DEF jt
<1> QED
  BY <1>4, <1>5 DEF IsSumUpTo

LEMMA SumExists ==
    ASSUME NEW S, IsFiniteSet(S), NEW g \in [S -> Int]
    PROVE  \E it : IsSumOf(it, g, S)
<1> DEFINE B == {n \in Nat : ~ \E it : IsSumUpTo(it, g, S, n)}
<1>1. B = {}
  <2> SUFFICES ASSUME B # {} PROVE FALSE
    OBVIOUS
  <2>1. PICK m \in B : \A n \in B : m <= n
    <3>1. B \in SUBSET Nat
      OBVIOUS
    <3> HIDE DEF B
    <3> QED
      BY <3>1, MinInSet
  <2>2. m # 0
    <3>1. UpTo(0, S) = {{}}
      <4>1. ASSUME NEW s \in UpTo(0, S) PROVE s = {}
        <5>1. IsFiniteSet(s) /\ Cardinality(s) = 0
          BY FS_Subset, FS_CardinalityType DEF UpTo
        <5> QED
          BY <5>1, FS_EmptySet
      <4>2. {} \in UpTo(0, S)
        BY FS_EmptySet DEF UpTo
      <4> QED
        BY <4>1, <4>2
    <3>2. IsSumUpTo([s \in UpTo(0, S) |-> 0], g, S, 0)
      BY <3>1 DEF IsSumUpTo
    <3> QED
      BY <3>2
  <2>3. m - 1 \in Nat /\ m - 1 \notin B /\ (m - 1) + 1 = m
    BY <2>1, <2>2
  <2>4. PICK it : IsSumUpTo(it, g, S, m - 1)
    BY <2>3
  <2>5. \E jt : IsSumUpTo(jt, g, S, (m - 1) + 1)
    BY <2>3, <2>4, SumOneMore
  <2> QED
    BY <2>1, <2>3, <2>5
<1>2. Cardinality(S) \in Nat
  BY FS_CardinalityType
<1>3. UpTo(Cardinality(S), S) = SUBSET S
  BY FS_Subset DEF UpTo
<1>4. PICK it : IsSumUpTo(it, g, S, Cardinality(S))
  BY <1>1, <1>2
<1> QED
  BY <1>3, <1>4 DEF IsSumUpTo, IsSumOf

ChangesBy(h, g, S, r, k) == \A x \in S : h[x] = g[x] + (IF x = r THEN k ELSE 0)

\* The sum is the same whichever function computes it, and follows what is added
\* to one of the numbers.
LEMMA SumChanges ==
    ASSUME NEW S, IsFiniteSet(S), NEW g \in [S -> Int], NEW h \in [S -> Int],
           NEW r \in S, NEW k \in Int, ChangesBy(h, g, S, r, k),
           NEW it, NEW jt, IsSumOf(it, g, S), IsSumOf(jt, h, S)
    PROVE  it[S] \in Int /\ jt[S] = it[S] + k
<1> DEFINE Right(s) == it[s] \in Int /\ jt[s] = it[s] + (IF r \in s THEN k ELSE 0)
           B == {s \in SUBSET S : ~ Right(s)}
<1>1. B = {}
  <2> SUFFICES ASSUME B # {} PROVE FALSE
    OBVIOUS
  <2>1. PICK T \in B : \A U \in B : U \subseteq T => U = T
    <3>1. B \in SUBSET (SUBSET S)
      OBVIOUS
    <3> HIDE DEF B
    <3> QED
      BY <3>1, SmallestSet
  <2>2. it[{}] = 0 /\ jt[{}] = 0
    BY DEF IsSumOf
  <2>3. T \in SUBSET S /\ T # {}
    <3>1. Right({})
      BY <2>2
    <3>2. T \in SUBSET S /\ ~ Right(T)
      BY <2>1
    <3> HIDE DEF Right
    <3> QED
      BY <3>1, <3>2
  <2> DEFINE x == SomeOf(T)
             U == T \ {x}
  <2>4. x \in T /\ x \in S
    BY <2>3 DEF SomeOf
  <2>5. it[T] = g[x] + it[U] /\ jt[T] = h[x] + jt[U]
    BY <2>3 DEF IsSumOf
  <2> HIDE DEF x
  <2>6. Right(U)
    <3>1. U \in SUBSET S /\ U \subseteq T /\ U # T
      BY <2>3, <2>4
    <3>2. U \notin B
      BY <2>1, <3>1
    <3> QED
      BY <3>1, <3>2
  <2>7. g[x] \in Int /\ h[x] = g[x] + (IF x = r THEN k ELSE 0)
    BY <2>4 DEF ChangesBy
  <2>8. r \in T <=> r \in U \/ x = r
    BY <2>4
  <2>9. ~(r \in U /\ x = r)
    OBVIOUS
  <2> HIDE DEF U
  <2>10. Right(T)
    BY <2>5, <2>6, <2>7, <2>8, <2>9
  <2> QED
    BY <2>1, <2>10
<1>2. S \in SUBSET S /\ S \notin B
  BY <1>1
<1> QED
  BY <1>2

SumIs(v, g, S) == \E it : IsSumOf(it, g, S) /\ v = it[S]

LEMMA SumIsChanged ==
    ASSUME NEW S, IsFiniteSet(S), NEW g \in [S -> Int], NEW h \in [S -> Int],
           NEW r \in S, NEW k \in Int, ChangesBy(h, g, S, r, k),
           NEW v, NEW w, SumIs(v, g, S), SumIs(w, h, S)
    PROVE  v \in Int /\ w = v + k
<1>1. PICK it : IsSumOf(it, g, S) /\ v = it[S]
  BY DEF SumIs
<1>2. PICK jt : IsSumOf(jt, h, S) /\ w = jt[S]
  BY DEF SumIs
<1>3. it[S] \in Int /\ jt[S] = it[S] + k
  BY <1>1, <1>2, SumChanges
<1> QED
  BY <1>1, <1>2, <1>3

\* A sum of zeros.
LEMMA SumOfZeros ==
    ASSUME NEW S, IsFiniteSet(S), NEW g \in [S -> Int], \A x \in S : g[x] = 0,
           NEW it, IsSumOf(it, g, S)
    PROVE  it[S] = 0
<1> DEFINE B == {s \in SUBSET S : it[s] # 0}
<1>1. B = {}
  <2> SUFFICES ASSUME B # {} PROVE FALSE
    OBVIOUS
  <2>1. PICK T \in B : \A U \in B : U \subseteq T => U = T
    <3>1. B \in SUBSET (SUBSET S)
      OBVIOUS
    <3> HIDE DEF B
    <3> QED
      BY <3>1, SmallestSet
  <2>2. it[{}] = 0
    BY DEF IsSumOf
  <2>3. T \in SUBSET S /\ T # {}
    BY <2>1, <2>2
  <2>4. SomeOf(T) \in T
    BY <2>3 DEF SomeOf
  <2>5. it[T] = g[SomeOf(T)] + it[T \ {SomeOf(T)}]
    BY <2>3 DEF IsSumOf
  <2>6. it[T \ {SomeOf(T)}] = 0
    BY <2>1, <2>3, <2>4
  <2> QED
    BY <2>1, <2>3, <2>4, <2>5, <2>6
<1> QED
  BY <1>1

\* A sum does not fall when none of its numbers does.
LEMMA SumIsMonotone ==
    ASSUME NEW S, IsFiniteSet(S), NEW g \in [S -> Int], NEW h \in [S -> Int],
           \A x \in S : g[x] <= h[x],
           NEW v, NEW w, SumIs(v, g, S), SumIs(w, h, S)
    PROVE  v \in Int /\ w \in Int /\ v <= w
<1>1. PICK it, jt : /\ IsSumOf(it, g, S) /\ v = it[S]
                    /\ IsSumOf(jt, h, S) /\ w = jt[S]
  BY DEF SumIs
<1> DEFINE Right(s) == it[s] \in Int /\ jt[s] \in Int /\ it[s] <= jt[s]
           B == {s \in SUBSET S : ~ Right(s)}
<1>2. B = {}
  <2> SUFFICES ASSUME B # {} PROVE FALSE
    OBVIOUS
  <2>1. PICK T \in B : \A U \in B : U \subseteq T => U = T
    <3>1. B \in SUBSET (SUBSET S)
      OBVIOUS
    <3> HIDE DEF B
    <3> QED
      BY <3>1, SmallestSet
  <2>2. it[{}] = 0 /\ jt[{}] = 0
    BY <1>1 DEF IsSumOf
  <2>3. T \in SUBSET S /\ ~ Right(T)
    OBVIOUS
  <2>4. T # {}
    <3>1. Right({})
      BY <2>2
    <3> HIDE DEF Right
    <3> QED
      BY <2>3, <3>1
  <2>5. SomeOf(T) \in T
    BY <2>4 DEF SomeOf
  <2>6. /\ it[T] = g[SomeOf(T)] + it[T \ {SomeOf(T)}]
        /\ jt[T] = h[SomeOf(T)] + jt[T \ {SomeOf(T)}]
    BY <1>1, <2>3, <2>4 DEF IsSumOf
  <2>7. Right(T \ {SomeOf(T)})
    BY <2>1, <2>3, <2>5
  <2>8. /\ g[SomeOf(T)] \in Int /\ h[SomeOf(T)] \in Int
        /\ g[SomeOf(T)] <= h[SomeOf(T)]
    BY <2>3, <2>5
  <2>9. Right(T)
    BY <2>6, <2>7, <2>8
  <2> QED
    BY <2>3, <2>9
<1> QED
  BY <1>1, <1>2

\* A sum of natural numbers is not less than any of them.
LEMMA SumOfNaturals ==
    ASSUME NEW S, IsFiniteSet(S), NEW g \in [S -> Nat], NEW v, SumIs(v, g, S)
    PROVE  v \in Nat /\ \A x \in S : g[x] <= v
<1>1. PICK it : IsSumOf(it, g, S) /\ v = it[S]
  BY DEF SumIs
<1> DEFINE Right(s) == it[s] \in Nat /\ \A x \in s : g[x] <= it[s]
           B == {s \in SUBSET S : ~ Right(s)}
<1>2. B = {}
  <2> SUFFICES ASSUME B # {} PROVE FALSE
    OBVIOUS
  <2>1. PICK T \in B : \A U \in B : U \subseteq T => U = T
    <3>1. B \in SUBSET (SUBSET S)
      OBVIOUS
    <3> HIDE DEF B
    <3> QED
      BY <3>1, SmallestSet
  <2>2. it[{}] = 0
    BY <1>1 DEF IsSumOf
  <2>3. T \in SUBSET S /\ ~ Right(T)
    OBVIOUS
  <2>4. T # {}
    <3>1. Right({})
      BY <2>2
    <3> HIDE DEF Right
    <3> QED
      BY <2>3, <3>1
  <2>5. SomeOf(T) \in T
    BY <2>4 DEF SomeOf
  <2>6. it[T] = g[SomeOf(T)] + it[T \ {SomeOf(T)}]
    BY <1>1, <2>3, <2>4 DEF IsSumOf
  <2>7. Right(T \ {SomeOf(T)})
    BY <2>1, <2>3, <2>5
  <2>8. g[SomeOf(T)] \in Nat /\ \A x \in T : g[x] \in Nat
    BY <2>3, <2>5
  <2>9. Right(T)
    BY <2>6, <2>7, <2>8
  <2> QED
    BY <2>3, <2>9
<1> QED
  BY <1>1, <1>2

-----------------------------------------------------------------------------
(***************************************************************************)
(* A list is folded from its first element to its last: FoldLeft takes the *)
(* greatest of a set of indices off and folds the rest first.              *)
(***************************************************************************)
LEMMA MaxFromZero ==
    ASSUME NEW n \in Nat, NEW S \in SUBSET (0..n), S # {}
    PROVE  Max(S) \in S /\ \A y \in S : y <= Max(S)
<1> DEFINE D == {n - x : x \in S}
<1>1. D \in SUBSET Nat /\ D # {}
  <2>1. ASSUME NEW x \in S PROVE n - x \in Nat
    <3>1. x \in 0..n
      OBVIOUS
    <3> QED
      BY <3>1
  <2> QED
    BY <2>1
<1>2. PICK d \in D : \A e \in D : d <= e
  <2> HIDE DEF D
  <2> QED
    BY <1>1, MinInSet
<1>3. PICK x \in S : d = n - x
  OBVIOUS
<1>4. \A y \in S : y <= x
  <2>1. ASSUME NEW y \in S PROVE y <= x
    <3>1. n - y \in D
      OBVIOUS
    <3>2. n - x <= n - y
      BY <1>2, <1>3, <3>1
    <3> QED
      BY <3>2
  <2> QED
    BY <2>1
<1>5. \E z \in S : \A y \in S : z >= y
  BY <1>4
<1>6. Max(S) \in S /\ \A y \in S : Max(S) >= y
  BY <1>5, Zenon DEF Max
<1> QED
  BY <1>6

LEMMA MaxInSet ==
    ASSUME NEW n \in Nat, NEW S \in SUBSET (1..n), S # {}
    PROVE  Max(S) \in S /\ \A y \in S : y <= Max(S)
<1>1. S \in SUBSET (0..n)
  OBVIOUS
<1> QED
  BY <1>1, MaxFromZero

IsFoldOf(it, f, b, n) ==
    it = [s \in SUBSET (1..n) |->
            IF s = {} THEN b ELSE f[<<Max(s), it[s \ {Max(s)}]>>]]

\* The folds over all sets of at most k indices.
IsFoldUpTo(it, f, b, n, V, k) ==
    /\ it \in [UpTo(k, 1..n) -> V]
    /\ \A s \in UpTo(k, 1..n) :
         it[s] = IF s = {} THEN b ELSE f[<<Max(s), it[s \ {Max(s)}]>>]

LEMMA FoldOneMore ==
    ASSUME NEW n \in Nat, NEW V, NEW b \in V, NEW f \in [(1..n) \X V -> V],
           NEW k \in Nat, NEW it, IsFoldUpTo(it, f, b, n, V, k)
    PROVE  \E jt : IsFoldUpTo(jt, f, b, n, V, k + 1)
<1> DEFINE W(s) == IF s = {} THEN b ELSE f[<<Max(s), it[s \ {Max(s)}]>>]
           jt == [s \in UpTo(k + 1, 1..n) |-> W(s)]
<1>0. IsFiniteSet(1..n)
  BY FS_Interval
<1>1. ASSUME NEW s \in UpTo(k + 1, 1..n), s # {}
      PROVE  Max(s) \in 1..n /\ s \ {Max(s)} \in UpTo(k, 1..n)
  <2>1. Max(s) \in s /\ s \in SUBSET (1..n) /\ IsFiniteSet(s)
    BY <1>0, <1>1, MaxInSet, FS_Subset DEF UpTo
  <2>2. /\ Cardinality(s) \in Nat /\ Cardinality(s) <= k + 1
        /\ Cardinality(s \ {Max(s)}) = Cardinality(s) - 1
    BY <1>1, <2>1, FS_CardinalityType, FS_RemoveElement DEF UpTo
  <2>3. Cardinality(s \ {Max(s)}) <= k
    BY <2>2
  <2>4. Max(s) \in 1..n /\ s \ {Max(s)} \in SUBSET (1..n)
    BY <2>1, Zenon
  <2> QED
    BY <2>3, <2>4, Zenon DEF UpTo
<1>2. ASSUME NEW s \in UpTo(k + 1, 1..n) PROVE W(s) \in V
  <2>1. CASE s = {}
    BY <2>1
  <2>2. CASE s # {}
    <3>1. Max(s) \in 1..n /\ it[s \ {Max(s)}] \in V
      BY <1>1, <2>2 DEF IsFoldUpTo
    <3> QED
      BY <2>2, <3>1
  <2> QED
    BY <2>1, <2>2
<1>3. \A s \in UpTo(k, 1..n) : s \in UpTo(k + 1, 1..n) /\ W(s) = it[s]
  <2>1. ASSUME NEW s \in UpTo(k, 1..n) PROVE s \in UpTo(k + 1, 1..n)
    <3>1. IsFiniteSet(s) /\ Cardinality(s) \in Nat
      BY <1>0, FS_Subset, FS_CardinalityType DEF UpTo
    <3> QED
      BY <3>1 DEF UpTo
  <2> QED
    BY <2>1 DEF IsFoldUpTo
<1>4. ASSUME NEW s \in UpTo(k + 1, 1..n)
      PROVE  jt[s] = IF s = {} THEN b ELSE f[<<Max(s), jt[s \ {Max(s)}]>>]
  <2>1. s # {} => jt[s \ {Max(s)}] = it[s \ {Max(s)}]
    BY <1>1, <1>3
  <2> QED
    BY <2>1
<1>5. jt \in [UpTo(k + 1, 1..n) -> V]
  BY <1>2
<1> HIDE DEF jt
<1> QED
  BY <1>4, <1>5 DEF IsFoldUpTo

LEMMA FoldExists ==
    ASSUME NEW n \in Nat, NEW V, NEW b \in V, NEW f \in [(1..n) \X V -> V]
    PROVE  \E it \in [SUBSET (1..n) -> V] : IsFoldOf(it, f, b, n)
<1> DEFINE B == {k \in Nat : ~ \E it : IsFoldUpTo(it, f, b, n, V, k)}
<1>0. IsFiniteSet(1..n)
  BY FS_Interval
<1>1. B = {}
  <2> SUFFICES ASSUME B # {} PROVE FALSE
    OBVIOUS
  <2>1. PICK m \in B : \A k \in B : m <= k
    <3>1. B \in SUBSET Nat
      OBVIOUS
    <3> HIDE DEF B
    <3> QED
      BY <3>1, MinInSet
  <2>2. m # 0
    <3>1. UpTo(0, 1..n) = {{}}
      <4>1. ASSUME NEW s \in UpTo(0, 1..n) PROVE s = {}
        <5>2. s \in SUBSET (1..n) /\ Cardinality(s) <= 0
          BY Zenon DEF UpTo
        <5>3. IsFiniteSet(s) /\ Cardinality(s) \in Nat
          BY <1>0, <5>2, FS_Subset, FS_CardinalityType, Zenon
        <5>1. IsFiniteSet(s) /\ Cardinality(s) = 0
          BY <5>2, <5>3
        <5> QED
          BY <5>1, FS_EmptySet
      <4>2. {} \in UpTo(0, 1..n)
        BY FS_EmptySet DEF UpTo
      <4> QED
        BY <4>1, <4>2
    <3>2. IsFoldUpTo([s \in UpTo(0, 1..n) |-> b], f, b, n, V, 0)
      BY <3>1 DEF IsFoldUpTo
    <3> QED
      BY <3>2
  <2>3. m - 1 \in Nat /\ m - 1 \notin B /\ (m - 1) + 1 = m
    BY <2>1, <2>2
  <2>4. PICK it : IsFoldUpTo(it, f, b, n, V, m - 1)
    BY <2>3
  <2>5. \E jt : IsFoldUpTo(jt, f, b, n, V, (m - 1) + 1)
    BY <2>3, <2>4, FoldOneMore
  <2> QED
    BY <2>1, <2>3, <2>5
<1>2. Cardinality(1..n) \in Nat
  BY <1>0, FS_CardinalityType
<1>3. UpTo(Cardinality(1..n), 1..n) = SUBSET (1..n)
  BY <1>0, FS_Subset DEF UpTo
<1>4. PICK it : IsFoldUpTo(it, f, b, n, V, Cardinality(1..n))
  BY <1>1, <1>2
<1>5. it \in [SUBSET (1..n) -> V]
  BY <1>3, <1>4 DEF IsFoldUpTo
<1>6. IsFoldOf(it, f, b, n)
  BY <1>3, <1>4, <1>5 DEF IsFoldUpTo, IsFoldOf
<1> QED
  BY <1>5, <1>6
=============================================================================
