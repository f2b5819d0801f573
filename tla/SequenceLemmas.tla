--------------------------- MODULE SequenceLemmas ---------------------------
(***************************************************************************)
(* Lemmas the proofs about the tools share.  Their loops go through data   *)
(* from one end to the other; what holds of every input is shown with      *)
(* LeastNumber: if it failed anywhere there would be a first place where   *)
(* it does.  FlattenSeq lays sequences end to end.                         *)
(***************************************************************************)
EXTENDS Integers, SequencesExt, SequenceTheorems, WellFoundedInduction, TLAPS

\* A set of numbers that is not empty has a least one.
LEMMA LeastNumber ==
    ASSUME NEW T \in SUBSET Nat, T # {}
    PROVE  \E n \in T : \A m \in T : n <= m
<1> DEFINE R == {ss \in Nat \X Nat : ss[1] < ss[2]}
<1>1. IsWellFoundedOn(R, Nat)
  BY NatLessThanWellFounded DEF OpToRel
<1>2. \A m, n \in Nat : m < n => <<m, n>> \in R
  OBVIOUS
<1> HIDE DEF R
<1>3. PICK n \in T : \A m \in T : ~ (<<m, n>> \in R)
  BY <1>1, WFMin
<1>4. \A m \in T : ~(m < n)
  BY <1>2, <1>3
<1>5. QED
  BY <1>4

\* g holds what FlattenSeq computes on its way through the first n sequences.
Flattens(g, seqs, n) ==
    /\ g = [i \in 1..n |-> g[i]]
    /\ \A i \in 1..n : g[i] = IF i = 1 THEN seqs[i] ELSE g[i - 1] \o seqs[i]

\* Such a g exists: shorter ones can be continued.
LEMMA FlattensExists ==
    ASSUME NEW seqs, Len(seqs) \in Nat
    PROVE  \E g : Flattens(g, seqs, Len(seqs))
<1> DEFINE T == {n \in Nat : n <= Len(seqs) /\ ~ \E g : Flattens(g, seqs, n)}
<1>1. \E g : Flattens(g, seqs, 0)
  <2>1. Flattens([i \in 1..0 |-> seqs[i]], seqs, 0)
    BY DEF Flattens
  <2> QED
    BY <2>1
<1>2. ASSUME T # {} PROVE FALSE
  <2>1. T \in SUBSET Nat
    OBVIOUS
  <2> HIDE DEF T
  <2>2. PICK n \in T : \A m \in T : n <= m
    BY <1>2, <2>1, LeastNumber
  <2>3. n \in Nat /\ n # 0 /\ n <= Len(seqs) /\ ~ \E g : Flattens(g, seqs, n)
    BY <1>1 DEF T
  <2>4. n - 1 \in Nat /\ n - 1 \notin T /\ n - 1 <= Len(seqs)
    BY <2>1, <2>2, <2>3
  <2>5. \E g : Flattens(g, seqs, n - 1)
    BY <2>4 DEF T
  <2>6. PICK g : Flattens(g, seqs, n - 1)
    BY <2>5
  <2> DEFINE h == [i \in 1..n |-> IF i = n THEN IF i = 1 THEN seqs[i] ELSE g[i - 1] \o seqs[i] ELSE g[i]]
  <2>7. ASSUME NEW i \in 1..n PROVE h[i] = IF i = 1 THEN seqs[i] ELSE h[i - 1] \o seqs[i]
    <3>1. CASE i = n
      BY <2>3, <3>1
    <3>2. CASE i # n
      <4>1. i \in 1..(n - 1)
        BY <2>3, <3>2
      <4>2. g[i] = IF i = 1 THEN seqs[i] ELSE g[i - 1] \o seqs[i]
        BY <2>6, <4>1 DEF Flattens
      <4>3. h[i] = g[i] /\ (i # 1 => h[i - 1] = g[i - 1])
        BY <2>3, <3>2
      <4> QED
        BY <4>2, <4>3
    <3> QED
      BY <3>1, <3>2
  <2>8. h = [i \in 1..n |-> h[i]]
    OBVIOUS
  <2> HIDE DEF h
  <2>9. Flattens(h, seqs, n)
    BY <2>7, <2>8 DEF Flattens
  <2> QED
    BY <2>3, <2>9
<1> QED
  BY <1>2

\* What FlattenSeq stands for: a function of that kind, at its last argument.
LEMMA FlattenSeqValue ==
    ASSUME NEW seqs, Len(seqs) \in Nat, Len(seqs) # 0
    PROVE  \E g : Flattens(g, seqs, Len(seqs)) /\ FlattenSeq(seqs) = g[Len(seqs)]
<1> DEFINE Is(g) == g = [i \in 1..Len(seqs) |-> IF i = 1 THEN seqs[i] ELSE g[i - 1] \o seqs[i]]
           f == CHOOSE g : Is(g)
<1>1. PICK g : Flattens(g, seqs, Len(seqs))
  BY FlattensExists
<1>2. Is(g)
  BY <1>1 DEF Flattens
<1>3. \E h : Is(h)
  BY <1>2
<1>4. Is(f)
  <2> HIDE DEF Is
  <2> QED
    BY <1>3
<1>5. FlattenSeq(seqs) = f[Len(seqs)]
  BY DEF FlattenSeq
<1> HIDE DEF f
<1>6. Flattens(f, seqs, Len(seqs))
  BY <1>4 DEF Flattens
<1> QED
  BY <1>5, <1>6

\* Two such functions agree if one sequence begins with the other.
LEMMA FlattensAgree ==
    ASSUME NEW s, NEW t, NEW g, NEW h, NEW m \in Nat, NEW n \in Nat,
           Flattens(g, s, m), Flattens(h, t, n), n <= m, \A i \in 1..n : s[i] = t[i]
    PROVE  \A i \in 1..n : g[i] = h[i]
<1> DEFINE T == {i \in 1..n : g[i] # h[i]}
<1>1. ASSUME T # {} PROVE FALSE
  <2>1. T \in SUBSET Nat
    OBVIOUS
  <2> HIDE DEF T
  <2>2. PICK i \in T : \A j \in T : i <= j
    BY <1>1, <2>1, LeastNumber
  <2>3. i \in 1..n /\ g[i] # h[i]
    BY DEF T
  <2>4. /\ g[i] = IF i = 1 THEN s[i] ELSE g[i - 1] \o s[i]
        /\ h[i] = IF i = 1 THEN t[i] ELSE h[i - 1] \o t[i]
    <3>1. i \in 1..m /\ i \in 1..n
      BY <2>3
    <3> QED
      BY <3>1 DEF Flattens
  <2>5. CASE i = 1
    BY <2>3, <2>4, <2>5
  <2>6. CASE i # 1
    <3>1. i - 1 \in 1..n /\ i - 1 \notin T
      BY <2>2, <2>3, <2>6
    <3>2. g[i - 1] = h[i - 1]
      BY <3>1 DEF T
    <3> QED
      BY <2>3, <2>4, <2>6, <3>2
  <2> QED
    BY <2>5, <2>6
<1> QED
  BY <1>1

\* Nothing laid end to end is nothing.
LEMMA FlattenEmpty == FlattenSeq(<<>>) = <<>>
  BY DEF FlattenSeq

\* Sequences over S laid end to end are one over S.
LEMMA FlattenSeqType ==
    ASSUME NEW S, NEW seqs \in Seq(Seq(S))
    PROVE  FlattenSeq(seqs) \in Seq(S)
<1>1. CASE Len(seqs) = 0
  <2>1. seqs = <<>>
    BY <1>1
  <2>2. <<>> \in Seq(S)
    OBVIOUS
  <2> QED
    BY <2>1, <2>2, FlattenEmpty
<1>2. CASE Len(seqs) # 0
  <2>1. PICK g : Flattens(g, seqs, Len(seqs)) /\ FlattenSeq(seqs) = g[Len(seqs)]
    BY <1>2, FlattenSeqValue
  <2> DEFINE T == {i \in 1..Len(seqs) : g[i] \notin Seq(S)}
  <2>2. ASSUME T # {} PROVE FALSE
    <3>1. T \in SUBSET Nat
      OBVIOUS
    <3> HIDE DEF T
    <3>2. PICK i \in T : \A j \in T : i <= j
      BY <2>2, <3>1, LeastNumber
    <3>3. i \in 1..Len(seqs) /\ g[i] \notin Seq(S) /\ seqs[i] \in Seq(S)
      BY DEF T
    <3>4. g[i] = IF i = 1 THEN seqs[i] ELSE g[i - 1] \o seqs[i]
      BY <2>1, <3>3 DEF Flattens
    <3>5. i # 1
      BY <3>3, <3>4
    <3>6. i - 1 \in 1..Len(seqs) /\ i - 1 \notin T
      BY <3>2, <3>3, <3>5
    <3>7. g[i - 1] \in Seq(S)
      BY <3>6 DEF T
    <3> QED
      BY <3>3, <3>4, <3>5, <3>7, ConcatProperties
  <2>3. Len(seqs) \in 1..Len(seqs)
    BY <1>2
  <2> QED
    BY <2>1, <2>2, <2>3
<1> QED
  BY <1>1, <1>2

\* One sequence more comes behind the others.
LEMMA FlattenAppend ==
    ASSUME NEW S, NEW seqs \in Seq(Seq(S)), NEW seq \in Seq(S)
    PROVE  FlattenSeq(Append(seqs, seq)) = FlattenSeq(seqs) \o seq
<1> DEFINE longer == Append(seqs, seq)
<1>1. /\ Len(longer) = Len(seqs) + 1
      /\ \A i \in 1..Len(seqs) : longer[i] = seqs[i]
      /\ longer[Len(seqs) + 1] = seq
  OBVIOUS
<1>2. Len(seqs) \in Nat
  OBVIOUS
<1> HIDE DEF longer
<1>3. PICK g : Flattens(g, longer, Len(longer)) /\ FlattenSeq(longer) = g[Len(longer)]
  BY <1>1, <1>2, FlattenSeqValue
<1>4. g[Len(longer)] = IF Len(longer) = 1 THEN seq ELSE g[Len(longer) - 1] \o seq
  <2>1. Len(longer) \in 1..Len(longer)
    BY <1>1, <1>2
  <2> QED
    BY <1>1, <1>3, <2>1 DEF Flattens
<1>5. CASE Len(seqs) = 0
  <2>1. seqs = <<>>
    BY <1>5
  <2>2. FlattenSeq(seqs) \o seq = seq
    BY <2>1, FlattenEmpty, ConcatEmptySeq
  <2> QED
    BY <1>1, <1>3, <1>4, <1>5, <2>2 DEF longer
<1>6. CASE Len(seqs) # 0
  <2>1. PICK h : Flattens(h, seqs, Len(seqs)) /\ FlattenSeq(seqs) = h[Len(seqs)]
    BY <1>2, <1>6, FlattenSeqValue
  <2>2. \A i \in 1..Len(seqs) : g[i] = h[i]
    <3> DEFINE m == Len(longer)
               n == Len(seqs)
    <3>1. /\ m \in Nat /\ n \in Nat /\ n <= m
          /\ \A i \in 1..n : longer[i] = seqs[i]
          /\ Flattens(g, longer, m) /\ Flattens(h, seqs, n)
      BY <1>1, <1>2, <1>3, <2>1
    <3> HIDE DEF m, n
    <3>2. \A i \in 1..n : g[i] = h[i]
      BY ONLY <3>1, FlattensAgree, SMTT(60)
    <3> QED
      BY <3>2 DEF n
  <2>3. g[Len(longer)] = h[Len(seqs)] \o seq
    <3>1. Len(seqs) \in 1..Len(seqs) /\ Len(longer) # 1 /\ Len(longer) - 1 = Len(seqs)
      BY <1>1, <1>2, <1>6
    <3> QED
      BY <1>4, <2>2, <3>1
  <2> QED
    BY <1>3, <2>1, <2>3 DEF longer
<1> QED
  BY <1>5, <1>6

\* What is appended to the second of two sequences is appended to both.
LEMMA ConcatAppend ==
    ASSUME NEW S, NEW s \in Seq(S), NEW t \in Seq(S), NEW elt \in S
    PROVE  s \o Append(t, elt) = Append(s \o t, elt)
<1> DEFINE tail == <<elt>>
<1>1. tail \in Seq(S) /\ s \o t \in Seq(S)
  BY ConcatProperties
<1>2. Append(t, elt) = t \o tail /\ Append(s \o t, elt) = (s \o t) \o tail
  BY <1>1, AppendIsConcat
<1> HIDE DEF tail
<1>3. (s \o t) \o tail = s \o (t \o tail)
  BY ONLY <1>1, ConcatAssociative, SMTT(60)
<1> QED
  BY <1>2, <1>3

\* FlattenSeq distributes over concatenation.
LEMMA FlattenConcat ==
    ASSUME NEW S, NEW s \in Seq(Seq(S)), NEW t \in Seq(Seq(S))
    PROVE  FlattenSeq(s \o t) = FlattenSeq(s) \o FlattenSeq(t)
<1> DEFINE T == {n \in 0..Len(t) : FlattenSeq(s \o SubSeq(t, 1, n)) # FlattenSeq(s) \o FlattenSeq(SubSeq(t, 1, n))}
<1>0. FlattenSeq(s) \in Seq(S)
  BY FlattenSeqType
<1>1. 0 \notin T
  <2>1. SubSeq(t, 1, 0) = <<>>
    OBVIOUS
  <2>2. s \o <<>> = s /\ FlattenSeq(s) \o <<>> = FlattenSeq(s)
    BY <1>0, ConcatEmptySeq
  <2> QED
    BY <2>1, <2>2, FlattenEmpty
<1>2. ASSUME T # {} PROVE FALSE
  <2>1. T \in SUBSET Nat
    OBVIOUS
  <2> HIDE DEF T
  <2>2. PICK n \in T : \A m \in T : n <= m
    BY <1>2, <2>1, LeastNumber
  <2>3. n \in 1..Len(t) /\ n - 1 \in 0..Len(t) /\ n - 1 \notin T
    <3> DEFINE l == Len(t)
    <3>1. n # 0
      BY ONLY <1>1, n \in T
    <3>2. l \in Nat
      OBVIOUS
    <3> HIDE DEF l
    <3>3. n \in 0..l
      BY n \in T, Zenon DEF T, l
    <3>4. n \in 1..l /\ n - 1 \in 0..l /\ n - 1 \in Int /\ ~(n <= n - 1)
      BY ONLY <3>1, <3>2, <3>3
    <3>5. n - 1 \notin T
      BY ONLY <2>2, <3>4
    <3> QED
      BY ONLY <3>4, <3>5 DEF l
  <2> DEFINE front == SubSeq(t, 1, n - 1)
  <2>4. front \in Seq(Seq(S)) /\ t[n] \in Seq(S)
    BY <2>3
  <2>5. SubSeq(t, 1, n) = Append(front, t[n])
    BY <2>3, SubSeqRecursiveSecond, AppendIsConcat, <2>4, SMTT(60)
  <2>6. FlattenSeq(s \o front) = FlattenSeq(s) \o FlattenSeq(front)
    BY <2>3 DEF T
  <2>7. FlattenSeq(SubSeq(t, 1, n)) = FlattenSeq(front) \o t[n]
    BY <2>4, <2>5, FlattenAppend
  <2> HIDE DEF front
  <2>8. s \o Append(front, t[n]) = Append(s \o front, t[n])
    <3> DEFINE B == Seq(S)
    <3>1. s \in Seq(B) /\ front \in Seq(B) /\ t[n] \in B
      BY <2>4
    <3> HIDE DEF B
    <3> QED
      BY <3>1, ConcatAppend
  <2>9. FlattenSeq(s \o Append(front, t[n])) = FlattenSeq(s \o front) \o t[n]
    <3>1. s \o front \in Seq(Seq(S)) /\ t[n] \in Seq(S)
      BY <2>4, ConcatProperties
    <3> QED
      BY <2>8, <3>1, FlattenAppend
  <2>10. FlattenSeq(front) \in Seq(S)
    BY <2>4, FlattenSeqType
  <2>11. (FlattenSeq(s) \o FlattenSeq(front)) \o t[n] = FlattenSeq(s) \o (FlattenSeq(front) \o t[n])
    <3> DEFINE a == FlattenSeq(s)
               b == FlattenSeq(front)
               c == t[n]
    <3>1. a \in Seq(S) /\ b \in Seq(S) /\ c \in Seq(S)
      BY <1>0, <2>4, <2>10
    <3> HIDE DEF a, b, c
    <3>2. (a \o b) \o c = a \o (b \o c)
      BY ONLY <3>1, ConcatAssociative, SMTT(60)
    <3> QED
      BY <3>2 DEF a, b, c
  <2>12. FlattenSeq(s \o SubSeq(t, 1, n)) = FlattenSeq(s) \o FlattenSeq(SubSeq(t, 1, n))
    <3>1. FlattenSeq(s \o SubSeq(t, 1, n)) = (FlattenSeq(s) \o FlattenSeq(front)) \o t[n]
      BY ONLY <2>5, <2>6, <2>8, <2>9
    <3> QED
      BY ONLY <2>7, <2>11, <3>1
  <2> QED
    BY <2>12 DEF T
<1>3. Len(t) \in 0..Len(t) /\ Len(t) \notin T
  BY <1>2, SMTT(60)
<1>4. SubSeq(t, 1, Len(t)) = t
  BY SubSeqFull
<1> QED
  BY <1>3, <1>4

\* One sequence alone stays what it is.
LEMMA FlattenSingle ==
    ASSUME NEW S, NEW seq \in Seq(S)
    PROVE  FlattenSeq(<<seq>>) = seq
<1>1. <<>> \in Seq(Seq(S)) /\ Append(<<>>, seq) = <<seq>> /\ <<>> \o seq = seq
  OBVIOUS
<1>2. FlattenSeq(Append(<<>>, seq)) = FlattenSeq(<<>>) \o seq
  BY <1>1, FlattenAppend
<1> QED
  BY <1>1, <1>2, FlattenEmpty

\* How to show that e is a followed by b.
LEMMA ConcatByElements ==
    ASSUME NEW S, NEW a \in Seq(S), NEW b \in Seq(S), NEW e \in Seq(S),
           Len(e) = Len(a) + Len(b),
           \A i \in 1..Len(a) : e[i] = a[i],
           \A i \in 1..Len(b) : e[Len(a) + i] = b[i]
    PROVE  e = a \o b
<1>0. PICK m \in Nat, n \in Nat : m = Len(a) /\ n = Len(b)
  OBVIOUS
<1>1. a \o b \in Seq(S) /\ Len(a \o b) = Len(e)
  BY ConcatProperties
<1>2. ASSUME NEW i \in 1..Len(e) PROVE e[i] = (a \o b)[i]
  <2>1. (a \o b)[i] = IF i <= Len(a) THEN a[i] ELSE b[i - Len(a)]
    BY ConcatProperties
  <2>2. i \in 1..(m + n)
    BY <1>0
  <2>3. CASE i <= m
    BY <1>0, <2>1, <2>2, <2>3
  <2>4. CASE i > m
    <3>1. i - m \in 1..n /\ i = m + (i - m)
      BY <2>2, <2>4
    <3>2. e[m + (i - m)] = b[i - m]
      BY <1>0, <3>1
    <3> QED
      BY <1>0, <2>1, <2>2, <2>4, <3>1, <3>2
  <2> QED
    BY <2>2, <2>3, <2>4
<1> QED
  BY <1>1, <1>2, SeqEqual

-----------------------------------------------------------------------------
(* Where the elements of a flattened sequence are.                         *)

\* One sequence more.
LEMMA FlattenStep ==
    ASSUME NEW S, NEW seqs \in Seq(Seq(S)), NEW k \in 1..Len(seqs)
    PROVE  FlattenSeq(SubSeq(seqs, 1, k)) = FlattenSeq(SubSeq(seqs, 1, k - 1)) \o seqs[k]
<1>1. seqs[k] \in Seq(S) /\ SubSeq(seqs, 1, k - 1) \in Seq(Seq(S))
  OBVIOUS
<1>2. SubSeq(seqs, 1, k) = Append(SubSeq(seqs, 1, k - 1), seqs[k])
  <2>1. SubSeq(seqs, 1, k) = SubSeq(seqs, 1, k - 1) \o <<seqs[k]>>
    BY SubSeqRecursiveSecond
  <2> QED
    BY <1>1, <2>1, AppendIsConcat
<1> QED
  BY <1>1, <1>2, FlattenAppend

\* The number of elements in the first k sequences.
Before(seqs, k) == Len(FlattenSeq(SubSeq(seqs, 1, k)))

\* It grows by the length of every sequence, ...
LEMMA BeforeSteps ==
    ASSUME NEW S, NEW seqs \in Seq(Seq(S))
    PROVE  /\ Before(seqs, 0) = 0
           /\ Before(seqs, Len(seqs)) = Len(FlattenSeq(seqs))
           /\ \A k \in 0..Len(seqs) : Before(seqs, k) \in Nat
           /\ \A k \in 1..Len(seqs) : Before(seqs, k) = Before(seqs, k - 1) + Len(seqs[k])
<1>1. Before(seqs, 0) = 0
  <2>1. SubSeq(seqs, 1, 0) = <<>>
    OBVIOUS
  <2>2. FlattenSeq(SubSeq(seqs, 1, 0)) = <<>>
    BY <2>1, FlattenEmpty
  <2> QED
    BY <2>2, EmptySeq DEF Before
<1>2. Before(seqs, Len(seqs)) = Len(FlattenSeq(seqs))
  BY SubSeqFull DEF Before
<1>3. \A k \in 0..Len(seqs) : FlattenSeq(SubSeq(seqs, 1, k)) \in Seq(S)
  <2>1. \A k \in 0..Len(seqs) : SubSeq(seqs, 1, k) \in Seq(Seq(S))
    OBVIOUS
  <2> QED
    BY <2>1, FlattenSeqType
<1>4. ASSUME NEW k \in 1..Len(seqs) PROVE Before(seqs, k) = Before(seqs, k - 1) + Len(seqs[k])
  <2>1. k - 1 \in 0..Len(seqs) /\ seqs[k] \in Seq(S)
    OBVIOUS
  <2>2. Len(FlattenSeq(SubSeq(seqs, 1, k - 1)) \o seqs[k]) = Len(FlattenSeq(SubSeq(seqs, 1, k - 1))) + Len(seqs[k])
    BY <1>3, <2>1, ConcatProperties
  <2> QED
    BY <2>2, FlattenStep DEF Before
<1> QED
  BY <1>1, <1>2, <1>3, <1>4, LenProperties DEF Before

\* ... and never gets less.
LEMMA BeforeGrows ==
    ASSUME NEW S, NEW seqs \in Seq(Seq(S)), NEW k \in 0..Len(seqs), NEW j \in 0..k
    PROVE  Before(seqs, j) <= Before(seqs, k)
<1> DEFINE T == {m \in 0..Len(seqs) : j <= m /\ ~(Before(seqs, j) <= Before(seqs, m))}
<1>1. ASSUME T # {} PROVE FALSE
  <2>1. T \in SUBSET Nat
    OBVIOUS
  <2> HIDE DEF T
  <2>2. PICK m \in T : \A i \in T : m <= i
    BY <1>1, <2>1, LeastNumber
  <2>3. m \in 0..Len(seqs) /\ j <= m /\ ~(Before(seqs, j) <= Before(seqs, m))
    BY DEF T
  <2>4. Len(seqs) \in Nat /\ \A i \in 0..Len(seqs) : Before(seqs, i) \in Nat
    BY BeforeSteps
  <2>5. m # j /\ j \in 0..Len(seqs)
    BY <2>3, <2>4
  <2>6. m \in 1..Len(seqs) /\ m - 1 \in 0..Len(seqs) /\ j <= m - 1 /\ m - 1 \notin T
    BY <2>2, <2>3, <2>4, <2>5
  <2>7. Before(seqs, j) <= Before(seqs, m - 1)
    BY <2>6 DEF T
  <2>8. Before(seqs, m) = Before(seqs, m - 1) + Len(seqs[m]) /\ Len(seqs[m]) \in Nat
    BY <2>6, BeforeSteps
  <2>9. PICK a \in Nat, b \in Nat, c \in Nat, l \in Nat :
           /\ a = Before(seqs, j) /\ b = Before(seqs, m - 1) /\ c = Before(seqs, m)
           /\ l = Len(seqs[m])
    BY <2>3, <2>4, <2>5, <2>6, <2>8
  <2>10. a <= b /\ c = b + l /\ ~(a <= c)
    BY <2>3, <2>7, <2>8, <2>9
  <2> QED
    BY <2>10
<1>2. k \in Nat /\ k \in 0..Len(seqs) /\ j <= k
  OBVIOUS
<1> QED
  BY <1>1, <1>2

\* Where an element comes to be.
LEMMA FlattenAt ==
    ASSUME NEW S, NEW seqs \in Seq(Seq(S)), NEW k \in 1..Len(seqs), NEW j \in 1..Len(seqs[k])
    PROVE  /\ Before(seqs, k - 1) + j \in 1..Len(FlattenSeq(seqs))
           /\ FlattenSeq(seqs)[Before(seqs, k - 1) + j] = seqs[k][j]
<1> DEFINE front == FlattenSeq(SubSeq(seqs, 1, k - 1))
           rest == FlattenSeq(SubSeq(seqs, k + 1, Len(seqs)))
           b == Before(seqs, k - 1)
<1>1. SubSeq(seqs, 1, k - 1) \in Seq(Seq(S)) /\ SubSeq(seqs, k + 1, Len(seqs)) \in Seq(Seq(S))
      /\ SubSeq(seqs, 1, k) \in Seq(Seq(S)) /\ seqs[k] \in Seq(S)
  OBVIOUS
<1>2. front \in Seq(S) /\ rest \in Seq(S)
  BY <1>1, FlattenSeqType
<1>3. seqs = SubSeq(seqs, 1, k) \o SubSeq(seqs, k + 1, Len(seqs))
  <2>1. SubSeq(seqs, 1, k) \o SubSeq(seqs, k + 1, Len(seqs)) = SubSeq(seqs, 1, Len(seqs))
    BY ConcatAdjacentSubSeq
  <2> QED
    BY <2>1, SubSeqFull
<1>4. FlattenSeq(seqs) = FlattenSeq(SubSeq(seqs, 1, k)) \o rest
  BY <1>1, <1>3, FlattenConcat
<1>5. FlattenSeq(SubSeq(seqs, 1, k)) = front \o seqs[k]
  BY FlattenStep
<1>6. front \o seqs[k] \in Seq(S) /\ Len(front \o seqs[k]) = b + Len(seqs[k])
  BY <1>1, <1>2, ConcatProperties DEF Before
<1>7. b \in Nat /\ Len(seqs[k]) \in Nat /\ Len(rest) \in Nat
  BY <1>1, <1>2, LenProperties DEF Before
<1>8. (front \o seqs[k])[b + j] = seqs[k][j]
  <2>1. Len(front) = b
    BY DEF Before
  <2> HIDE DEF front, b
  <2>2. b + j \in 1..(Len(front) + Len(seqs[k])) /\ ~(b + j <= Len(front)) /\ (b + j) - Len(front) = j
    BY <1>7, <2>1
  <2>3. (front \o seqs[k])[b + j] = IF b + j <= Len(front) THEN front[b + j] ELSE seqs[k][(b + j) - Len(front)]
    BY <1>1, <1>2, <2>2, ConcatProperties
  <2> QED
    BY <2>2, <2>3
<1> HIDE DEF front, rest, b
<1> DEFINE first == front \o seqs[k]
<1>9. first \in Seq(S) /\ Len(first) = b + Len(seqs[k]) /\ first[b + j] = seqs[k][j]
      /\ FlattenSeq(seqs) = first \o rest
  BY <1>4, <1>5, <1>6, <1>8
<1> HIDE DEF first
<1>10. Len(first \o rest) = Len(first) + Len(rest)
  BY <1>2, <1>9, ConcatProperties
<1>11. b + j \in 1..(Len(first) + Len(rest)) /\ b + j <= Len(first)
  BY <1>7, <1>9, SMTT(60)
<1>12. (first \o rest)[b + j] = IF b + j <= Len(first) THEN first[b + j] ELSE rest[(b + j) - Len(first)]
  BY <1>2, <1>9, <1>11, ConcatProperties
<1> QED
  BY <1>9, <1>10, <1>11, <1>12 DEF b

\* Where an element comes from.
LEMMA FlattenFrom ==
    ASSUME NEW S, NEW seqs \in Seq(Seq(S)), NEW p \in 1..Len(FlattenSeq(seqs))
    PROVE  \E k \in 1..Len(seqs) : \E j \in 1..Len(seqs[k]) :
              p = Before(seqs, k - 1) + j /\ FlattenSeq(seqs)[p] = seqs[k][j]
<1> DEFINE T == {k \in 0..Len(seqs) : p <= Before(seqs, k)}
<1>0. Len(seqs) \in Nat /\ \A k \in 0..Len(seqs) : Before(seqs, k) \in Nat
  BY BeforeSteps
<1>1. Len(seqs) \in T
  <2>1. FlattenSeq(seqs) \in Seq(S)
    BY FlattenSeqType
  <2>2. Len(FlattenSeq(seqs)) \in Nat /\ Before(seqs, Len(seqs)) = Len(FlattenSeq(seqs))
    BY <2>1, BeforeSteps
  <2> QED
    BY <1>0, <2>2
<1>2. T \in SUBSET Nat /\ T # {}
  BY <1>1
<1> HIDE DEF T
<1>3. PICK k \in T : \A m \in T : k <= m
  BY <1>2, LeastNumber
<1>4. k \in 0..Len(seqs) /\ p <= Before(seqs, k)
  BY DEF T
<1>5. p \in Nat /\ p >= 1
  OBVIOUS
<1>6. k # 0
  BY <1>4, <1>5, BeforeSteps
<1>7. k \in 1..Len(seqs) /\ k - 1 \in 0..Len(seqs) /\ k - 1 \notin T
  BY <1>0, <1>3, <1>4, <1>6
<1>8. ~(p <= Before(seqs, k - 1))
  BY <1>7 DEF T
<1>9. Before(seqs, k) = Before(seqs, k - 1) + Len(seqs[k]) /\ Len(seqs[k]) \in Nat
  BY <1>7, BeforeSteps
<1> DEFINE b == Before(seqs, k - 1)
<1>10. b \in Nat
  BY <1>0, <1>7
<1>11. p - b \in 1..Len(seqs[k]) /\ p = b + (p - b)
  BY <1>4, <1>5, <1>8, <1>9, <1>10, SMTT(60)
<1>12. FlattenSeq(seqs)[b + (p - b)] = seqs[k][p - b]
  BY <1>7, <1>11, FlattenAt
<1> QED
  BY <1>7, <1>11, <1>12

\* Empty sequences add nothing.
LEMMA FlattenEmpties ==
    ASSUME NEW S, NEW seqs \in Seq(Seq(S)), \A k \in 1..Len(seqs) : seqs[k] = <<>>
    PROVE  FlattenSeq(seqs) = <<>>
<1>1. FlattenSeq(seqs) \in Seq(S)
  BY FlattenSeqType
<1>2. ASSUME Len(FlattenSeq(seqs)) # 0 PROVE FALSE
  <2>1. Len(FlattenSeq(seqs)) \in Nat
    BY <1>1
  <2>2. 1 \in 1..Len(FlattenSeq(seqs))
    BY <1>2, <2>1
  <2>3. PICK k \in 1..Len(seqs) : \E j \in 1..Len(seqs[k]) : TRUE
    BY <2>2, FlattenFrom
  <2>4. Len(seqs[k]) = 0
    BY <2>3
  <2> QED
    BY <2>3, <2>4
<1> QED
  BY <1>1, <1>2

\* Only empty sequences at the end.
LEMMA FlattenFront ==
    ASSUME NEW S, NEW seqs \in Seq(Seq(S)), NEW K \in 0..Len(seqs),
           \A k \in (K + 1)..Len(seqs) : seqs[k] = <<>>
    PROVE  FlattenSeq(seqs) = FlattenSeq(SubSeq(seqs, 1, K))
<1> DEFINE n == Len(seqs)
           front == SubSeq(seqs, 1, K)
           back == SubSeq(seqs, K + 1, n)
<1>1. n \in Nat /\ front \in Seq(Seq(S)) /\ back \in Seq(Seq(S)) /\ Len(back) = n - K
      /\ \A k \in 1..(n - K) : back[k] = seqs[K + k]
  BY SMTT(60)
<1>2. seqs = front \o back
  <2>1. 1 \in 1..(n + 1) /\ K \in (1 - 1)..n /\ n \in K..n
    BY <1>1
  <2>2. front \o back = SubSeq(seqs, 1, n)
    BY <2>1, ConcatAdjacentSubSeq
  <2> QED
    BY <2>2, SubSeqFull
<1>3. \A k \in 1..Len(back) : back[k] = <<>>
  <2>1. \A k \in 1..(n - K) : K + k \in (K + 1)..n
    BY <1>1
  <2> QED
    BY <1>1, <2>1
<1> HIDE DEF front, back
<1>4. FlattenSeq(back) = <<>>
  BY <1>1, <1>3, FlattenEmpties
<1>5. FlattenSeq(front) \in Seq(S)
  BY <1>1, FlattenSeqType
<1>6. FlattenSeq(seqs) = FlattenSeq(front) \o <<>>
  BY <1>1, <1>2, <1>4, FlattenConcat
<1> QED
  BY <1>5, <1>6, ConcatEmptySeq DEF front

-----------------------------------------------------------------------------
(* A function applied to every element of a sequence.                      *)
\* f is a function from S to R.
Maps(f, S, R) == f \in [S -> R]

\* f applied to every element.
Map(f, seq) == [i \in DOMAIN seq |-> f[seq[i]]]

\* The result has the elements of the range, in their places.
LEMMA MapType ==
    ASSUME NEW S, NEW R, NEW f, Maps(f, S, R), NEW s \in Seq(S)
    PROVE  /\ Map(f, s) \in Seq(R)
           /\ Len(Map(f, s)) = Len(s)
           /\ \A i \in 1..Len(s) : Map(f, s)[i] = f[s[i]]
<1>1. DOMAIN s = 1..Len(s) /\ Len(s) \in Nat /\ \A i \in 1..Len(s) : s[i] \in S
  OBVIOUS
<1>2. \A i \in 1..Len(s) : f[s[i]] \in R
  BY <1>1 DEF Maps
<1> QED
  BY <1>1, <1>2 DEF Map

\* Nothing comes from nothing.
LEMMA MapEmpty == \A f : Map(f, <<>>) = <<>>
  BY DEF Map

\* Applying to a concatenation is applying to each part, ...
LEMMA MapConcat ==
    ASSUME NEW S, NEW R, NEW f, Maps(f, S, R), NEW s \in Seq(S), NEW t \in Seq(S)
    PROVE  Map(f, s \o t) = Map(f, s) \o Map(f, t)
<1>1. s \o t \in Seq(S) /\ Len(s \o t) = Len(s) + Len(t)
  BY ConcatProperties
<1> DEFINE u == s \o t
<1>7. /\ u \in Seq(S) /\ Len(u) = Len(s) + Len(t)
      /\ \A i \in 1..(Len(s) + Len(t)) : u[i] = IF i <= Len(s) THEN s[i] ELSE t[i - Len(s)]
  BY <1>1, ConcatProperties
<1> HIDE DEF u
<1>8. Map(f, s) \in Seq(R) /\ Len(Map(f, s)) = Len(s) /\ \A i \in 1..Len(s) : Map(f, s)[i] = f[s[i]]
  BY MapType
<1>9. Map(f, t) \in Seq(R) /\ Len(Map(f, t)) = Len(t) /\ \A i \in 1..Len(t) : Map(f, t)[i] = f[t[i]]
  BY MapType
<1>10. Map(f, u) \in Seq(R) /\ Len(Map(f, u)) = Len(u) /\ \A i \in 1..Len(u) : Map(f, u)[i] = f[u[i]]
  BY <1>7, MapType
<1>3. PICK m \in Nat, n \in Nat : m = Len(s) /\ n = Len(t)
  OBVIOUS
<1>4. ASSUME NEW i \in 1..m PROVE Map(f, u)[i] = Map(f, s)[i]
  <2>1. i \in 1..Len(s) /\ i \in 1..Len(u) /\ i \in 1..(Len(s) + Len(t)) /\ i <= Len(s)
    BY <1>3, <1>7
  <2> QED
    BY <1>7, <1>8, <1>10, <2>1
<1>5. ASSUME NEW i \in 1..n PROVE Map(f, u)[m + i] = Map(f, t)[i]
  <2>1. /\ i \in 1..Len(t) /\ m + i \in 1..Len(u) /\ m + i \in 1..(Len(s) + Len(t))
        /\ ~(m + i <= Len(s)) /\ (m + i) - Len(s) = i
    BY <1>3, <1>7
  <2>2. u[m + i] = t[i]
    BY <1>7, <2>1
  <2> QED
    BY <1>9, <1>10, <2>1, <2>2
<1>6. /\ Len(Map(f, u)) = Len(Map(f, s)) + Len(Map(f, t))
      /\ \A i \in 1..Len(Map(f, s)) : Map(f, u)[i] = Map(f, s)[i]
      /\ \A i \in 1..Len(Map(f, t)) : Map(f, u)[Len(Map(f, s)) + i] = Map(f, t)[i]
  BY <1>3, <1>4, <1>5, <1>7, <1>8, <1>9, <1>10
<1>11. Map(f, u) = Map(f, s) \o Map(f, t)
  BY <1>6, <1>8, <1>9, <1>10, ConcatByElements
<1> QED
  BY <1>11 DEF u

\* ... for any number of parts.
LEMMA MapFlatten ==
    ASSUME NEW S, NEW R, NEW f, Maps(f, S, R), NEW seqs \in Seq(Seq(S))
    PROVE  Map(f, FlattenSeq(seqs)) = FlattenSeq([k \in DOMAIN seqs |-> Map(f, seqs[k])])
<1> DEFINE mapped == [k \in DOMAIN seqs |-> Map(f, seqs[k])]
           T == {n \in 0..Len(seqs) : Map(f, FlattenSeq(SubSeq(seqs, 1, n)))
                                        # FlattenSeq(SubSeq(mapped, 1, n))}
<1>1. /\ mapped \in Seq(Seq(R)) /\ Len(mapped) = Len(seqs)
      /\ \A k \in 1..Len(seqs) : mapped[k] = Map(f, seqs[k])
  <2>1. DOMAIN seqs = 1..Len(seqs) /\ Len(seqs) \in Nat /\ \A k \in 1..Len(seqs) : seqs[k] \in Seq(S)
    OBVIOUS
  <2>2. \A k \in 1..Len(seqs) : Map(f, seqs[k]) \in Seq(R)
    BY <2>1, MapType
  <2> QED
    BY <2>1, <2>2
<1> HIDE DEF mapped
<1>2. 0 \notin T
  <2>1. SubSeq(seqs, 1, 0) = <<>> /\ SubSeq(mapped, 1, 0) = <<>>
    BY <1>1
  <2>2. Map(f, <<>>) = <<>>
    BY MapEmpty
  <2> QED
    BY <2>1, <2>2, FlattenEmpty
<1>3. ASSUME T # {} PROVE FALSE
  <2>1. T \in SUBSET Nat
    OBVIOUS
  <2> HIDE DEF T
  <2>2. PICK n \in T : \A m \in T : n <= m
    BY <1>3, <2>1, LeastNumber
  <2>3. n \in 1..Len(seqs) /\ n - 1 \in 0..Len(seqs) /\ n - 1 \notin T
    BY <1>2, <2>2 DEF T
  <2> DEFINE front == FlattenSeq(SubSeq(seqs, 1, n - 1))
  <2>4. front \in Seq(S) /\ seqs[n] \in Seq(S)
    <3>1. SubSeq(seqs, 1, n - 1) \in Seq(Seq(S))
      BY <2>3
    <3>2. front \in Seq(S)
      BY <3>1, FlattenSeqType
    <3>3. seqs[n] \in Seq(S)
      BY <2>3
    <3> QED
      BY <3>2, <3>3
  <2>5. FlattenSeq(SubSeq(seqs, 1, n)) = front \o seqs[n]
    BY <2>3, FlattenStep
  <2>6. Map(f, front \o seqs[n]) = Map(f, front) \o Map(f, seqs[n])
    <3> HIDE DEF front
    <3> DEFINE last == seqs[n]
    <3>1. front \in Seq(S) /\ last \in Seq(S)
      BY <2>4
    <3> HIDE DEF last
    <3>2. Map(f, front \o last) = Map(f, front) \o Map(f, last)
      BY ONLY Maps(f, S, R), <3>1, MapConcat, SMTT(60)
    <3> QED
      BY <3>2 DEF last
  <2>7. Map(f, front) = FlattenSeq(SubSeq(mapped, 1, n - 1))
    BY <2>3 DEF T
  <2>8. FlattenSeq(SubSeq(mapped, 1, n)) = FlattenSeq(SubSeq(mapped, 1, n - 1)) \o mapped[n]
    <3>1. n \in 1..Len(mapped)
      BY <1>1, <2>3
    <3> QED
      BY <1>1, <3>1, FlattenStep
  <2>9. n \notin T
    BY <1>1, <2>3, <2>5, <2>6, <2>7, <2>8 DEF T
  <2> QED
    BY <2>2, <2>9
<1>4. Len(seqs) \in 0..Len(seqs)
  OBVIOUS
<1>5. SubSeq(seqs, 1, Len(seqs)) = seqs /\ SubSeq(mapped, 1, Len(seqs)) = mapped
  BY <1>1, SubSeqFull
<1> QED
  BY <1>3, <1>4, <1>5 DEF mapped

=============================================================================
