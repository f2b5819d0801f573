-------------------------- MODULE RigTools_proofs ---------------------------
(***************************************************************************)
(* Proofs about the tools that read captures, in three parts:              *)
(*                                                                         *)
(*   1. SevenBit: unpack_7bit drops, doubles and moves no bit.             *)
(*   2. RigSchema: the columns of the catalog describe what is displayed.  *)
(*   3. RigExport: the sections of a dump that came through whole are in   *)
(*      settings.csv as the device held them, whatever follows them; the   *)
(*      rows and the summary of an intact dump are what the device held.   *)
(*                                                                         *)
(* The provers have no induction over data.  Where a definition recurs,    *)
(* over numbers or along a dump, its value is found with LeastNumber: of   *)
(* the numbers for which a statement fails there would be a least one.     *)
(***************************************************************************)
EXTENDS RigExport, RigDecode, SequenceLemmas

-----------------------------------------------------------------------------
(* Part 1.  Powers of two.                                                 *)

\* g holds the powers of two up to n.
Powers(g, n) ==
    /\ g = [i \in 0..n |-> g[i]]
    /\ \A i \in 0..n : g[i] = IF i = 0 THEN 1 ELSE 2 * g[i - 1]

\* The powers up to any n exist, ...
LEMMA PowersExist == ASSUME NEW n \in Nat PROVE \E g : Powers(g, n)
<1> DEFINE T == {k \in Nat : ~ \E g : Powers(g, k)}
<1>1. ASSUME T # {} PROVE FALSE
  <2>1. T \in SUBSET Nat
    OBVIOUS
  <2> HIDE DEF T
  <2>2. PICK k \in T : \A m \in T : k <= m
    BY <1>1, <2>1, LeastNumber
  <2>3. k \in Nat /\ ~ \E g : Powers(g, k)
    BY DEF T
  <2>4. CASE k = 0
    <3>1. Powers([i \in 0..0 |-> 1], 0)
      BY DEF Powers
    <3> QED
      BY <2>3, <2>4, <3>1
  <2>5. CASE k # 0
    <3>1. k - 1 \in Nat /\ k - 1 \notin T
      BY <2>2, <2>3, <2>5
    <3>2. \E g : Powers(g, k - 1)
      BY <3>1 DEF T
    <3>3. PICK g : Powers(g, k - 1)
      BY <3>2
    <3> DEFINE h == [i \in 0..k |-> IF i = k THEN 2 * g[k - 1] ELSE g[i]]
    <3>4. ASSUME NEW i \in 0..k PROVE h[i] = IF i = 0 THEN 1 ELSE 2 * h[i - 1]
      <4>1. CASE i = k
        BY <2>3, <2>5, <4>1
      <4>2. CASE i # k
        <5>1. i \in 0..(k - 1)
          BY <2>3, <4>2
        <5>2. g[i] = IF i = 0 THEN 1 ELSE 2 * g[i - 1]
          BY <3>3, <5>1 DEF Powers
        <5>3. h[i] = g[i] /\ (i # 0 => h[i - 1] = g[i - 1])
          BY <2>3, <5>1
        <5> QED
          BY <5>2, <5>3
      <4> QED
        BY <4>1, <4>2
    <3>5. h = [i \in 0..k |-> h[i]]
      OBVIOUS
    <3> HIDE DEF h
    <3>6. Powers(h, k)
      BY <3>4, <3>5 DEF Powers
    <3> QED
      BY <2>3, <3>6
  <2> QED
    BY <2>4, <2>5
<1> QED
  BY <1>1

\* ... and there is one way to be them.
LEMMA PowersAgree ==
    ASSUME NEW m \in Nat, NEW n \in Nat, NEW g, NEW h, Powers(g, m), Powers(h, n)
    PROVE  \A i \in 0..m : i <= n => g[i] = h[i]
<1> DEFINE T == {i \in 0..m : i <= n /\ g[i] # h[i]}
<1>1. ASSUME T # {} PROVE FALSE
  <2>1. T \in SUBSET Nat
    OBVIOUS
  <2> HIDE DEF T
  <2>2. PICK i \in T : \A j \in T : i <= j
    BY <1>1, <2>1, LeastNumber
  <2>3. i \in 0..m /\ i <= n /\ g[i] # h[i]
    BY DEF T
  <2>4. g[i] = (IF i = 0 THEN 1 ELSE 2 * g[i - 1]) /\ h[i] = (IF i = 0 THEN 1 ELSE 2 * h[i - 1])
    <3>1. i \in 0..m /\ i \in 0..n
      BY <2>3
    <3>2. g[i] = (IF i = 0 THEN 1 ELSE 2 * g[i - 1])
      BY <3>1 DEF Powers
    <3>3. h[i] = (IF i = 0 THEN 1 ELSE 2 * h[i - 1])
      BY <3>1 DEF Powers
    <3> QED
      BY <3>2, <3>3
  <2>5. i # 0 => i - 1 \in 0..m /\ i - 1 <= n /\ i - 1 \notin T
    BY <2>2, <2>3
  <2>6. i # 0 => g[i - 1] = h[i - 1]
    BY <2>5 DEF T
  <2> QED
    BY <2>3, <2>4, <2>6
<1> QED
  BY <1>1

\* The recursion that defines Pow2 holds of it.
LEMMA Pow2Def == /\ Pow2 = [n \in Nat |-> Pow2[n]]
                 /\ \A n \in Nat : Pow2[n] = IF n = 0 THEN 1 ELSE 2 * Pow2[n - 1]
<1> DEFINE Is(f) == f = [n \in Nat |-> IF n = 0 THEN 1 ELSE 2 * f[n - 1]]
           P(n) == CHOOSE g : Powers(g, n)
           F == [n \in Nat |-> P(n)[n]]
<1>1. \A n \in Nat : Powers(P(n), n)
  BY PowersExist
<1> HIDE DEF P
<1>2. ASSUME NEW n \in Nat PROVE F[n] = IF n = 0 THEN 1 ELSE 2 * F[n - 1]
  <2> DEFINE g == P(n)
             h == P(n - 1)
  <2>1. CASE n = 0
    <3>1. Powers(g, 0)
      BY <1>1, <2>1
    <3> HIDE DEF g
    <3>2. g[0] = 1
      BY <3>1 DEF Powers
    <3> QED
      BY <2>1, <3>2 DEF g
  <2>2. CASE n # 0
    <3>1. n - 1 \in Nat /\ Powers(g, n) /\ Powers(h, n - 1)
      BY <1>1, <2>2
    <3>2. F[n] = g[n] /\ F[n - 1] = h[n - 1]
      BY <3>1
    <3> HIDE DEF g, h, F
    <3>3. g[n] = 2 * g[n - 1]
      <4>1. n \in 0..n /\ Powers(g, n)
        BY <3>1
      <4> QED
        BY <2>2, <4>1 DEF Powers
    <3> DEFINE k == n - 1
    <3>4. k \in Nat /\ k <= n /\ Powers(h, k)
      BY <3>1
    <3> HIDE DEF k
    <3>5. g[k] = h[k]
      BY <3>1, <3>4, PowersAgree
    <3> QED
      BY <2>2, <3>2, <3>3, <3>5 DEF k
  <2> QED
    BY <2>1, <2>2
<1>3. Is(F)
  BY <1>2
<1>4. \E f : Is(f)
  BY <1>3
<1>5. Is(Pow2)
  <2>1. Pow2 = CHOOSE f : Is(f)
    BY DEF Pow2
  <2> HIDE DEF Is
  <2> QED
    BY <1>4, <2>1
<1>6. Pow2 = [n \in Nat |-> IF n = 0 THEN 1 ELSE 2 * Pow2[n - 1]]
  BY <1>5
<1> QED
  BY <1>6

\* Division with remainder.
LEMMA Division ==
    ASSUME NEW n \in Nat, NEW d \in Nat, d > 0
    PROVE  /\ n \div d \in Nat
           /\ (n % d) \in 0..(d - 1)
           /\ n = (n \div d) * d + (n % d)
  BY SMT

\* Its quotient is the only one.
LEMMA Quotient ==
    ASSUME NEW q \in Nat, NEW d \in Nat, NEW r \in 0..(d - 1), d > 0
    PROVE  (q * d + r) \div d = q
  BY SMT

\* What the two loops of unpack_7bit produce is the number of whole bytes in
\* the n * Width bits of the dump.
THEOREM EveryWholeByte ==
    ASSUME NEW n \in Nat
    PROVE  UnpackedLength(n) = (n * Width) \div (Width + 1)
<1> DEFINE d == Width + 1
           q == n \div d
           r == n % d
<1>1. Width \in Nat /\ d \in Nat /\ d > 0
  BY WidthAssumption
<1>2. q \in Nat /\ r \in 0..(d - 1) /\ n = q * d + r
  BY <1>1, Division
<1>3. UnpackedLength(n) = q * Width + (IF r = 0 THEN 0 ELSE r - 1)
  BY DEF UnpackedLength
<1> HIDE DEF q, r
<1>4. CASE r = 0
  <2>1. n * Width = (q * Width) * d + 0
    BY <1>1, <1>2, <1>4, SMT
  <2>2. (n * Width) \div d = q * Width
    BY <1>1, <1>2, <2>1, Quotient, SMT
  <2> QED
    BY <1>1, <1>2, <1>3, <1>4, <2>2, SMT
<1>5. CASE r > 0
  <2>1. n * Width = (q * Width + (r - 1)) * d + (d - r)
    BY <1>1, <1>2, <1>5, SMT
  <2>2. q * Width + (r - 1) \in Nat /\ d - r \in 0..(d - 1)
    BY <1>1, <1>2, <1>5, SMT
  <2>3. (n * Width) \div d = q * Width + (r - 1)
    BY <1>1, <2>1, <2>2, Quotient
  <2> QED
    BY <1>2, <1>3, <1>5, <2>3
<1> QED
  BY <1>2, <1>4, <1>5

\* The check of the buffer's capacity in unpack_7bit never ends the loop: the
\* capacity its callers compute is always enough.
THEOREM CapacitySuffices ==
    ASSUME NEW n \in Nat
    PROVE  Used(n) = UnpackedLength(n)
<1>1. (n * Width) \div (Width + 1) \in Int
  BY WidthAssumption, SMT
<1> QED
  BY <1>1, EveryWholeByte, SMT DEF Used, Capacity

\* A power of two is a positive number, ...
LEMMA Pow2Type == \A n \in Nat : Pow2[n] \in Nat \ {0}
<1> DEFINE T == {n \in Nat : Pow2[n] \notin Nat \ {0}}
<1>1. ASSUME T # {} PROVE FALSE
  <2>1. T \in SUBSET Nat
    OBVIOUS
  <2> HIDE DEF T
  <2>2. PICK n \in T : \A m \in T : n <= m
    BY <1>1, <2>1, LeastNumber
  <2>3. n \in Nat /\ Pow2[n] \notin Nat \ {0}
    BY DEF T
  <2>4. Pow2[n] = IF n = 0 THEN 1 ELSE 2 * Pow2[n - 1]
    BY <2>3, Pow2Def
  <2>5. n # 0 => n - 1 \in Nat /\ n - 1 \notin T
    BY <2>2, <2>3
  <2>6. n # 0 => Pow2[n - 1] \in Nat \ {0}
    BY <2>5 DEF T
  <2> QED
    BY <2>3, <2>4, <2>6
<1> QED
  BY <1>1

\* ... and a product of two is a power of two.
LEMMA Pow2Sum == ASSUME NEW m \in Nat, NEW n \in Nat PROVE Pow2[m + n] = Pow2[m] * Pow2[n]
<1> DEFINE T == {k \in Nat : Pow2[m + k] # Pow2[m] * Pow2[k]}
<1>1. ASSUME T # {} PROVE FALSE
  <2>1. T \in SUBSET Nat
    OBVIOUS
  <2> HIDE DEF T
  <2>2. PICK k \in T : \A j \in T : k <= j
    BY <1>1, <2>1, LeastNumber
  <2>3. k \in Nat /\ Pow2[m + k] # Pow2[m] * Pow2[k]
    BY DEF T
  <2> DEFINE a == Pow2[m]
             l == k - 1
  <2>4. a \in Nat
    BY Pow2Type
  <2>5. k # 0
    <3>1. Pow2[0] = 1
      BY Pow2Def
    <3> QED
      BY <2>3, <2>4, <3>1
  <2>6. l \in Nat /\ l \notin T /\ k = l + 1 /\ m + k = (m + l) + 1
    BY <2>2, <2>3, <2>5
  <2> HIDE DEF a, l
  <2>7. Pow2[m + l] = a * Pow2[l]
    BY <2>6 DEF T, a
  <2>8. Pow2[k] = 2 * Pow2[l]
    <3>1. k \in Nat /\ k # 0 /\ k - 1 = l
      BY <2>3, <2>6
    <3> QED
      BY <3>1, Pow2Def
  <2>9. Pow2[m + k] = 2 * Pow2[m + l]
    <3> DEFINE q == m + k
    <3>1. q \in Nat /\ q # 0 /\ q - 1 = m + l
      BY <2>6
    <3> HIDE DEF q
    <3>2. Pow2[q] = 2 * Pow2[m + l]
      BY <3>1, Pow2Def
    <3> QED
      BY <3>2 DEF q
  <2> DEFINE b == Pow2[l]
  <2>10. b \in Nat
    BY <2>6, Pow2Type
  <2>11. 2 * (a * b) = a * (2 * b)
    <3> HIDE DEF b
    <3> QED
      BY <2>4, <2>10
  <2> QED
    BY <2>3, <2>7, <2>8, <2>9, <2>11 DEF a
<1> QED
  BY <1>1

\* Dividing twice is dividing by the product.
LEMMA DivDiv ==
    ASSUME NEW x \in Nat, NEW a \in Nat \ {0}, NEW b \in Nat \ {0}
    PROVE  (x \div a) \div b = x \div (a * b)
<1> DEFINE q == x \div a
           r == x % a
<1>1. q \in Nat /\ r \in 0..a - 1 /\ x = q * a + r
  BY Division
<1> HIDE DEF q, r
<1> DEFINE s == q \div b
           t == q % b
<1>2. s \in Nat /\ t \in 0..b - 1 /\ q = s * b + t
  BY <1>1, Division
<1> HIDE DEF s, t
<1> DEFINE d == a * b
           e == t * a + r
<1>3. d \in Nat /\ d > 0
  BY SMT
<1>4. x = s * d + e
  BY <1>1, <1>2, SMT
<1>5. e \in 0..d - 1
  <2>1. t * a <= (b - 1) * a
    BY <1>2, SMT
  <2>2. (b - 1) * a = d - a
    BY SMT
  <2>3. e \in Nat
    BY <1>1, <1>2, SMT
  <2>4. d - a \in Int /\ t * a \in Int /\ r \in Int /\ r <= a - 1 /\ d \in Int /\ a \in Int
    BY <1>1, <1>2, <1>3, SMT
  <2> DEFINE u == t * a
             v == (b - 1) * a
  <2>5. u <= v /\ v = d - a /\ e = u + r /\ u \in Int
    BY <2>1, <2>2, <2>4
  <2> HIDE DEF u, v, d, e
  <2> QED
    BY <2>3, <2>4, <2>5
<1> HIDE DEF d, e
<1>6. x \div d = s
  BY <1>2, <1>3, <1>4, <1>5, Quotient
<1> QED
  BY <1>6 DEF d, s, q

\* A multiple of the divisor comes out as it is.
LEMMA DivSum ==
    ASSUME NEW y \in Nat, NEW c \in Nat, NEW a \in Nat \ {0}
    PROVE  (y * a + c) \div a = y + (c \div a)
<1> DEFINE q == c \div a
           r == c % a
<1>1. q \in Nat /\ r \in 0..a - 1 /\ c = q * a + r
  BY Division
<1> HIDE DEF q, r
<1>2. y * a + c = (y + q) * a + r
  BY <1>1, SMT
<1>3. y + q \in Nat /\ a \in Nat /\ a > 0
  BY <1>1
<1> DEFINE z == y + q
           w == y * a + c
<1>4. z \in Nat /\ w = z * a + r
  BY <1>2, <1>3
<1> HIDE DEF z, w
<1>5. w \div a = z
  BY <1>1, <1>3, <1>4, Quotient
<1> QED
  BY <1>5 DEF z, w, q

\* The parity of a quotient does not see what a multiple of twice the divisor is.
LEMMA ModDivParity ==
    ASSUME NEW x \in Nat, NEW a \in Nat \ {0}, NEW b \in Nat \ {0}
    PROVE  ((x % (a * (2 * b))) \div a) % 2 = (x \div a) % 2
<1> DEFINE d == a * (2 * b)
<1>1. d \in Nat /\ d > 0
  BY SMT
<1> DEFINE q == x \div d
           r == x % d
<1>2. q \in Nat /\ r \in Nat /\ x = q * d + r
  <2> HIDE DEF d
  <2> QED
    BY <1>1, Division
<1> HIDE DEF q, r
<1> DEFINE y == q * (2 * b)
<1>3. y \in Nat /\ x = y * a + r
  BY <1>2, SMT
<1>4. y = 2 * (q * b) /\ q * b \in Nat
  BY <1>2, SMT
<1> HIDE DEF y
<1>5. (y * a + r) \div a = y + (r \div a)
  BY <1>2, <1>3, DivSum
<1> DEFINE m == q * b
           n == r \div a
<1>6. n \in Nat
  BY <1>2, Division
<1>7. m \in Nat /\ y = 2 * m
  BY <1>4
<1> HIDE DEF m, n
<1>8. (y + n) % 2 = n % 2
  BY <1>6, <1>7, SMT
<1> QED
  BY <1>3, <1>5, <1>8 DEF n, r, d

\* What is less than a product has a quotient less than the other factor.
LEMMA DivBound ==
    ASSUME NEW x \in Nat, NEW a \in Nat \ {0}, NEW b \in Nat \ {0}, x < a * b
    PROVE  x \div a \in 0..b - 1
<1> DEFINE q == x \div a
           r == x % a
<1>1. q \in Nat /\ r \in 0..a - 1 /\ x = q * a + r
  BY Division
<1> HIDE DEF q, r
<1>2. ASSUME q >= b PROVE FALSE
  <2>1. q * a >= b * a
    BY <1>1, <1>2, SMT
  <2> DEFINE u == q * a
             v == a * b
  <2>2. u >= v /\ x = u + r /\ x < v /\ u \in Int /\ v \in Int
    BY <1>1, <2>1, SMT
  <2> HIDE DEF u, v
  <2> QED
    BY <1>1, <2>2
<1> QED
  BY <1>1, <1>2 DEF q

\* The bits of one byte: the low ones of a symbol, then the high ones of the next.
LEMMA BitOfByte ==
    ASSUME NEW phase \in 1..Width, NEW t \in 0..Width,
           NEW a \in 0..Pow2[Width] - 1, NEW b \in 0..Pow2[Width] - 1,
           NEW v, v = (a * Pow2[phase] + (b \div Pow2[Width - phase])) % Pow2[Width + 1]
    PROVE  (v \div Pow2[Width - t]) % 2
              = IF phase + t <= Width THEN (a \div Pow2[Width - phase - t]) % 2
                ELSE (b \div Pow2[Width + Width - phase - t]) % 2
<1>0. Width \in Nat /\ phase \in Nat /\ t \in Nat /\ Width - phase \in Nat /\ Width - t \in Nat
  BY WidthAssumption
<1> DEFINE A == Pow2[phase]
           B == Pow2[Width - phase]
           D == Pow2[Width - t]
           E == Pow2[t]
           c == b \div B
           x == a * A + c
<1>1. Pow2[Width] = B * A /\ Pow2[Width] \in Nat \ {0}
  <2> DEFINE k == Width - phase
  <2>1. k \in Nat /\ Width = k + phase
    BY <1>0
  <2> HIDE DEF k
  <2>2. Pow2[k + phase] = Pow2[k] * Pow2[phase]
    BY <1>0, <2>1, Pow2Sum
  <2> QED
    BY <1>0, <2>1, <2>2, Pow2Type DEF k
<1>2. Pow2[Width + 1] = D * (2 * E)
  <2> DEFINE k == Width - t
             l == t + 1
  <2>1. k \in Nat /\ l \in Nat /\ Width + 1 = k + l /\ l # 0 /\ l - 1 = t
    BY <1>0
  <2> HIDE DEF k, l
  <2>2. Pow2[k + l] = Pow2[k] * Pow2[l]
    BY <2>1, Pow2Sum
  <2>3. Pow2[l] = 2 * Pow2[t]
    BY <2>1, Pow2Def
  <2> QED
    BY <2>1, <2>2, <2>3 DEF k
<1>3. A \in Nat \ {0} /\ B \in Nat \ {0} /\ D \in Nat \ {0} /\ E \in Nat \ {0}
  BY <1>0, Pow2Type
<1>4. a \in Nat /\ b \in Nat /\ b < B * A
  BY <1>1
<1> HIDE DEF A, B, D, E
<1>5. c \in 0..A - 1
  BY <1>3, <1>4, DivBound
<1> HIDE DEF c
<1>6. x \in Nat
  BY <1>3, <1>4, <1>5, SMT
<1>7. (v \div D) % 2 = (x \div D) % 2
  <2>1. v = x % (D * (2 * E))
    BY <1>2 DEF A, B, c
  <2> HIDE DEF x
  <2> QED
    <3>1. x \in Nat /\ D \in Nat \ {0} /\ E \in Nat \ {0}
      BY <1>3, <1>6
    <3>2. ((x % (D * (2 * E))) \div D) % 2 = (x \div D) % 2
      BY <3>1, ModDivParity
    <3> QED
      BY <2>1, <3>2
<1>8. CASE phase + t <= Width
  <2> DEFINE k == Width - phase - t
             K == Pow2[k]
  <2>1. k \in Nat /\ Width - t = phase + k /\ K \in Nat \ {0}
    BY <1>0, <1>8, Pow2Type
  <2>2. D = A * K
    <3> HIDE DEF k
    <3> QED
      BY <1>0, <2>1, Pow2Sum DEF A, D
  <2> HIDE DEF k, K
  <2>3. x \div A = a
    <3>1. x \div A = a + (c \div A)
      <4>1. c \in Nat /\ a \in Nat /\ A \in Nat \ {0}
        BY <1>3, <1>4, <1>5
      <4>2. (a * A + c) \div A = a + (c \div A)
        BY <4>1, DivSum, Zenon
      <4> QED
        BY ONLY <4>2
    <3>2. c \div A = 0
      <4> HIDE DEF A, c
      <4>1. A \in Nat \ {0} /\ c \in 0..A - 1
        BY <1>3, <1>5
      <4>2. 0 * A = 0 /\ 0 \in Nat /\ c = 0 + c
        BY <4>1
      <4>3. c = 0 * A + c
        BY <4>2
      <4> QED
        BY <4>1, <4>2, <4>3, Quotient
    <3> QED
      BY <1>4, <3>1, <3>2
  <2>4. x \div D = a \div K
    <3> HIDE DEF x
    <3>1. (x \div A) \div K = x \div (A * K)
      BY <1>3, <1>6, <2>1, DivDiv
    <3> QED
      BY <2>2, <2>3, <3>1
  <2> QED
    BY <1>7, <1>8, <2>4 DEF k, K, D
<1>9. CASE ~ (phase + t <= Width)
  <2> DEFINE e == phase - (Width - t)
             f == e - 1
             F == Pow2[f]
             G == Pow2[e]
             k == Width - phase
             l == Width - t
  <2>1. e \in Nat /\ e # 0 /\ f \in Nat /\ f = e - 1 /\ phase = e + l /\ k \in Nat /\ l \in Nat
        /\ Width + Width - phase - t = k + l
    BY <1>0, <1>9
  <2> HIDE DEF e, f, k, l
  <2>2. G = 2 * F /\ F \in Nat /\ G \in Nat
    BY <2>1, Pow2Def, Pow2Type
  <2>3. A = G * D
    BY <2>1, Pow2Sum DEF A, D, l
  <2>4. Pow2[Width + Width - phase - t] = B * D
    BY <2>1, Pow2Sum DEF B, D, k, l
  <2> HIDE DEF F, G
  <2> DEFINE y == a * G
  <2>5. y \in Nat /\ y = 2 * (a * F) /\ a * F \in Nat /\ x = y * D + c
    BY <1>3, <1>4, <1>5, <2>2, <2>3, SMT
  <2> HIDE DEF y
  <2>6. x \div D = y + (c \div D)
    <3>1. c \in Nat
      BY <1>5
    <3>2. (y * D + c) \div D = y + (c \div D)
      <4>1. y \in Nat /\ c \in Nat /\ D \in Nat \ {0}
        BY <1>3, <2>5, <3>1
      <4> QED
        BY <4>1, DivSum
    <3> QED
      BY <2>5, <3>2
  <2>7. c \div D = b \div (B * D)
    BY <1>3, <1>4, DivDiv DEF c
  <2> DEFINE m == a * F
             n == c \div D
  <2>8. n \in Nat /\ m \in Nat /\ y = 2 * m
    BY <1>3, <1>5, <2>5, Division
  <2> HIDE DEF m, n
  <2>9. (y + n) % 2 = n % 2
    BY <2>8, SMT
  <2> QED
    BY <1>7, <1>9, <2>4, <2>6, <2>7, <2>9 DEF D, n
<1> QED
  BY <1>8, <1>9

\* Its remainder is the only one.
LEMMA Remainder ==
    ASSUME NEW q \in Nat, NEW d \in Nat, NEW r \in 0..(d - 1), d > 0
    PROVE  (q * d + r) % d = r
<1> DEFINE x == q * d + r
<1>1. x \in Nat /\ x \div d = q
  BY Quotient, SMT
<1>2. x = (x \div d) * d + (x % d) /\ (x % d) \in 0..d - 1
  BY <1>1, Division
<1> QED
  BY <1>1, <1>2, SMT

\* Where byte z of a dump of n symbols comes from.
LEMMA WhereByteIs ==
    ASSUME NEW n \in Nat, NEW z \in Nat, z < (n * Width) \div (Width + 1),
           NEW q, q = z \div Width, NEW p, p = z % Width
    PROVE  /\ q \in Nat /\ p \in 0..Width - 1
           /\ z = q * Width + p
           /\ q * (Width + 1) + p + 1 \in 1..n - 1
<1> DEFINE d == Width + 1
           first == q * d + p + 1
<1>0. Width \in Nat /\ Width > 0 /\ d \in Nat /\ d > 0
  BY WidthAssumption
<1>1. q \in Nat /\ p \in 0..Width - 1 /\ z = q * Width + p
  BY <1>0, Division
<1> DEFINE m == n * Width
           k == m \div d
<1>2. m \in Nat
  BY <1>0, SMT
<1>3. k \in Nat /\ (m % d) \in 0..d - 1 /\ m = k * d + (m % d)
  <2> HIDE DEF m, d
  <2> QED
    BY <1>0, <1>2, Division
<1>4. z + 1 <= k
  BY <1>1, <1>3
<1>5. (z + 1) * d <= k * d
  <2> HIDE DEF k, d
  <2> QED
    BY <1>0, <1>3, <1>4, SMT
<1>6. (z + 1) * d <= m
  <2> DEFINE u == (z + 1) * d
             v == k * d
             r == m % d
  <2>1. u <= v /\ u \in Int /\ v \in Int /\ m = v + r /\ r \in Nat
    BY <1>0, <1>3, <1>5, SMT
  <2> HIDE DEF u, v, m, d, k, r
  <2>2. u <= m
    BY <1>2, <2>1
  <2> QED
    BY <2>2 DEF u
<1>7. (z + 1) * d = first * Width + (p + 1)
  BY <1>0, <1>1, SMT
<1>8. first \in Nat /\ first >= 1
  BY <1>0, <1>1, SMT
<1> HIDE DEF first
<1>9. first * Width < n * Width
  BY <1>0, <1>1, <1>2, <1>6, <1>7, <1>8, SMT
<1>10. first < n
  <2>1. ASSUME n <= first PROVE FALSE
    <3>1. n * Width <= first * Width
      BY <1>0, <1>8, <2>1, SMT
    <3> QED
      BY <1>0, <1>8, <1>9, <3>1, SMT
  <2> QED
    BY <1>8, <2>1
<1> QED
  BY <1>1, <1>8, <1>10 DEF first

\* The bytes of a dump are its bits, as far as they make whole bytes.
LEMMA UnpackIsExact ==
    ASSUME NEW n \in Nat, NEW packed \in [1..n -> 0..Pow2[Width] - 1],
           NEW bytes, bytes = Unpack(packed)
    PROVE  /\ (Len(packed) * Width) - Len(bytes) * (Width + 1) \in 0..Width
           /\ \A j \in 0..(Len(bytes) * (Width + 1) - 1) :
                  Bit(bytes, Width + 1, j) = Bit(packed, Width, j)
<1> DEFINE d == Width + 1
           m == n * Width
           k == m \div d
<1>0. Width \in Nat /\ Width > 0 /\ d \in Nat /\ d > 0 /\ m \in Nat
  BY WidthAssumption, SMT
<1>1. Len(packed) = n
  OBVIOUS
<1>2. k \in Nat /\ (m % d) \in 0..d - 1 /\ m = k * d + (m % d)
  <2> HIDE DEF m, d
  <2> QED
    BY <1>0, Division
<1>3. Used(Len(packed)) = k
  BY <1>1, EveryWholeByte, CapacitySuffices
<1>4. bytes = [i \in 1..k |-> Unpacked(packed, i)]
  BY <1>3 DEF Unpack
<1>5. Len(bytes) = k
  <2> HIDE DEF k
  <2> QED
    BY <1>2, <1>4
<1>6. ASSUME NEW j \in 0..(k * d - 1) PROVE Bit(bytes, d, j) = Bit(packed, Width, j)
  <2> DEFINE z == j \div d
             t == j % d
             q == z \div Width
             p == z % Width
             phase == p + 1
             first == q * d + phase
             a == packed[first]
             b == packed[first + 1]
             v == bytes[z + 1]
  <2>0. j \in Nat
    OBVIOUS
  <2>1. z \in Nat /\ t \in 0..Width /\ j = z * d + t
    <3>1. z \in Nat /\ t \in 0..d - 1 /\ j = z * d + t
      <4> HIDE DEF d
      <4> QED
        BY <1>0, <2>0, Division
    <3> QED
      BY <1>0, <3>1
  <2>2. z < k
    <3> DEFINE zd == z * d
               kd == k * d
    <3>1. zd <= kd - 1 /\ zd \in Int /\ kd \in Int
      <4>0. kd \in Int
        <5> HIDE DEF k, d
        <5> QED
          BY <1>0, <1>2, SMT
      <4>1. zd \in Int
        <5> HIDE DEF z, d
        <5> QED
          BY <1>0, <2>1, SMT
      <4>2. j <= kd - 1 /\ j = zd + t
        BY <2>1, <4>0
      <4> HIDE DEF zd, kd, t
      <4> QED
        BY <2>0, <2>1, <4>0, <4>1, <4>2
    <3>2. ASSUME k <= z PROVE FALSE
      <4>1. k * d <= z * d
        <5> HIDE DEF k, z, d
        <5> QED
          BY <1>0, <1>2, <2>1, <3>2, SMT
      <4>2. kd <= zd
        BY <4>1
      <4> HIDE DEF kd, zd
      <4> QED
        BY <3>1, <4>2
    <3> HIDE DEF k, z
    <3> QED
      BY <1>2, <2>1, <3>2
  <2> HIDE DEF z, t
  <2>3. /\ q \in Nat /\ p \in 0..Width - 1
        /\ z = q * Width + p
        /\ q * (Width + 1) + p + 1 \in 1..n - 1
    <3> HIDE DEF q, p
    <3>1. z < (n * Width) \div (Width + 1)
      BY <2>2
    <3>2. q = z \div Width /\ p = z % Width
      BY DEF q, p
    <3> QED
      BY <2>1, <3>1, <3>2, WhereByteIs
  <2>4. first \in 1..n - 1 /\ phase \in 1..Width
    <3> HIDE DEF q, p
    <3>1. q * (Width + 1) + p + 1 = first
      BY <1>0, <2>3, SMT
    <3> QED
      BY <1>0, <2>3, <3>1
  <2>5. v = (a * Pow2[phase] + (b \div Pow2[Width - phase])) % Pow2[Width + 1]
    <3>1. z + 1 \in 1..k /\ (z + 1) - 1 = z
      <4> HIDE DEF k
      <4> QED
        BY <1>2, <2>1, <2>2
    <3>2. v = Unpacked(packed, z + 1)
      <4> HIDE DEF k
      <4> QED
        BY <1>4, <3>1
    <3> QED
      BY <3>1, <3>2 DEF Unpacked
  <2> HIDE DEF q, p
  <2>6. a \in 0..Pow2[Width] - 1 /\ b \in 0..Pow2[Width] - 1
    BY <2>4
  <2> HIDE DEF a, b, v, phase, first
  <2>7. (v \div Pow2[Width - t]) % 2
              = IF phase + t <= Width THEN (a \div Pow2[Width - phase - t]) % 2
                ELSE (b \div Pow2[Width + Width - phase - t]) % 2
    BY <2>1, <2>4, <2>5, <2>6, BitOfByte
  <2>8. Bit(bytes, d, j) = (v \div Pow2[Width - t]) % 2
    <3>1. d - 1 - t = Width - t
      BY <1>0, <2>1
    <3>2. Bit(bytes, d, j) = (bytes[z + 1] \div Pow2[d - 1 - t]) % 2
      BY DEF Bit, z, t
    <3> QED
      BY <3>1, <3>2 DEF v
  <2> DEFINE s == p + t
             l == first - 1
  <2>9. j = l * Width + s /\ s \in Nat /\ l \in Nat
    <3>1. first = q * d + p + 1
      BY <2>3, <1>0, SMT DEF first, phase
    <3> QED
      BY <1>0, <2>1, <2>3, <2>4, <3>1, SMT
  <2>10. phase = p + 1 /\ p \in 0..Width - 1 /\ t \in 0..Width /\ s = p + t
    BY <2>1, <2>3 DEF phase
  <2> HIDE DEF s, l
  <2>11. CASE phase + t <= Width
    <3>1. s \in 0..Width - 1
      BY <1>0, <2>10, <2>11
    <3>2. j \div Width = l /\ j % Width = s
      BY <1>0, <2>9, <3>1, Quotient, Remainder
    <3>3. Width - 1 - s = Width - phase - t /\ l + 1 = first
      BY <1>0, <2>4, <2>10 DEF l
    <3>4. Bit(packed, Width, j) = (packed[l + 1] \div Pow2[Width - 1 - s]) % 2
      BY <3>2 DEF Bit
    <3> QED
      BY <2>7, <2>8, <2>11, <3>3, <3>4 DEF a
  <2>12. CASE ~(phase + t <= Width)
    <3> DEFINE r == s - Width
    <3>1. r \in 0..Width - 1 /\ s = r + Width
      BY <1>0, <2>10, <2>12
    <3>2. first \in Nat /\ j = first * Width + r
      <4>1. first = l + 1
        BY <2>4 DEF l
      <4> HIDE DEF r
      <4> QED
        BY <1>0, <2>4, <2>9, <3>1, <4>1, SMT
    <3>3. Width - 1 - r = Width + Width - phase - t
      BY <1>0, <2>4, <2>10 DEF r
    <3> HIDE DEF r
    <3>4. j \div Width = first /\ j % Width = r
      BY <1>0, <3>1, <3>2, Quotient, Remainder
    <3>5. Bit(packed, Width, j) = (packed[first + 1] \div Pow2[Width - 1 - r]) % 2
      BY <3>4 DEF Bit
    <3> QED
      BY <2>7, <2>8, <2>12, <3>3, <3>5 DEF b
  <2> QED
    BY <2>11, <2>12
<1>7. m - k * d \in 0..Width
  <2> DEFINE r == m % d
             kd == k * d
  <2>1. kd \in Int /\ r \in 0..Width /\ m = kd + r
    <3> HIDE DEF k, m
    <3> QED
      BY <1>0, <1>2, SMT
  <2> HIDE DEF kd, r, m
  <2>2. m - kd \in 0..Width
    BY <1>0, <2>1
  <2> QED
    BY <2>2 DEF kd
<1> QED
  BY <1>1, <1>5, <1>6, <1>7

\* What is being decoded, when it is a dump, is a sequence of symbols.
DumpType ==
    given.kind = "dump" => \E n \in Nat : given.packed \in [1..n -> 0..Pow2[Width] - 1]

\* For any width of a symbol and dumps of any length, unpack_7bit drops,
\* doubles and moves no bit.
THEOREM UnpackingIsExact == DecodeSpec => []UnpackIsBitStream
<1>1. DecodeInit => DumpType
  BY DEF DecodeInit, Nothing, DumpType
<1>2. DumpType /\ [DecodeNext]_given => DumpType'
  <2> SUFFICES ASSUME DumpType, [DecodeNext]_given PROVE DumpType'
    OBVIOUS
  <2>1. CASE GiveDump
    <3>1. PICK n \in 0..MaxSymbols : \E packed \in [1..n -> 0..(Pow2[Width] - 1)] :
             given' = [kind |-> "dump", packed |-> packed]
      BY <2>1 DEF GiveDump
    <3> QED
      BY <3>1, SMTT(60) DEF DumpType
  <2>2. CASE GiveSetting
    BY <2>2 DEF GiveSetting, DumpType
  <2>3. CASE Leave
    BY <2>3 DEF Leave, Nothing, DumpType
  <2>4. CASE UNCHANGED given
    BY <2>4 DEF DumpType
  <2> QED
    BY <2>1, <2>2, <2>3, <2>4 DEF DecodeNext
<1>3. DumpType => UnpackIsBitStream
  <2> SUFFICES ASSUME DumpType, given.kind = "dump"
               PROVE  LET bytes == Unpack(given.packed)
                      IN  /\ (Len(given.packed) * Width) - Len(bytes) * (Width + 1) \in 0..Width
                          /\ \A j \in 0..(Len(bytes) * (Width + 1) - 1) :
                                Bit(bytes, Width + 1, j) = Bit(given.packed, Width, j)
    BY DEF UnpackIsBitStream
  <2>1. PICK n \in Nat : given.packed \in [1..n -> 0..Pow2[Width] - 1]
    BY DEF DumpType
  <2> DEFINE packed == given.packed
             bytes == Unpack(packed)
  <2>2. packed \in [1..n -> 0..Pow2[Width] - 1] /\ bytes = Unpack(packed)
    BY <2>1
  <2> HIDE DEF packed, bytes
  <2>3. /\ (Len(packed) * Width) - Len(bytes) * (Width + 1) \in 0..Width
        /\ \A j \in 0..(Len(bytes) * (Width + 1) - 1) :
               Bit(bytes, Width + 1, j) = Bit(packed, Width, j)
    BY <2>2, UnpackIsExact
  <2> QED
    BY <2>3 DEF packed, bytes
<1> QED
  BY <1>1, <1>2, <1>3, PTL DEF DecodeSpec

-----------------------------------------------------------------------------
(* Part 2.  The lists and tables of the settings.                          *)

\* No list of the code names one id of a model and not its siblings.
Alike(e, s) ==
    /\ (e \in AmpCab) = (s \in AmpCab) /\ (e \in VolumePedal) = (s \in VolumePedal)
    /\ (e \in BlackpanelSpring) = (s \in BlackpanelSpring) /\ (e \in ElevenSR) = (s \in ElevenSR)
    /\ (e \in BBDDelay) = (s \in BBDDelay) /\ (e \in TapeEcho) = (s \in TapeEcho)
    /\ (e \in DynDelay) = (s \in DynDelay) /\ (e \in GraphicEQ) = (s \in GraphicEQ)
    /\ (e \in ParametricEQ) = (s \in ParametricEQ) /\ (e \in Dyn3) = (s \in Dyn3)
    /\ (e \in OrangePhaser) = (s \in OrangePhaser) /\ (e = 35) = (s = 35)
    /\ (e \in Flanger) = (s \in Flanger) /\ (e \in ChorusVibrato) = (s \in ChorusVibrato)
    /\ (e \in MultiChorus) = (s \in MultiChorus) /\ (e \in RotoSpeaker) = (s \in RotoSpeaker)
    /\ (e \in FXLoop) = (s \in FXLoop) /\ (e \in GrayCompressor) = (s \in GrayCompressor)
    /\ (e \in Wahs) = (s \in Wahs) /\ (e \in Drives) = (s \in Drives)

\* A list of effects in the code that has one id of a model has them all, but
\* for 46.
LEMMA SiblingsAreListedTogether ==
    ASSUME NEW model \in Models, NEW e \in model \ {46}, NEW s \in model \ {46}
    PROVE  Alike(e, s)
<1> USE DEF AmpCab, VolumePedal, BlackpanelSpring, ElevenSR, BBDDelay, TapeEcho, DynDelay,
            GraphicEQ, ParametricEQ, Dyn3, OrangePhaser, VibePhaser, Flanger, ChorusVibrato,
            MultiChorus, RotoSpeaker, FXLoop, Wahs, Drives, GrayCompressor
<1>1. \/ e = s
      \/ \E F \in {VolumePedal, BlackpanelSpring, ElevenSR, BBDDelay, TapeEcho, DynDelay,
                  GraphicEQ, ParametricEQ, Dyn3, OrangePhaser, Flanger, ChorusVibrato,
                  MultiChorus, RotoSpeaker, FXLoop} : e \in F /\ s \in F
  BY DEF Models
<1> QED
  BY <1>1 DEF Alike

\* The tables are the same for them.
LEMMA AlikeRows ==
    ASSUME NEW e, NEW s, Alike(e, s), NEW key
    PROVE  /\ RowsFor(Conversions, e, key) = RowsFor(Conversions, s, key)
           /\ RowsFor(Units, e, key) = RowsFor(Units, s, key)
           /\ RowsFor(Ranges, e, key) = RowsFor(Ranges, s, key)
<1>1. \A row \in Conversions : (e \in row.effects) = (s \in row.effects)
  BY DEF Conversions, Alike
<1>2. \A row \in Units : (e \in row.effects) = (s \in row.effects)
  BY DEF Units, Alike
<1>3. \A row \in Ranges : (e \in row.effects) = (s \in row.effects)
  BY DEF Ranges, Alike
<1> QED
  BY <1>1, <1>2, <1>3 DEF RowsFor

\* And so is every column.
LEMMA AlikeColumns ==
    ASSUME NEW e, NEW s, Alike(e, s), NEW key, NEW value
    PROVE  Columns(e, key, value) = Columns(s, key, value)
<1>1. IsTenScale(e, key) <=> IsTenScale(s, key)
  BY DEF IsTenScale, Alike
<1>2. IsPercent(e, key) <=> IsPercent(s, key)
  BY DEF IsPercent, Alike
<1>3. IsDiscrete(e, key) <=> IsDiscrete(s, key)
  BY DEF IsDiscrete, Alike
<1>4. Named(e, key, value) <=> Named(s, key, value)
  BY DEF Named, Alike
<1>0. /\ RowsFor(Conversions, e, key) = RowsFor(Conversions, s, key)
      /\ RowsFor(Units, e, key) = RowsFor(Units, s, key)
      /\ RowsFor(Ranges, e, key) = RowsFor(Ranges, s, key)
  BY AlikeRows
<1>5. Display(e, key, value) = Display(s, key, value)
  BY <1>1, <1>2, <1>3, <1>4, <1>0 DEF Display
<1>6. UnitOf(e, key) = UnitOf(s, key)
  BY <1>1, <1>2, <1>0 DEF UnitOf
<1>7. RangeOf(e, key) = RangeOf(s, key)
  BY <1>1, <1>2, <1>0 DEF RangeOf
<1>8. CurveOf(e, key) = CurveOf(s, key)
  BY <1>3, <1>7 DEF CurveOf, Alike
<1> QED
  BY <1>5, <1>6, <1>7, <1>8 DEF Columns

\* The keys with a logarithmic curve.
IsLog(effect, key) ==
    \/ effect \in Dyn3 /\ key \in {"sld1", "sld2", "sld3"}
    \/ effect \in MultiChorus /\ key \in {"Rate", "LoCt"}

\* The families that are converted by a table have no effect in common.
LEMMA FamiliesDisjoint ==
    /\ \A F, G \in {GraphicEQ, Dyn3, DynDelay, MultiChorus, ElevenSR} : F # G => F \cap G = {}
  BY SMTT(40) DEF GraphicEQ, Dyn3, DynDelay, MultiChorus, ElevenSR

\* ... and each of them has one that no other has, so no two of them are the same.
LEMMA FamiliesDiffer ==
    /\ GraphicEQ # Dyn3 /\ GraphicEQ # DynDelay /\ GraphicEQ # MultiChorus /\ GraphicEQ # ElevenSR
    /\ Dyn3 # DynDelay /\ Dyn3 # MultiChorus /\ Dyn3 # ElevenSR
    /\ DynDelay # MultiChorus /\ DynDelay # ElevenSR /\ MultiChorus # ElevenSR
<1>1. /\ 33 \in GraphicEQ /\ 33 \notin Dyn3 /\ 33 \notin DynDelay
      /\ 33 \notin MultiChorus /\ 33 \notin ElevenSR
  BY ONLY DEF GraphicEQ, Dyn3, DynDelay, MultiChorus, ElevenSR
<1>2. 85 \in Dyn3 /\ 85 \notin DynDelay /\ 85 \notin MultiChorus /\ 85 \notin ElevenSR
  BY ONLY DEF Dyn3, DynDelay, MultiChorus, ElevenSR
<1>3. 80 \in DynDelay /\ 80 \notin MultiChorus /\ 80 \notin ElevenSR
  BY ONLY DEF DynDelay, MultiChorus, ElevenSR
<1>4. 88 \in MultiChorus /\ 88 \notin ElevenSR
  BY ONLY DEF MultiChorus, ElevenSR
<1> QED
  BY ONLY <1>1, <1>2, <1>3, <1>4

\* No two conversions are for one setting.
LEMMA OneConversion ==
    ASSUME NEW effect, NEW key, NEW r \in RowsFor(Conversions, effect, key),
           NEW s \in RowsFor(Conversions, effect, key)
    PROVE  r = s
<1>1. r \in Conversions /\ s \in Conversions /\ effect \in r.effects /\ effect \in s.effects
      /\ key \in r.keys /\ key \in s.keys
  BY SMTT(40) DEF RowsFor
<1>2. CASE effect \in GraphicEQ
  <2>1. \A t \in Conversions : effect \in t.effects => t.effects = GraphicEQ
    BY SMTT(40), <1>2 DEF Conversions, GraphicEQ, Dyn3, DynDelay, MultiChorus
  <2>2. GraphicEQ # Dyn3 /\ GraphicEQ # DynDelay /\ GraphicEQ # MultiChorus
    BY FamiliesDiffer
  <2> QED
    BY SMTT(40), <1>1, <2>1, <2>2 DEF Conversions
<1>3. CASE effect \in Dyn3
  <2>1. \A t \in Conversions : effect \in t.effects => t.effects = Dyn3
    BY SMTT(40), <1>3 DEF Conversions, GraphicEQ, Dyn3, DynDelay, MultiChorus
  <2>2. Dyn3 # GraphicEQ /\ Dyn3 # DynDelay /\ Dyn3 # MultiChorus
    BY FamiliesDiffer
  <2> QED
    BY SMTT(40), <1>1, <2>1, <2>2 DEF Conversions
<1>4. CASE effect \in DynDelay
  <2>1. \A t \in Conversions : effect \in t.effects => t.effects = DynDelay
    BY SMTT(40), <1>4 DEF Conversions, GraphicEQ, Dyn3, DynDelay, MultiChorus
  <2>2. DynDelay # GraphicEQ /\ DynDelay # Dyn3 /\ DynDelay # MultiChorus
    BY FamiliesDiffer
  <2> QED
    BY SMTT(40), <1>1, <2>1, <2>2 DEF Conversions
<1>5. CASE effect \in MultiChorus
  <2>1. \A t \in Conversions : effect \in t.effects => t.effects = MultiChorus
    BY SMTT(40), <1>5 DEF Conversions, GraphicEQ, Dyn3, DynDelay, MultiChorus
  <2>2. MultiChorus # GraphicEQ /\ MultiChorus # DynDelay /\ MultiChorus # Dyn3
    BY FamiliesDiffer
  <2> QED
    BY SMTT(40), <1>1, <2>1, <2>2 DEF Conversions
<1> QED
  BY SMTT(40), <1>1, <1>2, <1>3, <1>4, <1>5 DEF Conversions

\* A row of the conversions has a row of the ranges, with its own ends; ...
LEMMA ConversionsAreRanges ==
    ASSUME NEW c \in Conversions
    PROVE  \E r \in Ranges : r.effects = c.effects /\ r.keys = c.keys
  BY SMTT(60) DEF Conversions, Ranges

\* ... and the other way.
LEMMA RangesAreConversions ==
    ASSUME NEW r \in Ranges
    PROVE  \E c \in Conversions : /\ c.effects = r.effects /\ c.keys = r.keys
                                  /\ r.ends = <<c.scale.low, c.scale.high>>
  BY SMTT(60) DEF Conversions, Ranges, Scale

\* The scale of a conversion has four columns.
LEMMA ConversionScales ==
    ASSUME NEW c \in Conversions
    PROVE  /\ c.scale = Scale(c.scale.unit, c.scale.low, c.scale.high, c.scale.curve)
           /\ c.scale.curve \in {"linear", "log"}
  BY SMTT(60) DEF Conversions, Scale

\* parameter_curve says which conversions are logarithmic; ...
LEMMA LogCurves ==
    ASSUME NEW effect, NEW key, NEW c \in Conversions, effect \in c.effects, key \in c.keys
    PROVE  c.scale.curve = IF IsLog(effect, key) THEN "log" ELSE "linear"
<1> USE DEF GraphicEQ, Dyn3, DynDelay, MultiChorus
<1>1. effect \in GraphicEQ => ~IsLog(effect, key)
  BY SMTT(40) DEF IsLog
<1>2. effect \in DynDelay => ~IsLog(effect, key)
  BY SMTT(40) DEF IsLog
<1>3. effect \in Dyn3 => (IsLog(effect, key) <=> key \in {"sld1", "sld2", "sld3"})
  BY SMTT(40) DEF IsLog
<1>4. effect \in MultiChorus => (IsLog(effect, key) <=> key \in {"Rate", "LoCt"})
  BY SMTT(40) DEF IsLog
<1> HIDE DEF GraphicEQ, Dyn3, DynDelay, MultiChorus
<1> QED
  BY SMTT(60), <1>1, <1>2, <1>3, <1>4 DEF Conversions, Scale

\* ... it names no setting that is not converted.
LEMMA LogIsConverted ==
    ASSUME NEW effect, NEW key, IsLog(effect, key)
    PROVE  \E c \in Conversions : effect \in c.effects /\ key \in c.keys
  BY SMTT(60) DEF Conversions, IsLog

\* The unit that is listed for a setting is that of its conversion.
LEMMA UnitFits ==
    ASSUME NEW effect, NEW key, NEW c \in Conversions, NEW u \in Units,
           effect \in c.effects, effect \in u.effects, key \in c.keys, key \in u.keys
    PROVE  u.unit = c.scale.unit
<1> DEFINE Families == {GraphicEQ, Dyn3, DynDelay, MultiChorus, ElevenSR}
<1>1. \A F, G \in Families : F # G => F \cap G = {}
  BY FamiliesDisjoint, SMTT(60)
<1>2. u.effects \in Families /\ c.effects \in Families
  BY SMTT(60) DEF Units, Conversions
<1>3. u.effects = c.effects
  BY <1>1, <1>2
<1>4. /\ GraphicEQ # Dyn3 /\ GraphicEQ # DynDelay /\ GraphicEQ # MultiChorus /\ GraphicEQ # ElevenSR
      /\ Dyn3 # DynDelay /\ Dyn3 # MultiChorus /\ Dyn3 # ElevenSR
      /\ DynDelay # MultiChorus /\ DynDelay # ElevenSR /\ MultiChorus # ElevenSR
  BY FamiliesDiffer
<1>5. CASE c.effects = GraphicEQ
  <2>1. u.unit = "dB"
    BY SMTT(40), <1>3, <1>4, <1>5 DEF Units
  <2>2. c.scale.unit = "dB"
    BY SMTT(40), <1>4, <1>5 DEF Conversions, Scale
  <2> QED
    BY <2>1, <2>2
<1>6. CASE c.effects = Dyn3
  BY SMTT(40), <1>3, <1>4, <1>6 DEF Units, Conversions, Scale
<1>7. CASE c.effects = DynDelay
  BY SMTT(40), <1>3, <1>4, <1>7 DEF Units, Conversions, Scale
<1>8. CASE c.effects = MultiChorus
  BY SMTT(40), <1>3, <1>4, <1>8 DEF Units, Conversions, Scale
<1> QED
  BY SMTT(40), <1>5, <1>6, <1>7, <1>8 DEF Conversions

\* Whatever is converted has a unit.
LEMMA ConversionsHaveUnits ==
    ASSUME NEW effect, NEW key, NEW c \in Conversions, effect \in c.effects, key \in c.keys
    PROVE  \E u \in Units : effect \in u.effects /\ key \in u.keys
<1>1. {"LwSh", "LMGn", "MGn", "HMGn", "HiSh", "Out"} \subseteq AllKeys
  <2>1. [effects |-> GraphicEQ, keys |-> {"LwSh", "LMGn", "MGn", "HMGn", "HiSh", "Out"}] \in KnownKeys
    BY SMTT(40) DEF KnownKeys
  <2> QED
    BY SMTT(40), <2>1 DEF AllKeys
<1> QED
  BY SMTT(60), <1>1 DEF Conversions, Units

\* A value with a name is one of an enumeration.
LEMMA NamedIsDiscrete ==
    ASSUME NEW effect, NEW key, NEW value, Named(effect, key, value)
    PROVE  IsDiscrete(effect, key)
  BY SMTT(60) DEF Named, IsDiscrete

\* The two globals with a scale of their own are in none of the lists.
LEMMA VolumeAndTempo ==
    ASSUME NEW effect, NEW key \in {"RVol", "Tmpo"}
    PROVE  ~IsDiscrete(effect, key) /\ ~IsLog(effect, key)
<1>1. key \notin SlotTableKeys
  BY SMTT(40) DEF SlotTableKeys, SlotIds, EffectKey, CategoryKey
<1> QED
  BY SMTT(40), <1>1 DEF IsDiscrete, IsLog

\* The amplifier is in no other family.
LEMMA FamilyOf ==
    /\ 12 \notin GraphicEQ \cup Dyn3 \cup DynDelay \cup MultiChorus \cup ElevenSR \cup FXLoop
                 \cup BBDDelay \cup TapeEcho \cup BlackpanelSpring \cup VolumePedal \cup Wahs
                 \cup RotoSpeaker \cup ChorusVibrato
  BY SMTT(40) DEF GraphicEQ, Dyn3, DynDelay, MultiChorus, ElevenSR, FXLoop, BBDDelay, TapeEcho,
     BlackpanelSpring, VolumePedal, Wahs, RotoSpeaker, ChorusVibrato

\* The keys of the effects all of whose settings are on the 0-10 scale.
LEMMA TenScaleKeys ==
    ASSUME NEW row \in KnownKeys, NEW effect \in row.effects,
           effect \in Drives \cup GrayCompressor \cup OrangePhaser \cup Flanger \cup {35}
    PROVE  \/ row.keys = {"Driv", "Tone", "Levl", "Treb", "Bass"}
           \/ row.keys = {"Sust", "Levl"}
           \/ /\ effect \in OrangePhaser \cup Flanger \cup {35}
              /\ row.keys \subseteq {"Sped", "Sync", "Levl", "Intn", "Chor", "PDly", "Dpth", "Fdbk"}
<1>1. row.effects \in {Drives, GrayCompressor, OrangePhaser, Flanger, VibePhaser}
  BY SMTT(60) DEF KnownKeys, AmpCab, VolumePedal, Wahs, Drives, ParametricEQ, Dyn3, MultiChorus,
     DynDelay, ElevenSR, FXLoop, ChorusVibrato, BBDDelay, TapeEcho, GrayCompressor, GraphicEQ,
     OrangePhaser, VibePhaser, BlackpanelSpring, Flanger, RotoSpeaker
<1>2. /\ row.effects \in {OrangePhaser, Flanger, VibePhaser} => effect \in OrangePhaser \cup Flanger \cup {35}
  BY SMTT(60) DEF VibePhaser, Drives, GrayCompressor, OrangePhaser, Flanger
<1>3. row.effects \in {OrangePhaser, Flanger, VibePhaser}
        => row.keys \subseteq {"Sped", "Sync", "Levl", "Intn", "Chor", "PDly", "Dpth", "Fdbk"}
  BY SMTT(60) DEF KnownKeys, AmpCab, VolumePedal, Wahs, Drives, ParametricEQ, Dyn3, MultiChorus,
     DynDelay, ElevenSR, FXLoop, ChorusVibrato, BBDDelay, TapeEcho, GrayCompressor, GraphicEQ,
     OrangePhaser, VibePhaser, BlackpanelSpring, Flanger, RotoSpeaker
<1>4. row.effects = Drives => row.keys = {"Driv", "Tone", "Levl", "Treb", "Bass"}
  BY SMTT(60) DEF KnownKeys, AmpCab, VolumePedal, Wahs, Drives, ParametricEQ, Dyn3, MultiChorus,
     DynDelay, ElevenSR, FXLoop, ChorusVibrato, BBDDelay, TapeEcho, GrayCompressor, GraphicEQ,
     OrangePhaser, VibePhaser, BlackpanelSpring, Flanger, RotoSpeaker
<1>5. row.effects = GrayCompressor => row.keys = {"Sust", "Levl"}
  BY SMTT(60) DEF KnownKeys, AmpCab, VolumePedal, Wahs, Drives, ParametricEQ, Dyn3, MultiChorus,
     DynDelay, ElevenSR, FXLoop, ChorusVibrato, BBDDelay, TapeEcho, GrayCompressor, GraphicEQ,
     OrangePhaser, VibePhaser, BlackpanelSpring, Flanger, RotoSpeaker
<1> QED
  BY <1>1, <1>2, <1>3, <1>4, <1>5

\* An enumeration has no unit, no range and no scale, but for the bare speeds.
LEMMA DiscreteHasNone ==
    ASSUME NEW effect, NEW key \in KeysUnder(effect),
           IsDiscrete(effect, key), ~BareSpeed(effect, key)
    PROVE  /\ ~IsTenScale(effect, key)
           /\ ~IsPercent(effect, key)
           /\ RowsFor(Units, effect, key) = {}
           /\ RowsFor(Ranges, effect, key) = {}
<1>0. \A k \in SlotTableKeys : k \in
        {"WorC", "WorD", "WorE", "WorF", "WorG", "WorH", "WorI", "WorJ", "WorK", "WorL",
         "WstC", "WstD", "WstE", "WstF", "WstG", "WstH", "WstI", "WstJ", "WstK", "WstL"}
  BY SMTT(40) DEF SlotTableKeys, SlotIds, EffectKey, CategoryKey
<1>1. ~IsTenScale(effect, key)
  <2>1. SUFFICES ASSUME IsTenScale(effect, key) PROVE FALSE
    OBVIOUS
  <2>2. CASE effect \in Drives \cup GrayCompressor \cup OrangePhaser \cup Flanger \cup {35}
             /\ key \notin {"bypa", "Sync", "Chor"}
    <3>1. effect # 0 /\ effect \notin AmpCab
      BY SMTT(40), <2>2 DEF AmpCab, Drives, GrayCompressor, OrangePhaser, Flanger
    <3>2. PICK row \in KnownKeys : effect \in row.effects /\ key \in row.keys
      BY SMTT(40), <2>2, <3>1 DEF KeysUnder, KeysOf
    <3> QED
      BY SMTT(40), <1>0, <2>2, <3>1, <3>2, TenScaleKeys DEF BareSpeed, IsDiscrete
  <2>3. CASE ~(effect \in Drives \cup GrayCompressor \cup OrangePhaser \cup Flanger \cup {35}
             /\ key \notin {"bypa", "Sync", "Chor"})
    BY SMTT(40), <1>0, <2>1, <2>3, FamilyOf DEF IsTenScale, IsDiscrete, AmpCab
  <2> QED
    BY <2>2, <2>3
<1>2. ~IsPercent(effect, key)
  BY SMTT(40), <1>0, FamilyOf DEF IsPercent, IsDiscrete, AmpCab
<1>3. AllKeys \cap {"bypa"} = {}
  <2>1. \A row \in KnownKeys : "bypa" \notin row.keys
    BY SMTT(60) DEF KnownKeys
  <2> QED
    BY <2>1 DEF AllKeys
<1>4. effect \in GraphicEQ => key \in {"bypa", "LwSh", "LMGn", "MGn", "HMGn", "HiSh", "Out"}
  <2>1. ASSUME effect \in GraphicEQ PROVE key \in {"bypa", "LwSh", "LMGn", "MGn", "HMGn", "HiSh", "Out"}
    <3>1. effect # 0
      BY SMTT(40), <2>1 DEF GraphicEQ
    <3>2. \A row \in KnownKeys : effect \in row.effects
                => row.keys = {"LwSh", "LMGn", "MGn", "HMGn", "HiSh", "Out"}
      BY SMTT(60), <2>1 DEF KnownKeys, AmpCab, VolumePedal, Wahs, Drives, ParametricEQ, Dyn3, MultiChorus,
     DynDelay, ElevenSR, FXLoop, ChorusVibrato, BBDDelay, TapeEcho, GrayCompressor, GraphicEQ,
     OrangePhaser, VibePhaser, BlackpanelSpring, Flanger, RotoSpeaker
    <3> QED
      BY SMTT(40), <3>1, <3>2 DEF KeysUnder, KeysOf
  <2> QED
    BY <2>1
<1>5. effect \in GraphicEQ => key = "bypa"
  BY SMTT(40), <1>0, <1>4, FamilyOf DEF IsDiscrete, AmpCab
<1>6. ASSUME NEW row \in Units, effect \in row.effects, key \in row.keys PROVE FALSE
  <2>1. effect \notin AmpCab
    BY SMTT(40), <1>6, FamilyOf DEF Units, AmpCab
  <2>2. effect \notin GraphicEQ => row \in Units \ {[effects |-> GraphicEQ, keys |-> AllKeys, unit |-> "dB"]}
    BY <1>6
  <2>3. CASE effect \in GraphicEQ
    <3>1. row.effects = GraphicEQ
      BY SMTT(40), <1>6, <2>3 DEF Units, GraphicEQ, Dyn3, DynDelay, MultiChorus, ElevenSR
    <3>2. GraphicEQ # Dyn3 /\ GraphicEQ # DynDelay /\ GraphicEQ # MultiChorus /\ GraphicEQ # ElevenSR
      BY FamiliesDiffer
    <3>3. row.keys = AllKeys
      BY SMTT(40), <3>1, <3>2 DEF Units
    <3> QED
      BY <1>3, <1>5, <1>6, <2>3, <3>3
  <2>4. CASE effect \notin GraphicEQ
    BY SMTT(40), <1>0, <1>6, <2>1, <2>2, <2>4 DEF Units, IsDiscrete
  <2> QED
    BY <2>3, <2>4
<1>7. ASSUME NEW row \in Ranges, effect \in row.effects, key \in row.keys PROVE FALSE
  <2>1. effect \notin AmpCab
    BY SMTT(40), <1>7, FamilyOf DEF Ranges, AmpCab
  <2> QED
    BY SMTT(40), <1>0, <1>7, <2>1 DEF Ranges, IsDiscrete
<1> QED
  BY <1>1, <1>2, <1>6, <1>7 DEF RowsFor

\* A row of a table is taken from the table.
LEMMA TheRowIsIn ==
    ASSUME NEW table, table # {}
    PROVE  TheRow(table) \in table
  BY DEF TheRow

\* No setting is both logarithmic and on one of the two common scales.
LEMMA ScalesAreNeverLog ==
    ASSUME NEW effect, NEW key, IsLog(effect, key)
    PROVE  ~IsTenScale(effect, key) /\ ~IsPercent(effect, key)
  BY SMTT(60) DEF IsLog, IsTenScale, IsPercent, Dyn3, MultiChorus, AmpCab, Drives, GrayCompressor,
     OrangePhaser, Flanger, ChorusVibrato, BBDDelay, TapeEcho, BlackpanelSpring, ElevenSR, FXLoop,
     VolumePedal, Wahs, RotoSpeaker

\* The last four columns of a setting that is converted by a table.
LEMMA TablesAgree ==
    ASSUME NEW effect, NEW key, RowsFor(Conversions, effect, key) # {}
    PROVE  \E c \in Conversions :
              /\ TheRow(RowsFor(Conversions, effect, key)) = c
              /\ RowsFor(Ranges, effect, key) # {}
              /\ TheRow(RowsFor(Ranges, effect, key)).ends = <<c.scale.low, c.scale.high>>
              /\ RowsFor(Units, effect, key) # {}
              /\ TheRow(RowsFor(Units, effect, key)).unit = c.scale.unit
              /\ c.scale = Scale(c.scale.unit, c.scale.low, c.scale.high,
                                 IF IsLog(effect, key) THEN "log" ELSE "linear")
<1> DEFINE c == TheRow(RowsFor(Conversions, effect, key))
           r == TheRow(RowsFor(Ranges, effect, key))
           u == TheRow(RowsFor(Units, effect, key))
<1>1. c \in RowsFor(Conversions, effect, key)
  BY TheRowIsIn
<1>2. c \in Conversions /\ effect \in c.effects /\ key \in c.keys
  BY <1>1 DEF RowsFor
<1>3. RowsFor(Ranges, effect, key) # {}
  <2>1. PICK s \in Ranges : s.effects = c.effects /\ s.keys = c.keys
    BY <1>2, ConversionsAreRanges
  <2> QED
    BY <1>2, <2>1 DEF RowsFor
<1>4. r \in Ranges /\ effect \in r.effects /\ key \in r.keys
  <2>1. r \in RowsFor(Ranges, effect, key)
    BY <1>3, TheRowIsIn
  <2> QED
    BY <2>1 DEF RowsFor
<1>5. r.ends = <<c.scale.low, c.scale.high>>
  <2>1. PICK d \in Conversions : /\ d.effects = r.effects /\ d.keys = r.keys
                                 /\ r.ends = <<d.scale.low, d.scale.high>>
    BY <1>4, RangesAreConversions
  <2>2. d \in RowsFor(Conversions, effect, key)
    BY <1>4, <2>1 DEF RowsFor
  <2>3. c = d
    BY <1>1, <2>2, OneConversion
  <2> QED
    BY <2>1, <2>3
<1>6. RowsFor(Units, effect, key) # {}
  <2>1. PICK s \in Units : effect \in s.effects /\ key \in s.keys
    BY <1>2, ConversionsHaveUnits
  <2> QED
    BY <2>1 DEF RowsFor
<1>7. u \in Units /\ effect \in u.effects /\ key \in u.keys
  <2>1. u \in RowsFor(Units, effect, key)
    BY <1>6, TheRowIsIn
  <2> QED
    BY <2>1 DEF RowsFor
<1>8. u.unit = c.scale.unit
  BY <1>2, <1>7, UnitFits
<1>9. c.scale.curve = IF IsLog(effect, key) THEN "log" ELSE "linear"
  BY <1>2, LogCurves
<1>10. c.scale = Scale(c.scale.unit, c.scale.low, c.scale.high, c.scale.curve)
  BY <1>2, ConversionScales
<1> HIDE DEF c, r, u
<1>11. c.scale = Scale(c.scale.unit, c.scale.low, c.scale.high,
                       IF IsLog(effect, key) THEN "log" ELSE "linear")
  BY <1>9, <1>10
<1> USE DEF c, r, u
<1> QED
  BY <1>2, <1>3, <1>5, <1>6, <1>8, <1>11

\* A setting without a conversion has no range and is not logarithmic.
LEMMA TablesAreEmptyTogether ==
    ASSUME NEW effect, NEW key, RowsFor(Conversions, effect, key) = {}
    PROVE  RowsFor(Ranges, effect, key) = {} /\ ~IsLog(effect, key)
<1>1. RowsFor(Ranges, effect, key) = {}
  <2>1. ASSUME NEW s \in Ranges, effect \in s.effects, key \in s.keys PROVE FALSE
    <3>1. PICK d \in Conversions : d.effects = s.effects /\ d.keys = s.keys
      BY RangesAreConversions
    <3> QED
      BY <2>1, <3>1 DEF RowsFor
  <2> QED
    BY <2>1 DEF RowsFor
<1>2. ~IsLog(effect, key)
  <2>1. SUFFICES ASSUME IsLog(effect, key) PROVE FALSE
    OBVIOUS
  <2>2. PICK d \in Conversions : effect \in d.effects /\ key \in d.keys
    BY <2>1, LogIsConverted
  <2> QED
    BY <2>2 DEF RowsFor
<1> QED
  BY <1>1, <1>2

\* CatalogDescribesDisplay of one setting.
Described(effect, key, value) ==
    LET c == Columns(effect, key, value)
    IN  /\ (c.curve = "enum") = (c.display = Enumerated)
        /\ (c.curve = "unverified") = (c.display = Normalized)
        /\ c.curve = "enum" =>
             BareSpeed(effect, key) \/ (c.unit = "none" /\ c.range = <<>>)
        /\ c.curve \in {"linear", "log"} =>
             c.display = Scale(c.unit, c.range[1], c.range[2], c.curve)

\* The curve, with its logarithmic settings by name.
LEMMA CurveIs ==
    ASSUME NEW effect, NEW key
    PROVE  CurveOf(effect, key) =
             IF IsDiscrete(effect, key) THEN "enum"
             ELSE IF IsLog(effect, key) THEN "log"
             ELSE IF RangeOf(effect, key) # <<>> THEN "linear" ELSE "unverified"
  BY SMTT(40) DEF CurveOf, IsLog

\* A setting whose columns are a scale is described by them; so is an enumeration, and a
\* position that nobody has verified.
LEMMA ScaleIsDescribed ==
    ASSUME NEW effect, NEW key, NEW value, NEW unit, NEW low, NEW high, NEW curve \in {"linear", "log"},
           Display(effect, key, value) = Scale(unit, low, high, curve),
           UnitOf(effect, key) = unit, RangeOf(effect, key) = <<low, high>>,
           CurveOf(effect, key) = curve
    PROVE  Described(effect, key, value)
<1>1. Display(effect, key, value) # Enumerated /\ Display(effect, key, value) # Normalized
  BY DEF Enumerated, Normalized, Scale
<1> QED
  BY <1>1 DEF Described, Columns

\* An enumeration is described, ...
LEMMA EnumerationIsDescribed ==
    ASSUME NEW effect, NEW key, NEW value,
           Display(effect, key, value) = Enumerated, CurveOf(effect, key) = "enum",
           BareSpeed(effect, key) \/ (UnitOf(effect, key) = "none" /\ RangeOf(effect, key) = <<>>)
    PROVE  Described(effect, key, value)
<1>1. Enumerated # Normalized
  BY DEF Enumerated, Normalized, Scale
<1> QED
  BY <1>1 DEF Described, Columns

\* ... and so is a position that nobody has verified, ...
LEMMA PositionIsDescribed ==
    ASSUME NEW effect, NEW key, NEW value,
           Display(effect, key, value) = Normalized, CurveOf(effect, key) = "unverified"
    PROVE  Described(effect, key, value)
<1>1. Enumerated # Normalized
  BY DEF Enumerated, Normalized, Scale
<1> QED
  BY <1>1 DEF Described, Columns

\* ... and every setting of a rig is one of the three.
LEMMA EverySettingIsDescribed ==
    ASSUME NEW effect, NEW key \in KeysUnder(effect), NEW value
    PROVE  Described(effect, key, value)
<1>1. CASE key = "RVol"
  <2>1. CurveOf(effect, key) = "linear"
    BY <1>1, VolumeAndTempo, CurveIs DEF RangeOf
  <2>2. Display(effect, key, value) = Scale("dB", -2400, 0, "linear")
    BY <1>1, <2>1 DEF Display
  <2>3. UnitOf(effect, key) = "dB" /\ RangeOf(effect, key) = <<-2400, 0>>
    BY <1>1, <2>1 DEF UnitOf, RangeOf
  <2> QED
    BY <2>1, <2>2, <2>3, ScaleIsDescribed
<1>2. CASE key = "Tmpo"
  <2>1. CurveOf(effect, key) = "linear"
    BY <1>2, VolumeAndTempo, CurveIs DEF RangeOf
  <2>2. Display(effect, key, value) = Scale("BPM", 0, 0, "linear")
    BY <1>2, <2>1 DEF Display
  <2>3. UnitOf(effect, key) = "BPM" /\ RangeOf(effect, key) = <<0, 0>>
    BY <1>2, <2>1 DEF UnitOf, RangeOf
  <2> QED
    BY <2>1, <2>2, <2>3, ScaleIsDescribed
<1>3. CASE key \notin {"RVol", "Tmpo"} /\ IsDiscrete(effect, key)
  <2>1. Display(effect, key, value) = Enumerated
    BY <1>3 DEF Display
  <2>2. CurveOf(effect, key) = "enum"
    BY <1>3, CurveIs
  <2>3. BareSpeed(effect, key) \/ (UnitOf(effect, key) = "none" /\ RangeOf(effect, key) = <<>>)
    BY <1>3, DiscreteHasNone DEF UnitOf, RangeOf
  <2> QED
    BY <2>1, <2>2, <2>3, EnumerationIsDescribed
<1>4. CASE key \notin {"RVol", "Tmpo"} /\ ~IsDiscrete(effect, key)
  <2>1. ~Named(effect, key, value)
    BY <1>4, NamedIsDiscrete
  <2>2. CASE IsTenScale(effect, key)
    <3>1. CurveOf(effect, key) = "linear"
      BY <1>4, <2>2, ScalesAreNeverLog, CurveIs DEF RangeOf
    <3>2. Display(effect, key, value) = Scale("0-10", 0, 1000, "linear")
      BY <1>4, <2>1, <2>2, <3>1 DEF Display
    <3>3. UnitOf(effect, key) = "0-10" /\ RangeOf(effect, key) = <<0, 1000>>
      BY <1>4, <2>1, <2>2, <3>1 DEF UnitOf, RangeOf
    <3> QED
      BY <3>1, <3>2, <3>3, ScaleIsDescribed
  <2>3. CASE ~IsTenScale(effect, key) /\ IsPercent(effect, key)
    <3>1. CurveOf(effect, key) = "linear"
      BY <1>4, <2>3, ScalesAreNeverLog, CurveIs DEF RangeOf
    <3>2. Display(effect, key, value) = Scale("%", 0, 10000, "linear")
      BY <1>4, <2>1, <2>3, <3>1 DEF Display
    <3>3. UnitOf(effect, key) = "%" /\ RangeOf(effect, key) = <<0, 10000>>
      BY <1>4, <2>1, <2>3, <3>1 DEF UnitOf, RangeOf
    <3> QED
      BY <3>1, <3>2, <3>3, ScaleIsDescribed
  <2>4. CASE ~IsTenScale(effect, key) /\ ~IsPercent(effect, key)
    <3>1. CASE RowsFor(Conversions, effect, key) = {}
      <4>1. Display(effect, key, value) = Normalized
        BY <1>4, <2>1, <2>4, <3>1 DEF Display
      <4>2. RangeOf(effect, key) = <<>>
        BY <1>4, <2>4, <3>1, TablesAreEmptyTogether DEF RangeOf
      <4>3. CurveOf(effect, key) = "unverified"
        BY <1>4, <3>1, <4>2, TablesAreEmptyTogether, CurveIs
      <4> QED
        BY <4>1, <4>3, PositionIsDescribed
    <3>2. CASE RowsFor(Conversions, effect, key) # {}
      <4>1. PICK c \in Conversions :
              /\ TheRow(RowsFor(Conversions, effect, key)) = c
              /\ RowsFor(Ranges, effect, key) # {}
              /\ TheRow(RowsFor(Ranges, effect, key)).ends = <<c.scale.low, c.scale.high>>
              /\ RowsFor(Units, effect, key) # {}
              /\ TheRow(RowsFor(Units, effect, key)).unit = c.scale.unit
              /\ c.scale = Scale(c.scale.unit, c.scale.low, c.scale.high,
                                 IF IsLog(effect, key) THEN "log" ELSE "linear")
        BY <3>2, TablesAgree
      <4>2. Display(effect, key, value) = c.scale
        BY <1>4, <2>1, <2>4, <3>2, <4>1 DEF Display
      <4>3. UnitOf(effect, key) = c.scale.unit
        BY <1>4, <2>4, <4>1 DEF UnitOf
      <4>4. RangeOf(effect, key) = <<c.scale.low, c.scale.high>>
        BY <1>4, <2>4, <4>1 DEF RangeOf
      <4>5. CurveOf(effect, key) = IF IsLog(effect, key) THEN "log" ELSE "linear"
        BY <1>4, <4>4, CurveIs, SMTT(60)
      <4> DEFINE curve == IF IsLog(effect, key) THEN "log" ELSE "linear"
      <4>6. curve \in {"linear", "log"}
        OBVIOUS
      <4>7. /\ Display(effect, key, value) = Scale(c.scale.unit, c.scale.low, c.scale.high, curve)
            /\ CurveOf(effect, key) = curve
        BY <4>1, <4>2, <4>5
      <4> HIDE DEF curve
      <4> QED
        BY <4>3, <4>4, <4>6, <4>7, ScaleIsDescribed
    <3> QED
      BY <3>1, <3>2
  <2> QED
    BY <2>2, <2>3, <2>4
<1> QED
  BY <1>1, <1>2, <1>3, <1>4

\* What is being decoded is a setting that a rig can have.
SettingType ==
    given.kind = "setting" => /\ given.effect \in Effects \cup {0}
                              /\ given.key \in KeysUnder(given.effect)

\* It stays one.
LEMMA SettingInvariance == DecodeSpec => []SettingType
<1>1. DecodeInit => SettingType
  BY DEF DecodeInit, Nothing, SettingType
<1>2. SettingType /\ [DecodeNext]_given => SettingType'
  <2>1. CASE GiveDump
    BY <2>1 DEF GiveDump, SettingType
  <2>2. CASE GiveSetting
    BY <2>2 DEF GiveSetting, SettingType
  <2>3. CASE Leave
    BY <2>3 DEF Leave, SettingType, Nothing
  <2>4. CASE UNCHANGED given
    BY <2>4 DEF SettingType
  <2> QED
    BY <2>1, <2>2, <2>3, <2>4 DEF DecodeNext
<1> QED
  BY <1>1, <1>2, PTL DEF DecodeSpec

\* The ids of one model show their settings alike, whatever the value.
THEOREM SiblingsAreAlike == DecodeSpec => []SiblingsAlike
<1>1. SiblingsAlike
  BY SiblingsAreListedTogether, AlikeColumns DEF SiblingsAlike
<1> QED
  BY <1>1, PTL

\* The columns that parameter_unit, parameter_range and parameter_curve give
\* a setting describe what format_setting_value displays, for every effect, key
\* and value.
THEOREM CatalogIsTrue == DecodeSpec => []CatalogDescribesDisplay
<1>1. SettingType => CatalogDescribesDisplay
  BY EverySettingIsDescribed DEF SettingType, CatalogDescribesDisplay, Described
<1> QED
  BY <1>1, SettingInvariance, PTL

-----------------------------------------------------------------------------
(* Part 3.  Picking elements of a sequence.                                *)

\* Picked puts these together, one sequence for every element.
Marks(seq, places) == [i \in DOMAIN seq |-> IF i \in places THEN <<seq[i]>> ELSE <<>>]

\* Picking yields elements of the sequence.
LEMMA MarksType ==
    ASSUME NEW S, NEW seq \in Seq(S), NEW places
    PROVE  /\ Marks(seq, places) \in Seq(Seq(S))
           /\ Len(Marks(seq, places)) = Len(seq)
           /\ \A i \in 1..Len(seq) :
                 Marks(seq, places)[i] = IF i \in places THEN <<seq[i]>> ELSE <<>>
           /\ Picked(seq, places) = FlattenSeq(Marks(seq, places))
           /\ Picked(seq, places) \in Seq(S)
<1>1. DOMAIN seq = 1..Len(seq) /\ Len(seq) \in Nat /\ \A i \in 1..Len(seq) : seq[i] \in S
  OBVIOUS
<1>2. \A i \in 1..Len(seq) : (IF i \in places THEN <<seq[i]>> ELSE <<>>) \in Seq(S)
  BY <1>1
<1>3. /\ Marks(seq, places) \in Seq(Seq(S)) /\ Len(Marks(seq, places)) = Len(seq)
      /\ \A i \in 1..Len(seq) :
            Marks(seq, places)[i] = IF i \in places THEN <<seq[i]>> ELSE <<>>
  BY <1>1, <1>2 DEF Marks
<1>4. Picked(seq, places) = FlattenSeq(Marks(seq, places))
  BY DEF Picked, Marks
<1> QED
  BY <1>3, <1>4, FlattenSeqType

\* The elements that are in a set, in their order.
PickedFrom(seq, V) == Picked(seq, {i \in DOMAIN seq : seq[i] \in V})

\* What is picked of two sequences is picked of each, by the elements themselves.
LEMMA PickedConcat ==
    ASSUME NEW S, NEW s \in Seq(S), NEW t \in Seq(S), NEW V
    PROVE  PickedFrom(s \o t, V) = PickedFrom(s, V) \o PickedFrom(t, V)
<1> DEFINE u == s \o t
           P(q) == {i \in DOMAIN q : q[i] \in V}
           ms == Marks(s, P(s))
           mt == Marks(t, P(t))
           mu == Marks(u, P(u))
<1>0. PICK m \in Nat, n \in Nat : m = Len(s) /\ n = Len(t)
  OBVIOUS
<1>1. /\ u \in Seq(S) /\ Len(u) = m + n
      /\ \A i \in 1..(m + n) : u[i] = IF i <= m THEN s[i] ELSE t[i - m]
  BY <1>0, ConcatProperties
<1> HIDE DEF u
<1>2. \A q \in Seq(S) : \A i \in 1..Len(q) :
         Marks(q, P(q))[i] = IF q[i] \in V THEN <<q[i]>> ELSE <<>>
  <2>1. ASSUME NEW q \in Seq(S), NEW i \in 1..Len(q)
        PROVE  Marks(q, P(q))[i] = IF q[i] \in V THEN <<q[i]>> ELSE <<>>
    <3>1. i \in P(q) <=> q[i] \in V
      OBVIOUS
    <3> HIDE DEF P
    <3> QED
      BY <3>1, MarksType
  <2> QED
    BY <2>1
<1>3. /\ ms \in Seq(Seq(S)) /\ mt \in Seq(Seq(S)) /\ mu \in Seq(Seq(S))
      /\ Len(ms) = m /\ Len(mt) = n /\ Len(mu) = m + n
  <2> HIDE DEF P
  <2> QED
    BY <1>0, <1>1, MarksType
<1>4. /\ \A i \in 1..m : ms[i] = IF s[i] \in V THEN <<s[i]>> ELSE <<>>
      /\ \A i \in 1..n : mt[i] = IF t[i] \in V THEN <<t[i]>> ELSE <<>>
      /\ \A i \in 1..(m + n) : mu[i] = IF u[i] \in V THEN <<u[i]>> ELSE <<>>
  <2> HIDE DEF P
  <2> QED
    BY <1>0, <1>1, <1>2
<1> HIDE DEF ms, mt, mu
<1>5. mu = ms \o mt
  <2>1. ASSUME NEW i \in 1..Len(ms) PROVE mu[i] = ms[i]
    <3>1. i \in 1..m /\ i \in 1..(m + n) /\ i <= m
      BY <1>3
    <3>2. u[i] = s[i]
      BY <1>1, <3>1
    <3> QED
      BY <1>4, <3>1, <3>2
  <2>2. ASSUME NEW i \in 1..Len(mt) PROVE mu[Len(ms) + i] = mt[i]
    <3>1. i \in 1..n /\ m + i \in 1..(m + n) /\ ~(m + i <= m) /\ (m + i) - m = i
      BY <1>3
    <3>2. u[m + i] = t[i]
      BY <1>1, <3>1
    <3> QED
      BY <1>3, <1>4, <3>1, <3>2
  <2>3. Len(mu) = Len(ms) + Len(mt)
    BY <1>3
  <2> QED
    BY <1>3, <2>1, <2>2, <2>3, ConcatByElements
<1>6. FlattenSeq(mu) = FlattenSeq(ms) \o FlattenSeq(mt)
  BY <1>3, <1>5, FlattenConcat
<1>7. /\ FlattenSeq(ms) = Picked(s, P(s)) /\ FlattenSeq(mt) = Picked(t, P(t))
      /\ FlattenSeq(mu) = Picked(u, P(u))
  <2> HIDE DEF P
  <2> QED
    BY <1>1, MarksType DEF ms, mt, mu
<1> QED
  BY <1>6, <1>7 DEF u, PickedFrom

\* All of a sequence, or nothing of it.
LEMMA PickedAll ==
    ASSUME NEW S, NEW seq \in Seq(S), NEW places, 1..Len(seq) \subseteq places
    PROVE  Picked(seq, places) = seq
<1> DEFINE marks == Marks(seq, places)
           T == {n \in 0..Len(seq) : FlattenSeq(SubSeq(marks, 1, n)) # SubSeq(seq, 1, n)}
<1>1. /\ marks \in Seq(Seq(S)) /\ Len(marks) = Len(seq)
      /\ \A i \in 1..Len(seq) : marks[i] = <<seq[i]>>
  BY MarksType
<1>2. Picked(seq, places) = FlattenSeq(marks)
  BY MarksType
<1> HIDE DEF marks
<1>3. 0 \notin T
  <2>1. SubSeq(marks, 1, 0) = <<>> /\ SubSeq(seq, 1, 0) = <<>>
    BY <1>1
  <2> QED
    BY <2>1, FlattenEmpty
<1>4. ASSUME T # {} PROVE FALSE
  <2>1. T \in SUBSET Nat
    OBVIOUS
  <2> HIDE DEF T
  <2>2. PICK n \in T : \A m \in T : n <= m
    BY <1>4, <2>1, LeastNumber
  <2>3. n \in 1..Len(seq) /\ n - 1 \in 0..Len(seq) /\ n - 1 \notin T
    BY <1>3, <2>2 DEF T
  <2>4. FlattenSeq(SubSeq(marks, 1, n)) = FlattenSeq(SubSeq(marks, 1, n - 1)) \o marks[n]
    <3>1. n \in 1..Len(marks)
      BY <1>1, <2>3
    <3> QED
      BY <1>1, <3>1, FlattenStep
  <2>5. FlattenSeq(SubSeq(marks, 1, n - 1)) = SubSeq(seq, 1, n - 1)
    BY <2>3 DEF T
  <2>6. SubSeq(seq, 1, n) = SubSeq(seq, 1, n - 1) \o <<seq[n]>>
    BY <2>3, SubSeqRecursiveSecond
  <2>7. marks[n] = <<seq[n]>>
    BY <1>1, <2>3
  <2>8. n \notin T
    BY <2>4, <2>5, <2>6, <2>7 DEF T
  <2> QED
    BY <2>2, <2>8
<1>5. Len(seq) \in 0..Len(seq)
  OBVIOUS
<1>6. FlattenSeq(SubSeq(marks, 1, Len(seq))) = SubSeq(seq, 1, Len(seq))
  BY <1>4, <1>5
<1>7. SubSeq(seq, 1, Len(seq)) = seq /\ SubSeq(marks, 1, Len(seq)) = marks
  BY <1>1, SubSeqFull
<1> QED
  BY <1>2, <1>6, <1>7

\* ... or nothing of it.
LEMMA PickedNone ==
    ASSUME NEW S, NEW seq \in Seq(S), NEW places, 1..Len(seq) \cap places = {}
    PROVE  Picked(seq, places) = <<>>
<1>1. \A i \in 1..Len(Marks(seq, places)) : Marks(seq, places)[i] = <<>>
  <2>1. \A i \in 1..Len(seq) : i \notin places
    OBVIOUS
  <2>2. Len(Marks(seq, places)) = Len(seq)
    BY MarksType
  <2>3. \A i \in 1..Len(seq) : Marks(seq, places)[i] = IF i \in places THEN <<seq[i]>> ELSE <<>>
    BY MarksType
  <2> QED
    BY ONLY <2>1, <2>2, <2>3
<1> QED
  BY <1>1, MarksType, FlattenEmpties

\* Picking and mapping commute.
LEMMA PickedMap ==
    ASSUME NEW S, NEW R, NEW f, Maps(f, S, R), NEW seq \in Seq(S), NEW places
    PROVE  Picked(Map(f, seq), places) = Map(f, Picked(seq, places))
<1> DEFINE marks == Marks(seq, places)
           mapped == [k \in DOMAIN marks |-> Map(f, marks[k])]
<1>1. /\ Map(f, seq) \in Seq(R) /\ Len(Map(f, seq)) = Len(seq)
      /\ \A i \in 1..Len(seq) : Map(f, seq)[i] = f[seq[i]]
  BY MapType
<1>2. /\ marks \in Seq(Seq(S)) /\ Len(marks) = Len(seq)
      /\ \A i \in 1..Len(seq) : marks[i] = IF i \in places THEN <<seq[i]>> ELSE <<>>
      /\ Picked(seq, places) = FlattenSeq(marks)
  BY MarksType
<1> HIDE DEF marks
<1>3. Map(f, FlattenSeq(marks)) = FlattenSeq(mapped)
  BY <1>2, MapFlatten
<1> DEFINE other == Marks(Map(f, seq), places)
<1>4. /\ other \in Seq(Seq(R)) /\ Len(other) = Len(seq)
      /\ \A i \in 1..Len(seq) : other[i] = IF i \in places THEN <<Map(f, seq)[i]>> ELSE <<>>
      /\ Picked(Map(f, seq), places) = FlattenSeq(other)
  <2> DEFINE g == Map(f, seq)
  <2>1. g \in Seq(R) /\ Len(g) = Len(seq)
    BY <1>1
  <2> HIDE DEF g
  <2>2. /\ Marks(g, places) \in Seq(Seq(R)) /\ Len(Marks(g, places)) = Len(seq)
        /\ \A i \in 1..Len(seq) : Marks(g, places)[i] = IF i \in places THEN <<g[i]>> ELSE <<>>
        /\ Picked(g, places) = FlattenSeq(Marks(g, places))
    BY <2>1, MarksType
  <2> QED
    BY <2>2 DEF g
<1> HIDE DEF other
<1>5. other = mapped
  <2>1. DOMAIN other = 1..Len(seq) /\ DOMAIN marks = 1..Len(seq)
    BY <1>2, <1>4
  <2>2. ASSUME NEW i \in 1..Len(seq) PROVE other[i] = Map(f, marks[i])
    <3>1. CASE i \in places
      <4>1. marks[i] = <<seq[i]>> /\ other[i] = <<f[seq[i]]>>
        BY <1>1, <1>2, <1>4, <3>1
      <4>2. Map(f, <<seq[i]>>) = <<f[seq[i]]>>
        BY DEF Map
      <4> QED
        BY <4>1, <4>2
    <3>2. CASE i \notin places
      BY <1>2, <1>4, <3>2, MapEmpty
    <3> QED
      BY <3>1, <3>2
  <2>3. other = [i \in 1..Len(seq) |-> other[i]]
    BY <1>4, <2>1
  <2> QED
    BY <2>1, <2>2, <2>3
<1> QED
  BY <1>2, <1>3, <1>4, <1>5

-----------------------------------------------------------------------------
(* The words of a dump, and where its sections are.                        *)

\* STRING with the strings that the decoder writes itself, of which the provers
\* do not know that they are in it.
KeyStrings == STRING \cup SlotTableKeys \cup {"bypa", "sld5"}
\* The same for the ids of sections.
IdStrings == STRING \cup {"A"}

\* Settings under any of these keys, and the words that the device packs.
KeySettings == [key : KeyStrings, value : Int]
Words == {"header"} \cup [key : KeyStrings] \cup [value : Int] \cup [size : Int, id : IdStrings]

\* The words of the settings of a section.
KeyWord(setting) == [key |-> setting.key]
ValueWord(setting) == [value |-> setting.value]
Pairs(settings) == [i \in DOMAIN settings |-> <<KeyWord(settings[i]), ValueWord(settings[i])>>]

\* Setting i is words 2i-1 and 2i of its section.
LEMMA PairWords ==
    ASSUME NEW settings \in Seq(KeySettings)
    PROVE  /\ Pairs(settings) \in Seq(Seq(Words))
           /\ FlattenSeq(Pairs(settings)) \in Seq(Words)
           /\ Len(FlattenSeq(Pairs(settings))) = 2 * Len(settings)
           /\ \A i \in 1..Len(settings) :
                 /\ FlattenSeq(Pairs(settings))[2 * i - 1] = KeyWord(settings[i])
                 /\ FlattenSeq(Pairs(settings))[2 * i] = ValueWord(settings[i])
<1> DEFINE pairs == Pairs(settings)
<1>0. PICK n \in Nat : n = Len(settings)
  OBVIOUS
<1>1. DOMAIN settings = 1..n /\ \A i \in 1..n : KeyWord(settings[i]) \in Words /\ ValueWord(settings[i]) \in Words
  <2>1. \A i \in 1..n : settings[i] \in KeySettings
    BY <1>0
  <2>2. \A x \in KeySettings : KeyWord(x) \in Words /\ ValueWord(x) \in Words
    BY DEF KeySettings, Words, KeyWord, ValueWord
  <2> QED
    BY <1>0, <2>1, <2>2
<1>2. /\ pairs \in Seq(Seq(Words)) /\ Len(pairs) = n
      /\ \A i \in 1..n : pairs[i] = <<KeyWord(settings[i]), ValueWord(settings[i])>> /\ Len(pairs[i]) = 2
  <2>1. \A i \in 1..n : <<KeyWord(settings[i]), ValueWord(settings[i])>> \in Seq(Words)
    BY <1>1
  <2> QED
    BY <1>1, <2>1 DEF Pairs
<1> HIDE DEF pairs
<1> DEFINE T == {k \in 0..n : Before(pairs, k) # 2 * k}
<1>3. ASSUME T # {} PROVE FALSE
  <2>1. T \in SUBSET Nat
    OBVIOUS
  <2> HIDE DEF T
  <2>2. PICK k \in T : \A m \in T : k <= m
    BY <1>3, <2>1, LeastNumber
  <2>3. k \in 0..n /\ Before(pairs, k) # 2 * k
    BY DEF T
  <2>4. k # 0
    BY <2>3, <1>2, BeforeSteps
  <2>5. k \in 1..n /\ k - 1 \in 0..n /\ k - 1 \notin T
    BY <2>2, <2>3, <2>4
  <2>6. Before(pairs, k - 1) = 2 * (k - 1)
    BY <2>5 DEF T
  <2>7. Before(pairs, k) = Before(pairs, k - 1) + Len(pairs[k])
    BY <1>2, <2>5, BeforeSteps
  <2>8. Len(pairs[k]) = 2
    BY <1>2, <2>5
  <2> QED
    BY <2>3, <2>5, <2>6, <2>7, <2>8
<1>4. \A k \in 0..n : Before(pairs, k) = 2 * k
  BY <1>3
<1>5. FlattenSeq(pairs) \in Seq(Words)
  BY <1>2, FlattenSeqType
<1>6. Len(FlattenSeq(pairs)) = 2 * n
  <2>1. Before(pairs, Len(pairs)) = Len(FlattenSeq(pairs))
    BY <1>2, BeforeSteps
  <2>2. n \in 0..n
    OBVIOUS
  <2> QED
    BY <1>2, <1>4, <2>1, <2>2
<1>7. ASSUME NEW i \in 1..n
      PROVE  FlattenSeq(pairs)[2 * i - 1] = KeyWord(settings[i]) /\ FlattenSeq(pairs)[2 * i] = ValueWord(settings[i])
  <2>0. Len(pairs) = n /\ Len(pairs[i]) = 2
    BY <1>2
  <2>1. /\ pairs \in Seq(Seq(Words)) /\ i \in 1..Len(pairs)
        /\ 1 \in 1..Len(pairs[i]) /\ 2 \in 1..Len(pairs[i])
    BY <1>2, <2>0
  <2>2. /\ FlattenSeq(pairs)[Before(pairs, i - 1) + 1] = pairs[i][1]
        /\ FlattenSeq(pairs)[Before(pairs, i - 1) + 2] = pairs[i][2]
    <3>1. \A j \in 1..Len(pairs[i]) : FlattenSeq(pairs)[Before(pairs, i - 1) + j] = pairs[i][j]
      BY ONLY <2>1, FlattenAt, SMTT(60)
    <3> QED
      BY ONLY <2>1, <3>1
  <2>3. Before(pairs, i - 1) = 2 * (i - 1)
    BY <1>4
  <2>4. 2 * (i - 1) + 1 = 2 * i - 1 /\ 2 * (i - 1) + 2 = 2 * i
    OBVIOUS
  <2>5. pairs[i][1] = KeyWord(settings[i]) /\ pairs[i][2] = ValueWord(settings[i])
    BY <1>2
  <2> QED
    BY <2>2, <2>3, <2>4, <2>5
<1> QED
  BY <1>0, <1>2, <1>5, <1>6, <1>7 DEF pairs

\* A section is a word of header and two words a setting.
LEMMA SectionWords ==
    ASSUME NEW id \in IdStrings, NEW settings \in Seq(KeySettings)
    PROVE  /\ Section(id, settings) \in Seq(Words)
           /\ Len(Section(id, settings)) = 1 + 2 * Len(settings)
           /\ Section(id, settings)[1] = [size |-> 8 * Len(settings), id |-> id]
           /\ \A i \in 1..Len(settings) :
                 /\ Section(id, settings)[2 * i] = KeyWord(settings[i])
                 /\ Section(id, settings)[2 * i + 1] = ValueWord(settings[i])
<1> DEFINE flat == FlattenSeq(Pairs(settings))
           header == [size |-> 8 * Len(settings), id |-> id]
           whole == <<header>> \o flat
<1>0. PICK n \in Nat : n = Len(settings)
  OBVIOUS
<1>1. /\ flat \in Seq(Words) /\ Len(flat) = 2 * n
      /\ \A i \in 1..n : flat[2 * i - 1] = KeyWord(settings[i]) /\ flat[2 * i] = ValueWord(settings[i])
  BY <1>0, PairWords
<1>2. header \in Words
  BY <1>0 DEF Words
<1>3. Section(id, settings) = whole
  BY DEF Section, Pairs, KeyWord, ValueWord
<1> HIDE DEF flat, header
<1> DEFINE h == <<header>>
<1>4. h \in Seq(Words) /\ Len(h) = 1 /\ h[1] = header
  BY <1>2
<1> HIDE DEF h
<1>5. /\ h \o flat \in Seq(Words) /\ Len(h \o flat) = 1 + 2 * n
      /\ \A i \in 1..(1 + 2 * n) : (h \o flat)[i] = IF i <= 1 THEN h[i] ELSE flat[i - 1]
  <2>1. /\ h \o flat \in Seq(Words) /\ Len(h \o flat) = Len(h) + Len(flat)
        /\ \A i \in 1..(Len(h) + Len(flat)) : (h \o flat)[i] = IF i <= Len(h) THEN h[i] ELSE flat[i - Len(h)]
    BY <1>1, <1>4, ConcatProperties
  <2> QED
    BY <1>1, <1>4, <2>1
<1>6. whole = h \o flat
  BY DEF h
<1> HIDE DEF whole
<1>7. whole[1] = header
  BY <1>4, <1>5, <1>6
<1>8. ASSUME NEW i \in 1..n PROVE whole[2 * i] = KeyWord(settings[i]) /\ whole[2 * i + 1] = ValueWord(settings[i])
  <2>1. /\ 2 * i \in 1..(1 + 2 * n) /\ 2 * i + 1 \in 1..(1 + 2 * n)
        /\ ~(2 * i <= 1) /\ ~(2 * i + 1 <= 1) /\ (2 * i + 1) - 1 = 2 * i
    OBVIOUS
  <2>2. whole[2 * i] = flat[2 * i - 1] /\ whole[2 * i + 1] = flat[(2 * i + 1) - 1]
    BY <1>5, <1>6, <2>1
  <2> QED
    BY <1>1, <2>1, <2>2
<1> QED
  BY <1>0, <1>3, <1>5, <1>6, <1>7, <1>8 DEF header

\* The sections of a rig, by number: the table of contents, then the modules.
Count(rig) == Len(rig.modules) + 1
IdOf(rig, k) == IF k = 1 THEN "A" ELSE rig.modules[k - 1].id
SettingsOf(rig, k) ==
    IF k = 1 THEN rig.globals \o TableOf(rig) ELSE ModuleSettings(rig.modules[k - 1])

\* The keys of the module table are keys.
LEMMA KeysAreStrings ==
    ASSUME NEW id \in SlotIds
    PROVE  /\ EffectKey[id] \in SlotTableKeys /\ CategoryKey[id] \in SlotTableKeys
           /\ EffectKey[id] \in KeyStrings /\ CategoryKey[id] \in KeyStrings
  BY DEF SlotTableKeys, KeyStrings

\* The settings of a rig are settings.
LEMMA RealSettings ==
    ASSUME NEW settings \in Seq(RigSettings)
    PROVE  settings \in Seq(KeySettings)
<1>1. RigSettings \subseteq KeySettings
  BY DEF RigSettings, KeySettings, KeyStrings
<1> QED
  BY <1>1, SeqMonotonic

\* So are the entries of the module table, ...
LEMMA EntriesType ==
    ASSUME NEW module \in RigModules
    PROVE  TableEntries(module) \in Seq(KeySettings)
<1>1. CASE module.id \notin SlotIds
  BY <1>1 DEF TableEntries
<1>2. CASE module.id \in SlotIds
  <2>1. EffectKey[module.id] \in KeyStrings /\ CategoryKey[module.id] \in KeyStrings
    BY <1>2, KeysAreStrings
  <2>2. module.effect \in Int /\ module.category \in Int
    BY DEF RigModules
  <2>3. /\ Setting(EffectKey[module.id], module.effect) \in KeySettings
        /\ Setting(CategoryKey[module.id], module.category) \in KeySettings
    BY <2>1, <2>2 DEF Setting, KeySettings
  <2> QED
    BY <1>2, <2>3 DEF TableEntries
<1> QED
  BY <1>1, <1>2

\* ... and the settings of a module with its bypass.
LEMMA ModuleSettingsType ==
    ASSUME NEW module \in RigModules
    PROVE  ModuleSettings(module) \in Seq(KeySettings)
<1>1. module.settings \in Seq(KeySettings)
  <2>1. module.settings \in Seq(RigSettings)
    BY DEF RigModules
  <2> QED
    BY <2>1, RealSettings
<1>2. Setting(BypassKey(module), IF module.state = "on" THEN 0 ELSE 1) \in KeySettings
  <2>1. BypassKey(module) \in KeyStrings
    BY DEF BypassKey, KeyStrings
  <2>2. (IF module.state = "on" THEN 0 ELSE 1) \in Int
    OBVIOUS
  <2> QED
    BY <2>1, <2>2 DEF Setting, KeySettings
<1> DEFINE bypass == IF module.state = "none" THEN <<>>
                     ELSE <<Setting(BypassKey(module), IF module.state = "on" THEN 0 ELSE 1)>>
<1>3. bypass \in Seq(KeySettings)
  BY <1>2
<1>4. ModuleSettings(module) = module.settings \o bypass
  BY DEF ModuleSettings
<1> HIDE DEF bypass
<1> QED
  BY <1>1, <1>3, <1>4, ConcatProperties

\* The module table, module by module.
Entries(rig) == [i \in DOMAIN rig.modules |-> TableEntries(rig.modules[i])]

\* The parts of a rig.
LEMMA RigFields ==
    ASSUME NEW rig, IsRig(rig)
    PROVE  /\ rig.globals \in Seq(KeySettings)
           /\ rig.modules \in Seq(RigModules)
           /\ Len(rig.modules) \in Nat /\ DOMAIN rig.modules = 1..Len(rig.modules)
           /\ \A i \in 1..Len(rig.modules) : rig.modules[i] \in RigModules
<1>1. rig.globals \in Seq(RigSettings) /\ rig.modules \in Seq(RigModules)
  BY DEF IsRig
<1> QED
  BY <1>1, RealSettings, LenProperties, ElementOfSeq

\* The module table consists of the entries of the modules.
LEMMA TableType ==
    ASSUME NEW rig, IsRig(rig)
    PROVE  /\ Entries(rig) \in Seq(Seq(KeySettings))
           /\ Len(Entries(rig)) = Len(rig.modules)
           /\ \A i \in 1..Len(rig.modules) : Entries(rig)[i] = TableEntries(rig.modules[i])
           /\ TableOf(rig) = FlattenSeq(Entries(rig))
           /\ TableOf(rig) \in Seq(KeySettings)
<1>1. /\ Len(rig.modules) \in Nat /\ DOMAIN rig.modules = 1..Len(rig.modules)
      /\ \A i \in 1..Len(rig.modules) : TableEntries(rig.modules[i]) \in Seq(KeySettings)
  BY RigFields, EntriesType
<1>2. /\ Entries(rig) \in Seq(Seq(KeySettings))
      /\ Len(Entries(rig)) = Len(rig.modules)
      /\ \A i \in 1..Len(rig.modules) : Entries(rig)[i] = TableEntries(rig.modules[i])
  BY <1>1 DEF Entries
<1>3. TableOf(rig) = FlattenSeq(Entries(rig))
  BY DEF TableOf, Entries
<1> QED
  BY <1>2, <1>3, FlattenSeqType

\* The sections of a rig, by number.
LEMMA SectionTypes ==
    ASSUME NEW rig, IsRig(rig)
    PROVE  /\ Count(rig) \in Nat
           /\ DOMAIN SectionsOf(rig) = 1..Count(rig)
           /\ \A k \in 1..Count(rig) :
                 /\ IdOf(rig, k) \in IdStrings
                 /\ SettingsOf(rig, k) \in Seq(KeySettings)
                 /\ SectionsOf(rig)[k] = Section(IdOf(rig, k), SettingsOf(rig, k))
<1>0. PICK n \in Nat : n = Len(rig.modules)
  BY RigFields
<1>1. ASSUME NEW k \in 1..(n + 1) PROVE IdOf(rig, k) \in IdStrings /\ SettingsOf(rig, k) \in Seq(KeySettings)
  <2>1. CASE k = 1
    <3>1. rig.globals \o TableOf(rig) \in Seq(KeySettings)
      BY RigFields, TableType, ConcatProperties
    <3>2. IdOf(rig, k) = "A" /\ SettingsOf(rig, k) = rig.globals \o TableOf(rig)
      BY <2>1 DEF IdOf, SettingsOf
    <3>3. "A" \in IdStrings
      BY DEF IdStrings
    <3> QED
      BY <3>1, <3>2, <3>3
  <2>2. CASE k # 1
    <3>1. k - 1 \in 1..Len(rig.modules)
      BY <1>0, <2>2
    <3>2. rig.modules[k - 1] \in RigModules
      BY <3>1, RigFields
    <3>3. rig.modules[k - 1].id \in IdStrings
      BY <3>2 DEF RigModules, IdStrings
    <3>4. ModuleSettings(rig.modules[k - 1]) \in Seq(KeySettings)
      BY <3>2, ModuleSettingsType
    <3> QED
      BY <2>2, <3>3, <3>4 DEF IdOf, SettingsOf
  <2> QED
    BY <2>1, <2>2
<1> DEFINE A == <<Section("A", rig.globals \o TableOf(rig))>>
           B == [i \in DOMAIN rig.modules |-> Section(rig.modules[i].id, ModuleSettings(rig.modules[i]))]
<1>2. A \in Seq(Seq(Words)) /\ Len(A) = 1 /\ A[1] = Section(IdOf(rig, 1), SettingsOf(rig, 1))
  <2>1. 1 \in 1..(n + 1)
    OBVIOUS
  <2>2. Section(IdOf(rig, 1), SettingsOf(rig, 1)) \in Seq(Words)
    BY <1>1, <2>1, SectionWords
  <2>3. IdOf(rig, 1) = "A" /\ SettingsOf(rig, 1) = rig.globals \o TableOf(rig)
    BY DEF IdOf, SettingsOf
  <2> DEFINE first == Section(IdOf(rig, 1), SettingsOf(rig, 1))
  <2>4. A = <<first>>
    BY <2>3
  <2>5. first \in Seq(Words)
    BY <2>2
  <2> HIDE DEF first, A
  <2>6. A \in Seq(Seq(Words)) /\ Len(A) = 1 /\ A[1] = first
    BY <2>4, <2>5
  <2> QED
    BY <2>6 DEF first
<1>3. /\ B \in Seq(Seq(Words)) /\ Len(B) = n
      /\ \A k \in 2..(n + 1) : B[k - 1] = Section(IdOf(rig, k), SettingsOf(rig, k))
  <2>1. DOMAIN rig.modules = 1..n
    BY <1>0, RigFields
  <2>2. ASSUME NEW i \in 1..n
        PROVE  /\ Section(rig.modules[i].id, ModuleSettings(rig.modules[i])) \in Seq(Words)
               /\ IdOf(rig, i + 1) = rig.modules[i].id
               /\ SettingsOf(rig, i + 1) = ModuleSettings(rig.modules[i])
    <3>1. i + 1 \in 1..(n + 1) /\ i + 1 # 1 /\ (i + 1) - 1 = i
      OBVIOUS
    <3>2. /\ IdOf(rig, i + 1) = rig.modules[i].id
          /\ SettingsOf(rig, i + 1) = ModuleSettings(rig.modules[i])
      BY <3>1 DEF IdOf, SettingsOf
    <3>3. Section(IdOf(rig, i + 1), SettingsOf(rig, i + 1)) \in Seq(Words)
      BY <1>1, <3>1, SectionWords
    <3> QED
      BY <3>2, <3>3
  <2>3. B \in Seq(Seq(Words)) /\ Len(B) = n
    BY <2>1, <2>2
  <2>4. ASSUME NEW k \in 2..(n + 1) PROVE B[k - 1] = Section(IdOf(rig, k), SettingsOf(rig, k))
    <3>1. k - 1 \in 1..n /\ (k - 1) + 1 = k
      OBVIOUS
    <3>2. B[k - 1] = Section(rig.modules[k - 1].id, ModuleSettings(rig.modules[k - 1]))
      BY <2>1, <3>1
    <3>3. IdOf(rig, k) = rig.modules[k - 1].id /\ SettingsOf(rig, k) = ModuleSettings(rig.modules[k - 1])
      BY DEF IdOf, SettingsOf
    <3> QED
      BY <3>2, <3>3
  <2> QED
    BY <2>3, <2>4
<1>4. SectionsOf(rig) = A \o B
  BY DEF SectionsOf
<1> HIDE DEF A, B
<1>5. /\ A \o B \in Seq(Seq(Words)) /\ Len(A \o B) = 1 + n
      /\ \A k \in 1..(1 + n) : (A \o B)[k] = IF k <= 1 THEN A[k] ELSE B[k - 1]
  <2>1. /\ A \o B \in Seq(Seq(Words)) /\ Len(A \o B) = Len(A) + Len(B)
        /\ \A k \in 1..(Len(A) + Len(B)) : (A \o B)[k] = IF k <= Len(A) THEN A[k] ELSE B[k - Len(A)]
    BY <1>2, <1>3, ConcatProperties
  <2> QED
    BY <1>2, <1>3, <2>1
<1>6. ASSUME NEW k \in 1..(n + 1) PROVE (A \o B)[k] = Section(IdOf(rig, k), SettingsOf(rig, k))
  <2>1. CASE k = 1
    BY <1>2, <1>5, <2>1
  <2>2. CASE k # 1
    <3>1. k \in 2..(n + 1) /\ k \in 1..(1 + n) /\ ~(k <= 1)
      BY <2>2
    <3> QED
      BY <1>3, <1>5, <3>1
  <2> QED
    BY <2>1, <2>2
<1>7. Count(rig) = n + 1 /\ DOMAIN (A \o B) = 1..(n + 1)
  <2>1. Count(rig) = n + 1
    BY <1>0 DEF Count
  <2>2. DOMAIN (A \o B) = 1..Len(A \o B)
    BY <1>5
  <2>3. Len(A \o B) = n + 1
    BY <1>5
  <2> QED
    BY <2>1, <2>2, <2>3
<1> QED
  BY <1>0, <1>1, <1>4, <1>6, <1>7

\* The word at which section k of a rig starts, from 0.
Start(rig, k) == 9 + Before(SectionsOf(rig), k - 1)

\* A section has its length.
LEMMA SectionLengths ==
    ASSUME NEW rig, IsRig(rig)
    PROVE  /\ SectionsOf(rig) \in Seq(Seq(Words))
           /\ Len(SectionsOf(rig)) = Count(rig)
           /\ \A k \in 1..Count(rig) : Len(SectionsOf(rig)[k]) = 1 + 2 * Len(SettingsOf(rig, k))
<1> DEFINE n == Count(rig)
           This(k) == Section(IdOf(rig, k), SettingsOf(rig, k))
           sections == SectionsOf(rig)
<1>1. ASSUME NEW k \in 1..n
      PROVE  This(k) \in Seq(Words) /\ Len(This(k)) = 1 + 2 * Len(SettingsOf(rig, k))
  <2>1. IdOf(rig, k) \in IdStrings /\ SettingsOf(rig, k) \in Seq(KeySettings)
    BY SectionTypes
  <2> QED
    BY <2>1, SectionWords
<1>2. n \in Nat /\ DOMAIN sections = 1..n /\ \A k \in 1..n : sections[k] = This(k)
  BY SectionTypes
<1>3. sections = [k \in 1..n |-> sections[k]]
  <2>1. sections = <<Section("A", rig.globals \o TableOf(rig))>>
                     \o [i \in DOMAIN rig.modules |->
                            Section(rig.modules[i].id, ModuleSettings(rig.modules[i]))]
    BY DEF SectionsOf
  <2>2. sections = [k \in DOMAIN sections |-> sections[k]]
    BY <2>1
  <2> QED
    BY <1>2, <2>2
<1> HIDE DEF This, n, sections
<1>4. sections \in Seq(Seq(Words)) /\ Len(sections) = n
  BY <1>1, <1>2, <1>3
<1> QED
  BY <1>1, <1>2, <1>4 DEF n, sections

\* What the device packs, word by word.
LEMMA PackedLayout ==
    ASSUME NEW rig, IsRig(rig)
    PROVE  /\ Start(rig, 1) = 9
           /\ \A k \in 1..(Count(rig) + 1) : Start(rig, k) \in Nat /\ Start(rig, k) >= 9
           /\ \A k \in 1..Count(rig) :
                 Start(rig, k + 1) = Start(rig, k) + 1 + 2 * Len(SettingsOf(rig, k))
           /\ Packed(rig) \in Seq(Words)
           /\ Len(Packed(rig)) = Start(rig, Count(rig) + 1)
           /\ \A k \in 1..Count(rig) : \A j \in 1..Len(SectionsOf(rig)[k]) :
                 Packed(rig)[Start(rig, k) + j] = SectionsOf(rig)[k][j]
<1> DEFINE n == Count(rig)
           d == SectionsOf(rig)
           flat == FlattenSeq(d)
           H == [i \in 1..9 |-> "header"]
<1>0. n \in Nat
  BY SectionTypes
<1>1. /\ d \in Seq(Seq(Words)) /\ Len(d) = n
      /\ \A k \in 1..n : Len(d[k]) = 1 + 2 * Len(SettingsOf(rig, k))
  BY SectionLengths
<1>2. H \in Seq(Words) /\ Len(H) = 9
  <2>1. "header" \in Words
    BY DEF Words
  <2> QED
    BY <2>1
<1>3. Packed(rig) = H \o flat
  BY DEF Packed
<1> HIDE DEF n, d, H
<1>4. flat \in Seq(Words) /\ Len(flat) = Before(d, n)
  BY <1>1, FlattenSeqType, BeforeSteps
<1>5. /\ Before(d, 0) = 0
      /\ \A k \in 0..n : Before(d, k) \in Nat
      /\ \A k \in 1..n : Before(d, k) = Before(d, k - 1) + Len(d[k])
  BY <1>1, BeforeSteps
<1>6. \A k \in 1..n : \A j \in 1..Len(d[k]) :
         Before(d, k - 1) + j \in 1..Len(flat) /\ flat[Before(d, k - 1) + j] = d[k][j]
  BY <1>1, FlattenAt
<1> HIDE DEF flat
<1>7. /\ H \o flat \in Seq(Words)
      /\ Len(H \o flat) = 9 + Before(d, n)
      /\ \A i \in 1..Len(flat) : (H \o flat)[9 + i] = flat[i]
  <2>1. /\ H \o flat \in Seq(Words) /\ Len(H \o flat) = Len(H) + Len(flat)
        /\ \A i \in 1..(Len(H) + Len(flat)) : (H \o flat)[i] = IF i <= Len(H) THEN H[i] ELSE flat[i - Len(H)]
    BY <1>2, <1>4, ConcatProperties
  <2>2. ASSUME NEW i \in 1..Len(flat) PROVE (H \o flat)[9 + i] = flat[i]
    <3>1. 9 + i \in 1..(Len(H) + Len(flat)) /\ ~(9 + i <= Len(H)) /\ (9 + i) - Len(H) = i
      BY <1>2, <1>4, LenProperties
    <3> QED
      BY <2>1, <3>1
  <2> QED
    BY <1>2, <1>4, <2>1, <2>2
<1>8. Start(rig, 1) = 9
  BY <1>5 DEF Start, d
<1>9. ASSUME NEW k \in 1..(n + 1) PROVE Start(rig, k) \in Nat /\ Start(rig, k) >= 9
  <2>1. k - 1 \in 0..n
    BY <1>0
  <2>2. Before(d, k - 1) \in Nat
    BY <1>5, <2>1
  <2>3. Start(rig, k) = 9 + Before(d, k - 1)
    BY DEF Start, d
  <2> QED
    BY <2>2, <2>3
<1>10. ASSUME NEW k \in 1..n
       PROVE  Start(rig, k + 1) = Start(rig, k) + 1 + 2 * Len(SettingsOf(rig, k))
  <2>1. Start(rig, k + 1) = 9 + Before(d, k) /\ Start(rig, k) = 9 + Before(d, k - 1)
    <3>1. (k + 1) - 1 = k
      BY <1>0
    <3> QED
      BY <3>1 DEF Start, d
  <2>2. Before(d, k) = Before(d, k - 1) + Len(d[k]) /\ Len(d[k]) = 1 + 2 * Len(SettingsOf(rig, k))
    BY <1>1, <1>5
  <2>3. Before(d, k - 1) \in Nat /\ SettingsOf(rig, k) \in Seq(KeySettings)
    BY <1>0, <1>5, SectionTypes DEF n
  <2>4. Len(SettingsOf(rig, k)) \in Nat
    BY <2>3, LenProperties
  <2> QED
    BY <2>1, <2>2, <2>3, <2>4
<1>11. Len(Packed(rig)) = Start(rig, n + 1)
  <2>1. Start(rig, n + 1) = 9 + Before(d, n)
    <3>1. (n + 1) - 1 = n
      BY <1>0
    <3> QED
      BY <3>1 DEF Start, d
  <2> QED
    BY <1>3, <1>7, <2>1
<1>12. ASSUME NEW k \in 1..n, NEW j \in 1..Len(d[k])
       PROVE  Packed(rig)[Start(rig, k) + j] = d[k][j]
  <2>1. Before(d, k - 1) + j \in 1..Len(flat) /\ flat[Before(d, k - 1) + j] = d[k][j]
    BY <1>6
  <2>2. (H \o flat)[9 + (Before(d, k - 1) + j)] = d[k][j]
    BY <1>7, <2>1
  <2>3. Start(rig, k) + j = 9 + (Before(d, k - 1) + j)
    <3>1. Start(rig, k) = 9 + Before(d, k - 1)
      BY DEF Start, d
    <3>2. Before(d, k - 1) \in Nat /\ j \in Int
      <4>1. k - 1 \in 0..n
        BY <1>0
      <4> QED
        BY <1>5, <4>1
    <3> QED
      BY <3>1, <3>2
  <2> QED
    BY <1>3, <2>2, <2>3
<1> QED
  BY <1>3, <1>7, <1>8, <1>9, <1>10, <1>11, <1>12 DEF n, d

\* The sections follow each other.
LEMMA StartGrows ==
    ASSUME NEW rig, IsRig(rig), NEW k \in 1..(Count(rig) + 1), NEW j \in 1..k
    PROVE  Start(rig, j) <= Start(rig, k)
<1> DEFINE n == Count(rig)
           d == SectionsOf(rig)
<1>1. n \in Nat
  BY SectionTypes
<1>2. d \in Seq(Seq(Words)) /\ Len(d) = n
  BY SectionLengths
<1>3. Start(rig, j) = 9 + Before(d, j - 1) /\ Start(rig, k) = 9 + Before(d, k - 1)
  BY DEF Start
<1> HIDE DEF d
<1>4. k - 1 \in 0..Len(d) /\ j - 1 \in 0..(k - 1)
  BY <1>1, <1>2
<1>5. Before(d, j - 1) <= Before(d, k - 1)
  BY <1>2, <1>4, BeforeGrows
<1>6. Before(d, j - 1) \in Nat /\ Before(d, k - 1) \in Nat
  <2>1. j - 1 \in 0..Len(d)
    BY <1>2, <1>4
  <2> QED
    BY <1>2, <1>4, <2>1, BeforeSteps
<1> QED
  BY <1>3, <1>5, <1>6

\* The numbers of a section are numbers, and it ends within what is packed.
LEMMA PackedNumbers ==
    ASSUME NEW rig, IsRig(rig), NEW k \in 1..Count(rig)
    PROVE  /\ Start(rig, k) \in Nat /\ Start(rig, k) >= 9
           /\ Len(SettingsOf(rig, k)) \in Nat
           /\ Start(rig, k + 1) = Start(rig, k) + 1 + 2 * Len(SettingsOf(rig, k))
           /\ Start(rig, k + 1) <= Len(Packed(rig))
           /\ Len(Packed(rig)) \in Nat
<1>0. Count(rig) \in Nat /\ SettingsOf(rig, k) \in Seq(KeySettings)
  BY SectionTypes
<1>1. /\ k \in 1..(Count(rig) + 1) /\ k + 1 \in 1..(Count(rig) + 1)
      /\ Count(rig) + 1 \in 1..(Count(rig) + 1)
      /\ k + 1 \in 1..(Count(rig) + 1)
  BY <1>0
<1>2. Start(rig, k) \in Nat /\ Start(rig, k) >= 9
  BY <1>1, PackedLayout
<1>3. Start(rig, k + 1) = Start(rig, k) + 1 + 2 * Len(SettingsOf(rig, k))
  BY PackedLayout
<1>4. Len(Packed(rig)) = Start(rig, Count(rig) + 1)
  BY PackedLayout
<1>5. Start(rig, k + 1) <= Start(rig, Count(rig) + 1)
  BY <1>1, StartGrows
<1>6. Start(rig, Count(rig) + 1) \in Nat
  BY <1>1, PackedLayout
<1>7. Len(SettingsOf(rig, k)) \in Nat
  BY <1>0, LenProperties
<1> QED
  BY <1>2, <1>3, <1>4, <1>5, <1>6, <1>7

\* The model counts the words up to the end of a section as its successor starts.
LEMMA WordsUpToStart ==
    ASSUME NEW rig, IsRig(rig), NEW n \in 0..Count(rig)
    PROVE  WordsUpTo(rig, n) = Start(rig, n + 1)
<1> DEFINE d == SectionsOf(rig)
<1>1. d \in Seq(Seq(Words)) /\ Len(d) = Count(rig) /\ Count(rig) \in Nat
  BY SectionLengths, SectionTypes
<1>2. WordsUpTo(rig, n) = 9 + Len(FlattenSeq([i \in 1..n |-> d[i]]))
  BY DEF WordsUpTo
<1>3. Start(rig, n + 1) = 9 + Len(FlattenSeq(SubSeq(d, 1, n)))
  <2>1. (n + 1) - 1 = n
    BY <1>1
  <2> QED
    BY <2>1 DEF Start, Before
<1> HIDE DEF d
<1>4. SubSeq(d, 1, n) = [i \in 1..n |-> d[i]]
  BY <1>1
<1> QED
  BY <1>2, <1>3, <1>4

\* There is a table of contents.
LEMMA CountPositive ==
    ASSUME NEW rig, IsRig(rig)
    PROVE  /\ Len(rig.modules) \in Nat /\ Count(rig) = Len(rig.modules) + 1
           /\ 1 \in 1..Count(rig)
  BY RigFields DEF Count

\* A section is not empty: it has a header.
LEMMA StartAtLeast ==
    ASSUME NEW rig, IsRig(rig), NEW k \in 1..(Count(rig) + 1)
    PROVE  Start(rig, k) >= 8 + k
<1> DEFINE n == Count(rig)
           T == {m \in 1..(n + 1) : ~(Start(rig, m) >= 8 + m)}
<1>1. n \in Nat
  BY SectionTypes
<1>2. ASSUME T # {} PROVE FALSE
  <2>1. T \in SUBSET Nat
    OBVIOUS
  <2> HIDE DEF T
  <2>2. PICK m \in T : \A i \in T : m <= i
    BY <1>2, <2>1, LeastNumber
  <2>3. m \in 1..(n + 1) /\ ~(Start(rig, m) >= 8 + m)
    BY DEF T
  <2>4. m # 1
    BY <2>3, PackedLayout
  <2>5. m - 1 \in 1..n /\ m - 1 \in 1..(n + 1) /\ m - 1 \notin T /\ (m - 1) + 1 = m
    BY <1>1, <2>2, <2>3, <2>4
  <2>6. Start(rig, m - 1) >= 8 + (m - 1)
    BY <2>5 DEF T
  <2>7. /\ Start(rig, (m - 1) + 1) = Start(rig, m - 1) + 1 + 2 * Len(SettingsOf(rig, m - 1))
        /\ Start(rig, m - 1) \in Nat /\ Len(SettingsOf(rig, m - 1)) \in Nat
    BY <2>5, PackedNumbers
  <2> QED
    BY <2>3, <2>5, <2>6, <2>7
<1> QED
  BY <1>2

-----------------------------------------------------------------------------
(* A capture: the sound words of a dump, and words that can be anything.   *)

\* What the captures are.
Real(capture) ==
    IsRig(capture.rig) /\ capture.lost \in Nat /\ capture.rest \in Seq(AnyWord)

\* How many words of the dump are sound; negative if all were lost, and more.
Good(capture) == Len(Packed(capture.rig)) - capture.lost

\* Section k came through whole.
Sound(capture, k) == Start(capture.rig, k + 1) <= Good(capture)

\* The words of a dump.
LEMMA DumpWords ==
    ASSUME NEW capture, Real(capture)
    PROVE  /\ Len(Dump(capture)) \in Nat
           /\ Good(capture) \in Int /\ Good(capture) <= Len(Dump(capture))
           /\ \A i \in 1..Len(Dump(capture)) : i <= Good(capture) =>
                 Dump(capture)[i] = Packed(capture.rig)[i]
           /\ \A i \in 1..Len(Dump(capture)) : i > Good(capture) => Dump(capture)[i] \in AnyWord
           /\ Intact(capture) =>
                 Dump(capture) = Packed(capture.rig) /\ Good(capture) = Len(Dump(capture))
<1> DEFINE p == Packed(capture.rig)
           g == Good(capture)
           rest == capture.rest
           front == SubSeq(p, 1, g)
           W == Words \cup AnyWord
<1>1. p \in Seq(Words) /\ Len(p) \in Nat /\ g \in Int /\ g <= Len(p) /\ rest \in Seq(AnyWord)
  <2>1. p \in Seq(Words)
    BY PackedLayout DEF Real
  <2> QED
    BY <2>1, LenProperties DEF Real, Good
<1>2. Dump(capture) = front \o rest
  BY DEF Dump, Good
<1>3. Intact(capture) => g = Len(p) /\ rest = <<>>
  BY <1>1 DEF Intact, Good
<1> HIDE DEF p, g, rest
<1>4. /\ front \in Seq(Words) /\ Len(front) = (IF g < 0 THEN 0 ELSE g)
      /\ \A i \in 1..Len(front) : front[i] = p[i]
  BY <1>1
<1>5. /\ front \in Seq(W) /\ rest \in Seq(W)
  <2>1. Words \subseteq W /\ AnyWord \subseteq W
    OBVIOUS
  <2> HIDE DEF W, front
  <2> QED
    BY <1>1, <1>4, <2>1, SeqMonotonic
<1> HIDE DEF front, W
<1> DEFINE all == front \o rest
<1>6. /\ all \in Seq(W) /\ Len(all) = Len(front) + Len(rest)
      /\ \A i \in 1..(Len(front) + Len(rest)) : all[i] = IF i <= Len(front) THEN front[i] ELSE rest[i - Len(front)]
  BY <1>5, ConcatProperties
<1> HIDE DEF all
<1>7. Len(rest) \in Nat /\ Len(front) \in Nat /\ \A i \in 1..Len(rest) : rest[i] \in AnyWord
  BY <1>1, <1>4
<1>8. Len(all) \in Nat /\ g <= Len(all)
  BY <1>1, <1>4, <1>6, <1>7
<1>9. \A i \in 1..Len(all) : i <= g => all[i] = p[i]
  BY <1>1, <1>4, <1>6, <1>7
<1>10. ASSUME NEW i \in 1..Len(all), i > g PROVE all[i] \in AnyWord
  <2>1. ~(i <= Len(front)) /\ i - Len(front) \in 1..Len(rest)
    BY <1>1, <1>4, <1>6, <1>7, <1>10
  <2>2. all[i] = rest[i - Len(front)]
    BY <1>6, <2>1
  <2> QED
    BY <1>7, <2>1, <2>2
<1>11. ASSUME Intact(capture) PROVE all = p /\ g = Len(all)
  <2>1. g = Len(p) /\ rest = <<>>
    BY <1>3, <1>11
  <2>2. front = p
    BY <1>1, <2>1, SubSeqFull DEF front
  <2>3. all = p
    BY <1>1, <2>1, <2>2, ConcatEmptySeq DEF all
  <2> QED
    BY <2>1, <2>3
<1> QED
  BY <1>1, <1>2, <1>8, <1>9, <1>10, <1>11 DEF all, p, g

\* What precedes a sound section is sound.
LEMMA SoundBefore ==
    ASSUME NEW capture, Real(capture), NEW n \in 1..Count(capture.rig), Sound(capture, n),
           NEW k \in 1..n
    PROVE  k \in 1..Count(capture.rig) /\ Sound(capture, k)
<1>1. Count(capture.rig) \in Nat /\ IsRig(capture.rig)
  BY SectionTypes DEF Real
<1>2. /\ k \in 1..Count(capture.rig) /\ n + 1 \in 1..(Count(capture.rig) + 1)
      /\ k + 1 \in 1..(n + 1) /\ k + 1 \in 1..(Count(capture.rig) + 1)
  BY <1>1
<1>3. Start(capture.rig, k + 1) <= Start(capture.rig, n + 1)
  BY <1>1, <1>2, StartGrows
<1>4. Start(capture.rig, k + 1) \in Nat /\ Start(capture.rig, n + 1) \in Nat /\ Good(capture) \in Int
  BY <1>1, <1>2, PackedLayout, DumpWords
<1> QED
  BY <1>2, <1>3, <1>4 DEF Sound

-----------------------------------------------------------------------------
(* What the decoder makes of a section.                                    *)

\* What parse_rig_section makes of a section that is where it should be.
Parsed(rig, k) ==
    [id |-> IdOf(rig, k), count |-> Len(SettingsOf(rig, k)),
     start |-> 4 * Start(rig, k) + 4, end |-> 4 * Start(rig, k + 1)]

\* A section whose header came through parses as what it was, if there are as many
\* words as it says, ...
LEMMA ParseHeader ==
    ASSUME NEW capture, Real(capture),
           NEW k \in 1..Count(capture.rig), Start(capture.rig, k) < Good(capture)
    PROVE  ParseSection(Dump(capture), 4 * Start(capture.rig, k)) =
              IF Start(capture.rig, k + 1) <= Len(Dump(capture))
              THEN Parsed(capture.rig, k) ELSE NoSection
<1> DEFINE raw == Dump(capture)
           rig == capture.rig
           s == Start(rig, k)
           len == Len(SettingsOf(rig, k))
           id == IdOf(rig, k)
           e == Start(rig, k + 1)
<1>0. IsRig(rig)
  BY DEF Real
<1>1. s \in Nat /\ len \in Nat /\ e = s + 1 + 2 * len
  BY <1>0, PackedNumbers
<1>2. Len(raw) \in Nat /\ s + 1 <= Len(raw) /\ s + 1 <= Good(capture) /\ s + 1 \in 1..Len(raw)
  <2>1. Len(raw) \in Nat /\ Good(capture) \in Int /\ Good(capture) <= Len(raw)
    BY DumpWords
  <2> QED
    BY <1>1, <2>1
<1>3. raw[s + 1] = [size |-> 8 * len, id |-> id]
  <2>1. IdOf(rig, k) \in IdStrings /\ SettingsOf(rig, k) \in Seq(KeySettings)
    BY <1>0, SectionTypes
  <2>2. SectionsOf(rig)[k] = Section(IdOf(rig, k), SettingsOf(rig, k))
    BY <1>0, SectionTypes
  <2>3. 1 \in 1..Len(SectionsOf(rig)[k])
    <3>1. Len(SectionsOf(rig)[k]) = 1 + 2 * len
      BY <1>0, SectionLengths
    <3> QED
      BY <1>1, <3>1
  <2>4. Packed(rig)[s + 1] = SectionsOf(rig)[k][1]
    BY <1>0, <2>3, PackedLayout
  <2>5. raw[s + 1] = Packed(rig)[s + 1]
    BY <1>2, DumpWords
  <2> QED
    BY <2>1, <2>2, <2>4, <2>5, SectionWords
<1>4. Parsed(rig, k) = [id |-> id, count |-> len, start |-> 4 * s + 4, end |-> 4 * e]
  BY DEF Parsed
<1> HIDE DEF s, len, id, raw, e
<1>5. (4 * s) \div 4 + 1 = s + 1
  BY <1>1
<1>6. raw[(4 * s) \div 4 + 1].size = 8 * len /\ raw[(4 * s) \div 4 + 1].id = id
  BY <1>3, <1>5
<1>7. /\ ~(4 * s + 4 > 4 * Len(raw))
      /\ (8 * len) % 8 = 0 /\ (8 * len) \div 8 = len
      /\ 4 * s + 4 + 8 * len = 4 * e
      /\ (4 * e > 4 * Len(raw)) <=> ~(e <= Len(raw))
  BY <1>1, <1>2
<1>8. CASE e <= Len(raw)
  <2>1. ParseSection(raw, 4 * s) = [id |-> id, count |-> len, start |-> 4 * s + 4, end |-> 4 * e]
    BY <1>6, <1>7, <1>8 DEF ParseSection
  <2> QED
    BY <1>4, <1>8, <2>1 DEF raw, s, e
<1>9. CASE ~(e <= Len(raw))
  <2>1. ParseSection(raw, 4 * s) = NoSection
    BY <1>6, <1>7, <1>9 DEF ParseSection
  <2> QED
    BY <1>9, <2>1 DEF raw, s, e
<1> QED
  BY <1>8, <1>9

\* ... so a section that came through whole does.
LEMMA ParseSound ==
    ASSUME NEW capture, Real(capture), NEW k \in 1..Count(capture.rig), Sound(capture, k)
    PROVE  /\ ParseSection(Dump(capture), 4 * Start(capture.rig, k)) = Parsed(capture.rig, k)
           /\ Parsed(capture.rig, k) # NoSection
<1> DEFINE s == Start(capture.rig, k)
           e == Start(capture.rig, k + 1)
<1>1. s \in Nat /\ Len(SettingsOf(capture.rig, k)) \in Nat /\ e = s + 1 + 2 * Len(SettingsOf(capture.rig, k))
  BY PackedNumbers DEF Real
<1>2. e <= Good(capture) /\ Good(capture) \in Int /\ Good(capture) <= Len(Dump(capture)) /\ Len(Dump(capture)) \in Nat
  BY DumpWords DEF Sound
<1>3. s < Good(capture) /\ e <= Len(Dump(capture))
  BY <1>1, <1>2
<1>4. Parsed(capture.rig, k) # NoSection
  <2>1. Parsed(capture.rig, k).start = 4 * s + 4 /\ NoSection.start = 0
    BY DEF Parsed, NoSection
  <2>2. 4 * s + 4 # 0
    BY <1>1
  <2> QED
    BY <2>1, <2>2
<1> QED
  BY <1>3, <1>4, ParseHeader

\* Behind the sound words there can be a section of any length that fits.
LEMMA ParseBeyond ==
    ASSUME NEW capture, Real(capture), NEW w \in Nat, w >= Good(capture)
    PROVE  \/ ParseSection(Dump(capture), 4 * w) = NoSection
           \/ \E n \in Nat :
                 /\ ParseSection(Dump(capture), 4 * w).count = n
                 /\ ParseSection(Dump(capture), 4 * w).end = 4 * (w + 1 + 2 * n)
                 /\ w + 1 + 2 * n <= Len(Dump(capture))
<1> DEFINE raw == Dump(capture)
           header == raw[(4 * w) \div 4 + 1]
<1>1. Len(raw) \in Nat /\ Good(capture) \in Int
  BY DumpWords
<1>2. (4 * w) \div 4 + 1 = w + 1
  OBVIOUS
<1>3. CASE 4 * w + 4 > 4 * Len(raw)
  <2> HIDE DEF raw
  <2>1. ParseSection(raw, 4 * w) = NoSection
    BY <1>3 DEF ParseSection
  <2> QED
    BY <2>1 DEF raw
<1>4. CASE ~(4 * w + 4 > 4 * Len(raw))
  <2>1. w + 1 \in 1..Len(raw) /\ w + 1 > Good(capture)
    BY <1>1, <1>4
  <2>2. header \in AnyWord
    BY <1>2, <2>1, DumpWords
  <2>3. header.size \in Nat
    BY <2>2 DEF AnyWord
  <2> DEFINE size == header.size
             n == size \div 8
  <2> HIDE DEF raw, header
  <2>4. CASE size % 8 # 0 \/ 4 * w + 4 + size > 4 * Len(raw)
    <3>1. ParseSection(raw, 4 * w) = NoSection
      BY <2>4 DEF ParseSection, header
    <3> QED
      BY <3>1 DEF raw
  <2>5. CASE ~(size % 8 # 0 \/ 4 * w + 4 + size > 4 * Len(raw))
    <3>1. ParseSection(raw, 4 * w) = [id |-> header.id, count |-> n, start |-> 4 * w + 4, end |-> 4 * w + 4 + size]
      BY <1>4, <2>5 DEF ParseSection, header
    <3> HIDE DEF size
    <3>2. size \in Nat
      BY <2>3 DEF size
    <3>3. n \in Nat /\ size = 8 * n
      BY <2>5, <3>2
    <3> HIDE DEF n
    <3>4. 4 * w + 4 + size = 4 * (w + 1 + 2 * n) /\ w + 1 + 2 * n <= Len(raw)
      BY <1>1, <2>5, <3>3
    <3> QED
      BY <3>1, <3>3, <3>4 DEF raw
  <2> QED
    BY <2>4, <2>5
<1> QED
  BY <1>3, <1>4

\* Where the walk can be, in words: at a section of the device, or behind what is sound.
Place(capture, w) ==
    w \in Nat /\ (w >= Good(capture) \/ \E k \in 1..Count(capture.rig) : w = Start(capture.rig, k))

\* From such a place a section leads to another one, further on but within the dump.
LEMMA ParsePlace ==
    ASSUME NEW capture, Real(capture), NEW w, Place(capture, w),
           ParseSection(Dump(capture), 4 * w) # NoSection
    PROVE  /\ ParseSection(Dump(capture), 4 * w).count \in Nat
           /\ \E v : /\ Place(capture, v) /\ v > w /\ v <= Len(Dump(capture))
                     /\ ParseSection(Dump(capture), 4 * w).end = 4 * v
<1> DEFINE section == ParseSection(Dump(capture), 4 * w)
           rig == capture.rig
<1>1. Len(Dump(capture)) \in Nat /\ Good(capture) \in Int /\ w \in Nat
  BY DumpWords DEF Place
<1>2. CASE w >= Good(capture)
  <2>1. PICK n \in Nat : /\ section.count = n /\ section.end = 4 * (w + 1 + 2 * n)
                         /\ w + 1 + 2 * n <= Len(Dump(capture))
    BY <1>1, <1>2, ParseBeyond
  <2> DEFINE v == w + 1 + 2 * n
  <2>2. v \in Nat /\ v >= Good(capture) /\ v > w
    BY <1>1, <1>2
  <2>3. Place(capture, v)
    BY <2>2 DEF Place
  <2> HIDE DEF section
  <2> QED
    BY <2>1, <2>2, <2>3 DEF section
<1>3. CASE ~(w >= Good(capture))
  <2>1. PICK k \in 1..Count(rig) : w = Start(rig, k)
    BY <1>3 DEF Place
  <2>2. Start(rig, k) < Good(capture)
    BY <1>1, <1>3, <2>1
  <2>3. section = Parsed(rig, k) /\ Start(rig, k + 1) <= Len(Dump(capture))
    BY <2>1, <2>2, ParseHeader
  <2> DEFINE v == Start(rig, k + 1)
  <2>4. v = w + 1 + 2 * Len(SettingsOf(rig, k)) /\ Len(SettingsOf(rig, k)) \in Nat
    BY <2>1, PackedNumbers DEF Real
  <2>5. Place(capture, v)
    <3>1. CASE k = Count(rig)
      <4>1. v = Len(Packed(rig)) /\ v \in Nat
        BY <1>1, <2>4, <3>1, PackedLayout DEF Real
      <4>2. v >= Good(capture)
        BY <1>1, <4>1 DEF Good, Real
      <4> QED
        BY <4>1, <4>2 DEF Place
    <3>2. CASE k # Count(rig)
      <4>1. k + 1 \in 1..Count(rig)
        BY <3>2, SectionTypes DEF Real
      <4>2. v \in Nat
        BY <1>1, <2>4
      <4> QED
        BY <4>1, <4>2 DEF Place
    <3> QED
      BY <3>1, <3>2
  <2>6. section.count \in Nat /\ section.end = 4 * v
    BY <2>3, <2>4 DEF Parsed
  <2>7. v > w
    BY <1>1, <2>4
  <2> HIDE DEF section, v
  <2> QED
    BY <2>3, <2>5, <2>6, <2>7 DEF section, v
<1> QED
  BY <1>2, <1>3

\* The settings of a section that came through whole are read back.
LEMMA SettingsRead ==
    ASSUME NEW capture, Real(capture), NEW k \in 1..Count(capture.rig), Sound(capture, k)
    PROVE  Settings(Dump(capture), Parsed(capture.rig, k)) = SettingsOf(capture.rig, k)
<1> DEFINE raw == Dump(capture)
           rig == capture.rig
           s == Start(rig, k)
           ss == SettingsOf(rig, k)
           section == Parsed(rig, k)
<1>0. IsRig(rig)
  BY DEF Real
<1>1. s \in Nat /\ Len(ss) \in Nat /\ Start(rig, k + 1) = s + 1 + 2 * Len(ss)
  BY <1>0, PackedNumbers
<1>2. ss \in Seq(KeySettings) /\ IdOf(rig, k) \in IdStrings
  BY <1>0, SectionTypes
<1>3. section.start = 4 * s + 4 /\ section.count = Len(ss)
  BY DEF Parsed
<1>4. ASSUME NEW j \in 1..(1 + 2 * Len(ss))
      PROVE  raw[s + j] = Section(IdOf(rig, k), ss)[j]
  <2>1. SectionsOf(rig)[k] = Section(IdOf(rig, k), ss) /\ Len(SectionsOf(rig)[k]) = 1 + 2 * Len(ss)
    BY <1>0, SectionTypes, SectionLengths
  <2>2. Packed(rig)[s + j] = SectionsOf(rig)[k][j]
    BY <1>0, <2>1, PackedLayout
  <2>3. /\ Good(capture) \in Int /\ Good(capture) <= Len(raw) /\ Len(raw) \in Nat
        /\ s + 1 + 2 * Len(ss) <= Good(capture)
    BY <1>1, DumpWords DEF Sound
  <2>4. s + j \in 1..Len(raw) /\ s + j <= Good(capture)
    <3> DEFINE g == Good(capture)
               len == Len(ss)
               m == Len(raw)
    <3>1. s \in Nat /\ len \in Nat /\ g \in Int /\ m \in Nat /\ g <= m /\ s + 1 + 2 * len <= g
          /\ j \in 1..(1 + 2 * len)
      BY <1>1, <2>3
    <3> HIDE DEF g, len, m, s
    <3> QED
      BY <3>1 DEF g, m
  <2>5. raw[s + j] = Packed(rig)[s + j]
    BY <2>4, DumpWords
  <2> QED
    BY <2>1, <2>2, <2>5
<1>5. ASSUME NEW i \in 1..Len(ss)
      PROVE  raw[s + 2 * i].key = ss[i].key /\ raw[s + 2 * i + 1].value = ss[i].value
  <2>1. 2 * i \in 1..(1 + 2 * Len(ss)) /\ 2 * i + 1 \in 1..(1 + 2 * Len(ss)) /\ s + (2 * i + 1) = s + 2 * i + 1
    <3> DEFINE len == Len(ss)
    <3>1. s \in Nat /\ len \in Nat /\ i \in 1..len
      BY <1>1
    <3> HIDE DEF len, s
    <3> QED
      BY <3>1 DEF len
  <2>2. /\ raw[s + 2 * i] = Section(IdOf(rig, k), ss)[2 * i]
        /\ raw[s + 2 * i + 1] = Section(IdOf(rig, k), ss)[2 * i + 1]
    BY <1>4, <2>1
  <2>3. \A id \in IdStrings : \A j \in 1..Len(ss) :
           Section(id, ss)[2 * j] = KeyWord(ss[j]) /\ Section(id, ss)[2 * j + 1] = ValueWord(ss[j])
    <3> HIDE DEF ss
    <3> QED
      BY <1>2, SectionWords
  <2> HIDE DEF ss, s, raw
  <2>4. raw[s + 2 * i] = KeyWord(ss[i]) /\ raw[s + (2 * i + 1)] = ValueWord(ss[i])
    BY <1>2, <2>1, <2>2, <2>3
  <2> QED
    BY <2>1, <2>4 DEF KeyWord, ValueWord
<1> HIDE DEF s, ss, raw, section
<1>6. ASSUME NEW i \in 1..Len(ss) PROVE SettingAt(raw, section, i) = ss[i]
  <2>1. /\ (section.start \div 4 + 2 * (i - 1)) + 1 = s + 2 * i
        /\ (section.start \div 4 + 2 * (i - 1)) + 2 = s + 2 * i + 1
    BY <1>1, <1>3
  <2>2. SettingAt(raw, section, i) = Setting(raw[s + 2 * i].key, raw[s + 2 * i + 1].value)
    BY <2>1 DEF SettingAt
  <2>3. ss[i] \in KeySettings
    BY <1>2
  <2>4. ss[i] = [key |-> ss[i].key, value |-> ss[i].value]
    BY <2>3 DEF KeySettings
  <2> QED
    BY <1>5, <2>2, <2>4 DEF Setting
<1>7. Settings(raw, section) = [i \in 1..Len(ss) |-> SettingAt(raw, section, i)]
  BY <1>3 DEF Settings
<1>8. Settings(raw, section) = [i \in 1..Len(ss) |-> ss[i]]
  BY <1>6, <1>7
<1>9. ss = [i \in 1..Len(ss) |-> ss[i]]
  BY <1>2
<1> QED
  BY <1>8, <1>9 DEF raw, ss, section

\* A table of contents that came through whole is read.
LEMMA TableRead ==
    ASSUME NEW capture, Real(capture), Sound(capture, 1)
    PROVE  /\ HasTable(Dump(capture))
           /\ ParseSection(Dump(capture), 36) = Parsed(capture.rig, 1)
           /\ TableOfContents(Dump(capture)) = SettingsOf(capture.rig, 1)
<1>1. 1 \in 1..Count(capture.rig) /\ 36 = 4 * Start(capture.rig, 1)
  BY CountPositive, PackedLayout DEF Real
<1>2. ParseSection(Dump(capture), 36) = Parsed(capture.rig, 1)
  BY <1>1, ParseSound
<1>3. Parsed(capture.rig, 1).id = "A"
  BY DEF Parsed, IdOf
<1>4. HasTable(Dump(capture))
  BY <1>2, <1>3 DEF HasTable
<1>5. TableOfContents(Dump(capture)) = SettingsOf(capture.rig, 1)
  BY <1>1, <1>2, SettingsRead DEF TableOfContents
<1> QED
  BY <1>2, <1>4, <1>5

-----------------------------------------------------------------------------
(* The walk over the sections behind the table of contents.                *)

\* f holds the offsets of the walk, which starts at the given one.
Offsets(f, raw, start, n) ==
    f = [k \in 0..n |-> IF k = 0 THEN start ELSE ParseSection(raw, f[k - 1]).end]

\* There are such offsets, for any number of steps.
LEMMA OffsetsExist ==
    ASSUME NEW raw, NEW start, NEW n \in Nat
    PROVE  \E f : Offsets(f, raw, start, n)
<1> DEFINE T == {m \in Nat : ~ \E f : Offsets(f, raw, start, m)}
<1>1. 0 \notin T
  <2> DEFINE f == [k \in 0..0 |-> start]
  <2>1. f = [k \in 0..0 |-> IF k = 0 THEN start ELSE ParseSection(raw, f[k - 1]).end]
    OBVIOUS
  <2>2. Offsets(f, raw, start, 0)
    BY <2>1 DEF Offsets
  <2> QED
    BY <2>2
<1>2. ASSUME T # {} PROVE FALSE
  <2>1. T \in SUBSET Nat
    OBVIOUS
  <2> HIDE DEF T
  <2>2. PICK m \in T : \A i \in T : m <= i
    BY <1>2, <2>1, LeastNumber
  <2>3. m \in Nat /\ m # 0 /\ ~ \E f : Offsets(f, raw, start, m)
    BY <1>1, <2>2 DEF T
  <2>4. m - 1 \in Nat /\ m - 1 \notin T
    BY <2>1, <2>2, <2>3
  <2>5. \E f : Offsets(f, raw, start, m - 1)
    BY <2>4 DEF T
  <2>6. PICK f : Offsets(f, raw, start, m - 1)
    BY <2>5
  <2>7. \A k \in 0..(m - 1) : f[k] = IF k = 0 THEN start ELSE ParseSection(raw, f[k - 1]).end
    BY <2>6 DEF Offsets
  <2> DEFINE h == [k \in 0..m |-> IF k = m THEN ParseSection(raw, f[m - 1]).end ELSE f[k]]
  <2>8. ASSUME NEW k \in 0..m
        PROVE  h[k] = IF k = 0 THEN start ELSE ParseSection(raw, h[k - 1]).end
    <3>1. CASE k = m
      <4>1. k # 0 /\ k - 1 \in 0..m /\ k - 1 # m /\ k - 1 = m - 1
        BY <2>3, <3>1
      <4> QED
        BY <3>1, <4>1
    <3>2. CASE k # m
      <4>1. k \in 0..(m - 1) /\ h[k] = f[k] /\ (k # 0 => k - 1 \in 0..m /\ k - 1 # m)
        BY <2>3, <3>2
      <4>2. k # 0 => h[k - 1] = f[k - 1]
        BY <4>1
      <4> QED
        BY <2>7, <4>1, <4>2
    <3> QED
      BY <3>1, <3>2
  <2>9. h = [k \in 0..m |-> h[k]]
    OBVIOUS
  <2> HIDE DEF h
  <2>10. Offsets(h, raw, start, m)
    BY <2>8, <2>9 DEF Offsets
  <2> QED
    BY <2>3, <2>10
<1> QED
  BY <1>2

\* What SectionsFrom stands for.
Stops(f, raw, k) == f[k] + 12 > 4 * Len(raw) \/ ParseSection(raw, f[k]) = NoSection

\* f holds the offsets of the walk, and SectionsFrom has the sections before the first of
\* them at which it stops.
WalksFrom(f, raw, start) ==
    /\ Offsets(f, raw, start, Len(raw))
    /\ \A K \in 0..Len(raw) :
          Stops(f, raw, K) /\ (\A j \in 0..(K - 1) : ~Stops(f, raw, j))
            => SectionsFrom(raw, start) = [k \in 1..K |-> ParseSection(raw, f[k - 1])]

\* SectionsFrom has the sections before the first offset at which the walk stops.
LEMMA SectionsFromValue ==
    ASSUME NEW raw, NEW start, Len(raw) \in Nat
    PROVE  \E f : WalksFrom(f, raw, start)
<1> DEFINE f == CHOOSE f : Offsets(f, raw, start, Len(raw))
           First(k) == Stops(f, raw, k) /\ \A j \in 0..(k - 1) : ~Stops(f, raw, j)
           count == CHOOSE k \in 0..Len(raw) : First(k)
<1>1. Offsets(f, raw, start, Len(raw))
  BY OffsetsExist
<1>2. SectionsFrom(raw, start) = [k \in 1..count |-> ParseSection(raw, f[k - 1])]
  BY DEF SectionsFrom, Offsets, Stops
<1> HIDE DEF f
<1>3. ASSUME NEW K \in 0..Len(raw), First(K) PROVE count = K
  <2>1. count \in 0..Len(raw) /\ First(count)
    <3> HIDE DEF First
    <3> QED
      BY <1>3
  <2>2. ASSUME NEW i \in 0..Len(raw), NEW j \in 0..Len(raw), First(i), First(j) PROVE ~(i < j)
    BY <2>2
  <2> HIDE DEF First, count
  <2>3. ~(count < K) /\ ~(K < count)
    BY <1>3, <2>1, <2>2
  <2> QED
    BY <2>1, <2>3
<1>4. ASSUME NEW K \in 0..Len(raw), First(K)
      PROVE  SectionsFrom(raw, start) = [k \in 1..K |-> ParseSection(raw, f[k - 1])]
  BY <1>2, <1>3, <1>4
<1>5. WalksFrom(f, raw, start)
  BY <1>1, <1>4 DEF WalksFrom
<1> QED
  BY <1>5

\* As long as the walk goes on it comes to such places, each time further.
LEMMA WalkPlaces ==
    ASSUME NEW capture, Real(capture), NEW f, NEW v, Place(capture, v), v <= Len(Dump(capture)),
           Offsets(f, Dump(capture), 4 * v, Len(Dump(capture))),
           NEW k \in 0..Len(Dump(capture)), \A j \in 0..(k - 1) : ~Stops(f, Dump(capture), j)
    PROVE  \E w : Place(capture, w) /\ f[k] = 4 * w /\ w >= k /\ w <= Len(Dump(capture))
<1> DEFINE raw == Dump(capture)
           n == Len(raw)
           P(m) == \E w : Place(capture, w) /\ f[m] = 4 * w /\ w >= m /\ w <= n
           T == {m \in 0..k : ~P(m)}
<1>1. n \in Nat /\ v \in Nat
  BY DumpWords DEF Place
<1>2. \A m \in 0..n : f[m] = IF m = 0 THEN 4 * v ELSE ParseSection(raw, f[m - 1]).end
  BY DEF Offsets
<1>3. P(0)
  <2>1. f[0] = 4 * v /\ v >= 0
    BY <1>1, <1>2
  <2> QED
    BY <2>1
<1>4. ASSUME T # {} PROVE FALSE
  <2>1. T \in SUBSET Nat
    BY <1>1
  <2> HIDE DEF T
  <2>2. PICK m \in T : \A i \in T : m <= i
    BY <1>4, <2>1, LeastNumber
  <2>3. m \in 0..k /\ ~P(m) /\ m # 0
    BY <1>3, <2>2 DEF T
  <2>4. m \in 0..n /\ m - 1 \in 0..k /\ m - 1 \in 0..(k - 1) /\ m - 1 \notin T
    BY <1>1, <2>1, <2>2, <2>3
  <2>5. P(m - 1)
    BY <2>4 DEF T
  <2>6. PICK w : Place(capture, w) /\ f[m - 1] = 4 * w /\ w >= m - 1 /\ w <= n
    BY <2>5
  <2>7. ParseSection(raw, 4 * w) # NoSection
    <3>1. ~Stops(f, raw, m - 1)
      BY <2>4
    <3> QED
      BY <2>6, <3>1 DEF Stops
  <2>8. PICK u : /\ Place(capture, u) /\ u > w /\ u <= n
                 /\ ParseSection(raw, 4 * w).end = 4 * u
    BY <2>6, <2>7, ParsePlace
  <2>9. f[m] = 4 * u
    BY <1>2, <2>3, <2>4, <2>6, <2>8
  <2>10. u >= m
    <3>1. w \in Nat /\ u \in Nat
      BY <2>6, <2>8 DEF Place
    <3> QED
      BY <2>3, <2>6, <2>8, <3>1
  <2> QED
    BY <2>3, <2>8, <2>9, <2>10
<1>5. k \in 0..k
  BY <1>1
<1> QED
  BY <1>4, <1>5

\* While the sections are sound these are where the device put them.
LEMMA WalkOffsets ==
    ASSUME NEW capture, Real(capture), NEW n \in 1..Count(capture.rig), Sound(capture, n),
           NEW f, Offsets(f, Dump(capture), 4 * Start(capture.rig, 2), Len(Dump(capture))),
           NEW k \in 0..(n - 1)
    PROVE  /\ k \in 0..Len(Dump(capture))
           /\ f[k] = 4 * Start(capture.rig, k + 2)
<1> DEFINE raw == Dump(capture)
           rig == capture.rig
           T == {m \in 0..(n - 1) : f[m] # 4 * Start(rig, m + 2)}
<1>1. n - 1 \in Nat /\ n - 1 <= Len(raw) /\ Len(raw) \in Nat
  <2>1. IsRig(rig) /\ Count(rig) \in Nat
    BY SectionTypes DEF Real
  <2>2. n + 1 \in 1..(Count(rig) + 1)
    BY <2>1
  <2>3. Start(rig, n + 1) >= 8 + (n + 1) /\ Start(rig, n + 1) \in Nat
    BY <2>1, <2>2, StartAtLeast, PackedLayout
  <2>4. Good(capture) \in Int /\ Good(capture) <= Len(raw) /\ Len(raw) \in Nat /\ Start(rig, n + 1) <= Good(capture)
    BY DumpWords DEF Sound
  <2> HIDE DEF raw, rig
  <2> QED
    BY <2>1, <2>3, <2>4
<1>2. \A m \in 0..Len(raw) : f[m] = IF m = 0 THEN 4 * Start(rig, 2) ELSE ParseSection(raw, f[m - 1]).end
  BY DEF Offsets
<1>3. 0 \notin T
  BY <1>1, <1>2
<1>4. ASSUME T # {} PROVE FALSE
  <2>1. T \in SUBSET Nat
    BY <1>1
  <2> HIDE DEF T
  <2>2. PICK m \in T : \A i \in T : m <= i
    BY <1>4, <2>1, LeastNumber
  <2>3. m \in 0..(n - 1) /\ f[m] # 4 * Start(rig, m + 2) /\ m # 0
    BY <1>3, <2>2 DEF T
  <2>4. /\ m \in 0..Len(raw) /\ m - 1 \in 0..(n - 1) /\ m - 1 \notin T
        /\ (m - 1) + 2 = m + 1 /\ (m + 1) + 1 = m + 2 /\ m + 1 \in 1..n
    BY <1>1, <2>1, <2>2, <2>3
  <2>5. f[m - 1] = 4 * Start(rig, (m - 1) + 2)
    BY <2>4 DEF T
  <2>6. m + 1 \in 1..Count(rig) /\ Sound(capture, m + 1)
    BY <2>4, SoundBefore
  <2>7. ParseSection(raw, 4 * Start(rig, m + 1)) = Parsed(rig, m + 1)
    BY <2>6, ParseSound
  <2>8. Parsed(rig, m + 1).end = 4 * Start(rig, (m + 1) + 1)
    BY DEF Parsed
  <2>9. f[m] = ParseSection(raw, f[m - 1]).end
    BY <1>2, <2>3, <2>4
  <2> QED
    BY <2>3, <2>4, <2>5, <2>7, <2>8, <2>9
<1> QED
  BY <1>1, <1>4

\* The walk has so many sections; those of the sound ones that it misses are empty.
WalkHas(capture, K) ==
    /\ K \in Nat /\ DOMAIN Sections(Dump(capture)) = 1..K
    /\ \A k \in 1..K : Sections(Dump(capture))[k].count \in Nat
    /\ \A n \in 1..Count(capture.rig) : Sound(capture, n) =>
          \A k \in 1..(n - 1) :
             IF k <= K THEN Sections(Dump(capture))[k] = Parsed(capture.rig, k + 1)
                       ELSE SettingsOf(capture.rig, k + 1) = <<>>
    /\ Intact(capture) => K <= Count(capture.rig) - 1

\* Whatever follows what is sound, the walk ends.
LEMMA WalkResult ==
    ASSUME NEW capture, Real(capture), HasTable(Dump(capture))
    PROVE  \E K : WalkHas(capture, K)
<1> DEFINE raw == Dump(capture)
           rig == capture.rig
           len == Len(raw)
<1>0. IsRig(rig) /\ Count(rig) \in Nat
  BY SectionTypes DEF Real
<1>1. len \in Nat
  BY DumpWords
<1>2. PICK v : Place(capture, v) /\ v <= len /\ ParseSection(raw, 36).end = 4 * v
  <2>1. Place(capture, 9) /\ 4 * 9 = 36
    <3>1. 1 \in 1..Count(rig) /\ Start(rig, 1) = 9
      BY <1>0, CountPositive, PackedLayout
    <3> QED
      BY <3>1 DEF Place
  <2>2. ParseSection(raw, 36) # NoSection
    BY DEF HasTable, NoSection
  <2> QED
    BY <2>1, <2>2, ParsePlace
<1>3. PICK f : WalksFrom(f, raw, 4 * v)
  <2> HIDE DEF raw
  <2> QED
    BY <1>1, SectionsFromValue, Zenon
<1>4. Offsets(f, raw, 4 * v, len)
  BY <1>3 DEF WalksFrom
<1> DEFINE T == {k \in 0..len : Stops(f, raw, k)}
<1>5. T # {}
  <2> SUFFICES ASSUME T = {} PROVE FALSE
    OBVIOUS
  <2>1. \A j \in 0..len : ~Stops(f, raw, j)
    OBVIOUS
  <2> HIDE DEF T, raw
  <2>2. len \in 0..len /\ \A j \in 0..(len - 1) : j \in 0..len
    BY <1>1
  <2>3. PICK w : Place(capture, w) /\ f[len] = 4 * w /\ w >= len /\ w <= len
    BY <1>2, <1>4, <2>1, <2>2, WalkPlaces DEF raw
  <2>4. f[len] + 12 > 4 * len
    BY <1>1, <2>3 DEF Place
  <2> QED
    BY <2>1, <2>2, <2>4 DEF Stops
<1>6. T \in SUBSET Nat
  BY <1>1
<1> HIDE DEF T
<1>7. PICK K \in T : \A k \in T : K <= k
  BY <1>5, <1>6, LeastNumber
<1>8. K \in 0..len /\ Stops(f, raw, K)
  BY <1>7 DEF T
<1>9. \A j \in 0..(K - 1) : ~Stops(f, raw, j)
  <2>1. \A j \in 0..(K - 1) : j \in 0..len /\ ~(K <= j)
    BY <1>1, <1>8
  <2> QED
    BY <1>7, <2>1 DEF T
<1>10. Sections(raw) = [k \in 1..K |-> ParseSection(raw, f[k - 1])]
  BY <1>2, <1>3, <1>8, <1>9 DEF Sections, WalksFrom
<1>11. ASSUME NEW k \in 1..K PROVE Sections(raw)[k].count \in Nat
  <2>1. k - 1 \in 0..(K - 1) /\ k - 1 \in 0..len /\ \A j \in 0..((k - 1) - 1) : j \in 0..(K - 1)
    BY <1>1, <1>8
  <2>2. PICK w : Place(capture, w) /\ f[k - 1] = 4 * w
    BY <1>2, <1>4, <1>9, <2>1, WalkPlaces
  <2>3. ParseSection(raw, 4 * w) # NoSection
    BY <1>9, <2>1, <2>2 DEF Stops
  <2>4. ParseSection(raw, 4 * w).count \in Nat
    BY <2>2, <2>3, ParsePlace
  <2> QED
    BY <1>10, <2>2, <2>4
<1>12. ASSUME NEW n \in 1..Count(rig), Sound(capture, n)
       PROVE  \A k \in 0..(n - 1) : k \in 0..len /\ f[k] = 4 * Start(rig, k + 2)
  <2>1. 1 \in 1..n
    BY <1>0
  <2>2. Sound(capture, 1)
    BY <1>12, <2>1, SoundBefore
  <2>3. ParseSection(raw, 36).end = 4 * Start(rig, 2)
    BY <2>2, TableRead DEF Parsed
  <2>4. Offsets(f, raw, 4 * Start(rig, 2), len)
    BY <1>2, <1>4, <2>3
  <2> QED
    BY <1>12, <2>4, WalkOffsets
<1>13. ASSUME NEW n \in 1..Count(rig), Sound(capture, n), NEW k \in 1..(n - 1), k <= K
       PROVE  Sections(raw)[k] = Parsed(rig, k + 1)
  <2>1. k - 1 \in 0..(n - 1) /\ (k - 1) + 2 = k + 1 /\ k + 1 \in 1..n /\ k \in 1..K
    BY <1>0, <1>8, <1>13
  <2>2. f[k - 1] = 4 * Start(rig, k + 1)
    BY <1>12, <1>13, <2>1
  <2>3. k + 1 \in 1..Count(rig) /\ Sound(capture, k + 1)
    BY <1>13, <2>1, SoundBefore
  <2>4. ParseSection(raw, 4 * Start(rig, k + 1)) = Parsed(rig, k + 1)
    BY <2>3, ParseSound
  <2> QED
    BY <1>10, <2>1, <2>2, <2>4
<1>14. ASSUME NEW n \in 1..Count(rig), Sound(capture, n), NEW k \in 1..(n - 1), ~(k <= K)
       PROVE  SettingsOf(rig, k + 1) = <<>>
  <2>1. /\ K \in 0..(n - 1) /\ K + 2 \in 1..n /\ K + 2 \in 1..(k + 1) /\ k + 1 \in 1..n
        /\ k + 1 \in 1..Count(rig) /\ k + 1 \in 1..(Count(rig) + 1)
    BY <1>0, <1>8, <1>14
  <2>2. f[K] = 4 * Start(rig, K + 2)
    BY <1>12, <1>14, <2>1
  <2>3. K + 2 \in 1..Count(rig) /\ Sound(capture, K + 2)
    BY <1>14, <2>1, SoundBefore
  <2>4. ParseSection(raw, f[K]) # NoSection
    BY <2>2, <2>3, ParseSound
  <2>5. 4 * Start(rig, K + 2) + 12 > 4 * len
    BY <1>8, <2>2, <2>4 DEF Stops
  <2>6. Start(rig, K + 2) <= Start(rig, k + 1)
    BY <1>0, <2>1, StartGrows
  <2>7. /\ Start(rig, (k + 1) + 1) = Start(rig, k + 1) + 1 + 2 * Len(SettingsOf(rig, k + 1))
        /\ Start(rig, k + 1) \in Nat /\ Len(SettingsOf(rig, k + 1)) \in Nat
        /\ Start(rig, K + 2) \in Nat
    BY <1>0, <2>1, <2>3, PackedNumbers
  <2>8. Start(rig, (k + 1) + 1) <= Good(capture) /\ Good(capture) \in Int /\ Good(capture) <= len
    <3>1. Sound(capture, k + 1)
      BY <1>14, <2>1, SoundBefore
    <3> QED
      BY <3>1, DumpWords DEF Sound
  <2>9. Len(SettingsOf(rig, k + 1)) = 0
    <3> DEFINE a == Start(rig, K + 2)
               b == Start(rig, k + 1)
               c == Start(rig, (k + 1) + 1)
               l == Len(SettingsOf(rig, k + 1))
               g == Good(capture)
    <3>1. a \in Nat /\ b \in Nat /\ l \in Nat /\ len \in Nat /\ g \in Int
      BY <1>1, <2>7, <2>8
    <3>2. 4 * a + 12 > 4 * len /\ a <= b /\ c = b + 1 + 2 * l /\ c <= g /\ g <= len
      BY <2>5, <2>6, <2>7, <2>8
    <3> HIDE DEF a, b, c, l, g, len
    <3>3. l = 0
      BY ONLY <3>1, <3>2
    <3> QED
      BY <3>3 DEF l
  <2>10. SettingsOf(rig, k + 1) \in Seq(KeySettings)
    BY <1>0, <2>1, SectionTypes
  <2> QED
    BY <2>9, <2>10
<1>15. ASSUME Intact(capture) PROVE K <= Count(rig) - 1
  <2> DEFINE c == Count(rig) - 1
  <2>1. /\ c + 1 \in 1..Count(rig) /\ c \in 0..((c + 1) - 1) /\ c + 2 = Count(rig) + 1
        /\ c + 1 = Count(rig) /\ c \in Nat
    BY <1>0, CountPositive
  <2>2. Start(rig, Count(rig) + 1) = Len(Packed(rig)) /\ len = Len(Packed(rig)) /\ Good(capture) = len
    BY <1>0, <1>15, PackedLayout, DumpWords
  <2>3. Sound(capture, c + 1)
    BY <1>1, <2>1, <2>2 DEF Sound
  <2>4. c \in 0..len /\ f[c] = 4 * Start(rig, c + 2)
    BY <1>12, <2>1, <2>3
  <2>5. f[c] + 12 > 4 * len
    <3>1. c + 2 = Count(rig) + 1
      BY <2>1
    <3> HIDE DEF c
    <3>2. f[c] = 4 * len
      BY <2>2, <2>4, <3>1
    <3> HIDE DEF len
    <3> QED
      BY <1>1, <3>2
  <2>6. c \in T
    BY <2>4, <2>5 DEF T, Stops
  <2> QED
    BY <1>7, <2>6
<1>16. K \in Nat /\ DOMAIN Sections(raw) = 1..K
  BY <1>1, <1>8, <1>10
<1> QED
  BY <1>11, <1>13, <1>14, <1>15, <1>16 DEF WalkHas

-----------------------------------------------------------------------------
(* What the table of contents and a module say.                            *)

\* A key that is there once is found.
LEMMA FoundOnce ==
    ASSUME NEW S, NEW settings \in Seq(S), NEW key,
           NEW p \in 1..Len(settings),
           \A q \in 1..Len(settings) : (settings[q].key = key) <=> (q = p)
    PROVE  /\ TableEntry(settings, key) = settings[p].value
           /\ Find(settings, key) = <<settings[p].value>>
<1> DEFINE I == {i \in 1..Len(settings) : settings[i].key = key}
<1>1. I = {p} /\ p \in Nat /\ p # 0
  OBVIOUS
<1>2. Max(I) = p /\ Min(I) = p
  BY <1>1 DEF Max, Min
<1>3. TableEntry(settings, key) = IF (IF I # {} THEN Max(I) ELSE 0) = 0 THEN 0
                                  ELSE settings[IF I # {} THEN Max(I) ELSE 0].value
  BY DEF TableEntry, SelectLastInSeq
<1>4. Find(settings, key) = IF (IF I # {} THEN Min(I) ELSE 0) = 0 THEN <<>>
                            ELSE <<settings[IF I # {} THEN Min(I) ELSE 0].value>>
  BY DEF Find, SelectInSeq
<1> HIDE DEF I
<1>5. I # {}
  BY <1>1
<1> QED
  BY <1>1, <1>2, <1>3, <1>4, <1>5

\* A key that is not there is not found.
LEMMA FoundNever ==
    ASSUME NEW S, NEW settings \in Seq(S), NEW key,
           \A q \in 1..Len(settings) : settings[q].key # key
    PROVE  Find(settings, key) = <<>>
<1> DEFINE I == {i \in 1..Len(settings) : settings[i].key = key}
<1>1. I = {}
  OBVIOUS
<1>2. Find(settings, key) = IF (IF I # {} THEN Min(I) ELSE 0) = 0 THEN <<>>
                            ELSE <<settings[IF I # {} THEN Min(I) ELSE 0].value>>
  BY DEF Find, SelectInSeq
<1> QED
  BY <1>1, <1>2

\* The keys of the module table tell slots apart.
LEMMA EntryKeys ==
    ASSUME NEW a \in SlotIds, NEW b \in SlotIds
    PROVE  /\ EffectKey[a] = EffectKey[b] => a = b
           /\ CategoryKey[a] = CategoryKey[b] => a = b
           /\ EffectKey[a] # CategoryKey[b]
<1>1. /\ EffectKey["C"] = "WorC" /\ EffectKey["D"] = "WorD" /\ EffectKey["E"] = "WorE"
      /\ EffectKey["F"] = "WorF" /\ EffectKey["G"] = "WorG" /\ EffectKey["H"] = "WorH"
      /\ EffectKey["I"] = "WorI" /\ EffectKey["J"] = "WorJ" /\ EffectKey["K"] = "WorK"
      /\ EffectKey["L"] = "WorL"
  BY DEF EffectKey
<1>2. /\ CategoryKey["C"] = "WstC" /\ CategoryKey["D"] = "WstD" /\ CategoryKey["E"] = "WstE"
      /\ CategoryKey["F"] = "WstF" /\ CategoryKey["G"] = "WstG" /\ CategoryKey["H"] = "WstH"
      /\ CategoryKey["I"] = "WstI" /\ CategoryKey["J"] = "WstJ" /\ CategoryKey["K"] = "WstK"
      /\ CategoryKey["L"] = "WstL"
  BY DEF CategoryKey
<1>3. EffectKey[a] = EffectKey[b] => a = b
  BY <1>1, SMTT(60) DEF SlotIds
<1>4. CategoryKey[a] = CategoryKey[b] => a = b
  BY <1>2, SMTT(60) DEF SlotIds
<1>5. EffectKey[a] # CategoryKey[b]
  BY <1>1, <1>2, SMTT(60) DEF SlotIds
<1> QED
  BY <1>3, <1>4, <1>5

\* The two entries of a slot.
LEMMA EntryForm ==
    ASSUME NEW module
    PROVE  /\ module.id \notin SlotIds => Len(TableEntries(module)) = 0
           /\ module.id \in SlotIds =>
                /\ Len(TableEntries(module)) = 2
                /\ TableEntries(module)[1].key = EffectKey[module.id]
                /\ TableEntries(module)[2].key = CategoryKey[module.id]
                /\ TableEntries(module)[1].value = module.effect
                /\ TableEntries(module)[2].value = module.category
<1>1. CASE module.id \notin SlotIds
  BY <1>1 DEF TableEntries
<1>2. CASE module.id \in SlotIds
  BY <1>2 DEF TableEntries, Setting
<1> QED
  BY <1>1, <1>2

\* The keys of an entry tell its place.
LEMMA EntryPlace ==
    ASSUME NEW rig, IsRig(rig),
           NEW i \in 1..Len(rig.modules), rig.modules[i].id \in SlotIds,
           NEW k \in 1..Len(rig.modules),
           NEW a \in 1..Len(TableEntries(rig.modules[i])),
           NEW b \in 1..Len(TableEntries(rig.modules[k])),
           TableEntries(rig.modules[i])[a].key = TableEntries(rig.modules[k])[b].key
    PROVE  i = k /\ a = b
<1>1. rig.modules[k].id \in SlotIds
  <2>1. CASE rig.modules[k].id \notin SlotIds
    <3>1. Len(TableEntries(rig.modules[k])) = 0
      BY <2>1, EntryForm
    <3> QED
      BY <3>1
  <2> QED
    BY <2>1
<1> DEFINE m == rig.modules[i]
           o == rig.modules[k]
           s == TableEntries(m)
           t == TableEntries(o)
<1>2. /\ Len(s) = 2 /\ s[1].key = EffectKey[m.id] /\ s[2].key = CategoryKey[m.id]
      /\ Len(t) = 2 /\ t[1].key = EffectKey[o.id] /\ t[2].key = CategoryKey[o.id]
  BY <1>1, EntryForm
<1>3. m.id \in SlotIds /\ o.id \in SlotIds
  BY <1>1
<1>4. m.id = o.id => i = k
  <2>1. DOMAIN rig.modules = 1..Len(rig.modules)
    BY RigFields
  <2> QED
    BY <1>3, <2>1 DEF IsRig
<1>5. a \in {1, 2} /\ b \in {1, 2}
  BY <1>2
<1>6. s[a].key = t[b].key
  OBVIOUS
<1> HIDE DEF s, t, m, o
<1>7. a = b /\ m.id = o.id
  <2>1. CASE a = 1 /\ b = 1
    BY <1>2, <1>3, <1>6, <2>1, EntryKeys
  <2>2. CASE a = 1 /\ b = 2
    BY <1>2, <1>3, <1>6, <2>2, EntryKeys
  <2>3. CASE a = 2 /\ b = 1
    BY <1>2, <1>3, <1>6, <2>3, EntryKeys
  <2>4. CASE a = 2 /\ b = 2
    BY <1>2, <1>3, <1>6, <2>4, EntryKeys
  <2> QED
    BY <1>5, <2>1, <2>2, <2>3, <2>4
<1> QED
  BY <1>4, <1>7

\* The entries of a slot are found in the table of contents.
LEMMA EntryFound ==
    ASSUME NEW rig, IsRig(rig),
           NEW i \in 1..Len(rig.modules), rig.modules[i].id \in SlotIds,
           NEW a \in 1..Len(TableEntries(rig.modules[i]))
    PROVE  TableEntry(SettingsOf(rig, 1), TableEntries(rig.modules[i])[a].key)
             = TableEntries(rig.modules[i])[a].value
<1> DEFINE seqs == Entries(rig)
           table == TableOf(rig)
           g == rig.globals
           all == g \o table
           entry == TableEntries(rig.modules[i])[a]
           p == Before(seqs, i - 1) + a
<1>1. /\ seqs \in Seq(Seq(KeySettings)) /\ Len(seqs) = Len(rig.modules)
      /\ \A k \in 1..Len(rig.modules) : seqs[k] = TableEntries(rig.modules[k])
      /\ table = FlattenSeq(seqs) /\ table \in Seq(KeySettings)
  BY TableType
<1>2. g \in Seq(KeySettings)
  BY RigFields
<1>3. SettingsOf(rig, 1) = all
  BY DEF SettingsOf
<1> HIDE DEF seqs, table
<1>4. p \in 1..Len(table) /\ table[p] = entry
  BY <1>1, FlattenAt
<1>5. ASSUME NEW q \in 1..Len(table), table[q].key = entry.key PROVE q = p
  <2>1. PICK k \in 1..Len(seqs) : \E b \in 1..Len(seqs[k]) :
           q = Before(seqs, k - 1) + b /\ table[q] = seqs[k][b]
    BY <1>1, FlattenFrom
  <2>2. PICK b \in 1..Len(seqs[k]) : q = Before(seqs, k - 1) + b /\ table[q] = seqs[k][b]
    BY <2>1
  <2>3. k \in 1..Len(rig.modules) /\ b \in 1..Len(TableEntries(rig.modules[k]))
        /\ table[q] = TableEntries(rig.modules[k])[b]
    BY <1>1, <2>2
  <2>4. TableEntries(rig.modules[i])[a].key = TableEntries(rig.modules[k])[b].key
    BY <1>5, <2>3
  <2>5. i = k /\ a = b
    BY <2>3, <2>4, EntryPlace
  <2> QED
    BY <2>2, <2>5
<1>6. entry.key \in SlotTableKeys
  <2>1. a \in {1, 2} /\ (entry.key = EffectKey[rig.modules[i].id] \/ entry.key = CategoryKey[rig.modules[i].id])
    <3>1. Len(TableEntries(rig.modules[i])) = 2
      BY EntryForm
    <3>2. a = 1 \/ a = 2
      BY <3>1
    <3> QED
      BY <3>2, EntryForm
  <2> QED
    BY <2>1, KeysAreStrings
<1>7. \A q \in 1..Len(g) : g[q].key # entry.key
  <2>1. DOMAIN g = 1..Len(g)
    BY <1>2
  <2> QED
    BY <1>6, <2>1 DEF IsRig
<1>8. PICK m \in Nat, n \in Nat : m = Len(g) /\ n = Len(table)
  BY <1>1, <1>2
<1>9. /\ all \in Seq(KeySettings) /\ Len(all) = m + n
      /\ \A q \in 1..(m + n) : all[q] = IF q <= m THEN g[q] ELSE table[q - m]
  BY <1>1, <1>2, <1>8, ConcatProperties
<1> HIDE DEF all, p, g, entry
<1>10. m + p \in 1..Len(all) /\ all[m + p] = entry
  <2>1. m + p \in 1..(m + n) /\ ~(m + p <= m) /\ (m + p) - m = p
    BY <1>4, <1>8
  <2> QED
    BY <1>4, <1>9, <2>1
<1>11. ASSUME NEW q \in 1..Len(all) PROVE (all[q].key = entry.key) <=> (q = m + p)
  <2>1. q \in 1..(m + n)
    BY <1>9
  <2>2. CASE q <= m
    <3>1. q \in 1..Len(g) /\ all[q] = g[q] /\ q # m + p
      BY <1>4, <1>8, <1>9, <2>1, <2>2
    <3> QED
      BY <1>7, <3>1
  <2>3. CASE ~(q <= m)
    <3>1. q - m \in 1..Len(table) /\ all[q] = table[q - m]
      BY <1>8, <1>9, <2>1, <2>3
    <3>2. (q - m = p) <=> (q = m + p)
      BY <1>4, <1>8
    <3> QED
      BY <1>4, <1>5, <3>1, <3>2
  <2> QED
    BY <2>2, <2>3
<1>12. TableEntry(all, entry.key) = all[m + p].value
  BY <1>9, <1>10, <1>11, FoundOnce
<1> QED
  BY <1>3, <1>10, <1>12 DEF entry

\* A slot has the effect and category that the device stored for it.
LEMMA TableFound ==
    ASSUME NEW rig, IsRig(rig),
           NEW i \in 1..Len(rig.modules), rig.modules[i].id \in SlotIds
    PROVE  /\ TableEntry(SettingsOf(rig, 1), EffectKey[rig.modules[i].id]) = rig.modules[i].effect
           /\ TableEntry(SettingsOf(rig, 1), CategoryKey[rig.modules[i].id]) = rig.modules[i].category
<1>1. Len(TableEntries(rig.modules[i])) = 2
  BY EntryForm
<1>2. 1 \in 1..Len(TableEntries(rig.modules[i])) /\ 2 \in 1..Len(TableEntries(rig.modules[i]))
  BY <1>1
<1> QED
  BY <1>2, EntryFound, EntryForm

\* Whether a module is on, as it says itself.
LEMMA EnabledFound ==
    ASSUME NEW rig, IsRig(rig),
           NEW i \in 1..Len(rig.modules), rig.modules[i].id \in SlotIds
    PROVE  Enabled(rig.modules[i].effect, ModuleSettings(rig.modules[i]))
             = IF rig.modules[i].state = "none" THEN <<>> ELSE <<rig.modules[i].state = "on">>
<1> DEFINE m == rig.modules[i]
           s == m.settings
           key == BypassKey(m)
           all == ModuleSettings(m)
<1>1. m \in RigModules
  BY RigFields
<1>2. s \in Seq(RigSettings) /\ m.state \in {"none", "on", "off"}
  BY <1>1 DEF RigModules
<1>3. all \in Seq(KeySettings)
  BY <1>1, ModuleSettingsType
<1>4. \A j \in 1..Len(s) : s[j].key # "bypa" /\ s[j].key # key
  <2>1. DOMAIN rig.modules = 1..Len(rig.modules) /\ DOMAIN s = 1..Len(s)
    BY <1>2, RigFields
  <2> QED
    BY <2>1 DEF IsRig
<1>5. key = IF m.effect = 12 THEN "sld5" ELSE "bypa"
  BY DEF BypassKey
<1>6. CASE m.state = "none"
  <2>1. all = s
    BY <1>2, <1>6 DEF ModuleSettings
  <2>2. Find(all, "bypa") = <<>> /\ Find(all, key) = <<>>
    BY <1>2, <1>4, <2>1, FoundNever
  <2>3. Find(all, "bypa") = <<>> /\ (m.effect = 12 => Find(all, "sld5") = <<>>)
    BY <1>5, <2>2
  <2> HIDE DEF all, m
  <2>4. Enabled(m.effect, all) = <<>>
    BY <2>3 DEF Enabled
  <2> QED
    BY <1>6, <2>4 DEF all, m
<1>7. CASE m.state # "none"
  <2> DEFINE v == IF m.state = "on" THEN 0 ELSE 1
             last == <<Setting(key, v)>>
  <2>1. all = s \o last
    BY <1>7 DEF ModuleSettings
  <2>2. PICK n \in Nat : n = Len(s)
    BY <1>2
  <2>3. last \in Seq({Setting(key, v)}) /\ Len(last) = 1 /\ last[1] = Setting(key, v)
    OBVIOUS
  <2>4. Setting(key, v).key = key /\ Setting(key, v).value = v
    BY DEF Setting
  <2> HIDE DEF last, all
  <2>5. Len(all) = n + 1 /\ \A q \in 1..(n + 1) : all[q] = IF q <= n THEN s[q] ELSE last[q - n]
    <3>1. s \in Seq(RigSettings \cup {Setting(key, v)}) /\ last \in Seq(RigSettings \cup {Setting(key, v)})
      BY <1>2, <2>3, SeqMonotonic
    <3> HIDE DEF s, key, v
    <3>2. /\ Len(s \o last) = Len(s) + Len(last)
          /\ \A q \in 1..(Len(s) + Len(last)) : (s \o last)[q] = IF q <= Len(s) THEN s[q] ELSE last[q - Len(s)]
      BY <3>1, ConcatProperties
    <3> QED
      BY <2>1, <2>2, <2>3, <3>2
  <2>6. n + 1 \in 1..Len(all) /\ all[n + 1] = Setting(key, v)
    <3>1. n + 1 \in 1..(n + 1) /\ ~(n + 1 <= n) /\ (n + 1) - n = 1
      OBVIOUS
    <3>2. all[n + 1] = last[1]
      BY <2>5, <3>1
    <3>3. n + 1 \in 1..Len(all)
      BY <2>5
    <3> QED
      BY <2>3, <3>2, <3>3
  <2>7. \A q \in 1..Len(all) : q # n + 1 => q \in 1..Len(s) /\ all[q] = s[q]
    BY <2>2, <2>5
  <2>8. Find(all, key) = <<v>>
    <3>1. \A q \in 1..Len(all) : (all[q].key = key) <=> (q = n + 1)
      BY <1>4, <2>4, <2>6, <2>7
    <3> HIDE DEF key, v
    <3>2. Find(all, key) = <<all[n + 1].value>>
      BY <1>3, <2>6, <3>1, FoundOnce DEF all
    <3> QED
      BY <2>4, <2>6, <3>2
  <2>9. m.effect = 12 => Find(all, "bypa") = <<>>
    <3>1. ASSUME m.effect = 12 PROVE Find(all, "bypa") = <<>>
      <4>1. key = "sld5" /\ "sld5" # "bypa"
        BY <1>5, <3>1
      <4>2. \A q \in 1..Len(all) : all[q].key # "bypa"
        BY <1>4, <2>4, <2>6, <2>7, <4>1
      <4>3. all \in Seq(KeySettings)
        BY <1>3
      <4> QED
        BY <4>2, <4>3, FoundNever
    <3> QED
      BY <3>1
  <2>10. (v = 0) = (m.state = "on")
    OBVIOUS
  <2>11. Enabled(m.effect, all) = <<v = 0>>
    <3>1. <<v>> # <<>> /\ <<v>>[1] = v
      OBVIOUS
    <3> DEFINE w == <<v>>
    <3>2. w # <<>> /\ w[1] = v /\ Find(all, key) = w
      BY <2>8, <3>1
    <3>3. CASE m.effect = 12
      <4>1. Find(all, "bypa") = <<>> /\ Find(all, "sld5") = w
        BY <1>5, <2>9, <3>2, <3>3
      <4> HIDE DEF v, w, m
      <4> QED
        BY <3>2, <3>3, <4>1 DEF Enabled
    <3>4. CASE m.effect # 12
      <4>1. Find(all, "bypa") = w
        BY <1>5, <3>2, <3>4
      <4> HIDE DEF v, w, m
      <4> QED
        BY <3>2, <3>4, <4>1 DEF Enabled
    <3> QED
      BY <3>3, <3>4
  <2> QED
    BY <1>7, <2>10, <2>11 DEF all
<1> QED
  BY <1>6, <1>7

-----------------------------------------------------------------------------
(* The rows of a capture.                                                  *)

\* What a row has under slot and enabled.
Slots == IdStrings \cup {"Global"}
Ons == {<<>>, <<TRUE>>, <<FALSE>>}

\* Rows of the given rigs.
HeldRows(rigs) ==
    [rig : rigs, slot : Slots, category : Int, effect : Int,
     enabled : Ons, key : KeyStrings, value : Int]

RigRows(rig) == HeldRows({rig})

\* The rows of settings that belong together.
RowsFrom(rig, slot, category, effect, enabled, settings) ==
    [i \in DOMAIN settings |-> Row(rig, slot, category, effect, enabled, settings[i])]

\* They are rows, as many as settings.
LEMMA RowsFromType ==
    ASSUME NEW r, NEW slot \in Slots, NEW category \in Int, NEW effect \in Int,
           NEW enabled \in Ons, NEW settings \in Seq(KeySettings)
    PROVE  /\ RowsFrom(r, slot, category, effect, enabled, settings) \in Seq(RigRows(r))
           /\ Len(RowsFrom(r, slot, category, effect, enabled, settings)) = Len(settings)
<1>1. DOMAIN settings = 1..Len(settings) /\ Len(settings) \in Nat
      /\ \A i \in 1..Len(settings) : settings[i] \in KeySettings
  OBVIOUS
<1>2. ASSUME NEW i \in 1..Len(settings)
      PROVE  Row(r, slot, category, effect, enabled, settings[i]) \in RigRows(r)
  <2>1. settings[i].key \in KeyStrings /\ settings[i].value \in Int
    BY <1>1 DEF KeySettings
  <2> QED
    BY <2>1 DEF Row, HeldRows, RigRows
<1> QED
  BY <1>1, <1>2 DEF RowsFrom

\* The rows of a module, and of all before the modules.
HeldModule(r, module) ==
    RowsFrom(r, module.id, module.category, module.effect,
             IF module.state = "none" THEN <<>> ELSE <<module.state = "on">>,
             IF module.id \in SlotIds THEN ModuleSettings(module) ELSE <<>>)

HeldGlobals(r, rig) == RowsFrom(r, "Global", 16, 0, <<>>, SettingsOf(rig, 1))

HeldModules(r, rig) == [m \in DOMAIN rig.modules |-> HeldModule(r, rig.modules[m])]

\* The model says the same.
LEMMA HeldNames ==
    ASSUME NEW r, NEW rig
    PROVE  /\ HeldInTable(r, rig) = HeldGlobals(r, rig)
           /\ \A module : HeldInModule(r, module) = HeldModule(r, module)
<1>1. HeldInTable(r, rig) = HeldGlobals(r, rig)
  BY DEF HeldInTable, HeldGlobals, RowsFrom, SettingsOf
<1>2. \A module : HeldInModule(r, module) = HeldModule(r, module)
  BY DEF HeldInModule, HeldModule, RowsFrom
<1> QED
  BY <1>1, <1>2

\* The rows of a module are rows of the rig.
LEMMA HeldModuleType ==
    ASSUME NEW r, NEW module \in RigModules
    PROVE  HeldModule(r, module) \in Seq(RigRows(r))
<1> DEFINE on == IF module.state = "none" THEN <<>> ELSE <<module.state = "on">>
           settings == IF module.id \in SlotIds THEN ModuleSettings(module) ELSE <<>>
<1>1. module.id \in Slots /\ module.category \in Int /\ module.effect \in Int
  BY DEF RigModules, IdStrings, Slots
<1>2. on \in Ons
  <2>1. (module.state = "on") \in {TRUE, FALSE}
    OBVIOUS
  <2> QED
    BY <2>1 DEF Ons
<1>3. settings \in Seq(KeySettings)
  BY ModuleSettingsType
<1>4. HeldModule(r, module) = RowsFrom(r, module.id, module.category, module.effect, on, settings)
  BY DEF HeldModule
<1> HIDE DEF on, settings
<1> QED
  BY <1>1, <1>2, <1>3, <1>4, RowsFromType

\* What the device held, in these parts.
LEMMA HeldParts ==
    ASSUME NEW r, NEW rig, IsRig(rig)
    PROVE  /\ HeldGlobals(r, rig) \in Seq(RigRows(r))
           /\ HeldGlobals(r, rig) # <<>>
           /\ HeldModules(r, rig) \in Seq(Seq(RigRows(r)))
           /\ Len(HeldModules(r, rig)) = Len(rig.modules)
           /\ \A m \in 1..Len(rig.modules) : HeldModules(r, rig)[m] = HeldModule(r, rig.modules[m])
           /\ Held(r, rig) = HeldGlobals(r, rig) \o FlattenSeq(HeldModules(r, rig))
<1>1. /\ Len(rig.modules) \in Nat /\ DOMAIN rig.modules = 1..Len(rig.modules)
      /\ \A m \in 1..Len(rig.modules) : HeldModule(r, rig.modules[m]) \in Seq(RigRows(r))
  BY RigFields, HeldModuleType
<1>2. /\ HeldModules(r, rig) \in Seq(Seq(RigRows(r)))
      /\ Len(HeldModules(r, rig)) = Len(rig.modules)
      /\ \A m \in 1..Len(rig.modules) : HeldModules(r, rig)[m] = HeldModule(r, rig.modules[m])
  BY <1>1 DEF HeldModules
<1>3. SettingsOf(rig, 1) = rig.globals \o TableOf(rig) /\ SettingsOf(rig, 1) \in Seq(KeySettings)
  BY CountPositive, SectionTypes DEF SettingsOf
<1>4. Len(SettingsOf(rig, 1)) # 0
  <2>1. rig.globals \in Seq(KeySettings) /\ TableOf(rig) \in Seq(KeySettings) /\ rig.globals # <<>>
    BY RigFields, TableType DEF IsRig
  <2>2. Len(SettingsOf(rig, 1)) = Len(rig.globals) + Len(TableOf(rig))
    BY <1>3, <2>1, ConcatProperties
  <2>3. Len(rig.globals) \in Nat /\ Len(rig.globals) # 0 /\ Len(TableOf(rig)) \in Nat
    BY <2>1
  <2> QED
    BY <2>2, <2>3
<1>5. /\ HeldGlobals(r, rig) \in Seq(RigRows(r))
      /\ Len(HeldGlobals(r, rig)) = Len(SettingsOf(rig, 1))
  <2>1. "Global" \in Slots /\ 16 \in Int /\ 0 \in Int /\ <<>> \in Ons
    BY DEF Slots, Ons
  <2> QED
    BY <1>3, <2>1, RowsFromType DEF HeldGlobals
<1>6. HeldGlobals(r, rig) # <<>>
  <2>1. Len(<<>>) = 0
    OBVIOUS
  <2> QED
    BY <1>4, <1>5, <2>1
<1>7. Held(r, rig) = HeldGlobals(r, rig) \o FlattenSeq(HeldModules(r, rig))
  <2> DEFINE n == Len(SectionsOf(rig))
  <2>1. n = Count(rig) /\ n # 0 /\ n - 1 = Len(rig.modules) /\ DOMAIN rig.modules = 1..(n - 1)
    BY <1>1, SectionLengths, CountPositive
  <2> HIDE DEF n
  <2>2. [m \in 1..n - 1 |-> HeldInModule(r, rig.modules[m])] = HeldModules(r, rig)
    BY <2>1, HeldNames DEF HeldModules
  <2>3. HeldIn(r, rig, n)
          = HeldInTable(r, rig) \o FlattenSeq([m \in 1..n - 1 |-> HeldInModule(r, rig.modules[m])])
    BY <2>1 DEF HeldIn
  <2>4. Held(r, rig) = HeldIn(r, rig, n)
    BY DEF Held, n
  <2> QED
    BY <2>2, <2>3, <2>4, HeldNames
<1> QED
  BY <1>2, <1>5, <1>6, <1>7

\* What one section gives that came through whole.
LEMMA SectionRows ==
    ASSUME NEW capture, Real(capture), Sound(capture, 1),
           NEW r, NEW k \in 1..Len(capture.rig.modules),
           k + 1 \in 1..Count(capture.rig), Sound(capture, k + 1)
    PROVE  RowsOfSection(r, Dump(capture), Parsed(capture.rig, k + 1))
             = HeldModule(r, capture.rig.modules[k])
<1> DEFINE raw == Dump(capture)
           section == Parsed(capture.rig, k + 1)
           module == capture.rig.modules[k]
<1>0. k \in Nat /\ k + 1 # 1 /\ (k + 1) - 1 = k
  OBVIOUS
<1>1. section.id = module.id
  BY <1>0 DEF Parsed, IdOf
<1>2. SettingsOf(capture.rig, k + 1) = ModuleSettings(module)
  BY <1>0 DEF SettingsOf
<1>3. Settings(raw, section) = ModuleSettings(module)
  BY <1>2, SettingsRead
<1>4. TableOfContents(raw) = SettingsOf(capture.rig, 1)
  BY TableRead
<1>5. CASE module.id \notin SlotIds
  <2>1. RowsOfSection(r, raw, section) = <<>>
    BY <1>1, <1>5 DEF RowsOfSection
  <2>2. HeldModule(r, module) = <<>>
    BY <1>5 DEF HeldModule, RowsFrom
  <2> QED
    BY <2>1, <2>2
<1>6. CASE module.id \in SlotIds
  <2>1. /\ TableEntry(TableOfContents(raw), EffectKey[section.id]) = module.effect
        /\ TableEntry(TableOfContents(raw), CategoryKey[section.id]) = module.category
    BY <1>1, <1>4, <1>6, TableFound DEF Real
  <2>2. Enabled(module.effect, ModuleSettings(module))
          = IF module.state = "none" THEN <<>> ELSE <<module.state = "on">>
    BY <1>6, EnabledFound DEF Real
  <2>3. HeldModule(r, module)
          = [i \in DOMAIN ModuleSettings(module) |->
               Row(r, module.id, module.category, module.effect,
                   Enabled(module.effect, ModuleSettings(module)), ModuleSettings(module)[i])]
    BY <1>6, <2>2 DEF HeldModule, RowsFrom
  <2> HIDE DEF raw, section, module
  <2>4. RowsOfSection(r, raw, section)
          = [i \in DOMAIN ModuleSettings(module) |->
               Row(r, module.id, module.category, module.effect,
                   Enabled(module.effect, ModuleSettings(module)), ModuleSettings(module)[i])]
    BY <1>1, <1>3, <1>6, <2>1 DEF RowsOfSection
  <2> QED
    BY <2>3, <2>4 DEF raw, section, module
<1> QED
  BY <1>5, <1>6

\* The parts of a rig's rows: the table's, and what the walk has of each section.
TableRows(r, raw) ==
    [i \in DOMAIN TableOfContents(raw) |-> Row(r, "Global", 16, 0, <<>>, TableOfContents(raw)[i])]

WalkRows(r, raw) == [k \in DOMAIN Sections(raw) |-> RowsOfSection(r, raw, Sections(raw)[k])]

\* They are rows of the rig, whatever is read.
LEMMA WalkRowsType ==
    ASSUME NEW capture, Real(capture), HasTable(Dump(capture)), NEW K, WalkHas(capture, K), NEW r
    PROVE  \E S : /\ TableRows(r, Dump(capture)) \in Seq(S)
                  /\ WalkRows(r, Dump(capture)) \in Seq(Seq(S))
                  /\ \A row \in S : row.rig = r
<1> DEFINE raw == Dump(capture)
           table == TableOfContents(raw)
           T == TableRows(r, raw)
           W == WalkRows(r, raw)
           A == {T[i] : i \in DOMAIN T}
           B(k) == {W[k][i] : i \in DOMAIN W[k]}
           S == A \cup UNION {B(k) : k \in 1..K}
<1>1. \E n \in Nat : DOMAIN T = 1..n /\ T = [i \in 1..n |-> T[i]] /\ \A i \in 1..n : T[i].rig = r
  <2>1. ParseSection(raw, 36).count \in Nat
    <3>1. 1 \in 1..Count(capture.rig) /\ Start(capture.rig, 1) = 9
      BY CountPositive, PackedLayout DEF Real
    <3>2. Place(capture, 9) /\ 4 * 9 = 36
      BY <3>1 DEF Place
    <3>3. ParseSection(raw, 36) # NoSection
      BY DEF HasTable, NoSection
    <3> QED
      BY <3>2, <3>3, ParsePlace
  <2> DEFINE n == ParseSection(raw, 36).count
  <2>2. DOMAIN table = 1..n
    BY DEF TableOfContents, Settings
  <2> HIDE DEF n, table, raw
  <2>3. T = [i \in 1..n |-> Row(r, "Global", 16, 0, <<>>, table[i])]
    BY <2>2 DEF TableRows, table
  <2>4. \A i \in 1..n : T[i].rig = r
    BY <2>3 DEF Row
  <2> HIDE DEF T
  <2> QED
    BY <2>1, <2>3, <2>4 DEF n, raw
<1>2. DOMAIN W = 1..K /\ K \in Nat /\ W = [k \in 1..K |-> W[k]]
  BY DEF WalkHas, WalkRows
<1>3. ASSUME NEW k \in 1..K
      PROVE  \E n \in Nat : DOMAIN W[k] = 1..n /\ W[k] = [i \in 1..n |-> W[k][i]]
                               /\ \A i \in 1..n : W[k][i].rig = r
  <2> DEFINE section == Sections(raw)[k]
             settings == Settings(raw, section)
             effect == TableEntry(table, EffectKey[section.id])
             category == TableEntry(table, CategoryKey[section.id])
             on == Enabled(effect, settings)
             n == section.count
             w == RowsOfSection(r, raw, section)
  <2>1. W[k] = w
    BY <1>2, <1>3 DEF WalkRows
  <2>2. n \in Nat
    BY DEF WalkHas
  <2>3. CASE section.id \notin SlotIds
    <3>1. w = <<>>
      BY <2>3 DEF RowsOfSection
    <3>2. DOMAIN w = 1..0 /\ w = [i \in 1..0 |-> w[i]]
      BY <3>1
    <3> HIDE DEF w
    <3>3. \A i \in 1..0 : w[i].rig = r
      OBVIOUS
    <3> DEFINE none == 0
    <3>4. none \in Nat /\ DOMAIN w = 1..none /\ w = [i \in 1..none |-> w[i]]
          /\ \A i \in 1..none : w[i].rig = r
      BY <3>2, <3>3
    <3> HIDE DEF none
    <3> QED
      BY <2>1, <3>4
  <2>4. CASE section.id \in SlotIds
    <3>1. DOMAIN settings = 1..n
      BY DEF Settings
    <3>2. w = [i \in DOMAIN settings |-> Row(r, section.id, category, effect, on, settings[i])]
      <4> HIDE DEF section, raw
      <4> QED
        BY <2>4 DEF RowsOfSection
    <3> HIDE DEF w, settings, on, category, effect, section, n
    <3>3. DOMAIN w = 1..n /\ w = [i \in 1..n |-> w[i]] /\ \A i \in 1..n : w[i].rig = r
      BY <3>1, <3>2 DEF Row
    <3> QED
      BY <2>1, <2>2, <3>3
  <2> QED
    BY <2>3, <2>4
<1> HIDE DEF T, W
<1>4. T \in Seq(S)
  <2>1. PICK n \in Nat : DOMAIN T = 1..n /\ T = [i \in 1..n |-> T[i]]
    BY <1>1
  <2>2. \A i \in 1..n : T[i] \in S
    BY <2>1
  <2> HIDE DEF S
  <2> QED
    BY <2>1, <2>2
<1>5. W \in Seq(Seq(S))
  <2>1. ASSUME NEW k \in 1..K PROVE W[k] \in Seq(S)
    <3>1. PICK n \in Nat : DOMAIN W[k] = 1..n /\ W[k] = [i \in 1..n |-> W[k][i]]
      BY <1>3
    <3>2. \A i \in 1..n : W[k][i] \in S
      BY <3>1
    <3> HIDE DEF S
    <3> QED
      BY <3>1, <3>2
  <2> HIDE DEF S
  <2> QED
    BY <1>2, <2>1
<1>6. ASSUME NEW row \in S PROVE row.rig = r
  <2>1. CASE row \in A
    BY <1>1, <2>1
  <2>2. CASE \E k \in 1..K : row \in B(k)
    <3>1. PICK k \in 1..K : row \in B(k)
      BY <2>2
    <3>2. \A i \in DOMAIN W[k] : W[k][i].rig = r
      BY <1>3
    <3> QED
      BY <3>1, <3>2
  <2> QED
    BY <2>1, <2>2
<1> HIDE DEF S
<1> QED
  BY <1>4, <1>5, <1>6 DEF T, W

\* A sequence is a prefix of what it is continued to.
LEMMA PrefixOfConcat ==
    ASSUME NEW S, NEW s \in Seq(S), NEW t \in Seq(S)
    PROVE  IsPrefix(s, s \o t)
<1>1. Len(s \o t) = Len(s) + Len(t)
  BY ConcatProperties
<1>2. Len(s) \in Nat /\ Len(t) \in Nat
  OBVIOUS
<1>3. SubSeq(s, 1, Len(s)) = s
  BY SubSeqFull
<1>4. SubSeq(s \o t, 1, Len(s)) = s
  BY SubSeqOfConcat1, <1>2, <1>3
<1> QED
  BY <1>1, <1>2, <1>3, <1>4 DEF IsPrefix

\* A function on 1..c is a sequence of c values.
LEMMA SequenceOf == ASSUME NEW Q, NEW c \in Nat, NEW f \in [1..c -> Q] PROVE f \in Seq(Q) /\ Len(f) = c
OBVIOUS

\* What the device held in the modules of the first n sections.
HeldBefore(r, rig, n) == FlattenSeq([m \in 1..n - 1 |-> HeldInModule(r, rig.modules[m])])

\* A sequence over S begins with another one.
Continues(whole, front, S) == front \in Seq(S) /\ \E rest \in Seq(S) : whole = front \o rest

\* What the sound sections have is what the device held in them, and comes first.
LEMMA WalkRowsHold ==
    ASSUME NEW capture, Real(capture), HasTable(Dump(capture)), NEW K, WalkHas(capture, K), NEW r,
           NEW n \in 1..Count(capture.rig), Sound(capture, n),
           NEW S, WalkRows(r, Dump(capture)) \in Seq(Seq(S))
    PROVE  /\ Continues(FlattenSeq(WalkRows(r, Dump(capture))), HeldBefore(r, capture.rig, n), S)
           /\ K <= n - 1 => FlattenSeq(WalkRows(r, Dump(capture))) = HeldBefore(r, capture.rig, n)
<1> DEFINE raw == Dump(capture)
           rig == capture.rig
           W == WalkRows(r, raw)
           H == [m \in 1..n - 1 |-> HeldInModule(r, rig.modules[m])]
           M == IF K <= n - 1 THEN K ELSE n - 1
<1>0. /\ K \in Nat /\ DOMAIN W = 1..K /\ Len(W) = K
      /\ \A k \in 1..K : W[k] = RowsOfSection(r, raw, Sections(raw)[k])
  <2>1. K \in Nat /\ DOMAIN Sections(raw) = 1..K
    BY DEF WalkHas
  <2> QED
    BY <2>1 DEF WalkRows
<1>1. n - 1 \in Nat /\ Len(rig.modules) = Count(rig) - 1 /\ Count(rig) \in Nat
  BY CountPositive, SectionTypes DEF Real
<1>2. M \in 0..K /\ M \in 0..(n - 1)
  BY <1>0, <1>1
<1>3. ASSUME NEW k \in 1..(n - 1)
      PROVE  IF k <= K THEN H[k] = W[k] ELSE H[k] = <<>>
  <2>1. /\ k \in 1..Len(rig.modules) /\ k + 1 \in 1..n /\ 1 \in 1..n
        /\ k + 1 # 1 /\ (k + 1) - 1 = k
    BY <1>1
  <2>2. k + 1 \in 1..Count(rig) /\ Sound(capture, k + 1) /\ Sound(capture, 1)
    BY <2>1, SoundBefore
  <2>3. H[k] = HeldModule(r, rig.modules[k])
    BY HeldNames
  <2>4. CASE k <= K
    <3>1. Sections(raw)[k] = Parsed(rig, k + 1)
      BY <2>4 DEF WalkHas
    <3>2. RowsOfSection(r, raw, Parsed(rig, k + 1)) = HeldModule(r, rig.modules[k])
      BY <2>1, <2>2, SectionRows
    <3>3. k \in 1..K
      BY <1>0, <1>1, <2>4
    <3> HIDE DEF W, H, raw
    <3> QED
      BY <1>0, <2>3, <2>4, <3>1, <3>2, <3>3
  <2>5. CASE ~(k <= K)
    <3>1. SettingsOf(rig, k + 1) = <<>>
      BY <2>5 DEF WalkHas
    <3> DEFINE module == rig.modules[k]
    <3>2. ModuleSettings(module) = <<>>
      BY <2>1, <3>1 DEF SettingsOf
    <3> HIDE DEF module
    <3>3. HeldModule(r, module) = <<>>
      BY <3>2 DEF HeldModule, RowsFrom
    <3> QED
      BY <2>3, <2>5, <3>3 DEF module
  <2> QED
    BY <2>4, <2>5
<1>4. DOMAIN H = 1..(n - 1) /\ H = [k \in 1..(n - 1) |-> H[k]]
  OBVIOUS
<1>5. W \in Seq(Seq(S))
  OBVIOUS
<1> HIDE DEF W, H, raw, rig
<1>6. \A k \in 1..(n - 1) : H[k] \in Seq(S)
  <2>1. \A k \in 1..K : W[k] \in Seq(S)
    BY <1>0, <1>5
  <2>2. ASSUME NEW k \in 1..(n - 1) PROVE H[k] \in Seq(S)
    <3>1. CASE k <= K
      <4>1. k \in 1..K /\ H[k] = W[k]
        BY <1>0, <1>1, <1>3, <3>1
      <4> QED
        BY <2>1, <4>1
    <3>2. CASE ~(k <= K)
      <4>1. H[k] = <<>>
        BY <1>3, <3>2
      <4> QED
        BY <4>1
    <3> QED
      BY <3>1, <3>2
  <2> QED
    BY <2>2
<1>7. H \in Seq(Seq(S)) /\ Len(H) = n - 1
  <2> DEFINE c == n - 1
             Q == Seq(S)
  <2>1. c \in Nat /\ H = [k \in 1..c |-> H[k]] /\ \A k \in 1..c : H[k] \in Q
    BY <1>1, <1>4, <1>6
  <2> HIDE DEF c, Q
  <2>2. H \in [1..c -> Q]
    BY <2>1, Zenon
  <2>3. H \in Seq(Q) /\ Len(H) = c
    BY <2>1, <2>2, SequenceOf
  <2> QED
    BY <2>3 DEF c, Q
<1>8. FlattenSeq(H) = FlattenSeq(SubSeq(H, 1, M))
  <2>1. \A k \in (M + 1)..Len(H) : H[k] = <<>>
    <3>1. ASSUME NEW k \in (M + 1)..Len(H) PROVE H[k] = <<>>
      <4>1. k \in 1..(n - 1) /\ ~(k <= K)
        BY <1>0, <1>1, <1>2, <1>7
      <4> QED
        BY <1>3, <4>1
    <3> QED
      BY <3>1
  <2>2. M \in 0..Len(H)
    BY <1>2, <1>7
  <2> HIDE DEF M
  <2> QED
    BY <1>7, <2>1, <2>2, FlattenFront
<1> HIDE DEF M
<1>9. SubSeq(H, 1, M) = SubSeq(W, 1, M)
  <2>1. \A k \in 1..M : H[k] = W[k]
    <3>1. ASSUME NEW k \in 1..M PROVE H[k] = W[k]
      <4>1. k \in 1..(n - 1) /\ k <= K
        BY <1>0, <1>1, <1>2
      <4> QED
        BY <1>3, <4>1
    <3> QED
      BY <3>1
  <2>2. SubSeq(H, 1, M) = [k \in 1..M |-> H[k]] /\ SubSeq(W, 1, M) = [k \in 1..M |-> W[k]]
    BY <1>0, <1>2, <1>5, <1>7
  <2> QED
    BY <2>1, <2>2
<1> DEFINE front == SubSeq(W, 1, M)
           back == SubSeq(W, M + 1, K)
<1>10. front \in Seq(Seq(S)) /\ back \in Seq(Seq(S)) /\ W = front \o back
  <2>1. 1 \in 1..(Len(W) + 1) /\ M \in (1 - 1)..Len(W) /\ K \in M..Len(W)
    BY <1>0, <1>2
  <2>2. SubSeq(W, 1, M) \o SubSeq(W, M + 1, K) = SubSeq(W, 1, K)
    BY <1>5, <2>1, ConcatAdjacentSubSeq
  <2>3. SubSeq(W, 1, K) = W
    BY <1>0, <1>5, SubSeqFull
  <2>4. front \in Seq(Seq(S)) /\ back \in Seq(Seq(S))
    BY <1>0, <1>2, <1>5
  <2> QED
    BY <2>2, <2>3, <2>4
<1>11. K <= n - 1 => back = <<>>
  <2>1. K <= n - 1 => M = K
    BY DEF M
  <2>2. M = K => back = <<>>
    BY <1>0, <1>5
  <2> QED
    BY <2>1, <2>2
<1> HIDE DEF front, back
<1>12. /\ FlattenSeq(front) \in Seq(S) /\ FlattenSeq(back) \in Seq(S)
       /\ FlattenSeq(W) = FlattenSeq(front) \o FlattenSeq(back)
  BY <1>10, FlattenSeqType, FlattenConcat
<1>13. K <= n - 1 => FlattenSeq(back) = <<>>
  BY <1>11, FlattenEmpty
<1>14. HeldBefore(r, rig, n) = FlattenSeq(front)
  <2>1. HeldBefore(r, rig, n) = FlattenSeq(H)
    BY DEF HeldBefore, H
  <2> QED
    BY <1>8, <1>9, <2>1 DEF front
<1>15. K <= n - 1 => FlattenSeq(W) = FlattenSeq(front)
  BY <1>12, <1>13, ConcatEmptySeq
<1> QED
  BY <1>12, <1>14, <1>15 DEF Continues, W, raw, rig

\* The rows of a dump begin with what the device held in the sections that came
\* through whole, and those of an intact dump are no others.
LEMMA ExportOfDump ==
    ASSUME NEW capture, Real(capture), HasTable(Dump(capture)), NEW r
    PROVE  /\ \E S : ExportedRows(r, Dump(capture)) \in Seq(S) /\ \A row \in S : row.rig = r
           /\ \A n \in 0..Count(capture.rig) : SoundUpTo(capture, n) =>
                 IsPrefix(HeldIn(r, capture.rig, n), ExportedRows(r, Dump(capture)))
           /\ Intact(capture) => ExportedRows(r, Dump(capture)) = Held(r, capture.rig)
<1> DEFINE raw == Dump(capture)
           rig == capture.rig
           T == TableRows(r, raw)
           W == WalkRows(r, raw)
           F == FlattenSeq(W)
           H(n) == HeldBefore(r, rig, n)
<1>0. IsRig(rig) /\ Count(rig) \in Nat
  BY SectionTypes DEF Real
<1>1. PICK K : WalkHas(capture, K)
  BY WalkResult
<1>2. PICK S : T \in Seq(S) /\ W \in Seq(Seq(S)) /\ \A row \in S : row.rig = r
  BY <1>1, WalkRowsType
<1>3. ExportedRows(r, raw) = T \o F
  BY DEF ExportedRows, TableRows, WalkRows
<1>4. F \in Seq(S)
  BY <1>2, FlattenSeqType
<1>5. ASSUME NEW n \in 1..Count(rig), Sound(capture, n)
      PROVE  /\ Continues(T \o F, HeldIn(r, rig, n), S)
             /\ K <= n - 1 => T \o F = HeldIn(r, rig, n)
  <2>1. HeldIn(r, rig, n) = T \o H(n)
    <3>1. Sound(capture, 1)
      <4>1. 1 \in 1..n
        BY <1>0
      <4> QED
        BY <1>5, <4>1, SoundBefore
    <3>2. TableOfContents(raw) = SettingsOf(rig, 1)
      BY <3>1, TableRead
    <3>3. HeldInTable(r, rig) = T
      BY <3>2, HeldNames DEF HeldGlobals, RowsFrom, TableRows
    <3>4. n # 0
      BY <1>0
    <3> HIDE DEF T
    <3> QED
      BY <3>3, <3>4 DEF HeldIn, HeldBefore
  <2>2. Continues(F, H(n), S) /\ (K <= n - 1 => F = H(n))
    BY <1>1, <1>2, <1>5, WalkRowsHold
  <2> DEFINE h == H(n)
  <2> HIDE DEF T, F, h, H
  <2>3. PICK rest \in Seq(S) : F = h \o rest
    BY <2>2 DEF Continues, h
  <2>4. h \in Seq(S) /\ HeldIn(r, rig, n) = T \o h /\ (K <= n - 1 => F = h)
    BY <2>1, <2>2 DEF Continues, h
  <2>5. T \o (h \o rest) = (T \o h) \o rest
    <3>1. T \in Seq(S) /\ h \in Seq(S) /\ rest \in Seq(S)
      BY <1>2, <2>4
    <3> QED
      BY ONLY <3>1, ConcatAssociative, SMTT(60)
  <2>6. T \o h \in Seq(S)
    BY <1>2, <2>4, ConcatProperties
  <2> QED
    BY <2>3, <2>4, <2>5, <2>6 DEF Continues
<1>6. ASSUME NEW n \in 0..Count(rig), SoundUpTo(capture, n)
      PROVE  IsPrefix(HeldIn(r, rig, n), T \o F)
  <2>1. CASE n = 0
    <3>1. HeldIn(r, rig, n) = <<>>
      BY <2>1 DEF HeldIn
    <3>2. T \o F \in Seq(S) /\ <<>> \in Seq(S) /\ <<>> \o (T \o F) = T \o F
      <4> HIDE DEF T, F
      <4>1. T \o F \in Seq(S)
        BY <1>2, <1>4, ConcatProperties
      <4> QED
        BY <4>1, ConcatEmptySeq
    <3> HIDE DEF T, F
    <3> QED
      BY <3>1, <3>2, PrefixOfConcat
  <2>2. CASE n # 0
    <3>1. n \in 1..Count(rig)
      BY <1>0, <2>2
    <3>2. Sound(capture, n)
      BY <1>0, <1>6, WordsUpToStart DEF SoundUpTo, Sound, Good
    <3> HIDE DEF T, F
    <3> QED
      BY <1>5, <3>1, <3>2, PrefixOfConcat DEF Continues
  <2> QED
    BY <2>1, <2>2
<1>7. ASSUME Intact(capture) PROVE T \o F = Held(r, rig)
  <2> DEFINE n == Count(rig)
  <2>1. n \in 1..n /\ K <= n - 1
    BY <1>0, <1>1, <1>7, CountPositive DEF WalkHas
  <2>2. Sound(capture, n)
    <3>1. Start(rig, n + 1) = Len(Packed(rig)) /\ Len(Packed(rig)) = Good(capture)
      BY <1>0, <1>7, PackedLayout, DumpWords
    <3>2. Good(capture) \in Int
      BY DumpWords
    <3> QED
      BY <3>1, <3>2 DEF Sound
  <2>3. Len(SectionsOf(rig)) = n
    BY <1>0, SectionLengths
  <2> HIDE DEF T, F, n
  <2>4. n \in 1..Count(rig)
    BY <2>1 DEF n
  <2>5. T \o F = HeldIn(r, rig, n)
    BY <1>5, <2>1, <2>2, <2>4
  <2> QED
    BY <2>3, <2>5 DEF Held
<1>8. T \o F \in Seq(S)
  <2> HIDE DEF T, F
  <2> QED
    BY <1>2, <1>4, ConcatProperties
<1> HIDE DEF T, F
<1> QED
  BY <1>2, <1>3, <1>6, <1>7, <1>8

\* The rows of one rig; RowsOf has them of settings.csv.
RowsIn(seq, rig) == Picked(seq, {i \in DOMAIN seq : seq[i].rig = rig})

\* A sequence of rows of these rigs.
AreRowsOf(seq, rigs) == \E S : seq \in Seq(S) /\ \A row \in S : row.rig \in rigs

\* Rows are added for every rig by itself.
LEMMA RowsInConcat ==
    ASSUME NEW S, NEW s \in Seq(S), NEW t \in Seq(S), NEW r
    PROVE  RowsIn(s \o t, r) = RowsIn(s, r) \o RowsIn(t, r)
<1> DEFINE V == {row \in S : row.rig = r}
<1>1. \A q \in Seq(S) : {i \in DOMAIN q : q[i].rig = r} = {i \in DOMAIN q : q[i] \in V}
  <2>1. ASSUME NEW q \in Seq(S)
        PROVE  {i \in DOMAIN q : q[i].rig = r} = {i \in DOMAIN q : q[i] \in V}
    <3>1. \A i \in DOMAIN q : q[i] \in S
      OBVIOUS
    <3>2. \A i \in DOMAIN q : q[i].rig = r <=> q[i] \in V
      BY <3>1
    <3> HIDE DEF V
    <3> QED
      BY <3>2
  <2> QED
    BY <2>1
<1> HIDE DEF V
<1>2. s \o t \in Seq(S)
  BY ConcatProperties
<1>3. PickedFrom(s \o t, V) = PickedFrom(s, V) \o PickedFrom(t, V)
  BY PickedConcat
<1> QED
  BY <1>1, <1>2, <1>3 DEF RowsIn, PickedFrom

\* The rows of a rig are all its own.
LEMMA RowsInOne ==
    ASSUME NEW r, NEW S, NEW s \in Seq(S), \A row \in S : row.rig = r
    PROVE  /\ RowsIn(s, r) = s
           /\ \A q : q # r => RowsIn(s, q) = <<>>
<1>1. DOMAIN s = 1..Len(s) /\ \A i \in 1..Len(s) : s[i].rig = r
  <2>1. \A i \in 1..Len(s) : s[i] \in S
    OBVIOUS
  <2> QED
    BY <2>1
<1>2. RowsIn(s, r) = s
  <2> DEFINE places == {i \in DOMAIN s : s[i].rig = r}
  <2>1. 1..Len(s) \subseteq places
    BY <1>1
  <2> HIDE DEF places
  <2>2. Picked(s, places) = s
    BY <2>1, PickedAll
  <2> QED
    BY <2>2 DEF RowsIn, places
<1>3. ASSUME NEW q, q # r PROVE RowsIn(s, q) = <<>>
  <2> DEFINE places == {i \in DOMAIN s : s[i].rig = q}
  <2>1. 1..Len(s) \cap places = {}
    BY <1>1, <1>3
  <2> HIDE DEF places
  <2>2. Picked(s, places) = <<>>
    BY <2>1, PickedNone
  <2> QED
    BY <2>2 DEF RowsIn, places
<1> QED
  BY <1>2, <1>3

\* An empty file has no rows.
LEMMA RowsInNothing == /\ \A r : RowsIn(<<>>, r) = <<>>
                       /\ \A rigs : AreRowsOf(<<>>, rigs)
<1>1. ASSUME NEW r PROVE RowsIn(<<>>, r) = <<>>
  <2> DEFINE S == {row \in {} : TRUE}
  <2>1. <<>> \in Seq(S)
    OBVIOUS
  <2>2. \A row \in S : row.rig = r
    OBVIOUS
  <2> HIDE DEF S
  <2> QED
    BY <2>1, <2>2, RowsInOne
<1>2. ASSUME NEW rigs PROVE AreRowsOf(<<>>, rigs)
  <2> DEFINE S == {row \in {} : TRUE}
  <2>1. <<>> \in Seq(S)
    OBVIOUS
  <2>2. \A row \in S : row.rig \in rigs
    OBVIOUS
  <2> HIDE DEF S
  <2> QED
    BY <2>1, <2>2 DEF AreRowsOf
<1> QED
  BY <1>1, <1>2

\* The rows of one more rig are put behind the rows there are.
LEMMA RowsAdded ==
    ASSUME NEW s, AreRowsOf(s, Rigs), NEW r \in Rigs, NEW t, AreRowsOf(t, {r})
    PROVE  /\ AreRowsOf(s \o t, Rigs)
           /\ RowsIn(s, r) = <<>> => RowsIn(s \o t, r) = t
           /\ \A q \in Rigs : q # r => RowsIn(s \o t, q) = RowsIn(s, q)
<1>1. PICK A : s \in Seq(A) /\ \A row \in A : row.rig \in Rigs
  BY DEF AreRowsOf
<1>2. PICK B : t \in Seq(B) /\ \A row \in B : row.rig = r
  BY DEF AreRowsOf
<1> DEFINE S == A \cup B
<1>3. A \subseteq S /\ B \subseteq S /\ \A row \in S : row.rig \in Rigs
  BY <1>1, <1>2
<1> HIDE DEF S
<1>4. s \in Seq(S) /\ t \in Seq(S)
  BY <1>1, <1>2, <1>3, SeqMonotonic
<1>5. s \o t \in Seq(S)
  BY <1>4, ConcatProperties
<1>6. \A q : RowsIn(s \o t, q) = RowsIn(s, q) \o RowsIn(t, q)
  BY <1>4, RowsInConcat
<1>7. RowsIn(t, r) = t /\ \A q : q # r => RowsIn(t, q) = <<>>
  BY <1>2, RowsInOne
<1>8. <<>> \o t = t
  BY <1>4, ConcatEmptySeq
<1>9. ASSUME NEW q PROVE RowsIn(s, q) \o <<>> = RowsIn(s, q)
  <2>1. RowsIn(s, q) \in Seq(S)
    BY <1>4, MarksType DEF RowsIn
  <2> QED
    BY <2>1, ConcatEmptySeq
<1>10. AreRowsOf(s \o t, Rigs)
  BY <1>3, <1>5 DEF AreRowsOf
<1> QED
  BY <1>6, <1>7, <1>8, <1>9, <1>10

\* A capture is of a rig, whatever came of its dump.
LEMMA CapturesAreReal ==
    ASSUME ContentsAreRigs, NEW capture \in Captures
    PROVE  Real(capture) /\ capture # None
<1>1. capture.rig \in Contents /\ capture.lost \in Lost /\ capture.rest \in Rests
  BY DEF Captures
<1>2. capture.lost \in Nat /\ capture.rest \in Seq(AnyWord)
  BY <1>1, ExportAssumption
<1>3. capture # None
  <2>1. None.lost = -1
    BY DEF None
  <2> QED
    BY <1>2, <2>1
<1> QED
  BY <1>1, <1>2, <1>3 DEF ContentsAreRigs, Real

-----------------------------------------------------------------------------
\* What the export has of a rig: the rows of its capture.
Exported(capture, seq, rig) ==
    /\ capture # None /\ HasTable(Dump(capture))
    /\ RowsIn(seq, rig) = ExportedRows(rig, Dump(capture))

\* A rig that has rows has those of its capture; the rigs to come have none;
\* and as long as nothing is missing, those that were passed have theirs.
ExportInv ==
    /\ files \in [Rigs -> Captures \cup {None}]
    /\ next \in 0..RigCount + 1
    /\ missing \in Nat /\ missing <= (IF next = 0 THEN RigCount ELSE next - 1)
    /\ status \in {"none", "running", "0", "2"}
    /\ status = "running" <=> next # 0
    /\ status = "0" => missing = 0
    /\ AreRowsOf(rows, Rigs)
    /\ \A rig \in Rigs : RowsIn(rows, rig) # <<>> => Exported(files[rig], rows, rig)
    /\ \A rig \in Rigs : next # 0 /\ rig >= next => RowsIn(rows, rig) = <<>>
    /\ \A rig \in Rigs : missing = 0 /\ status # "none" /\ (next = 0 \/ rig < next)
                            => Exported(files[rig], rows, rig)

\* The invariant holds at the start, ...
LEMMA ExportInit == ContentsAreRigs => (Init => ExportInv)
<1> SUFFICES ASSUME Init PROVE ExportInv
  OBVIOUS
<1>2. files \in [Rigs -> Captures \cup {None}]
  BY DEF Init
<1>3. RigCount \in Nat /\ 0 \in 0..RigCount + 1
  BY ExportAssumption
<1> QED
  BY <1>2, <1>3, RowsInNothing DEF Init, ExportInv

\* ... after a turn of the loop, ...
LEMMA ExportStep ==
    ASSUME ContentsAreRigs, ExportInv, Export
    PROVE  ExportInv'
<1>0. RigCount \in Nat
  BY ExportAssumption
<1>1. /\ next \in Rigs /\ next \in 1..RigCount /\ next' = next + 1 /\ next # 0
      /\ files' = files /\ status' = status /\ status = "running"
  BY DEF Export, ExportInv, Rigs
<1> DEFINE capture == files[next]
           usable == capture # None /\ HasTable(Dump(capture))
           more == ExportedRows(next, Dump(capture))
<1>2. /\ rows' = IF usable THEN rows \o more ELSE rows
      /\ missing' = IF usable THEN missing ELSE missing + 1
  BY DEF Export
<1>3. /\ files \in [Rigs -> Captures \cup {None}] /\ AreRowsOf(rows, Rigs)
      /\ missing \in Nat /\ missing <= next - 1
  BY <1>1 DEF ExportInv
<1>4. capture # None => Real(capture)
  <2>1. capture # None => capture \in Captures
    BY <1>1, <1>3
  <2> QED
    BY <2>1, CapturesAreReal
<1>5. RowsIn(rows, next) = <<>>
  BY <1>1 DEF ExportInv
<1>6. CASE usable
  <2>1. AreRowsOf(more, {next})
    <3>1. PICK S : more \in Seq(S) /\ \A row \in S : row.rig = next
      BY <1>4, <1>6, ExportOfDump
    <3> HIDE DEF more
    <3> QED
      BY <3>1 DEF AreRowsOf
  <2> HIDE DEF more
  <2>2. rows' = rows \o more /\ missing' = missing
    BY <1>2, <1>6
  <2>3. /\ AreRowsOf(rows', Rigs) /\ RowsIn(rows', next) = more
        /\ \A rig \in Rigs : rig # next => RowsIn(rows', rig) = RowsIn(rows, rig)
    <3>1. next \in Rigs /\ AreRowsOf(rows, Rigs)
      BY <1>1, <1>3
    <3> QED
      BY <1>5, <2>1, <2>2, <3>1, RowsAdded
  <2>4. Exported(capture, rows', next)
    BY <1>6, <2>3 DEF Exported, more
  <2>5. \A rig \in Rigs : rig # next /\ Exported(files[rig], rows, rig)
                             => Exported(files[rig], rows', rig)
    BY <2>3 DEF Exported
  <2>7. \A rig \in Rigs : RowsIn(rows', rig) # <<>> => Exported(files[rig], rows', rig)
    <3>1. ASSUME NEW rig \in Rigs, RowsIn(rows', rig) # <<>>
          PROVE  Exported(files[rig], rows', rig)
      <4>1. CASE rig = next
        BY <2>4, <4>1
      <4>2. CASE rig # next
        BY <2>3, <2>5, <3>1, <4>2 DEF ExportInv
      <4> QED
        BY <4>1, <4>2
    <3> QED
      BY <3>1
  <2>8. \A rig \in Rigs : rig >= next' => RowsIn(rows', rig) = <<>>
    <3>1. ASSUME NEW rig \in Rigs, rig >= next' PROVE RowsIn(rows', rig) = <<>>
      <4>1. rig # next /\ rig >= next
        BY <1>0, <1>1, <3>1 DEF Rigs
      <4> QED
        BY <1>1, <2>3, <4>1 DEF ExportInv
    <3> QED
      BY <3>1
  <2>9. \A rig \in Rigs : missing = 0 /\ rig < next' => Exported(files[rig], rows', rig)
    <3>1. ASSUME NEW rig \in Rigs, missing = 0, rig < next'
          PROVE  Exported(files[rig], rows', rig)
      <4>1. CASE rig = next
        BY <2>4, <4>1
      <4>2. CASE rig # next
        <5>1. rig < next
          BY <1>0, <1>1, <3>1, <4>2 DEF Rigs
        <5>2. Exported(files[rig], rows, rig)
          BY <1>1, <3>1, <5>1 DEF ExportInv
        <5> QED
          BY <2>5, <4>2, <5>2
      <4> QED
        BY <4>1, <4>2
    <3> QED
      BY <3>1
  <2>10. next' \in 0..RigCount + 1 /\ next' # 0 /\ missing' <= next' - 1
    BY <1>0, <1>1, <1>3, <2>2
  <2> HIDE DEF capture, usable
  <2> QED
    BY <1>1, <1>3, <2>2, <2>3, <2>7, <2>8, <2>9, <2>10 DEF ExportInv
<1>7. CASE ~usable
  <2>1. rows' = rows /\ missing' = missing + 1
    BY <1>2, <1>7
  <2>2. next' \in 0..RigCount + 1 /\ next' # 0 /\ missing' <= next' - 1 /\ missing' \in Nat /\ missing' # 0
    BY <1>0, <1>1, <1>3, <2>1
  <2>3. \A rig \in Rigs : rig >= next' => rig >= next
    BY <1>0, <1>1 DEF Rigs
  <2>4. \A rig \in Rigs : rig >= next' => RowsIn(rows, rig) = <<>>
    BY <1>1, <2>3 DEF ExportInv
  <2>5. \A rig \in Rigs : RowsIn(rows, rig) # <<>> => Exported(files[rig], rows, rig)
    BY DEF ExportInv
  <2>6. status' = "running" /\ status' # "0"
    BY <1>1
  <2> HIDE DEF capture, usable
  <2> QED
    BY <1>1, <1>3, <2>1, <2>2, <2>4, <2>5, <2>6 DEF ExportInv
<1> QED
  BY <1>6, <1>7

\* ... and after every other step.
LEMMA ExportNext ==
    ASSUME ContentsAreRigs, ExportInv, [Next]_vars
    PROVE  ExportInv'
<1>0. RigCount \in Nat
  BY ExportAssumption
<1>1. CASE Open
  <2>1. /\ next = 0 /\ next' = 1 /\ rows' = <<>> /\ missing' = 0 /\ status' = "running" /\ files' = files
    BY <1>1 DEF Open
  <2>2. \A rig \in Rigs : RowsIn(rows', rig) = <<>>
    BY <2>1, RowsInNothing
  <2>3. AreRowsOf(rows', Rigs)
    BY <2>1, RowsInNothing
  <2>4. \A rig \in Rigs : ~(rig < next')
    BY <1>0, <2>1 DEF Rigs
  <2>5. next' \in 0..RigCount + 1 /\ missing' \in Nat /\ missing' <= next' - 1 /\ next' # 0
    BY <1>0, <2>1
  <2>6. files' \in [Rigs -> Captures \cup {None}]
    BY <2>1 DEF ExportInv
  <2>7. status' = "running" /\ status' # "0"
    BY <2>1
  <2> QED
    BY <2>2, <2>3, <2>4, <2>5, <2>6, <2>7 DEF ExportInv
<1>2. CASE Export
  BY <1>2, ExportStep
<1>3. CASE Close
  <2>1. /\ next = RigCount + 1 /\ status' = IF missing > 0 THEN "2" ELSE "0"
        /\ next' = 0 /\ files' = files /\ rows' = rows /\ missing' = missing
    BY <1>3 DEF Close
  <2>2. next # 0 /\ missing \in Nat /\ missing <= RigCount
    BY <1>0, <2>1 DEF ExportInv
  <2>3. status = "running" /\ status # "none"
    BY <2>2 DEF ExportInv
  <2>4. \A rig \in Rigs : rig < next
    BY <1>0, <2>1 DEF Rigs
  <2>5. \A rig \in Rigs : missing = 0 => Exported(files[rig], rows, rig)
    BY <2>3, <2>4 DEF ExportInv
  <2>6. status' \in {"none", "running", "0", "2"} /\ status' # "running" /\ (status' = "0" => missing = 0)
    BY <2>1, <2>2
  <2>7. next' \in 0..RigCount + 1
    BY <1>0, <2>1
  <2>8. /\ files' \in [Rigs -> Captures \cup {None}] /\ AreRowsOf(rows', Rigs)
        /\ \A rig \in Rigs : RowsIn(rows, rig) # <<>> => Exported(files[rig], rows, rig)
    BY <2>1 DEF ExportInv
  <2> QED
    BY <2>1, <2>2, <2>5, <2>6, <2>7, <2>8 DEF ExportInv
<1>4. CASE SaveCapture
  <2>1. PICK r \in Rigs, capture \in Captures :
           /\ files[r] = None /\ files' = [files EXCEPT ![r] = capture]
           /\ next' = next /\ rows' = rows /\ missing' = missing /\ status' = status
    BY <1>4 DEF SaveCapture
  <2>2. files' \in [Rigs -> Captures \cup {None}]
    BY <2>1 DEF ExportInv
  <2>3. \A rig \in Rigs : Exported(files[rig], rows, rig) => Exported(files'[rig], rows, rig)
    <3>1. ASSUME NEW rig \in Rigs, files[rig] # None PROVE files'[rig] = files[rig]
      BY <2>1, <3>1 DEF ExportInv
    <3> QED
      BY <3>1 DEF Exported
  <2>4. \A rig \in Rigs : RowsIn(rows, rig) # <<>> => Exported(files'[rig], rows, rig)
    BY <2>3 DEF ExportInv
  <2>5. \A rig \in Rigs : missing = 0 /\ status # "none" /\ (next = 0 \/ rig < next)
                             => Exported(files'[rig], rows, rig)
    BY <2>3 DEF ExportInv
  <2> QED
    BY <2>1, <2>2, <2>4, <2>5 DEF ExportInv
<1>5. CASE UNCHANGED vars
  BY <1>5 DEF vars, ExportInv
<1> QED
  BY <1>1, <1>2, <1>3, <1>4, <1>5 DEF Next

\* So it is an invariant.
LEMMA ExportInvariance ==
    ASSUME ContentsAreRigs PROVE Spec => []ExportInv
<1>1. Init => ExportInv
  BY ExportInit
<1>2. ExportInv /\ [Next]_vars => ExportInv'
  BY ExportNext
<1> QED
  BY <1>1, <1>2, PTL DEF Spec

\* However the saving of captures falls between the turns of the loop, and
\* whatever was lost, added or changed in the dumps: the rows of a rig begin with
\* what the device held in the sections that came through whole, those of an
\* intact capture are no others, and status 0 says that every rig has a capture.
THEOREM RowsAreCaptures ==
    ASSUME ContentsAreRigs PROVE Spec => []RowsAreTheCaptures
<1>1. ASSUME ExportInv PROVE RowsAreTheCaptures
  <2>1. \A rig \in Rigs : RowsOf(rig) = RowsIn(rows, rig)
    BY DEF RowsOf, RowsIn
  <2>2. ASSUME NEW rig \in Rigs, Exported(files[rig], rows, rig)
        PROVE  /\ files[rig] # None
               /\ \A n \in 0..Len(SectionsOf(files[rig].rig)) : SoundUpTo(files[rig], n) =>
                     IsPrefix(HeldIn(rig, files[rig].rig, n), RowsIn(rows, rig))
               /\ Intact(files[rig]) => RowsIn(rows, rig) = Held(rig, files[rig].rig)
    <3> DEFINE capture == files[rig]
    <3>1. capture # None /\ HasTable(Dump(capture))
          /\ RowsIn(rows, rig) = ExportedRows(rig, Dump(capture))
      BY <2>2 DEF Exported
    <3>2. capture \in Captures
      BY <1>1, <3>1 DEF ExportInv
    <3> HIDE DEF capture
    <3>3. Real(capture)
      BY <3>2, CapturesAreReal
    <3>4. Len(SectionsOf(capture.rig)) = Count(capture.rig)
      BY <3>3, SectionLengths DEF Real
    <3>5. /\ \A n \in 0..Count(capture.rig) : SoundUpTo(capture, n) =>
               IsPrefix(HeldIn(rig, capture.rig, n), RowsIn(rows, rig))
          /\ Intact(capture) => RowsIn(rows, rig) = Held(rig, capture.rig)
      BY <3>1, <3>3, ExportOfDump
    <3> QED
      BY <3>1, <3>4, <3>5 DEF capture
  <2>3. ASSUME NEW rig \in Rigs, RowsIn(rows, rig) # <<>> \/ status = "0"
        PROVE  Exported(files[rig], rows, rig)
    <3>1. CASE RowsIn(rows, rig) # <<>>
      BY <1>1, <3>1 DEF ExportInv
    <3>2. CASE status = "0"
      <4>1. status # "running" /\ status # "none"
        BY <3>2
      <4>2. next = 0 /\ missing = 0
        BY <1>1, <3>2, <4>1 DEF ExportInv
      <4> QED
        BY <1>1, <4>1, <4>2 DEF ExportInv
    <3> QED
      BY <2>3, <3>1, <3>2
  <2> QED
    BY <2>1, <2>2, <2>3 DEF RowsAreTheCaptures
<1> QED
  BY <1>1, ExportInvariance, PTL

\* The variables hold what they should; no more is missing than there are rigs.
THEOREM ExportTypeOK ==
    ASSUME ContentsAreRigs PROVE Spec => []TypeOK
<1>1. ASSUME ExportInv PROVE TypeOK
  <2>0. RigCount \in Nat
    BY ExportAssumption
  <2>1. missing \in 0..RigCount
    BY <1>1, <2>0 DEF ExportInv
  <2>2. \A i \in DOMAIN rows : rows[i].rig \in Rigs
    <3>1. PICK S : rows \in Seq(S) /\ \A row \in S : row.rig \in Rigs
      BY <1>1 DEF ExportInv, AreRowsOf
    <3>2. \A i \in DOMAIN rows : rows[i] \in S
      BY <3>1
    <3> QED
      BY <3>1, <3>2
  <2> QED
    BY <1>1, <2>1, <2>2 DEF ExportInv, TypeOK
<1> QED
  BY <1>1, ExportInvariance, PTL

-----------------------------------------------------------------------------
\* A line of the summary for every row.
LineRows == [slot : Slots, category : Int, effect : Int, key : KeyStrings, value : Int]

LineOf(rig) == [row \in RigRows(rig) |-> Line(row.slot, row.category, row.effect, row)]

\* The lines are lines.
LEMMA LineOfType == \A rig : Maps(LineOf(rig), RigRows(rig), LineRows)
<1>1. ASSUME NEW rig, NEW row \in RigRows(rig)
      PROVE  Line(row.slot, row.category, row.effect, row) \in LineRows
  BY DEF RigRows, HeldRows, LineRows, Line
<1> QED
  BY <1>1 DEF Maps, LineOf

\* The lines for the rows of settings that belong together.
LEMMA LinesFrom ==
    ASSUME NEW rig, NEW slot \in Slots, NEW category \in Int, NEW effect \in Int,
           NEW enabled \in Ons, NEW settings \in Seq(KeySettings)
    PROVE  Map(LineOf(rig), RowsFrom(rig, slot, category, effect, enabled, settings))
             = [i \in DOMAIN settings |-> Line(slot, category, effect, settings[i])]
<1> DEFINE s == RowsFrom(rig, slot, category, effect, enabled, settings)
<1>1. s \in Seq(RigRows(rig)) /\ Len(s) = Len(settings)
  BY RowsFromType
<1>2. DOMAIN s = DOMAIN settings /\ \A i \in DOMAIN settings : s[i] = Row(rig, slot, category, effect, enabled, settings[i])
  BY DEF RowsFrom
<1>3. \A i \in DOMAIN s : s[i] \in RigRows(rig)
  BY <1>1
<1> HIDE DEF s
<1>4. ASSUME NEW i \in DOMAIN settings
      PROVE  LineOf(rig)[s[i]] = Line(slot, category, effect, settings[i])
  <2>1. LineOf(rig)[s[i]] = Line(s[i].slot, s[i].category, s[i].effect, s[i])
    BY <1>2, <1>3 DEF LineOf
  <2> QED
    BY <1>2, <2>1 DEF Row, Line
<1>5. Map(LineOf(rig), s) = [i \in DOMAIN settings |-> LineOf(rig)[s[i]]]
  BY <1>2 DEF Map
<1> QED
  BY <1>4, <1>5 DEF s

\* Only globals are stored under keys of the module table.
LEMMA ModuleKeys ==
    ASSUME NEW rig, IsRig(rig), NEW k \in 1..Len(rig.modules), rig.modules[k].id \in SlotIds,
           NEW i \in 1..Len(ModuleSettings(rig.modules[k]))
    PROVE  ModuleSettings(rig.modules[k])[i].key \notin SlotTableKeys
<1> DEFINE m == rig.modules[k]
           s == m.settings
           v == IF m.state = "on" THEN 0 ELSE 1
           last == IF m.state = "none" THEN <<>> ELSE <<Setting(BypassKey(m), v)>>
           all == s \o last
<1>1. s \in Seq(RigSettings)
  BY RigFields DEF RigModules
<1>2. \A j \in 1..Len(s) : s[j].key \notin SlotTableKeys
  <2>1. DOMAIN rig.modules = 1..Len(rig.modules) /\ DOMAIN s = 1..Len(s)
    BY <1>1, RigFields
  <2> QED
    BY <2>1 DEF IsRig
<1>3. BypassKey(m) \notin SlotTableKeys
  <2>1. "sld5" \notin SlotTableKeys /\ "bypa" \notin SlotTableKeys
    BY SMTT(60) DEF SlotTableKeys, SlotIds, EffectKey, CategoryKey
  <2> QED
    BY <2>1 DEF BypassKey
<1> DEFINE T == RigSettings \cup {Setting(BypassKey(m), v)}
<1>4. s \in Seq(T)
  BY <1>1, SeqMonotonic
<1>5. last \in Seq(T) /\ \A j \in 1..Len(last) : last[j].key \notin SlotTableKeys
  <2>1. CASE m.state = "none"
    BY <2>1
  <2>2. CASE m.state # "none"
    <3>1. Setting(BypassKey(m), v).key = BypassKey(m)
      BY DEF Setting
    <3> QED
      BY <1>3, <2>2, <3>1
  <2> QED
    BY <2>1, <2>2
<1>6. ModuleSettings(m) = all
  BY DEF ModuleSettings
<1> HIDE DEF s, last, T, m
<1>7. PICK p \in Nat, q \in Nat : p = Len(s) /\ q = Len(last)
  BY <1>4, <1>5
<1>8. Len(all) = p + q /\ \A j \in 1..(p + q) : all[j] = IF j <= p THEN s[j] ELSE last[j - p]
  BY <1>4, <1>5, <1>7, ConcatProperties
<1>9. i \in 1..(p + q)
  BY <1>6, <1>8 DEF m
<1>10. CASE i <= p
  <2>1. i \in 1..Len(s)
    BY <1>7, <1>9, <1>10
  <2> QED
    BY <1>2, <1>6, <1>8, <1>9, <1>10, <2>1 DEF m
<1>11. CASE ~(i <= p)
  <2>1. i - p \in 1..Len(last)
    BY <1>7, <1>9, <1>11
  <2> QED
    BY <1>5, <1>6, <1>8, <1>9, <1>11, <2>1 DEF m
<1> QED
  BY <1>10, <1>11

\* The rows that the summary has a line for.
LineKeys(rig) == {row \in RigRows(rig) : row.key \notin SlotTableKeys}

\* The rows of a slot all are among them.
LEMMA ModuleLines ==
    ASSUME NEW r, NEW rig, IsRig(rig)
    PROVE  PickedFrom(FlattenSeq(HeldModules(r, rig)), LineKeys(r)) = FlattenSeq(HeldModules(r, rig))
<1> DEFINE H == HeldModules(r, rig)
           F == FlattenSeq(H)
           S == RigRows(r)
           places == {i \in DOMAIN F : F[i] \in LineKeys(r)}
<1>1. /\ H \in Seq(Seq(S)) /\ Len(H) = Len(rig.modules)
      /\ \A m \in 1..Len(rig.modules) : H[m] = HeldModule(r, rig.modules[m])
  BY HeldParts
<1>2. F \in Seq(S)
  BY <1>1, FlattenSeqType
<1>3. ASSUME NEW p \in 1..Len(F) PROVE p \in places
  <2>1. PICK k \in 1..Len(H) : \E j \in 1..Len(H[k]) : p = Before(H, k - 1) + j /\ F[p] = H[k][j]
    BY <1>1, FlattenFrom
  <2>2. PICK j \in 1..Len(H[k]) : F[p] = H[k][j]
    BY <2>1
  <2> DEFINE m == rig.modules[k]
             settings == IF m.id \in SlotIds THEN ModuleSettings(m) ELSE <<>>
             on == IF m.state = "none" THEN <<>> ELSE <<m.state = "on">>
  <2>3. k \in 1..Len(rig.modules) /\ H[k] = HeldModule(r, m) /\ m \in RigModules
    BY <1>1, RigFields
  <2>4. H[k] = [i \in DOMAIN settings |-> Row(r, m.id, m.category, m.effect, on, settings[i])]
    BY <2>3 DEF HeldModule, RowsFrom
  <2>5. settings \in Seq(KeySettings)
    BY <2>3, ModuleSettingsType
  <2>6. m.id \in SlotIds => \A i \in 1..Len(ModuleSettings(m)) : ModuleSettings(m)[i].key \notin SlotTableKeys
    BY <2>3, ModuleKeys
  <2>7. \A i \in 1..Len(settings) : settings[i].key \notin SlotTableKeys
    <3>1. CASE m.id \in SlotIds
      BY <2>6, <3>1
    <3>2. CASE m.id \notin SlotIds
      BY <3>2
    <3> QED
      BY <3>1, <3>2
  <2> HIDE DEF settings, on, m, F, H
  <2>8. DOMAIN settings = 1..Len(settings) /\ Len(settings) \in Nat
    BY <2>5
  <2>9. Len(H[k]) = Len(settings)
    BY <2>4, <2>8
  <2>10. H[k][j] = Row(r, m.id, m.category, m.effect, on, settings[j]) /\ j \in 1..Len(settings)
    BY <2>2, <2>4, <2>8, <2>9
  <2>11. F[p].key \notin SlotTableKeys
    BY <2>2, <2>7, <2>10 DEF Row
  <2>12. F[p] \in S /\ p \in DOMAIN F
    BY <1>2
  <2> QED
    BY <2>11, <2>12 DEF LineKeys
<1>4. 1..Len(F) \subseteq places
  BY <1>3
<1> HIDE DEF F, places
<1>5. Picked(F, places) = F
  BY <1>2, <1>4, PickedAll
<1> QED
  BY <1>5 DEF PickedFrom, places, F

\* Of the globals, those that are printed.
LEMMA GlobalLines ==
    ASSUME NEW r, NEW rig, IsRig(rig)
    PROVE  Map(LineOf(r), PickedFrom(HeldGlobals(r, rig), LineKeys(r)))
             = [i \in DOMAIN PrintedGlobals(SettingsOf(rig, 1)) |->
                   Line("Global", 16, 0, PrintedGlobals(SettingsOf(rig, 1))[i])]
<1> DEFINE table == SettingsOf(rig, 1)
           S == RigRows(r)
           f == [s \in KeySettings |-> Row(r, "Global", 16, 0, <<>>, s)]
           places == {i \in DOMAIN table : table[i].key \notin SlotTableKeys}
           G == HeldGlobals(r, rig)
<1>1. table \in Seq(KeySettings)
  BY CountPositive, SectionTypes
<1>2. "Global" \in Slots /\ 16 \in Int /\ 0 \in Int /\ <<>> \in Ons
  BY DEF Slots, Ons
<1>3. Maps(f, KeySettings, S)
  <2>1. ASSUME NEW s \in KeySettings PROVE Row(r, "Global", 16, 0, <<>>, s) \in S
    <3>1. s.key \in KeyStrings /\ s.value \in Int
      BY DEF KeySettings
    <3> QED
      BY <1>2, <3>1 DEF Row, RigRows, HeldRows
  <2> QED
    BY <2>1 DEF Maps
<1>4. DOMAIN table = 1..Len(table) /\ \A i \in DOMAIN table : table[i] \in KeySettings
  BY <1>1
<1>5. G = Map(f, table)
  <2>1. \A i \in DOMAIN table : f[table[i]] = Row(r, "Global", 16, 0, <<>>, table[i])
    BY <1>4
  <2>2. G = [i \in DOMAIN table |-> Row(r, "Global", 16, 0, <<>>, table[i])]
    BY DEF HeldGlobals, RowsFrom
  <2>3. Map(f, table) = [i \in DOMAIN table |-> f[table[i]]]
    BY DEF Map
  <2> HIDE DEF f, table, G
  <2> QED
    BY <2>1, <2>2, <2>3
<1>6. {i \in DOMAIN G : G[i] \in LineKeys(r)} = places
  <2>1. DOMAIN G = DOMAIN table
    BY <1>5 DEF Map
  <2>2. ASSUME NEW i \in DOMAIN table PROVE G[i] \in LineKeys(r) <=> table[i].key \notin SlotTableKeys
    <3>1. G[i] = Row(r, "Global", 16, 0, <<>>, table[i])
      BY DEF HeldGlobals, RowsFrom
    <3>2. G[i].key = table[i].key
      BY <3>1 DEF Row
    <3>3. G[i] \in S
      BY <1>3, <1>4, <3>1 DEF Maps
    <3> QED
      BY <3>2, <3>3 DEF LineKeys
  <2> HIDE DEF G, table
  <2> QED
    BY <2>1, <2>2
<1>7. PickedFrom(G, LineKeys(r)) = Picked(Map(f, table), places)
  <2> HIDE DEF G, f, table, places
  <2> QED
    BY <1>5, <1>6 DEF PickedFrom
<1>8. Picked(Map(f, table), places) = Map(f, Picked(table, places))
  <2> HIDE DEF f, table, places
  <2> QED
    BY <1>1, <1>3, PickedMap
<1>9. Picked(table, places) = PrintedGlobals(table) /\ Picked(table, places) \in Seq(KeySettings)
  <2>1. Picked(table, places) = PrintedGlobals(table)
    BY DEF PrintedGlobals
  <2> HIDE DEF table, places
  <2>2. Picked(table, places) \in Seq(KeySettings)
    BY <1>1, MarksType
  <2> QED
    BY <2>1, <2>2
<1> DEFINE printed == PrintedGlobals(table)
<1>10. printed \in Seq(KeySettings)
  BY <1>9
<1>11. Map(f, printed) = RowsFrom(r, "Global", 16, 0, <<>>, printed)
  <2> HIDE DEF printed
  <2>1. \A i \in DOMAIN printed : printed[i] \in KeySettings
    BY <1>10
  <2>2. \A i \in DOMAIN printed : f[printed[i]] = Row(r, "Global", 16, 0, <<>>, printed[i])
    BY <2>1
  <2> HIDE DEF f
  <2> QED
    BY <2>2 DEF Map, RowsFrom
<1>12. Map(LineOf(r), RowsFrom(r, "Global", 16, 0, <<>>, printed))
         = [i \in DOMAIN printed |-> Line("Global", 16, 0, printed[i])]
  <2> HIDE DEF printed
  <2> QED
    BY <1>2, <1>10, LinesFrom
<1> QED
  BY <1>7, <1>8, <1>9, <1>11, <1>12

\* A section of the summary.
LEMMA SectionLines ==
    ASSUME NEW capture, Real(capture), Sound(capture, 1),
           NEW r, NEW k \in 1..Len(capture.rig.modules),
           k + 1 \in 1..Count(capture.rig), Sound(capture, k + 1)
    PROVE  LinesOfSection(Dump(capture), Parsed(capture.rig, k + 1))
             = Map(LineOf(r), HeldModule(r, capture.rig.modules[k]))
<1> DEFINE raw == Dump(capture)
           section == Parsed(capture.rig, k + 1)
           module == capture.rig.modules[k]
           on == IF module.state = "none" THEN <<>> ELSE <<module.state = "on">>
           settings == IF module.id \in SlotIds THEN ModuleSettings(module) ELSE <<>>
<1>0. k \in Nat /\ k + 1 # 1 /\ (k + 1) - 1 = k
  OBVIOUS
<1>1. section.id = module.id
  BY <1>0 DEF Parsed, IdOf
<1>2. Settings(raw, section) = ModuleSettings(module)
  <2>1. SettingsOf(capture.rig, k + 1) = ModuleSettings(module)
    BY <1>0 DEF SettingsOf
  <2> QED
    BY <2>1, SettingsRead
<1>3. TableOfContents(raw) = SettingsOf(capture.rig, 1)
  BY TableRead
<1>4. module \in RigModules
  BY RigFields DEF Real
<1>5. Map(LineOf(r), HeldModule(r, module))
        = [i \in DOMAIN settings |-> Line(module.id, module.category, module.effect, settings[i])]
  <2>1. module.id \in Slots /\ module.category \in Int /\ module.effect \in Int
    BY <1>4 DEF RigModules, IdStrings, Slots
  <2>2. on \in Ons
    <3>1. (module.state = "on") \in {TRUE, FALSE}
      OBVIOUS
    <3> QED
      BY <3>1 DEF Ons
  <2>3. settings \in Seq(KeySettings)
    BY <1>4, ModuleSettingsType
  <2>4. HeldModule(r, module) = RowsFrom(r, module.id, module.category, module.effect, on, settings)
    BY DEF HeldModule
  <2> HIDE DEF on, settings, module
  <2> QED
    BY <2>1, <2>2, <2>3, <2>4, LinesFrom
<1>6. CASE module.id \notin SlotIds
  <2>1. LinesOfSection(raw, section) = <<>>
    BY <1>1, <1>6 DEF LinesOfSection
  <2>2. DOMAIN settings = {}
    BY <1>6
  <2> HIDE DEF settings
  <2>3. [i \in DOMAIN settings |-> Line(module.id, module.category, module.effect, settings[i])] = <<>>
    BY <2>2
  <2> QED
    BY <1>5, <2>1, <2>3
<1>7. CASE module.id \in SlotIds
  <2>1. /\ TableEntry(TableOfContents(raw), EffectKey[section.id]) = module.effect
        /\ TableEntry(TableOfContents(raw), CategoryKey[section.id]) = module.category
    BY <1>1, <1>3, <1>7, TableFound DEF Real
  <2>2. settings = ModuleSettings(module)
    BY <1>7
  <2> HIDE DEF raw, section, module, settings
  <2>3. LinesOfSection(raw, section)
          = [i \in DOMAIN settings |-> Line(module.id, module.category, module.effect, settings[i])]
    BY <1>1, <1>2, <1>7, <2>1, <2>2 DEF LinesOfSection
  <2> QED
    BY <1>5, <2>3 DEF raw, section, module
<1> QED
  BY <1>6, <1>7

\* The summary of an intact dump.
LEMMA SummaryOfDump ==
    ASSUME NEW capture, Real(capture), Intact(capture), NEW r
    PROVE  Summary(Dump(capture)) = Map(LineOf(r), PickedFrom(Held(r, capture.rig), LineKeys(r)))
<1> DEFINE raw == Dump(capture)
           rig == capture.rig
           S == RigRows(r)
           G == HeldGlobals(r, rig)
           H == HeldModules(r, rig)
           V == LineKeys(r)
           f == LineOf(r)
<1>0. /\ IsRig(rig) /\ Count(rig) \in Nat /\ Count(rig) - 1 = Len(rig.modules)
      /\ Sound(capture, Count(rig)) /\ 1 \in 1..Count(rig)
  <2>1. IsRig(rig) /\ Count(rig) \in Nat
    BY SectionTypes DEF Real
  <2>2. Start(rig, Count(rig) + 1) = Len(Packed(rig)) /\ Len(Packed(rig)) = Good(capture)
    BY <2>1, PackedLayout, DumpWords
  <2>3. Good(capture) \in Int
    BY DumpWords
  <2> QED
    BY <2>1, <2>2, <2>3, CountPositive, SectionLengths DEF Sound
<1>1. HasTable(raw) /\ Sound(capture, 1) /\ TableOfContents(raw) = SettingsOf(rig, 1)
  <2>1. Sound(capture, 1)
    BY <1>0, SoundBefore
  <2> QED
    BY <2>1, TableRead
<1>2. PICK K : WalkHas(capture, K)
  BY <1>1, WalkResult
<1>3. /\ K \in Nat /\ Len(rig.modules) \in Nat /\ K \in 0..Len(rig.modules)
      /\ DOMAIN Sections(raw) = 1..K
      /\ \A k \in 1..K : Sections(raw)[k] = Parsed(rig, k + 1)
      /\ \A k \in (K + 1)..Len(rig.modules) : SettingsOf(rig, k + 1) = <<>>
  <2>1. /\ K \in Nat /\ K <= Count(rig) - 1 /\ DOMAIN Sections(raw) = 1..K
        /\ \A k \in 1..(Count(rig) - 1) :
              IF k <= K THEN Sections(raw)[k] = Parsed(rig, k + 1) ELSE SettingsOf(rig, k + 1) = <<>>
    <3>1. Count(rig) \in 1..Count(rig)
      BY <1>0
    <3> QED
      BY <1>0, <1>2, <3>1 DEF WalkHas
  <2>2. K \in 0..Len(rig.modules) /\ Len(rig.modules) \in Nat
    BY <1>0, <2>1
  <2>3. ASSUME NEW k \in 1..K PROVE Sections(raw)[k] = Parsed(rig, k + 1)
    <3>1. k \in 1..(Count(rig) - 1) /\ k <= K
      BY <1>0, <2>1
    <3> QED
      BY <2>1, <3>1
  <2>4. ASSUME NEW k \in (K + 1)..Len(rig.modules) PROVE SettingsOf(rig, k + 1) = <<>>
    <3>1. k \in 1..(Count(rig) - 1) /\ ~(k <= K)
      BY <1>0, <2>1
    <3> QED
      BY <2>1, <3>1
  <2> QED
    BY <2>1, <2>2, <2>3, <2>4
<1>4. /\ G \in Seq(S) /\ H \in Seq(Seq(S)) /\ Len(H) = Len(rig.modules)
      /\ \A m \in 1..Len(rig.modules) : H[m] = HeldModule(r, rig.modules[m])
      /\ Held(r, rig) = G \o FlattenSeq(H)
  BY <1>0, HeldParts
<1>5. \A k \in (K + 1)..Len(H) : H[k] = <<>>
  <2>1. ASSUME NEW k \in (K + 1)..Len(rig.modules) PROVE HeldModule(r, rig.modules[k]) = <<>>
    <3> DEFINE module == rig.modules[k]
    <3>1. k + 1 # 1 /\ (k + 1) - 1 = k
      BY <1>3
    <3>2. ModuleSettings(module) = <<>>
      <4>1. SettingsOf(rig, k + 1) = <<>>
        BY <1>3
      <4> QED
        BY <3>1, <4>1 DEF SettingsOf
    <3> HIDE DEF module
    <3>3. HeldModule(r, module) = <<>>
      BY <3>2 DEF HeldModule, RowsFrom
    <3> QED
      BY <3>3 DEF module
  <2>2. \A k \in (K + 1)..Len(rig.modules) : k \in 1..Len(rig.modules)
    BY <1>3
  <2> QED
    BY <1>4, <2>1, <2>2
<1> DEFINE front == SubSeq(H, 1, K)
           lines == [k \in DOMAIN front |-> Map(f, front[k])]
<1>6. /\ front \in Seq(Seq(S)) /\ DOMAIN front = 1..K
      /\ \A k \in 1..K : front[k] = HeldModule(r, rig.modules[k])
  <2>1. K \in 0..Len(H) /\ Len(H) \in Nat
    BY <1>3, <1>4
  <2> HIDE DEF H
  <2>2. front \in Seq(Seq(S)) /\ DOMAIN front = 1..K /\ \A k \in 1..K : front[k] = H[k]
    BY <1>4, <2>1
  <2>3. \A k \in 1..K : k \in 1..Len(rig.modules)
    BY <1>4, <2>1
  <2> QED
    BY <1>4, <2>2, <2>3
<1>7. FlattenSeq(H) = FlattenSeq(front)
  <2>1. K \in 0..Len(H)
    BY <1>3, <1>4
  <2> HIDE DEF H
  <2> QED
    BY <1>4, <1>5, <2>1, FlattenFront
<1>8. [k \in DOMAIN Sections(raw) |-> LinesOfSection(raw, Sections(raw)[k])] = lines
  <2>1. DOMAIN Sections(raw) = 1..K
    BY <1>3
  <2>2. ASSUME NEW k \in 1..K PROVE LinesOfSection(raw, Sections(raw)[k]) = Map(f, front[k])
    <3>1. k \in 1..Len(rig.modules)
      BY <1>3, CountPositive
    <3>2. k + 1 \in 1..Count(rig)
      BY <1>0, <3>1
    <3>3. Sound(capture, k + 1)
      BY <1>0, <3>2, SoundBefore
    <3>4. LinesOfSection(raw, Parsed(rig, k + 1)) = Map(f, HeldModule(r, rig.modules[k]))
      BY <1>1, <3>1, <3>2, <3>3, SectionLines
    <3> QED
      BY <1>6, <1>3, <3>4
  <2> DEFINE sections == Sections(raw)
  <2> HIDE DEF sections, front, f, raw
  <2> QED
    BY <1>6, <2>1, <2>2
<1>9. Maps(f, S, LineRows)
  BY LineOfType
<1>10. Map(f, FlattenSeq(front)) = FlattenSeq(lines)
  <2>1. front \in Seq(Seq(S))
    BY <1>6
  <2> HIDE DEF front, f, S
  <2>2. Map(f, FlattenSeq(front)) = FlattenSeq([k \in DOMAIN front |-> Map(f, front[k])])
    BY <1>9, <2>1, MapFlatten
  <2> QED
    BY <2>2
<1>11. PickedFrom(Held(r, rig), V) = PickedFrom(G, V) \o FlattenSeq(H)
  <2> DEFINE F == FlattenSeq(H)
  <2>1. F \in Seq(S)
    BY <1>4, FlattenSeqType
  <2>2. PickedFrom(F, V) = F
    BY <1>0, ModuleLines
  <2> HIDE DEF F, G, V, S
  <2>3. PickedFrom(G \o F, V) = PickedFrom(G, V) \o PickedFrom(F, V)
    BY <1>4, <2>1, PickedConcat
  <2> QED
    BY <1>4, <2>2, <2>3 DEF F
<1>12. PickedFrom(G, V) \in Seq(S)
  <2> HIDE DEF G, V, S
  <2> QED
    BY <1>4, MarksType DEF PickedFrom
<1>13. Map(f, PickedFrom(G, V) \o FlattenSeq(front)) = Map(f, PickedFrom(G, V)) \o Map(f, FlattenSeq(front))
  <2> DEFINE a == PickedFrom(G, V)
             b == FlattenSeq(front)
  <2>1. a \in Seq(S)
    BY <1>12
  <2>2. b \in Seq(S)
    BY <1>6, FlattenSeqType
  <2> HIDE DEF a, b, f, S
  <2>3. Map(f, a \o b) = Map(f, a) \o Map(f, b)
    BY <1>9, <2>1, <2>2, MapConcat
  <2> QED
    BY <2>3 DEF a, b
<1> DEFINE globals == PrintedGlobals(TableOfContents(raw))
<1>14. Map(f, PickedFrom(G, V)) = [i \in DOMAIN globals |-> Line("Global", 16, 0, globals[i])]
  BY <1>0, <1>1, GlobalLines
<1> DEFINE sections == Sections(raw)
<1>15. Summary(raw) = [i \in DOMAIN globals |-> Line("Global", 16, 0, globals[i])]
                        \o FlattenSeq([i \in DOMAIN sections |-> LinesOfSection(raw, sections[i])])
  <2> HIDE DEF raw
  <2> QED
    BY <1>1 DEF Summary
<1> HIDE DEF raw, G, H, V, f, front, lines, globals
<1> QED
  BY <1>7, <1>8, <1>10, <1>11, <1>13, <1>14, <1>15 DEF raw, V, f

\* The summary that print_rig_summary prints of any intact capture shows what
\* the device held.
THEOREM SummaryIsTheRig ==
    ASSUME ContentsAreRigs PROVE Spec => []SummaryShowsTheRig
<1>1. ASSUME ExportInv PROVE SummaryShowsTheRig
  <2> SUFFICES ASSUME NEW rig \in Rigs, files[rig] # None, Intact(files[rig])
               PROVE  LET all == Held(rig, files[rig].rig)
                          held == Picked(all, {i \in DOMAIN all : all[i].key \notin SlotTableKeys})
                      IN  Summary(Dump(files[rig])) =
                             [i \in DOMAIN held |->
                                 Line(held[i].slot, held[i].category, held[i].effect, held[i])]
    BY DEF SummaryShowsTheRig
  <2> DEFINE capture == files[rig]
             all == Held(rig, capture.rig)
             held == Picked(all, {i \in DOMAIN all : all[i].key \notin SlotTableKeys})
             S == RigRows(rig)
  <2>1. capture \in Captures
    BY <1>1 DEF ExportInv
  <2>2. Real(capture) /\ IsRig(capture.rig)
    BY <2>1, CapturesAreReal DEF Real
  <2>3. all \in Seq(S)
    <3>1. /\ HeldGlobals(rig, capture.rig) \in Seq(S)
          /\ HeldModules(rig, capture.rig) \in Seq(Seq(S))
          /\ all = HeldGlobals(rig, capture.rig) \o FlattenSeq(HeldModules(rig, capture.rig))
      BY <2>2, HeldParts
    <3>2. FlattenSeq(HeldModules(rig, capture.rig)) \in Seq(S)
      BY <3>1, FlattenSeqType
    <3> HIDE DEF all, S
    <3> QED
      BY <3>1, <3>2, ConcatProperties
  <2>4. Summary(Dump(capture)) = Map(LineOf(rig), PickedFrom(all, LineKeys(rig)))
    BY <2>2, SummaryOfDump
  <2> HIDE DEF all, S, capture
  <2>5. {i \in DOMAIN all : all[i].key \notin SlotTableKeys} = {i \in DOMAIN all : all[i] \in LineKeys(rig)}
    <3>1. \A i \in DOMAIN all : all[i] \in S
      BY <2>3
    <3> QED
      BY <3>1 DEF LineKeys, S
  <2>6. held = PickedFrom(all, LineKeys(rig))
    BY <2>5 DEF PickedFrom
  <2>7. held \in Seq(S)
    BY <2>3, MarksType
  <2> HIDE DEF held
  <2>8. \A i \in DOMAIN held : held[i] \in RigRows(rig)
    BY <2>7 DEF S
  <2>9. Map(LineOf(rig), held)
          = [i \in DOMAIN held |-> Line(held[i].slot, held[i].category, held[i].effect, held[i])]
    BY <2>8 DEF Map, LineOf
  <2> QED
    BY <2>4, <2>6, <2>9 DEF held, all, capture
<1> QED
  BY <1>1, ExportInvariance, PTL

=============================================================================
