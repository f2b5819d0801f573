-------------------------- MODULE AudioRing_proofs --------------------------
(***************************************************************************)
(* Proofs about AudioRing for every ring size, target fill and request     *)
(* size.  The work is in the inductive invariant IInv: the counters bound  *)
(* each other, the views the two sides took stay true while the other side *)
(* moves, and the cells between the counters hold the frames they should.  *)
(***************************************************************************)
EXTENDS AudioRing, RingSetup, TLAPS

LEMMA Constants ==
    /\ Frames \in Nat /\ Frames > 0
    /\ Target \in Nat
    /\ \A f \in Requests : f \in Nat
  BY RingAssumption

(***************************************************************************)
(* Two counters less than one ring apart never share a cell, which is what *)
(* lets er__wr and er__rd copy without a lock.                             *)
(***************************************************************************)
LEMMA SlotInjective ==
    ASSUME NEW i \in Nat, NEW j \in Nat, i < j, j < i + Frames
    PROVE  Slot(i) # Slot(j)
<1> DEFINE p == i \div Frames
           q == j \div Frames
<1>1. Frames \in Nat /\ Frames > 0
  BY RingAssumption
<1>2. /\ p \in Int /\ q \in Int
      /\ i = Frames * p + Slot(i)
      /\ j = Frames * q + Slot(j)
  BY <1>1 DEF Slot
<1> HIDE DEF p, q
<1>3. SUFFICES ASSUME Slot(i) = Slot(j) PROVE FALSE
  OBVIOUS
<1>4. Slot(i) \in Int
  BY <1>1 DEF Slot
<1>5. j - i = Frames * (q - p)
  BY <1>1, <1>2, <1>3, <1>4
<1>6. CASE q - p <= 0
  BY <1>1, <1>2, <1>5, <1>6
<1>7. CASE q - p >= 1
  <2>1. Frames * (q - p) >= Frames
    BY <1>1, <1>2, <1>7
  <2> QED BY <2>1, <1>1, <1>5
<1> QED BY <1>2, <1>6, <1>7

\* A counter's cell is a cell of the array.
LEMMA SlotRange == ASSUME NEW i \in Nat PROVE Slot(i) \in 0..(Frames - 1)
  BY RingAssumption DEF Slot

(***************************************************************************)
(* Reduction modulo 2^32 is the identity on what fits: the truncations of  *)
(* er__avail and er__space lose nothing while the fill bound holds.        *)
(***************************************************************************)
LEMMA NoTruncation == ASSUME NEW x \in 0..Frames PROVE x % Word = x
<1>1. Word \in Nat /\ x \in Nat /\ x < Word /\ Word > 0
  BY RingAssumption
<1> QED BY <1>1

LEMMA CountsExact ==
    ASSUME NEW w \in Nat, NEW r \in Nat, r <= w, w <= r + Frames
    PROVE  Avail(w, r) = w - r /\ Space(w, r) = Frames - (w - r)
<1>1. w - r \in 0..Frames /\ Frames - (w - r) \in 0..Frames
  BY RingAssumption
<1> QED BY <1>1, NoTruncation DEF Avail, Space

(***************************************************************************)
(* The skip of er_in_read moves the read position forward to frames plus   *)
(* Target behind what the reader saw, and never past it.                   *)
(***************************************************************************)
LEMMA SkipMeetsTarget ==
    ASSUME NEW w \in Nat, NEW r \in Nat, NEW f \in Nat, r <= w
    PROVE  /\ Skip(w - r, f) \in Nat
           /\ Skip(w - r, f) <= w - r
           /\ r + Skip(w - r, f) = Larger(r, w - (f + Target))
<1>1. Target \in Nat
  BY Constants
<1>2. CASE w - r > f + Target
  BY <1>1, <1>2 DEF Skip, Larger
<1>3. CASE ~(w - r > f + Target)
  BY <1>1, <1>3 DEF Skip, Larger
<1> QED BY <1>2, <1>3

\* What a reader copies lies between its read position and what it saw.
LEMMA ReadInterval ==
    ASSUME NEW w \in Nat, NEW r \in Nat, NEW f \in Nat, NEW a, NEW n, r <= w,
           a = Larger(r, w - (f + Target)), n = Smaller(f, w - a)
    PROVE  /\ a \in Nat /\ r <= a /\ a <= w
           /\ n \in Nat /\ a + n <= w
<1>1. Target \in Nat
  BY Constants
<1>2. a \in Nat /\ r <= a /\ a <= w
  BY <1>1 DEF Larger
<1> QED BY <1>2 DEF Smaller

-----------------------------------------------------------------------------

LEMMA InitInvariant == Init => IInv
  BY RingAssumption DEF Init, IInv, TypeOK, Cells, Stages, WriteCalls, ReadCalls,
     FillBound, ProducerView, ConsumerView, CellsHold, CopiedIntact, NoFrame

(***************************************************************************)
(* One lemma per side: a step of the producer, and a step of the consumer, *)
(* preserve the invariant.                                                 *)
(***************************************************************************)
LEMMA ProducerPreserves == IInv /\ Producer => IInv'
<1> SUFFICES ASSUME IInv, Producer PROVE IInv'
  OBVIOUS
<1> USE Constants DEF IInv
<1>0. /\ write \in Nat /\ read \in Nat /\ read <= write /\ write <= read + Frames
      /\ prod \in WriteCalls
      /\ prod.w \in Nat /\ prod.n \in Nat /\ prod.k \in Nat
  BY DEF TypeOK, FillBound, WriteCalls
<1>1. ASSUME NEW f \in Requests, BeginWrite(f) PROVE IInv'
  <2>1. prod' = [pc |-> "loaded", w |-> write, n |-> f, k |-> 0] /\ prod' \in WriteCalls
    BY <1>0, <1>1 DEF BeginWrite, WriteCalls, Stages
  <2> QED BY <1>1, <2>1 DEF BeginWrite, TypeOK, FillBound, ProducerView,
          ConsumerView, CellsHold, CopiedIntact
<1>2. CASE ClampToSpace
  <2> DEFINE n == Smaller(prod.n, Space(prod.w, read))
  <2>1. prod.pc = "loaded" /\ prod.w = write
    BY <1>2 DEF ClampToSpace, ProducerView
  <2>2. n \in Nat /\ write + n <= read + Frames
    BY <1>0, <2>1, CountsExact DEF Smaller
  <2>3. prod' = [prod EXCEPT !.pc = "copy", !.n = n]
    BY <1>2 DEF ClampToSpace
  <2> HIDE DEF n
  <2>4. prod' \in WriteCalls /\ prod'.pc = "copy" /\ prod'.w = write /\ prod'.n = n /\ prod'.k = prod.k
    BY <1>0, <2>1, <2>2, <2>3 DEF WriteCalls, Stages
  <2>5. prod.k = 0
    BY <2>1 DEF ProducerView
  <2>6. UNCHANGED <<cell, write, read, cons, taken>>
    BY <1>2 DEF ClampToSpace
  <2>7. TypeOK'
    BY <2>4, <2>6 DEF TypeOK
  <2>8. ProducerView'
    BY <2>2, <2>4, <2>5, <2>6 DEF ProducerView
  <2>9. CellsHold'
    BY <1>0, <2>4, <2>5, <2>6 DEF CellsHold
  <2> QED BY <2>6, <2>7, <2>8, <2>9 DEF FillBound, ConsumerView, CopiedIntact
<1>3. CASE CopyIn
  <2>1. /\ prod.pc = "copy" /\ prod.w = write /\ prod.k < prod.n
        /\ write + prod.n <= read + Frames
    BY <1>3 DEF CopyIn, ProducerView
  <2> DEFINE c == write + prod.k
  <2>2. c \in Nat /\ Slot(c) \in 0..(Frames - 1)
    BY <1>0, SlotRange
  <2>3. cell' = [cell EXCEPT ![Slot(c)] = c] /\ prod' = [prod EXCEPT !.k = prod.k + 1]
    BY <1>3, <2>1 DEF CopyIn
  <2>4. UNCHANGED <<write, read, cons, taken>>
    BY <1>3 DEF CopyIn
  <2>5. ASSUME NEW i \in Nat, read <= i, i < c PROVE cell'[Slot(i)] = cell[Slot(i)]
    <3>1. Slot(i) # Slot(c)
      BY <1>0, <2>1, <2>2, <2>5, SlotInjective
    <3> QED BY <3>1, <2>2, <2>3, <2>5, SlotRange DEF TypeOK, Cells
  <2>6. cell'[Slot(c)] = c
    BY <2>2, <2>3 DEF TypeOK, Cells
  <2>7. \A i \in read..(write - 1) : cell'[Slot(i)] = i
    BY <1>0, <2>5 DEF CellsHold
  <2>8. \A i \in write..(write + prod.k) : cell'[Slot(i)] = i
    BY <1>0, <2>1, <2>5, <2>6 DEF CellsHold
  <2>9. prod' \in WriteCalls /\ prod'.pc = "copy" /\ prod'.w = write
        /\ prod'.n = prod.n /\ prod'.k = prod.k + 1
    BY <1>0, <2>1, <2>3 DEF WriteCalls
  <2>10. CellsHold'
    BY <1>0, <2>4, <2>7, <2>8, <2>9 DEF CellsHold
  <2>11. cell' \in Cells
    BY <2>2, <2>3 DEF TypeOK, Cells
  <2>12. ProducerView'
    BY <1>0, <2>1, <2>4, <2>9 DEF ProducerView
  <2> QED BY <2>4, <2>9, <2>10, <2>11, <2>12 DEF TypeOK, FillBound,
          ConsumerView, CopiedIntact
<1>4. CASE PublishWrite
  <2>1. /\ prod.pc = "copy" /\ prod.w = write /\ prod.k = prod.n
        /\ write + prod.n <= read + Frames
        /\ write' = write + prod.n
    BY <1>4 DEF PublishWrite, ProducerView
  <2>2. UNCHANGED <<cell, read, cons, taken>> /\ prod' = [prod EXCEPT !.pc = "idle"]
    BY <1>4 DEF PublishWrite
  <2>3. prod' \in WriteCalls /\ prod'.pc = "idle"
    BY <1>0, <2>2 DEF WriteCalls, Stages
  <2>4. \A i \in read..(write' - 1) : cell[Slot(i)] = i
    BY <1>0, <2>1 DEF CellsHold
  <2>5. CellsHold'
    BY <2>2, <2>3, <2>4 DEF CellsHold
  <2>6. TypeOK' /\ FillBound' /\ ProducerView'
    BY <1>0, <2>1, <2>2, <2>3 DEF TypeOK, FillBound, ProducerView
  <2>7. ConsumerView' /\ CopiedIntact'
    <3>1. cons.w \in Nat
      BY DEF TypeOK, ReadCalls
    <3> QED BY <1>0, <2>1, <2>2, <3>1 DEF ConsumerView, CopiedIntact
  <2> QED BY <2>5, <2>6, <2>7
<1> QED BY <1>1, <1>2, <1>3, <1>4 DEF Producer

LEMMA ConsumerPreserves == IInv /\ Consumer => IInv'
<1> SUFFICES ASSUME IInv, Consumer PROVE IInv'
  OBVIOUS
<1> USE Constants DEF IInv
<1>0. /\ write \in Nat /\ read \in Nat /\ read <= write /\ write <= read + Frames
      /\ cons \in ReadCalls
      /\ cons.w \in Nat /\ cons.rd \in Nat /\ cons.f \in Nat /\ cons.n \in Nat
      /\ cons.dst \in Seq(Nat \cup {NoFrame}) /\ Len(cons.dst) \in Nat
  BY DEF TypeOK, FillBound, ReadCalls
<1>i. cons.pc = "copy" =>
        /\ read <= cons.rd /\ cons.rd + cons.n <= cons.w /\ cons.w <= write
        /\ Len(cons.dst) <= cons.n
  <2> SUFFICES ASSUME cons.pc = "copy"
               PROVE  /\ read <= cons.rd /\ cons.rd + cons.n <= cons.w
                      /\ cons.w <= write /\ Len(cons.dst) <= cons.n
    OBVIOUS
  <2>1. /\ read <= cons.w /\ cons.w <= write
        /\ cons.rd = Larger(read, cons.w - (cons.f + Target))
        /\ cons.n = Smaller(cons.f, cons.w - cons.rd)
        /\ Len(cons.dst) <= cons.n
    BY DEF ConsumerView
  <2> QED BY <1>0, <2>1, ReadInterval
<1>1. ASSUME NEW f \in Requests, BeginRead(f) PROVE IInv'
  <2>1. cons' = [pc |-> "loaded", w |-> write, rd |-> 0, f |-> f, n |-> 0, dst |-> <<>>]
    BY <1>1 DEF BeginRead
  <2>2. UNCHANGED <<cell, write, read, prod, taken>>
    BY <1>1 DEF BeginRead
  <2>3. cons' \in ReadCalls
    BY <1>0, <2>1 DEF ReadCalls, Stages
  <2>4. ConsumerView' /\ CopiedIntact'
    BY <1>0, <2>1, <2>2 DEF ConsumerView, CopiedIntact
  <2> QED BY <2>2, <2>3, <2>4 DEF TypeOK, FillBound, ProducerView, CellsHold
<1>2. CASE ClampToAvail
  <2> DEFINE avail == cons.w - read
             drop  == Skip(avail, cons.f)
             n     == Smaller(cons.f, avail - drop)
  <2>1. /\ cons.pc = "loaded" /\ cons.f \in Requests /\ cons.dst = <<>>
        /\ read <= cons.w /\ cons.w <= write
        /\ cons.w \in Nat /\ read \in Nat /\ cons.f \in Nat
    BY <1>0, <1>2 DEF ClampToAvail, ConsumerView
  <2>2. Avail(cons.w, read) = avail
    BY <1>0, <2>1, CountsExact
  <2>3. drop \in Nat /\ drop <= avail /\ read + drop = Larger(read, cons.w - (cons.f + Target))
    BY <2>1, SkipMeetsTarget, SMTT(60)
  <2>4. cons' = [cons EXCEPT !.pc = "copy", !.rd = read + drop, !.n = n]
    BY <1>2, <2>2 DEF ClampToAvail
  <2> HIDE DEF drop
  <2>5. n \in Nat /\ n = Smaller(cons.f, cons.w - (read + drop))
    BY <2>1, <2>3 DEF Smaller
  <2> HIDE DEF n, avail
  <2>6. UNCHANGED <<cell, write, read, prod, taken>>
    BY <1>2 DEF ClampToAvail
  <2>7. /\ cons' \in ReadCalls
        /\ cons'.pc = "copy" /\ cons'.rd = read + drop /\ cons'.w = cons.w
        /\ cons'.f = cons.f /\ cons'.dst = <<>> /\ cons'.n = n
    <3>1. cons' \in ReadCalls
      <4>1. read + drop \in Nat /\ n \in Nat /\ cons \in ReadCalls
        BY <1>0, <2>1, <2>3, <2>5
      <4> DEFINE a == read + drop
      <4> HIDE DEF a
      <4>2. a \in Nat /\ cons' = [cons EXCEPT !.pc = "copy", !.rd = a, !.n = n]
        BY <4>1, <2>4 DEF a
      <4> QED BY <4>1, <4>2 DEF ReadCalls, Stages
    <3> QED BY <1>0, <2>1, <2>4, <3>1 DEF ReadCalls
  <2>8. ConsumerView'
    BY <1>0, <2>1, <2>3, <2>5, <2>6, <2>7 DEF ConsumerView
  <2>9. CopiedIntact'
    BY <2>7 DEF CopiedIntact
  <2> QED BY <2>6, <2>7, <2>8, <2>9 DEF TypeOK, FillBound, ProducerView, CellsHold
<1>3. CASE CopyOut
  <2> DEFINE c == cons.rd + Len(cons.dst)
  <2>1. cons.pc = "copy" /\ Len(cons.dst) < cons.n
    BY <1>3 DEF CopyOut
  <2>2. c \in read..(write - 1) /\ c \in Nat
    <3> DEFINE l == Len(cons.dst)
    <3>1. /\ read \in Nat /\ write \in Nat /\ cons.rd \in Int /\ cons.n \in Int /\ l \in Nat
          /\ cons.w \in Nat
      BY <1>0 DEF ReadCalls
    <3>2. read <= cons.rd /\ cons.rd + cons.n <= cons.w /\ cons.w <= write /\ l < cons.n
      BY <1>i, <2>1
    <3> HIDE DEF l
    <3>3. cons.rd + l \in read..(write - 1) /\ cons.rd + l \in Nat
      BY ONLY <3>1, <3>2
    <3> QED
      BY <3>3 DEF l
  <2>3. cell[Slot(c)] = c
    BY <2>2 DEF CellsHold
  <2>4. cons' = [cons EXCEPT !.dst = Append(cons.dst, c)]
    BY <1>3, <2>3 DEF CopyOut
  <2>5. UNCHANGED <<cell, write, read, prod, taken>>
    BY <1>3 DEF CopyOut
  <2>6. Append(cons.dst, c) \in Seq(Nat \cup {NoFrame})
    BY <1>0, <2>2
  <2>7. /\ cons' \in ReadCalls /\ cons'.pc = "copy" /\ cons'.rd = cons.rd
        /\ cons'.w = cons.w /\ cons'.f = cons.f /\ cons'.n = cons.n
        /\ cons'.dst = Append(cons.dst, c)
    BY <1>0, <2>1, <2>4, <2>6 DEF ReadCalls
  <2>8. CopiedIntact'
    <3> DEFINE dst == cons.dst
               d == Append(dst, c)
    <3>1. /\ dst \in Seq(Nat \cup {NoFrame}) /\ cons.rd \in Nat /\ c = cons.rd + Len(dst)
          /\ \A i \in DOMAIN dst : dst[i] = cons.rd + i - 1
      BY <1>0, <2>1 DEF CopiedIntact, ReadCalls
    <3> HIDE DEF dst, c
    <3>2. \A i \in DOMAIN d : d[i] = cons.rd + i - 1
      BY ONLY <3>1
    <3> QED
      BY <2>7, <3>2 DEF CopiedIntact, dst
  <2>9. ConsumerView'
    BY <1>0, <2>1, <2>5, <2>7, SMTT(60) DEF ConsumerView
  <2> QED BY <2>5, <2>7, <2>8, <2>9 DEF TypeOK, FillBound, ProducerView, CellsHold
<1>4. CASE PublishRead
  <2>1. cons.pc = "copy" /\ read' = cons.rd + cons.n /\ taken' = cons.dst
    BY <1>4 DEF PublishRead
  <2>2. UNCHANGED <<cell, write, prod>> /\ cons' = [cons EXCEPT !.pc = "idle"]
    BY <1>4 DEF PublishRead
  <2>3. cons' \in ReadCalls /\ cons'.pc = "idle"
    BY <1>0, <2>2 DEF ReadCalls, Stages
  <2>4. read' \in Nat /\ read <= read' /\ read' <= write
    BY <1>0, <1>i, <2>1, SMTT(60)
  <2>5. TypeOK'
    BY <1>0, <2>1, <2>2, <2>3, <2>4 DEF TypeOK
  <2>6. CellsHold'
    BY <1>0, <2>2, <2>4 DEF CellsHold
  <2>7. ProducerView'
    <3>1. prod.n \in Nat
      BY DEF TypeOK, WriteCalls
    <3> QED BY <1>0, <2>2, <2>4, <3>1 DEF ProducerView
  <2>8. FillBound' /\ ConsumerView' /\ CopiedIntact'
    BY <1>0, <2>2, <2>3, <2>4 DEF FillBound, ConsumerView, CopiedIntact
  <2> QED BY <2>5, <2>6, <2>7, <2>8
<1> QED BY <1>1, <1>2, <1>3, <1>4 DEF Consumer

(***************************************************************************)
(* The invariant holds in every reachable state, with any bound on the     *)
(* write counter.                                                          *)
(***************************************************************************)
THEOREM Invariance == Spec => []IInv
<1>1. IInv /\ [Next]_vars => IInv'
  <2>1. IInv /\ UNCHANGED vars => IInv'
    BY DEF IInv, vars, TypeOK, FillBound, ProducerView, ConsumerView, CellsHold,
       CopiedIntact
  <2> QED BY <2>1, ProducerPreserves, ConsumerPreserves DEF Next
<1> QED BY <1>1, InitInvariant, PTL DEF Spec

(***************************************************************************)
(* Type correctness, and the safety properties the model checker checks on *)
(* a ring of four frames, for a ring of any size.                          *)
(***************************************************************************)
THEOREM TypeCorrect == Spec => []TypeOK
  BY Invariance, PTL DEF IInv

\* The counters never drift more than a ring apart, so er__avail and er__space
\* never truncate anything away.
THEOREM FillStaysBounded == Spec => []FillBound
  BY Invariance, PTL DEF IInv

\* What a read has copied is what it meant to copy: no frame is torn by a
\* write that runs at the same time.
THEOREM ReadsAreIntact == Spec => []CopiedIntact
  BY Invariance, PTL DEF IInv

LEMMA ReadingInside == IInv => ReadWithinAvailable
<1> SUFFICES ASSUME IInv, cons.pc = "copy"
             PROVE  read <= cons.rd /\ cons.rd + cons.n <= cons.w
  BY DEF ReadWithinAvailable
<1>1. cons.w \in Nat /\ read \in Nat /\ cons.f \in Nat
  BY DEF IInv, TypeOK, ReadCalls
<1>2. /\ read <= cons.w
      /\ cons.rd = Larger(read, cons.w - (cons.f + Target))
      /\ cons.n = Smaller(cons.f, cons.w - cons.rd)
  BY DEF IInv, ConsumerView
<1> QED BY <1>1, <1>2, ReadInterval

\* A read copies only frames the producer had published when it looked.
THEOREM ReadsStayInside == Spec => []ReadWithinAvailable
  BY Invariance, ReadingInside, PTL

LEMMA CellsDisjoint == IInv => NoSharedCell
<1> SUFFICES ASSUME IInv, prod.pc = "copy", cons.pc = "copy",
                    NEW i \in 0..(prod.n - 1), NEW j \in 0..(cons.n - 1)
             PROVE  Slot(prod.w + i) # Slot(cons.rd + j)
  BY DEF NoSharedCell
<1>1. /\ write \in Nat /\ read \in Nat /\ cons.w \in Nat /\ cons.rd \in Nat
      /\ cons.n \in Nat /\ prod.n \in Nat
  BY DEF IInv, TypeOK, ReadCalls, WriteCalls
<1>2. read <= cons.rd /\ cons.rd + cons.n <= cons.w /\ cons.w <= write
  BY ReadingInside DEF IInv, ReadWithinAvailable, ConsumerView
<1>3. prod.w = write /\ write + prod.n <= read + Frames
  BY DEF IInv, ProducerView
<1> DEFINE a == cons.rd + j
           b == write + i
<1>4. a \in Nat /\ b \in Nat /\ a < b /\ b < a + Frames
  BY <1>1, <1>2, <1>3, Constants
<1> HIDE DEF a, b
<1>5. Slot(a) # Slot(b)
  BY <1>4, SlotInjective
<1> QED BY <1>3, <1>5 DEF a, b

\* The unlocked memcpys of the two processes never touch the same cell.
THEOREM CopiesNeverRace == Spec => []NoSharedCell
  BY Invariance, CellsDisjoint, PTL

\* A read never leaves more than Target frames of what it saw behind.
THEOREM BacklogStaysBounded == Spec => BacklogBounded
<1>1. IInv /\ [Next]_vars => [cons.pc = "copy" /\ cons'.pc = "idle" => cons.w - read' <= Target]_vars
  <2> SUFFICES ASSUME IInv, [Next]_vars, cons.pc = "copy", cons'.pc = "idle"
               PROVE  cons.w - read' <= Target
    BY DEF vars
  <2>1. PublishRead
    <3>1. CASE UNCHANGED vars
      BY <3>1 DEF vars
    <3>2. CASE Producer
      BY <3>2 DEF Producer, BeginWrite, ClampToSpace, CopyIn, PublishWrite
    <3>3. CASE \E f \in Requests : BeginRead(f)
      BY <3>3 DEF BeginRead
    <3>4. CASE ClampToAvail
      BY <3>4 DEF ClampToAvail
    <3>5. CASE CopyOut
      <4>1. cons'.pc = cons.pc
        BY <3>5 DEF CopyOut, IInv, TypeOK, ReadCalls
      <4> QED BY <4>1
    <3> QED BY <3>1, <3>2, <3>3, <3>4, <3>5 DEF Next, Consumer
  <2>2. /\ cons.w \in Nat /\ read \in Nat /\ cons.f \in Nat
        /\ read <= cons.w
        /\ cons.rd = Larger(read, cons.w - (cons.f + Target))
        /\ cons.n = Smaller(cons.f, cons.w - cons.rd)
    BY DEF IInv, TypeOK, ReadCalls, ConsumerView
  <2>3. read' = cons.rd + cons.n
    BY <2>1 DEF PublishRead
  <2> QED BY <2>2, <2>3, Constants DEF Larger, Smaller
<1> QED BY <1>1, Invariance, PTL DEF Spec, BacklogBounded

-----------------------------------------------------------------------------

(***************************************************************************)
(* The ring implements the abstract stream: publishing a write is a Put,   *)
(* publishing a read is a Take, and every other step is invisible.         *)
(***************************************************************************)
LEMMA StreamStep == IInv /\ [Next]_vars => [Stream!Next]_<<write, read, taken>>
<1> SUFFICES ASSUME IInv, [Next]_vars PROVE [Stream!Next]_<<write, read, taken>>
  OBVIOUS
<1>1. CASE UNCHANGED vars
  BY <1>1 DEF vars
<1>2. CASE Producer
  <2>1. CASE PublishWrite
    <3>1. /\ prod.n \in Nat /\ write \in Nat /\ read \in Nat
          /\ prod.w = write /\ write + prod.n <= read + Frames /\ read <= write
      BY <2>1 DEF PublishWrite, IInv, TypeOK, WriteCalls, ProducerView, FillBound
    <3>2. write' = write + prod.n /\ UNCHANGED <<read, taken>>
      BY <2>1, <3>1 DEF PublishWrite
    <3>3. prod.n \in 0..Frames
      BY <3>1, Constants
    <3>4. Stream!Put(prod.n)
      BY <3>1, <3>2, Constants DEF Stream!Put
    <3> QED BY <3>3, <3>4 DEF Stream!Next
  <2> QED BY <1>2, <2>1 DEF Producer, BeginWrite, ClampToSpace, CopyIn
<1>3. CASE Consumer
  <2>1. CASE PublishRead
    <3>1. /\ cons.w \in Nat /\ read \in Nat /\ write \in Nat
          /\ cons.f \in Requests /\ cons.f \in Nat /\ cons.n \in Nat
          /\ read <= cons.w /\ cons.w <= write
      BY <2>1 DEF PublishRead, IInv, TypeOK, ReadCalls, ConsumerView
    <3>2. /\ cons.rd = Stream!ReadStart(read, cons.w, cons.f)
          /\ cons.n = Stream!ReadCount(read, cons.w, cons.f)
      BY <2>1 DEF PublishRead, IInv, ConsumerView, Larger, Smaller,
         Stream!ReadStart, Stream!ReadCount, Stream!Larger, Stream!Smaller
    <3>3. cons.dst = [i \in 1..cons.n |-> cons.rd + i - 1]
      <4>1. /\ cons.dst \in Seq(Nat \cup {NoFrame}) /\ Len(cons.dst) = cons.n
            /\ \A i \in DOMAIN cons.dst : cons.dst[i] = cons.rd + i - 1
        BY <2>1 DEF PublishRead, IInv, TypeOK, ReadCalls, CopiedIntact
      <4>2. DOMAIN cons.dst = 1..cons.n /\ cons.dst = [i \in 1..cons.n |-> cons.dst[i]]
        BY <4>1
      <4> QED BY <4>1, <4>2
    <3>4. read' = cons.rd + cons.n /\ taken' = cons.dst /\ UNCHANGED write
      BY <2>1 DEF PublishRead
    <3>5. cons.w \in read..write
      BY <3>1
    <3>6. Stream!Take(cons.f, cons.w)
      BY <3>2, <3>3, <3>4 DEF Stream!Take
    <3> QED BY <3>1, <3>5, <3>6 DEF Stream!Next
  <2> QED BY <1>3, <2>1 DEF Consumer, BeginRead, ClampToAvail, CopyOut
<1> QED BY <1>1, <1>2, <1>3 DEF Next

\* Each side of the ring sees an ordered stream: frames are delivered in the
\* order they were published, at most once, and only the oldest are dropped.
THEOREM RingImplementsStream == Spec => StreamSpec
<1>1. Init => Stream!Init
  BY DEF Init, Stream!Init
<1> QED BY <1>1, StreamStep, Invariance, PTL DEF Spec, StreamSpec, Stream!Spec, Stream!svars

-----------------------------------------------------------------------------
(***************************************************************************)
(* RingSetup, for any clients and any number of objects: the only object   *)
(* that ever carries this build's magic is the one that has the name, and  *)
(* it carries it only while it is whole.                                   *)
(***************************************************************************)

EngineType == [pc : {"down", "opened", "sized", "wipe", "fill", "publish", "ready", "noRing"},
               on : Int, first : BOOLEAN]
ClientType == [pc : {"detached", "opened", "attached"}, on : Int]

SetupTypeOK ==
    /\ objects \in [Ids -> Objects]
    /\ made \in Nat /\ made <= MaxObjects /\ name \in 0..made
    /\ engine \in EngineType
    /\ client \in [Clients -> ClientType]

\* Objects that nobody has created are untouched.
Untouched == \A i \in Ids : i > made => objects[i] = Fresh

\* An object with this build's magic is whole, and it is the one with the name.
MagicMeansWhole ==
    \A i \in Ids : objects[i].magic = "current" => i = name /\ Initialised(i)

\* What the engine knows of its object at each step of er_ring_create.
EngineKnows ==
    /\ engine.on \in {0, name}
    /\ engine.pc \notin {"down", "noRing"} => engine.on \in Ids
    /\ engine.pc \in {"opened", "sized"} /\ engine.first
         => objects[engine.on].magic = "none"
    /\ engine.pc \in {"wipe", "fill", "publish"}
         => objects[engine.on].magic # "current"
    /\ engine.pc \in {"sized", "wipe", "fill", "publish"}
         => objects[engine.on].size = "full"
    /\ engine.pc = "publish" => objects[engine.on].header = "stored"

\* A client has one of the objects open; one that is attached found the magic
\* there.
ClientsKnow ==
    \A c \in Clients :
        /\ client[c].pc # "detached" => client[c].on \in Ids
        /\ client[c].pc = "attached" => objects[client[c].on].magic = "current"

SetupInv == SetupTypeOK /\ Untouched /\ MagicMeansWhole /\ EngineKnows /\ ClientsKnow

LEMMA SetupInitInvariant == ASSUME SetupInit PROVE SetupInv
<1> USE SetupAssumption
<1>1. Fresh \in Objects /\ Legacy \subseteq Objects /\ 1 \in Ids
  BY DEF Fresh, Legacy, Objects, Ids
<1>2. \A left \in Legacy : left.magic # "current"
  BY DEF Legacy
<1>3. Fresh.magic = "none"
  BY DEF Fresh
<1>4. SetupTypeOK
  BY <1>1 DEF SetupInit, SetupTypeOK, EngineType, ClientType
<1>5. Untouched
  BY DEF SetupInit, Untouched
<1>6. MagicMeansWhole
  BY <1>2, <1>3 DEF SetupInit, MagicMeansWhole
<1>7. EngineKnows /\ ClientsKnow
  BY DEF SetupInit, EngineKnows, ClientsKnow
<1> QED
  BY <1>4, <1>5, <1>6, <1>7 DEF SetupInv

-----------------------------------------------------------------------------
(* Every step of the engine preserves the invariant.                       *)

LEMMA OpenPreserves == ASSUME SetupInv, OpenOrCreate PROVE SetupInv'
<1> USE SetupAssumption DEF SetupInv
<1>1. CASE name # 0 /\ engine' = [pc |-> "opened", on |-> name, first |-> FALSE]
            /\ UNCHANGED <<objects, name, made, client>>
  <2>1. name \in Ids
    BY <1>1 DEF SetupTypeOK, Ids
  <2> QED
    BY <1>1, <2>1 DEF SetupTypeOK, EngineType, Untouched, MagicMeansWhole, Initialised,
                      EngineKnows, ClientsKnow
<1>2. CASE /\ name = 0 /\ made < MaxObjects
           /\ made' = made + 1 /\ name' = made'
           /\ engine' = [pc |-> "opened", on |-> made', first |-> TRUE]
           /\ UNCHANGED <<objects, client>>
  <2>1. made' \in Ids /\ made' > made /\ name' = made' /\ name' \in 0..made' /\ made' \in Nat
    BY <1>2 DEF SetupTypeOK, Ids
  <2>2. objects[made'].magic = "none"
    BY <2>1 DEF Untouched, Fresh
  <2>3. \A i \in Ids : objects[i].magic # "current"
    BY <1>2 DEF MagicMeansWhole, Ids
  <2>4. SetupTypeOK'
    BY <1>2, <2>1 DEF SetupTypeOK, EngineType
  <2>5. Untouched' /\ MagicMeansWhole'
    BY <1>2, <2>1, <2>3 DEF Untouched, MagicMeansWhole, SetupTypeOK, Ids
  <2>6. EngineKnows' /\ ClientsKnow'
    BY <1>2, <2>1, <2>2 DEF EngineKnows, ClientsKnow
  <2> QED
    BY <2>4, <2>5, <2>6
<1> QED
  BY <1>1, <1>2 DEF OpenOrCreate

LEMMA SizingPreserves == ASSUME SetupInv, SizingFails PROVE SetupInv'
<1> USE SetupAssumption DEF SetupInv, SizingFails
<1>1. SetupTypeOK' /\ Untouched'
  BY DEF SetupTypeOK, EngineType, Untouched
<1>2. engine.on \in Ids /\ engine.on = name
  BY DEF EngineKnows, Ids
<1>3. engine.first => \A i \in Ids : objects[i].magic # "current"
  BY <1>2 DEF EngineKnows, MagicMeansWhole
<1>4. MagicMeansWhole'
  BY <1>3 DEF MagicMeansWhole, Initialised
<1>5. EngineKnows' /\ ClientsKnow'
  BY DEF EngineKnows, ClientsKnow
<1> QED
  BY <1>1, <1>4, <1>5

\* The steps that write to the object the engine has open.
LEMMA StorePreserves ==
    ASSUME SetupInv, Resize \/ Wipe \/ FillHeader \/ PublishMagic
    PROVE  SetupInv'
<1> USE SetupAssumption DEF SetupInv
<1> DEFINE On == engine.on
           Was == objects[On]
           To(size, magic, header) == [size |-> size, magic |-> magic, header |-> header]
<1>1. /\ engine.pc \in {"opened", "wipe", "fill", "publish"}
      /\ UNCHANGED <<name, made, client>>
  BY DEF Resize, Wipe, FillHeader, PublishMagic
<1>2. On \in Ids /\ On = name /\ made \in Nat /\ name \in Nat /\ name <= made
  BY <1>1 DEF EngineKnows, Ids, SetupTypeOK
<1>3. /\ Was \in Objects /\ engine \in EngineType
      /\ Was = To(Was.size, Was.magic, Was.header)
  BY <1>2 DEF SetupTypeOK, Objects
<1>4. ASSUME NEW to \in Objects, objects' = [objects EXCEPT ![On] = to],
             NEW pc \in {"sized", "fill", "publish", "ready"},
             engine' = [engine EXCEPT !.pc = pc],
             to.magic = "current" => to.size = "full" /\ to.header = "stored"
      PROVE  /\ SetupTypeOK' /\ Untouched' /\ MagicMeansWhole'
             /\ objects'[On] = to /\ engine'.on = On /\ engine'.pc = pc
             /\ engine'.first = engine.first
  <2>1. objects'[On] = to /\ \A i \in Ids \ {On} : objects'[i] = objects[i]
    BY <1>2, <1>4 DEF SetupTypeOK
  <2>2. SetupTypeOK'
    BY <1>1, <1>3, <1>4 DEF SetupTypeOK, EngineType
  <2>3. Untouched'
    BY <1>1, <1>2, <2>1 DEF Untouched, Ids
  <2>4. MagicMeansWhole'
    BY <1>1, <1>2, <1>4, <2>1 DEF MagicMeansWhole, Initialised
  <2> QED
    BY <1>3, <1>4, <2>1, <2>2, <2>3, <2>4 DEF EngineType
<1>5. ASSUME NEW to \in Objects, objects' = [objects EXCEPT ![On] = to],
             to.magic = Was.magic \/ Was.magic # "current"
      PROVE  ClientsKnow'
  BY <1>1, <1>2, <1>5 DEF ClientsKnow, SetupTypeOK
<1>6. CASE Resize
  <2>1. /\ objects' = [objects EXCEPT ![On] = To("full", Was.magic, Was.header)]
        /\ To("full", Was.magic, Was.header) \in Objects
        /\ engine' = [engine EXCEPT !.pc = "sized"] /\ engine.pc = "opened"
    <3>1. [Was EXCEPT !.size = "full"] = To("full", Was.magic, Was.header)
      BY <1>3
    <3>2. To("full", Was.magic, Was.header) \in Objects
      BY <1>3 DEF Objects
    <3>3. objects' = [objects EXCEPT ![On] = [Was EXCEPT !.size = "full"]]
      BY <1>2, <1>6 DEF Resize, SetupTypeOK
    <3> QED
      BY <1>6, <3>1, <3>2, <3>3 DEF Resize
  <2>2. Was.magic = "current" => Was.header = "stored"
    BY <1>2 DEF MagicMeansWhole, Initialised
  <2>3. /\ SetupTypeOK' /\ Untouched' /\ MagicMeansWhole' /\ ClientsKnow'
        /\ objects'[On] = To("full", Was.magic, Was.header)
        /\ engine'.on = On /\ engine'.pc = "sized" /\ engine'.first = engine.first
    BY <1>4, <1>5, <2>1, <2>2
  <2>4. EngineKnows'
    BY <1>1, <1>2, <2>1, <2>3 DEF EngineKnows
  <2> QED
    BY <2>3, <2>4
<1>7. CASE Wipe
  <2>1. /\ objects' = [objects EXCEPT ![On] = To(Was.size, "none", "none")]
        /\ To(Was.size, "none", "none") \in Objects
        /\ engine' = [engine EXCEPT !.pc = "fill"] /\ engine.pc = "wipe"
    <3>1. To(Was.size, "none", "none") \in Objects
      BY <1>3 DEF Objects
    <3> QED
      BY <1>2, <1>7, <3>1 DEF Wipe, SetupTypeOK
  <2>2. Was.magic # "current" /\ Was.size = "full"
    BY <2>1 DEF EngineKnows
  <2>3. /\ SetupTypeOK' /\ Untouched' /\ MagicMeansWhole' /\ ClientsKnow'
        /\ objects'[On] = To(Was.size, "none", "none")
        /\ engine'.on = On /\ engine'.pc = "fill" /\ engine'.first = engine.first
    BY <1>4, <1>5, <2>1, <2>2
  <2>4. EngineKnows'
    BY <1>1, <1>2, <2>2, <2>3 DEF EngineKnows
  <2> QED
    BY <2>3, <2>4
<1>8. CASE FillHeader
  <2>1. /\ objects' = [objects EXCEPT ![On] = To(Was.size, Was.magic, "stored")]
        /\ To(Was.size, Was.magic, "stored") \in Objects
        /\ engine' = [engine EXCEPT !.pc = "publish"] /\ engine.pc = "fill"
    <3>1. [Was EXCEPT !.header = "stored"] = To(Was.size, Was.magic, "stored")
      BY <1>3 DEF Objects
    <3>2. To(Was.size, Was.magic, "stored") \in Objects
      BY <1>3 DEF Objects
    <3>3. objects' = [objects EXCEPT ![On] = [Was EXCEPT !.header = "stored"]]
      BY <1>2, <1>8 DEF FillHeader, SetupTypeOK
    <3> QED
      BY <1>8, <3>1, <3>2, <3>3 DEF FillHeader
  <2>2. Was.magic # "current" /\ Was.size = "full"
    BY <2>1 DEF EngineKnows
  <2>3. /\ SetupTypeOK' /\ Untouched' /\ MagicMeansWhole' /\ ClientsKnow'
        /\ objects'[On] = To(Was.size, Was.magic, "stored")
        /\ engine'.on = On /\ engine'.pc = "publish" /\ engine'.first = engine.first
    BY <1>4, <1>5, <2>1, <2>2
  <2>4. EngineKnows'
    BY <1>1, <1>2, <2>2, <2>3 DEF EngineKnows
  <2> QED
    BY <2>3, <2>4
<1>9. CASE PublishMagic
  <2>1. /\ objects' = [objects EXCEPT ![On] = To(Was.size, "current", Was.header)]
        /\ To(Was.size, "current", Was.header) \in Objects
        /\ engine' = [engine EXCEPT !.pc = "ready"] /\ engine.pc = "publish"
    <3>1. [Was EXCEPT !.magic = "current"] = To(Was.size, "current", Was.header)
      BY <1>3
    <3>2. To(Was.size, "current", Was.header) \in Objects
      BY <1>3 DEF Objects
    <3>3. objects' = [objects EXCEPT ![On] = [Was EXCEPT !.magic = "current"]]
      BY <1>2, <1>9 DEF PublishMagic, SetupTypeOK
    <3> QED
      BY <1>9, <3>1, <3>2, <3>3 DEF PublishMagic
  <2>2. Was.magic # "current" /\ Was.size = "full" /\ Was.header = "stored"
    BY <2>1 DEF EngineKnows
  <2>3. /\ SetupTypeOK' /\ Untouched' /\ MagicMeansWhole' /\ ClientsKnow'
        /\ engine'.on = On /\ engine'.pc = "ready"
    BY <1>4, <1>5, <2>1, <2>2
  <2>4. EngineKnows'
    BY <1>1, <1>2, <2>3 DEF EngineKnows
  <2> QED
    BY <2>3, <2>4
<1> QED
  BY <1>6, <1>7, <1>8, <1>9

\* The steps of the engine that change nothing but where it is.
LEMMA EngineMovePreserves ==
    ASSUME SetupInv, MapFails \/ MapRing \/ Close \/ Crash
    PROVE  SetupInv'
<1> USE SetupAssumption DEF SetupInv
<1>1. UNCHANGED <<objects, name, made, client>>
  BY DEF MapFails, MapRing, Close, Crash
<1>2. Untouched' /\ MagicMeansWhole' /\ ClientsKnow'
  BY <1>1 DEF Untouched, MagicMeansWhole, Initialised, ClientsKnow
<1>3. CASE MapRing
  <2>1. PICK pc \in {"wipe", "ready"} :
          /\ engine' = [engine EXCEPT !.pc = pc]
          /\ pc = "wipe" => engine.first \/ objects[engine.on].magic # "current"
    BY <1>3 DEF MapRing, MustInitialise
  <2>2. engine \in EngineType /\ engine.pc = "sized"
    BY <1>3 DEF MapRing, SetupTypeOK
  <2>3. /\ engine' \in EngineType
        /\ engine'.pc = pc /\ engine'.on = engine.on /\ engine'.first = engine.first
    BY <2>1, <2>2 DEF EngineType
  <2>4. pc = "wipe" => objects[engine.on].magic # "current"
    BY <2>1, <2>2 DEF EngineKnows
  <2> QED
    BY <1>1, <1>2, <2>2, <2>3, <2>4 DEF SetupTypeOK, EngineKnows
<1>4. CASE MapFails \/ Close \/ Crash
  <2>1. PICK pc \in {"noRing", "down"} : engine' = [pc |-> pc, on |-> 0, first |-> FALSE]
    BY <1>4 DEF MapFails, Close, Crash
  <2>2. [pc |-> pc, on |-> 0, first |-> FALSE] \in EngineType
    BY DEF EngineType
  <2>3. engine' \in EngineType /\ engine'.on = 0 /\ engine'.pc \in {"noRing", "down"}
    BY <2>1, <2>2
  <2> QED
    BY <1>1, <1>2, <2>3 DEF SetupTypeOK, EngineKnows
<1> QED
  BY <1>3, <1>4

-----------------------------------------------------------------------------
(* And every step of a client.                                             *)

LEMMA ClientPreserves ==
    ASSUME SetupInv, NEW c \in Clients, OpenRing(c) \/ MapAndCheck(c) \/ Detach(c)
    PROVE  SetupInv'
<1> USE SetupAssumption DEF SetupInv
<1>1. UNCHANGED <<objects, name, made, engine>>
  BY DEF OpenRing, MapAndCheck, Detach
<1>2. Untouched' /\ MagicMeansWhole' /\ EngineKnows'
  BY <1>1 DEF Untouched, MagicMeansWhole, Initialised, EngineKnows
<1>3. ASSUME NEW to \in ClientType, client' = [client EXCEPT ![c] = to],
             to.pc # "detached" => to.on \in Ids,
             to.pc = "attached" => objects[to.on].magic = "current"
      PROVE  SetupTypeOK' /\ ClientsKnow'
  BY <1>1, <1>3 DEF SetupTypeOK, ClientsKnow
<1>4. client[c] \in ClientType /\ client[c] = [pc |-> client[c].pc, on |-> client[c].on]
  BY DEF SetupTypeOK, ClientType
<1> DEFINE Gone == [pc |-> "detached", on |-> 0]
           At(pc, on) == [pc |-> pc, on |-> on]
<1>5. Gone \in ClientType
  BY DEF ClientType
<1>6. ASSUME client' = [client EXCEPT ![c] = Gone] PROVE SetupTypeOK' /\ ClientsKnow'
  BY <1>3, <1>5, <1>6
<1>7. CASE OpenRing(c)
  <2>1. name \in Ids /\ name \in Int
    BY <1>7 DEF OpenRing, SetupTypeOK, Ids
  <2>2. /\ At("opened", name) \in ClientType
        /\ client' = [client EXCEPT ![c] = At("opened", name)]
    BY <1>7, <2>1 DEF OpenRing, ClientType
  <2> QED
    BY <1>2, <1>3, <2>1, <2>2
<1>8. CASE MapAndCheck(c)
  <2> DEFINE Found == objects[client[c].on].size # "empty"
                        /\ objects[client[c].on].magic = "current"
  <2>1. client[c].on \in Ids
    BY <1>8 DEF MapAndCheck, ClientsKnow
  <2>2. CASE Found
    <3>1. client' = [client EXCEPT ![c] = [client[c] EXCEPT !.pc = "attached"]]
      BY <1>8, <2>2 DEF MapAndCheck, SetupTypeOK
    <3>2. [client[c] EXCEPT !.pc = "attached"] = At("attached", client[c].on)
      BY <1>4
    <3>3. At("attached", client[c].on) \in ClientType
      BY <1>4 DEF ClientType
    <3> QED
      BY <1>2, <1>3, <2>1, <2>2, <3>1, <3>2, <3>3
  <2>3. CASE ~Found
    <3>1. client' = [client EXCEPT ![c] = Gone]
      BY <1>8, <2>3 DEF MapAndCheck, SetupTypeOK
    <3> QED
      BY <1>2, <1>6, <3>1
  <2> QED
    BY <2>2, <2>3
<1>9. CASE Detach(c)
  BY <1>2, <1>6, <1>9 DEF Detach
<1> QED
  BY <1>2, <1>7, <1>8, <1>9

LEMMA SetupNextPreserves == SetupInv /\ [SetupNext]_setupVars => SetupInv'
<1>1. ASSUME SetupInv, SetupNext PROVE SetupInv'
  BY <1>1, OpenPreserves, SizingPreserves, StorePreserves, EngineMovePreserves,
     ClientPreserves DEF SetupNext
<1>2. ASSUME SetupInv, UNCHANGED setupVars PROVE SetupInv'
  BY <1>2 DEF setupVars, SetupInv, SetupTypeOK, Untouched, MagicMeansWhole, Initialised, EngineKnows,
              ClientsKnow
<1> QED
  BY <1>1, <1>2

-----------------------------------------------------------------------------
\* The invariant the engines and the clients keep, whatever fails or dies.
THEOREM SetupInvariance == SetupSpec => []SetupInv
<1>1. SetupInit => SetupInv
  BY SetupInitInvariant
<1>2. SetupInv /\ [SetupNext]_setupVars => SetupInv'
  BY SetupNextPreserves
<1> QED
  BY <1>1, <1>2, PTL DEF SetupSpec

\* Attached clients and the engine are on the one ring the name stands for, and
\* it is initialised, for any number of clients and of restarts.
THEOREM RingIsShared == SetupSpec => []ClientsShareTheRing
<1>1. SetupInv => ClientsShareTheRing
  BY DEF SetupInv, MagicMeansWhole, EngineKnows, ClientsKnow, ClientsShareTheRing
<1> QED
  BY <1>1, SetupInvariance, PTL
=============================================================================
