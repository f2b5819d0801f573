-------------------------- MODULE MidiBridge_proofs --------------------------
(***************************************************************************)
(* Proofs about MidiBridge, for any cables, lists, messages and bounds:    *)
(* whatever threads do to each other, nothing of the bridge is used before *)
(* it is there or after it is gone; what its encoder makes of a packet     *)
(* says that packet again, byte for byte; and so every message arrives on  *)
(* its cable.                                                              *)
(*                                                                         *)
(* The encoder and FlattenSeq go through their data from one end to the    *)
(* other.  What holds of them for every input is shown with LeastNumber:   *)
(* if it failed anywhere there would be a first place where it does.       *)
(***************************************************************************)
EXTENDS MidiBridge, SequenceLemmas

Live == reader \notin {"none", "done"}
Busy(c) == sender[c] # "idle"

SenderType == sender \in [Cables -> {"idle", "encoded", "writing"}]

\* Each layer is there while the next one uses it.
Layers ==
    /\ client => usb
    /\ Live => client
    /\ \A c \in Cables : Busy(c) => client

\* What main knows where it stands.
Stages ==
    /\ main \in {"starting", "claimed", "closing", "exited"} => ~client
    /\ main \in {"claimed", "online", "armed", "looping"} => usb
    /\ main = "disposing" => ~Live
    /\ main = "exited" => ~usb

IInv == SenderType /\ Layers /\ Stages

\* The process starts with nothing open and nobody running.
LEMMA InitInvariant == Init => IInv
  BY DEF Init, IInv, SenderType, Layers, Stages, Live, Busy, Silence

-----------------------------------------------------------------------------
(* The steps of main, of the callbacks, and of the reader.                 *)

\* main opens a layer only on top of one that is there.
LEMMA MainPreserves ==
    ASSUME IInv,
           OpenUSB \/ Publish \/ SelfTest \/ InstallHandlers \/ EnterRunLoop \/ Signal
             \/ LeaveRunLoop \/ StartAgain
    PROVE  IInv'
<1> USE DEF IInv, SenderType, Layers, Stages, Live, Busy, senderVars, readVars
<1>1. CASE OpenUSB
  BY <1>1 DEF OpenUSB
<1>2. CASE Publish
  BY <1>2 DEF Publish
<1>3. CASE SelfTest
  BY <1>3 DEF SelfTest
<1>4. CASE InstallHandlers
  BY <1>4 DEF InstallHandlers
<1>5. CASE EnterRunLoop
  BY <1>5 DEF EnterRunLoop
<1>6. CASE Signal
  BY <1>6 DEF Signal
<1>7. CASE LeaveRunLoop
  BY <1>7 DEF LeaveRunLoop
<1>8. CASE StartAgain
  BY <1>8 DEF StartAgain
<1> QED
  BY <1>1, <1>2, <1>3, <1>4, <1>5, <1>6, <1>7, <1>8

\* cleanup takes the layers down from the top: the reader, the client with its
\* callbacks, the interface.
LEMMA CleanupPreserves ==
    ASSUME IInv, AbortReading \/ JoinReader \/ DisposeClient \/ CloseUSB
    PROVE  IInv'
<1> USE DEF IInv, SenderType, Layers, Stages, Live, Busy, senderVars, readVars
<1>1. CASE AbortReading
  BY <1>1 DEF AbortReading
<1>2. CASE JoinReader
  BY <1>2 DEF JoinReader
<1>3. CASE DisposeClient
  BY <1>3 DEF DisposeClient
<1>4. CASE CloseUSB
  BY <1>4 DEF CloseUSB
<1> QED
  BY <1>1, <1>2, <1>3, <1>4

\* A callback starts only while there is a client, and leaves every layer alone.
LEMMA CallbackPreserves ==
    ASSUME IInv, NEW c \in Cables,
           (\E list \in Lists : Send(c, list)) \/ TakeLock(c) \/ Write(c)
    PROVE  IInv'
<1> USE DEF IInv, SenderType, Layers, Stages, Live, Busy, mainVars, readVars
<1>1. ASSUME NEW list \in Lists, Send(c, list) PROVE IInv'
  <2>1. /\ client /\ UNCHANGED <<main, usb, client, reader>>
        /\ \/ sender' = [sender EXCEPT ![c] = "idle"]
           \/ sender' = [sender EXCEPT ![c] = "encoded"]
    BY <1>1 DEF Send
  <2> QED
    BY <2>1
<1>2. CASE TakeLock(c)
  BY <1>2 DEF TakeLock
<1>3. CASE Write(c)
  <2>1. /\ UNCHANGED <<main, usb, client, reader>>
        /\ sender' = [sender EXCEPT ![c] = "idle"]
    BY <1>3 DEF Write
  <2> QED
    BY <2>1
<1> QED
  BY <1>1, <1>2, <1>3

\* The reader goes round, or ends for good.
LEMMA ReaderPreserves ==
    ASSUME IInv,
           \/ \E c \in Cables \cup Strays, message \in Sayings : Say(c, message)
           \/ ReaderTests \/ StartReading \/ ReadEvents \/ ReadTimesOut \/ ReadFails
    PROVE  IInv'
<1> USE DEF IInv, SenderType, Layers, Stages, Live, Busy, mainVars, senderVars, readVars
<1>1. ASSUME NEW c \in Cables \cup Strays, NEW message \in Sayings, Say(c, message)
      PROVE  IInv'
  <2>1. UNCHANGED <<main, usb, client, reader, sender>>
    BY <1>1 DEF Say
  <2> QED
    BY <2>1
<1>2. CASE ReaderTests
  BY <1>2 DEF ReaderTests
<1>3. CASE StartReading
  BY <1>3 DEF StartReading
<1>4. CASE ReadEvents
  <2>1. /\ UNCHANGED <<main, usb, client, sender>>
        /\ reader = "reading" /\ reader' = "testing"
    BY <1>4 DEF ReadEvents
  <2> QED
    BY <2>1
<1>5. CASE ReadTimesOut
  BY <1>5 DEF ReadTimesOut
<1>6. CASE ReadFails
  BY <1>6 DEF ReadFails
<1> QED
  BY <1>1, <1>2, <1>3, <1>4, <1>5, <1>6

\* The invariant is inductive.
LEMMA NextPreserves == IInv /\ [Next]_bridgeVars => IInv'
<1>1. ASSUME IInv, Next PROVE IInv'
  BY <1>1, MainPreserves, CleanupPreserves, CallbackPreserves, ReaderPreserves DEF Next
<1>2. ASSUME IInv, UNCHANGED bridgeVars PROVE IInv'
  BY <1>2 DEF bridgeVars, mainVars, senderVars, readVars, IInv, SenderType, Layers,
              Stages, Live, Busy
<1> QED
  BY <1>1, <1>2

-----------------------------------------------------------------------------
\* The invariant that main, the reader and the callbacks keep together.
THEOREM BridgeInvariance == Spec => []IInv
<1> QED
  BY InitInvariant, NextPreserves, PTL DEF Spec

\* The reader and the callbacks run only inside the lifetimes of what they use,
\* and a process that ends leaves nothing open, for any number of cables.
THEOREM LifetimesAreNested == Spec => []LifetimesNest
<1>1. IInv => LifetimesNest
  BY DEF IInv, Layers, Stages, Live, Busy, LifetimesNest
<1> QED
  BY <1>1, BridgeInvariance, PTL

-----------------------------------------------------------------------------
(* What a sequence of events says on a cable.                              *)

\* An event says up to three bytes.
LEMMA CinLengthRange == ASSUME NEW cin \in 0..15 PROVE CinLength(cin) \in 0..3
  BY DEF CinLength

\* The bytes that count are bytes.
LEMMA CountedType ==
    ASSUME NEW C, NEW event \in UsbEvents(C)
    PROVE  Counted(event) \in Seq(Byte)
<1>1. event.cin \in 0..15 /\ event.bytes \in [1..3 -> Byte]
  BY DEF UsbEvents
<1>2. PICK n \in 0..3 : n = CinLength(event.cin)
  BY <1>1, CinLengthRange
<1>3. \A i \in 1..n : event.bytes[i] \in Byte
  BY <1>1
<1>4. SubSeq(event.bytes, 1, n) \in Seq(Byte)
  BY <1>3, SubSeqProperties
<1> QED
  BY <1>2, <1>4 DEF Counted

\* What FlattenSeq joins in Said.
Parts(cable, spoken) ==
    [k \in DOMAIN spoken |-> IF spoken[k].cable = cable THEN Counted(spoken[k]) ELSE <<>>]

\* One part for each event.
LEMMA PartsType ==
    ASSUME NEW C, NEW cable, NEW spoken \in Seq(UsbEvents(C))
    PROVE  Parts(cable, spoken) \in Seq(Seq(Byte)) /\ Len(Parts(cable, spoken)) = Len(spoken)
<1>1. ASSUME NEW k \in 1..Len(spoken)
      PROVE  (IF spoken[k].cable = cable THEN Counted(spoken[k]) ELSE <<>>) \in Seq(Byte)
  <2>1. spoken[k] \in UsbEvents(C)
    OBVIOUS
  <2>2. Counted(spoken[k]) \in Seq(Byte)
    BY <2>1, CountedType
  <2> QED
    BY <2>2
<1>2. DOMAIN spoken = 1..Len(spoken) /\ Len(spoken) \in Nat
  OBVIOUS
<1> QED
  BY <1>1, <1>2 DEF Parts

\* Events say bytes.
LEMMA SaidType ==
    ASSUME NEW C, NEW cable, NEW spoken \in Seq(UsbEvents(C))
    PROVE  Said(cable, spoken) \in Seq(Byte)
<1>1. Said(cable, spoken) = FlattenSeq(Parts(cable, spoken))
  BY DEF Said, Parts
<1> QED
  BY <1>1, PartsType, FlattenSeqType

\* No events say nothing.
LEMMA SaidNothing == ASSUME NEW cable PROVE Said(cable, <<>>) = <<>>
<1>1. [k \in DOMAIN <<>> |-> IF (<<>>)[k].cable = cable THEN Counted((<<>>)[k]) ELSE <<>>] = <<>>
  OBVIOUS
<1> QED
  BY <1>1, FlattenEmpty DEF Said

\* What events say, they say in their order.
LEMMA SaidConcat ==
    ASSUME NEW C, NEW cable, NEW s \in Seq(UsbEvents(C)), NEW t \in Seq(UsbEvents(C))
    PROVE  Said(cable, s \o t) = Said(cable, s) \o Said(cable, t)
<1>1. /\ Said(cable, s) = FlattenSeq(Parts(cable, s))
      /\ Said(cable, t) = FlattenSeq(Parts(cable, t))
      /\ Said(cable, s \o t) = FlattenSeq(Parts(cable, s \o t))
  BY DEF Said, Parts
<1> DEFINE a == Parts(cable, s)
           b == Parts(cable, t)
           e == Parts(cable, s \o t)
<1>0. PICK m \in Nat, n \in Nat : m = Len(s) /\ n = Len(t)
  OBVIOUS
<1>2. s \o t \in Seq(UsbEvents(C)) /\ Len(s \o t) = m + n
  BY <1>0, ConcatProperties
<1>3. /\ a \in Seq(Seq(Byte)) /\ b \in Seq(Seq(Byte)) /\ e \in Seq(Seq(Byte))
      /\ Len(a) = m /\ Len(b) = n /\ Len(e) = m + n
  BY <1>0, <1>2, PartsType
<1>4. ASSUME NEW i \in 1..m PROVE e[i] = a[i]
  <2>1. (s \o t)[i] = s[i]
    BY <1>0, ConcatProperties
  <2>2. i \in DOMAIN (s \o t) /\ i \in DOMAIN s
    BY <1>0, <1>2
  <2> QED
    BY <2>1, <2>2 DEF Parts
<1>5. ASSUME NEW i \in 1..n PROVE e[m + i] = b[i]
  <2>1. (s \o t)[m + i] = t[i]
    BY <1>0, ConcatProperties
  <2>2. m + i \in DOMAIN (s \o t) /\ i \in DOMAIN t
    BY <1>0, <1>2
  <2> QED
    BY <2>1, <2>2 DEF Parts
<1> HIDE DEF a, b, e
<1>6. e = a \o b
  <2> DEFINE B == Seq(Byte)
  <2>1. a \in Seq(B) /\ b \in Seq(B) /\ e \in Seq(B)
    BY <1>3
  <2>2. /\ Len(e) = Len(a) + Len(b)
        /\ \A i \in 1..Len(a) : e[i] = a[i]
        /\ \A i \in 1..Len(b) : e[Len(a) + i] = b[i]
    BY <1>3, <1>4, <1>5
  <2> HIDE DEF B
  <2> QED
    BY <2>1, <2>2, ConcatByElements
<1>7. FlattenSeq(a \o b) = FlattenSeq(a) \o FlattenSeq(b)
  BY <1>3, FlattenConcat
<1> QED
  BY <1>1, <1>6, <1>7 DEF a, b, e

\* A single event speaks on its own cable.
LEMMA SaidOne ==
    ASSUME NEW C, NEW cable, NEW event \in UsbEvents(C)
    PROVE  Said(cable, <<event>>) = IF event.cable = cable THEN Counted(event) ELSE <<>>
<1> DEFINE one == IF event.cable = cable THEN Counted(event) ELSE <<>>
<1>1. one \in Seq(Byte)
  BY CountedType
<1>2. [k \in DOMAIN <<event>> |-> IF (<<event>>)[k].cable = cable THEN Counted((<<event>>)[k]) ELSE <<>>] = <<one>>
  OBVIOUS
<1>3. Said(cable, <<event>>) = FlattenSeq(<<one>>)
  BY <1>2 DEF Said
<1> HIDE DEF one
<1>4. FlattenSeq(<<one>>) = one
  BY <1>1, FlattenSingle
<1> QED
  BY <1>3, <1>4 DEF one

\* Events of other cables say nothing.
LEMMA OthersAreSilent ==
    ASSUME NEW C, NEW cable, cable \notin C, NEW spoken \in Seq(UsbEvents(C))
    PROVE  Said(cable, spoken) = <<>>
<1> DEFINE T == {n \in 0..Len(spoken) : Said(cable, SubSeq(spoken, 1, n)) # <<>>}
<1>1. ASSUME T # {} PROVE FALSE
  <2>1. T \in SUBSET Nat
    OBVIOUS
  <2>0. 0 \notin T
    <3>1. SubSeq(spoken, 1, 0) = <<>>
      OBVIOUS
    <3> QED
      BY <3>1, SaidNothing
  <2> HIDE DEF T
  <2>2. PICK n \in T : \A m \in T : n <= m
    BY <1>1, <2>1, LeastNumber
  <2>3. n \in 1..Len(spoken) /\ n - 1 \in 0..Len(spoken) /\ n - 1 \notin T
    BY <2>0, <2>2 DEF T
  <2> DEFINE front == SubSeq(spoken, 1, n - 1)
             last == spoken[n]
  <2>4. front \in Seq(UsbEvents(C)) /\ last \in UsbEvents(C) /\ <<last>> \in Seq(UsbEvents(C))
    BY <2>3
  <2>5. SubSeq(spoken, 1, n) = front \o <<last>>
    BY <2>3, SubSeqRecursiveSecond
  <2>6. Said(cable, front) = <<>>
    BY <2>3 DEF T
  <2> HIDE DEF front, last
  <2>7. last.cable # cable
    BY <2>4 DEF UsbEvents
  <2>8. Said(cable, <<last>>) = <<>>
    BY <2>4, <2>7, SaidOne
  <2> DEFINE tail == <<last>>
  <2>9. tail \in Seq(UsbEvents(C)) /\ Said(cable, tail) = <<>>
    BY <2>4, <2>8
  <2> HIDE DEF tail
  <2>10. Said(cable, front \o tail) = <<>> \o <<>>
    BY <2>4, <2>6, <2>9, SaidConcat
  <2>11. <<>> \o <<>> = <<>>
    OBVIOUS
  <2>12. Said(cable, SubSeq(spoken, 1, n)) = <<>>
    BY <2>5, <2>10, <2>11 DEF tail
  <2> QED
    BY <2>12 DEF T
<1>2. Len(spoken) \in 0..Len(spoken) /\ SubSeq(spoken, 1, Len(spoken)) = spoken
  BY SubSeqFull
<1> QED
  BY <1>1, <1>2

-----------------------------------------------------------------------------
(* SysEx.                                                                  *)

\* An event whose code fits the length of its bytes says them.
LEMMA CountedIsGiven ==
    ASSUME NEW cable, NEW cin \in 0..15, NEW bytes \in Seq(Byte), Len(bytes) = CinLength(cin)
    PROVE  /\ Event(cable, cin, bytes) \in UsbEvents({cable})
           /\ Event(cable, cin, bytes).cable = cable
           /\ Counted(Event(cable, cin, bytes)) = bytes
<1> DEFINE event == Event(cable, cin, bytes)
<1>1. PICK n \in 0..3 : n = CinLength(cin)
  BY CinLengthRange
<1>2. Len(bytes) = n /\ bytes \in [1..n -> Byte]
  BY <1>1
<1>3. /\ event.cable = cable /\ event.cin = cin
      /\ event.bytes = [j \in 1..3 |-> IF j <= n THEN bytes[j] ELSE 0]
  BY <1>2 DEF Event
<1>4. event.bytes \in [1..3 -> Byte]
  BY <1>2, <1>3 DEF Byte
<1>5. event \in UsbEvents({cable})
  BY <1>3, <1>4 DEF Event, UsbEvents
<1>6. Counted(event) = SubSeq(event.bytes, 1, n)
  BY <1>1, <1>3 DEF Counted
<1> DEFINE given == event.bytes
<1>7. /\ \A j \in 1..n : given[j] = bytes[j]
      /\ \A j \in 1..n : given[j] \in Byte
  BY <1>2, <1>3
<1> HIDE DEF given
<1>8. /\ SubSeq(given, 1, n) \in Seq(Byte)
      /\ Len(SubSeq(given, 1, n)) = n
      /\ \A i \in 1..n : SubSeq(given, 1, n)[i] = given[i]
  BY <1>1, <1>7, SubSeqProperties
<1>9. SubSeq(given, 1, n) = bytes
  BY <1>2, <1>7, <1>8, SeqEqual
<1> QED
  BY <1>3, <1>5, <1>6, <1>9 DEF given

\* The pieces of a SysEx say it byte for byte.
LEMMA PiecesSayAll ==
    ASSUME NEW cable, NEW bytes \in Seq(Byte)
    PROVE  /\ Pieces(cable, bytes) \in Seq(UsbEvents({cable}))
           /\ Said(cable, Pieces(cable, bytes)) = bytes
<1> DEFINE K == (Len(bytes) + 2) \div 3
           P == Pieces(cable, bytes)
           Piece(k) == SubSeq(bytes, 3 * k - 2, Lesser(3 * k, Len(bytes)))
           U == UsbEvents({cable})
<1>0. PICK n \in Nat : n = Len(bytes)
  OBVIOUS
<1>1. K \in Nat /\ 3 * K >= n /\ 3 * K <= n + 2
  BY <1>0
<1>2. ASSUME NEW k \in 1..K
      PROVE  /\ Piece(k) \in Seq(Byte)
             /\ P[k] \in U
             /\ Said(cable, <<P[k]>>) = Piece(k)
  <2>1. 3 * k - 2 \in 1..n
    BY <1>0, <1>1
  <2> DEFINE hi == Lesser(3 * k, Len(bytes))
             p == Piece(k)
  <2>2. hi \in (3 * k - 2)..n /\ hi <= 3 * k
    BY <1>0, <2>1 DEF Lesser
  <2>3. \A i \in (3 * k - 2)..hi : bytes[i] \in Byte
    BY <1>0, <2>1, <2>2
  <2>4. hi \in Int /\ 3 * k - 2 \in Int
    BY <2>1, <2>2
  <2> DEFINE lo == 3 * k - 2
  <2> HIDE DEF hi, lo
  <2>5. p \in Seq(Byte) /\ Len(p) = hi - lo + 1
    <3>1. SubSeq(bytes, lo, hi) \in Seq(Byte) /\ Len(SubSeq(bytes, lo, hi)) = hi - lo + 1
      BY <2>2, <2>3, <2>4, SubSeqProperties DEF lo
    <3> QED
      BY <3>1 DEF lo, hi
  <2>6. Len(p) \in 1..3
    <3>1. lo \in Int /\ hi \in Int /\ lo <= hi /\ hi <= lo + 2
      BY ONLY <2>2, <2>4 DEF lo
    <3> QED
      BY ONLY <2>5, <3>1, SMTT(60)
  <2> HIDE DEF p
  <2>7. PieceCode(p) \in 0..15 /\ CinLength(PieceCode(p)) = Len(p)
    <3>1. CinLength(4) = 3 /\ CinLength(5) = 1 /\ CinLength(6) = 2 /\ CinLength(7) = 3
      BY DEF CinLength
    <3>2. PICK q \in 1..3 : q = Len(p)
      BY <2>6
    <3>3. PieceCode(p) = IF q = 3 /\ p[3] # SysExEnd THEN 4 ELSE 4 + q
      BY <3>2 DEF PieceCode
    <3>4. CASE q = 1
      BY <3>1, <3>2, <3>3, <3>4
    <3>5. CASE q = 2
      BY <3>1, <3>2, <3>3, <3>5
    <3>6. CASE q = 3
      BY <3>1, <3>2, <3>3, <3>6
    <3> QED
      BY <3>4, <3>5, <3>6
  <2>8. P[k] = Event(cable, PieceCode(p), p)
    BY DEF Pieces, p
  <2>9. P[k] \in U /\ P[k].cable = cable /\ Counted(P[k]) = p
    <3> DEFINE code == PieceCode(p)
    <3>1. code \in 0..15 /\ Len(p) = CinLength(code)
      BY <2>7
    <3> HIDE DEF code
    <3>2. /\ Event(cable, code, p) \in U
          /\ Event(cable, code, p).cable = cable
          /\ Counted(Event(cable, code, p)) = p
      BY <2>5, <3>1, CountedIsGiven
    <3> QED
      BY <2>8, <3>2 DEF code
  <2>10. Said(cable, <<P[k]>>) = p
    BY <2>9, SaidOne
  <2> QED
    BY <2>5, <2>9, <2>10 DEF p
<1>3. P \in Seq(U) /\ Len(P) = K
  <2>1. P = [k \in 1..K |-> P[k]]
    BY DEF Pieces
  <2>2. \A k \in 1..K : P[k] \in U
    BY <1>2
  <2>3. K \in Nat
    BY <1>1
  <2> HIDE DEF P, U, K
  <2>4. P \in [1..K -> U]
    BY ONLY <2>1, <2>2
  <2> QED
    BY ONLY <2>3, <2>4
<1> DEFINE Told(k) == Said(cable, SubSeq(P, 1, k)) = SubSeq(bytes, 1, Lesser(3 * k, Len(bytes)))
           T == {k \in 0..K : ~Told(k)}
<1>4. Told(0)
  <2>1. SubSeq(P, 1, 0) = <<>>
    OBVIOUS
  <2>2. Lesser(3 * 0, Len(bytes)) = 0
    BY <1>0 DEF Lesser
  <2>3. SubSeq(bytes, 1, 0) = <<>>
    OBVIOUS
  <2> QED
    BY <2>1, <2>2, <2>3, SaidNothing
<1>5. ASSUME T # {} PROVE FALSE
  <2>1. T \in SUBSET Nat
    BY <1>1
  <2> HIDE DEF T, Told, P, K, Piece
  <2>2. PICK k \in T : \A j \in T : k <= j
    BY <1>5, <2>1, LeastNumber
  <2>3. k \in 1..K /\ k - 1 \in 0..K /\ k - 1 \notin T /\ ~Told(k)
    BY <1>1, <1>4, <2>2 DEF T
  <2> DEFINE hi == Lesser(3 * k, Len(bytes))
             mid == 3 * (k - 1)
             front == SubSeq(P, 1, k - 1)
             one == <<P[k]>>
  <2>4. mid \in 0..n /\ mid = Lesser(3 * (k - 1), Len(bytes)) /\ hi \in mid..n
    BY <1>0, <1>1, <2>3 DEF Lesser
  <2>5. Said(cable, front) = SubSeq(bytes, 1, mid)
    BY <2>3, <2>4 DEF T, Told
  <2>6. SubSeq(P, 1, k) = front \o one
    BY <1>3, <2>3, SubSeqRecursiveSecond
  <2>7. front \in Seq(U) /\ one \in Seq(U)
    BY <1>2, <1>3, <2>3
  <2>8. Said(cable, one) = SubSeq(bytes, mid + 1, hi)
    BY <1>2, <2>3 DEF Piece
  <2> HIDE DEF front, one, hi, mid
  <2>9. Said(cable, front \o one) = SubSeq(bytes, 1, mid) \o SubSeq(bytes, mid + 1, hi)
    <3> DEFINE C == {cable}
    <3>1. front \in Seq(UsbEvents(C)) /\ one \in Seq(UsbEvents(C))
      BY <2>7
    <3> HIDE DEF C
    <3>2. Said(cable, front \o one) = Said(cable, front) \o Said(cable, one)
      BY <3>1, SaidConcat
    <3> QED
      BY <2>5, <2>8, <3>2
  <2>10. SubSeq(bytes, 1, mid) \o SubSeq(bytes, mid + 1, hi) = SubSeq(bytes, 1, hi)
    <3>1. 1 \in 1..Len(bytes) + 1 /\ mid \in 1 - 1..Len(bytes) /\ hi \in mid..Len(bytes)
      BY <1>0, <2>4
    <3> QED
      BY <3>1, ConcatAdjacentSubSeq
  <2> QED
    BY <2>3, <2>6, <2>9, <2>10 DEF Told, hi
<1>6. Told(K)
  BY <1>1, <1>5
<1>7. SubSeq(P, 1, K) = P
  BY <1>3, SubSeqFull
<1>8. Lesser(3 * K, Len(bytes)) = Len(bytes) /\ SubSeq(bytes, 1, Len(bytes)) = bytes
  BY <1>0, <1>1, SubSeqFull DEF Lesser
<1> QED
  BY <1>3, <1>6, <1>7, <1>8

-----------------------------------------------------------------------------
(* The encoder.                                                            *)

\* A SysEx ends within its packet.
LEMMA SysExLastRange ==
    ASSUME NEW packet, Len(packet) \in Nat, NEW i \in 1..Len(packet)
    PROVE  SysExLast(packet, i) \in i..Len(packet)
<1> DEFINE ends == {j \in (i + 1)..Len(packet) : packet[j] = SysExEnd}
<1>1. CASE ends = {}
  BY <1>1 DEF SysExLast
<1>2. CASE ends # {}
  <2>1. ends \in SUBSET Nat
    OBVIOUS
  <2>2. \E j \in ends : \A k \in ends : j <= k
    <3> HIDE DEF ends
    <3> QED
      BY <1>2, <2>1, LeastNumber
  <2>3. (CHOOSE j \in ends : \A k \in ends : j <= k) \in ends
    <3> HIDE DEF ends
    <3> QED
      BY <2>2
  <2>4. SysExLast(packet, i) \in ends
    BY <1>2, <2>3 DEF SysExLast
  <2> QED
    BY <2>4
<1> QED
  BY <1>1, <1>2

\* A message that is not SysEx has up to three bytes.
LEMMA StatusLengthRange == ASSUME NEW status PROVE StatusLength(status) \in 0..3
  BY DEF StatusLength

\* encodeMIDI from byte i on, given what it does from the later ones.
EncodeStep(from, cable, packet, i) ==
    IF i > Len(packet) THEN <<>>
    ELSE IF packet[i] = SysExStart
    THEN LET last == SysExLast(packet, i)
         IN  Pieces(cable, SubSeq(packet, i, last)) \o from[last + 1]
    ELSE IF StatusLength(packet[i]) = 0 THEN from[i + 1]
    ELSE LET length == Lesser(StatusLength(packet[i]), Len(packet) - i + 1)
         IN  <<Event(cable, MessageCode(packet[i], length),
                     SubSeq(packet, i, i + length - 1))>> \o from[i + length]

\* What encodeMIDI does from byte i on depends on later bytes alone.
LEMMA StepsLookAhead ==
    ASSUME NEW cable, NEW packet, Len(packet) \in Nat, NEW g, NEW h,
           NEW i \in 1..Len(packet) + 1,
           \A j \in (i + 1)..Len(packet) + 1 : g[j] = h[j]
    PROVE  EncodeStep(g, cable, packet, i) = EncodeStep(h, cable, packet, i)
<1>0. PICK L \in Nat : L = Len(packet)
  OBVIOUS
<1>1. CASE i > L
  BY <1>0, <1>1 DEF EncodeStep
<1>2. CASE i <= L /\ packet[i] = SysExStart
  <2>1. SysExLast(packet, i) + 1 \in (i + 1)..L + 1
    BY <1>0, <1>2, SysExLastRange
  <2>2. g[SysExLast(packet, i) + 1] = h[SysExLast(packet, i) + 1]
    BY <1>0, <2>1
  <2> QED
    BY <1>0, <1>2, <2>2 DEF EncodeStep
<1>3. CASE i <= L /\ packet[i] # SysExStart /\ StatusLength(packet[i]) = 0
  <2>1. i + 1 \in (i + 1)..L + 1
    BY <1>3
  <2> QED
    BY <1>0, <1>3, <2>1 DEF EncodeStep
<1>4. CASE i <= L /\ packet[i] # SysExStart /\ StatusLength(packet[i]) # 0
  <2> DEFINE length == Lesser(StatusLength(packet[i]), Len(packet) - i + 1)
  <2>0. PICK q \in 1..3 : q = StatusLength(packet[i])
    BY <1>4, StatusLengthRange
  <2>1. i + length \in (i + 1)..L + 1
    BY <1>0, <1>4, <2>0 DEF Lesser
  <2>2. g[i + length] = h[i + length]
    BY <1>0, <2>1
  <2> QED
    BY <1>0, <1>4, <2>2 DEF EncodeStep
<1> QED
  BY <1>0, <1>1, <1>2, <1>3, <1>4

\* g holds what Encoded computes on its way, from byte n on.
Encodes(g, cable, packet, n) ==
    /\ g = [i \in n..Len(packet) + 1 |-> g[i]]
    /\ \A i \in n..Len(packet) + 1 : g[i] = EncodeStep(g, cable, packet, i)

\* The encoder is defined from the first byte on: it always moves forward.
LEMMA EncodesExists ==
    ASSUME NEW cable, NEW packet, Len(packet) \in Nat
    PROVE  \E g : Encodes(g, cable, packet, 1)
<1>0. PICK L \in Nat : L = Len(packet)
  OBVIOUS
<1> DEFINE T == {n \in 0..L : ~ \E g : Encodes(g, cable, packet, L + 1 - n)}
<1>1. ASSUME T # {} PROVE FALSE
  <2>1. T \in SUBSET Nat
    OBVIOUS
  <2> HIDE DEF T
  <2>2. PICK n \in T : \A m \in T : n <= m
    BY <1>1, <2>1, LeastNumber
  <2>3. n \in 0..L /\ ~ \E g : Encodes(g, cable, packet, L + 1 - n)
    BY DEF T
  <2> DEFINE s == L + 1 - n
  <2>4. \E g : g = [i \in (s + 1)..L + 1 |-> g[i]]
                /\ \A i \in (s + 1)..L + 1 : g[i] = EncodeStep(g, cable, packet, i)
    <3>1. CASE n = 0
      <4>1. (s + 1)..L + 1 = {}
        BY <2>3, <3>1
      <4> DEFINE e == [i \in (s + 1)..L + 1 |-> <<>>]
      <4>2. e = [i \in (s + 1)..L + 1 |-> e[i]]
        OBVIOUS
      <4> HIDE DEF e
      <4> QED
        BY <4>1, <4>2
    <3>2. CASE n # 0
      <4>1. n - 1 \in 0..L /\ n - 1 \notin T /\ s + 1 = L + 1 - (n - 1)
        BY <2>2, <2>3, <3>2
      <4>2. \E g : Encodes(g, cable, packet, s + 1)
        BY <4>1 DEF T
      <4> HIDE DEF s
      <4> QED
        BY <1>0, <4>2 DEF Encodes
    <3> QED
      BY <3>1, <3>2
  <2>5. s \in 1..L + 1
    BY <2>3
  <2> HIDE DEF s
  <2>6. PICK g : /\ g = [i \in (s + 1)..L + 1 |-> g[i]]
                 /\ \A i \in (s + 1)..L + 1 : g[i] = EncodeStep(g, cable, packet, i)
    BY <2>4
  <2> DEFINE h == [i \in s..L + 1 |-> IF i = s THEN EncodeStep(g, cable, packet, i) ELSE g[i]]
  <2>7. h = [i \in s..L + 1 |-> h[i]]
    OBVIOUS
  <2>8. h[s] = EncodeStep(g, cable, packet, s) /\ \A i \in (s + 1)..L + 1 : h[i] = g[i]
    BY <2>5
  <2> HIDE DEF h
  <2>9. ASSUME NEW i \in s..L + 1 PROVE h[i] = EncodeStep(h, cable, packet, i)
    <3>1. \A j \in (i + 1)..Len(packet) + 1 : h[j] = g[j]
      BY <1>0, <2>5, <2>8
    <3>2. EncodeStep(h, cable, packet, i) = EncodeStep(g, cable, packet, i)
      BY <1>0, <2>5, <3>1, StepsLookAhead
    <3>3. h[i] = EncodeStep(g, cable, packet, i)
      BY <2>5, <2>6, <2>8
    <3> QED
      BY <3>2, <3>3
  <2>10. Encodes(h, cable, packet, s)
    BY <1>0, <2>7, <2>9 DEF Encodes
  <2> QED
    BY <2>3, <2>10 DEF s
<1>2. L \in 0..L /\ L + 1 - L = 1
  OBVIOUS
<1>3. L \notin T
  BY <1>1
<1>4. \E g : Encodes(g, cable, packet, L + 1 - L)
  BY <1>2, <1>3
<1> QED
  BY <1>2, <1>4

\* What Encoded stands for: such a function, at the first byte.
LEMMA EncodedValue ==
    ASSUME NEW cable, NEW packet, Len(packet) \in Nat
    PROVE  \E g : Encodes(g, cable, packet, 1) /\ Encoded(cable, packet) = g[1]
<1> DEFINE Is(g) == g = [i \in 1..(Len(packet) + 1) |-> EncodeStep(g, cable, packet, i)]
           f == CHOOSE g : Is(g)
<1>1. PICK g : Encodes(g, cable, packet, 1)
  BY EncodesExists
<1>2. Is(g)
  BY <1>1 DEF Encodes
<1>3. \E h : Is(h)
  BY <1>2
<1>4. Is(f)
  <2> HIDE DEF Is
  <2> QED
    BY <1>3
<1>5. Encoded(cable, packet) = f[1]
  BY DEF Encoded, EncodeStep
<1> HIDE DEF f
<1>6. Encodes(f, cable, packet, 1)
  BY <1>4 DEF Encodes
<1> QED
  BY <1>5, <1>6

-----------------------------------------------------------------------------
\* A message that is not SysEx comes out as one event that says it.
LEMMA MessageSaysAll ==
    ASSUME NEW cable, NEW message \in Seq(Byte), Len(message) # 0,
           message[1] # SysExStart, Len(message) = StatusLength(message[1])
    PROVE  /\ Event(cable, MessageCode(message[1], Len(message)), message) \in UsbEvents({cable})
           /\ Said(cable, <<Event(cable, MessageCode(message[1], Len(message)), message)>>) = message
<1>1. PICK status \in Byte : status = message[1]
  <2>1. Len(message) \in Nat /\ 1 \in 1..Len(message)
    OBVIOUS
  <2> QED
    BY <2>1
<1>2. PICK q \in 1..3 : q = Len(message) /\ q = StatusLength(status)
  BY <1>1, StatusLengthRange
<1> DEFINE code == MessageCode(status, q)
<1>3. code \in 0..15 /\ CinLength(code) = q
  <2>1. CASE status < 240
    <3>2. status \in 128..239
      <4>1. status < 128 => StatusLength(status) = 0
        BY DEF StatusLength
      <4> QED
        BY <1>2, <2>1, <4>1 DEF Byte
    <3>1. q = IF status \in 192..223 THEN 2 ELSE 3
      <4>1. CASE status \in 192..223
        BY <1>2, <3>2, <4>1 DEF StatusLength
      <4>2. CASE status \in 128..191 \cup 224..239
        BY <1>2, <3>2, <4>2 DEF StatusLength
      <4> QED
        BY <3>2, <4>1, <4>2
    <3>3. PICK c \in 8..14 : c = status \div 16 /\ (c \in {12, 13} <=> status \in 192..223)
      BY <2>1, <3>2 DEF Byte
    <3>4. code = c
      BY <2>1, <3>3 DEF MessageCode
    <3>5. \A k \in 8..14 : CinLength(k) = IF k \in {12, 13} THEN 2 ELSE 3
      BY SMTT(60) DEF CinLength
    <3>6. CinLength(c) = IF c \in {12, 13} THEN 2 ELSE 3
      BY <3>5
    <3> QED
      BY <3>1, <3>3, <3>4, <3>6
  <2>2. CASE status >= 240
    <3>1. CinLength(15) = 1 /\ CinLength(2) = 2 /\ CinLength(3) = 3
      BY DEF CinLength
    <3>2. status > 240
      BY <1>1, <2>2 DEF SysExStart, Byte
    <3>3. code = IF q = 1 THEN 15 ELSE IF q = 2 THEN 2 ELSE 3
      <4>1. ~(status < 240)
        BY <2>2 DEF Byte
      <4>2. CASE q = 1
        BY <4>1, <4>2 DEF MessageCode
      <4>3. CASE q = 2
        BY <4>1, <4>3 DEF MessageCode
      <4>4. CASE q = 3
        BY <4>1, <4>4 DEF MessageCode
      <4> QED
        BY <4>2, <4>3, <4>4
    <3> QED
      BY <3>1, <3>3
  <2> QED
    BY <2>1, <2>2 DEF Byte
<1> HIDE DEF code
<1>4. /\ Event(cable, code, message) \in UsbEvents({cable})
      /\ Event(cable, code, message).cable = cable
      /\ Counted(Event(cable, code, message)) = message
  BY <1>2, <1>3, CountedIsGiven, ZenonT(60)
<1> DEFINE event == Event(cable, code, message)
           C == {cable}
<1>5. event \in UsbEvents(C) /\ event.cable = cable /\ Counted(event) = message
  BY <1>4
<1> HIDE DEF event, C
<1>6. Said(cable, <<event>>) = message
  BY <1>5, SaidOne
<1> QED
  BY <1>1, <1>2, <1>4, <1>6 DEF event, code

(***************************************************************************)
(* encodeMIDI loses nothing of a packet of whole messages: what its events *)
(* say is the packet, byte for byte.                                       *)
(***************************************************************************)
THEOREM WholePacketsAreSaid ==
    ASSUME NEW cable, NEW packet \in Seq(Byte), WholeMessages(packet)
    PROVE  /\ Encoded(cable, packet) \in Seq(UsbEvents({cable}))
           /\ Said(cable, Encoded(cable, packet)) = packet
<1>0. PICK L \in Nat : L = Len(packet)
  OBVIOUS
<1>1. PICK starts \in SUBSET (1..L + 1) :
        /\ 1 \in starts
        /\ \A i \in starts \ {L + 1} :
              IF packet[i] = SysExStart THEN SysExLast(packet, i) + 1 \in starts
              ELSE StatusLength(packet[i]) > 0 /\ i + StatusLength(packet[i]) \in starts
  BY <1>0 DEF WholeMessages
<1>2. PICK g : Encodes(g, cable, packet, 1) /\ Encoded(cable, packet) = g[1]
  BY <1>0, EncodedValue
<1> DEFINE C == {cable}
           Good(i) == g[i] \in Seq(UsbEvents(C)) /\ Said(cable, g[i]) = SubSeq(packet, i, L)
           T == {n \in 0..L : L + 1 - n \in starts /\ ~Good(L + 1 - n)}
\* The events of the message at i and what comes after it.
<1>3. ASSUME NEW i \in 1..L, NEW j \in (i + 1)..L + 1, NEW head, g[i] = head \o g[j],
             head \in Seq(UsbEvents(C)), Said(cable, head) = SubSeq(packet, i, j - 1), Good(j)
      PROVE  Good(i)
  <2>1. g[j] \in Seq(UsbEvents(C)) /\ Said(cable, g[j]) = SubSeq(packet, j, L)
    BY <1>3
  <2> HIDE DEF C
  <2> DEFINE rest == g[j]
             k == j - 1
  <2>2. rest \in Seq(UsbEvents(C)) /\ Said(cable, rest) = SubSeq(packet, k + 1, L)
    BY <2>1
  <2>3. k \in i..L /\ k \in Int
    BY <1>3
  <2> HIDE DEF rest, k
  <2>4. head \o rest \in Seq(UsbEvents(C)) /\ Said(cable, head \o rest) = Said(cable, head) \o Said(cable, rest)
    <3>1. head \in Seq(UsbEvents(C))
      BY <1>3
    <3>0. rest \in Seq(UsbEvents(C))
      BY <2>2
    <3>2. Said(cable, head \o rest) = Said(cable, head) \o Said(cable, rest)
      BY <3>0, <3>1, SaidConcat
    <3> QED
      BY <2>2, <3>1, <3>2, ConcatProperties
  <2>5. SubSeq(packet, i, k) \o SubSeq(packet, k + 1, L) = SubSeq(packet, i, L)
    <3>1. i \in 1..Len(packet) + 1 /\ k \in i - 1..Len(packet) /\ Len(packet) \in k..Len(packet)
      BY <1>0, <2>3
    <3>2. SubSeq(packet, i, k) \o SubSeq(packet, k + 1, Len(packet)) = SubSeq(packet, i, Len(packet))
      BY <3>1, ConcatAdjacentSubSeq
    <3> QED
      BY <1>0, <3>2
  <2> QED
    BY <1>3, <2>2, <2>4, <2>5 DEF rest, k
<1>4. ASSUME NEW i \in starts, i # L + 1, NEW j \in (i + 1)..L + 1, Good(j),
             j = IF packet[i] = SysExStart THEN SysExLast(packet, i) + 1
                 ELSE i + StatusLength(packet[i])
      PROVE  Good(i)
  <2>0. i \in 1..L
    BY <1>1, <1>4
  <2>1. g[i] = EncodeStep(g, cable, packet, i)
    BY <1>0, <1>2, <2>0 DEF Encodes
  <2> DEFINE message == SubSeq(packet, i, j - 1)
  <2>2. message \in Seq(Byte) /\ Len(message) = j - i
    <3>1. j - 1 \in i..L /\ \A k \in i..(j - 1) : packet[k] \in Byte
      BY <1>0, <2>0, <1>4
    <3> DEFINE e == j - 1
    <3>2. e \in i..L /\ e \in Int /\ i \in Int /\ \A k \in i..e : packet[k] \in Byte
      BY <2>0, <3>1
    <3> HIDE DEF e
    <3>3. SubSeq(packet, i, e) \in Seq(Byte) /\ Len(SubSeq(packet, i, e)) = e - i + 1
      BY <3>2, SubSeqProperties
    <3> QED
      BY <2>0, <3>3 DEF e
  <2>3. CASE packet[i] = SysExStart
    <3>1. g[i] = Pieces(cable, message) \o g[j]
      <4>1. PICK last \in i..L : last = SysExLast(packet, i)
        BY <1>0, <2>0, SysExLastRange
      <4>2. j = last + 1 /\ j - 1 = last /\ ~(i > Len(packet))
        BY <1>0, <1>4, <2>0, <2>3, <4>1
      <4>3. EncodeStep(g, cable, packet, i) = Pieces(cable, SubSeq(packet, i, last)) \o g[last + 1]
        BY <2>3, <4>1, <4>2 DEF EncodeStep
      <4> QED
        BY <2>1, <4>2, <4>3
    <3>2. Pieces(cable, message) \in Seq(UsbEvents(C)) /\ Said(cable, Pieces(cable, message)) = message
      BY <2>2, PiecesSayAll
    <3> HIDE DEF Good, C
    <3> QED
      BY <1>3, <1>4, <2>0, <3>1, <3>2
  <2>4. CASE packet[i] # SysExStart
    <3>1. PICK q \in 1..3 : q = StatusLength(packet[i]) /\ j = i + q
      <4>1. StatusLength(packet[i]) \in 0..3 /\ StatusLength(packet[i]) > 0
        BY <1>1, <1>4, <2>4, StatusLengthRange
      <4>2. j = i + StatusLength(packet[i])
        BY <1>4, <2>4
      <4> QED
        BY ONLY <4>1, <4>2
    <3>2. Lesser(StatusLength(packet[i]), Len(packet) - i + 1) = q
      BY <1>0, <1>4, <2>0, <3>1 DEF Lesser
    <3> DEFINE head == <<Event(cable, MessageCode(packet[i], q), message)>>
    <3>3. i + q - 1 = j - 1 /\ ~(i > Len(packet)) /\ StatusLength(packet[i]) # 0
      BY <1>0, <2>0, <3>1
    <3>4. g[i] = head \o g[j]
      BY <2>1, <2>4, <3>1, <3>2, <3>3 DEF EncodeStep
    <3>5. message[1] = packet[i]
      <4> DEFINE e == j - 1
      <4>1. \A k \in i..e : packet[k] \in Byte
        BY <1>0, <2>0, <1>4
      <4>2. i \in Int /\ j \in Int /\ i < j
        BY <2>0, <3>1
      <4>3. i \in Int /\ e \in Int /\ 1 \in 1..e - i + 1 /\ i + 1 - 1 = i
        BY ONLY <4>2
      <4> HIDE DEF e
      <4>4. SubSeq(packet, i, e)[1] = packet[i + 1 - 1]
        BY ONLY <4>1, <4>3, SubSeqProperties, SMTT(60)
      <4> QED
        BY <4>3, <4>4 DEF e
    <3>6. Len(message) = q
      BY <2>0, <2>2, <3>1
    <3> HIDE DEF message
    <3>9. MessageCode(packet[i], q) = MessageCode(message[1], Len(message))
      BY <3>5, <3>6
    <3>10. message[1] # SysExStart /\ Len(message) = StatusLength(message[1]) /\ Len(message) # 0
      BY <2>4, <3>1, <3>5, <3>6
    <3>7. /\ Event(cable, MessageCode(packet[i], q), message) \in UsbEvents({cable})
          /\ Said(cable, head) = message
      BY <2>2, <3>9, <3>10, MessageSaysAll
    <3>8. head \in Seq(UsbEvents(C))
      BY <3>7
    <3> HIDE DEF Good, C, head
    <3> QED
      BY <1>3, <1>4, <2>0, <3>4, <3>7, <3>8 DEF message
  <2> QED
    BY <2>3, <2>4
<1>5. ASSUME T # {} PROVE FALSE
  <2>1. T \in SUBSET Nat
    OBVIOUS
  <2> HIDE DEF T
  <2>2. PICK n \in T : \A m \in T : n <= m
    BY <1>5, <2>1, LeastNumber
  <2>3. n \in 0..L /\ L + 1 - n \in starts /\ ~Good(L + 1 - n)
    BY DEF T
  <2>4. CASE n = 0
    <3>1. g[L + 1] = <<>>
      <4>1. L + 1 \in 1..Len(packet) + 1 /\ L + 1 > Len(packet)
        BY <1>0
      <4> QED
        BY <1>2, <4>1 DEF Encodes, EncodeStep
    <3>2. SubSeq(packet, L + 1, L) = <<>>
      BY <1>0
    <3>3. Good(L + 1)
      <4>1. <<>> \in Seq(UsbEvents(C))
        OBVIOUS
      <4> QED
        BY <3>1, <3>2, <4>1, SaidNothing
    <3> QED
      BY <2>3, <2>4, <3>3
  <2>5. CASE n # 0
    <3> DEFINE i == L + 1 - n
               j == IF packet[i] = SysExStart THEN SysExLast(packet, i) + 1
                    ELSE i + StatusLength(packet[i])
    <3>1. i \in starts /\ i # L + 1 /\ i \in 1..L
      BY <2>3, <2>5
    <3>2. j \in starts /\ j \in (i + 1)..L + 1
      <4>1. CASE packet[i] = SysExStart
        <5>1. SysExLast(packet, i) \in i..L
          BY <1>0, <3>1, SysExLastRange
        <5> QED
          BY <1>1, <3>1, <4>1, <5>1
      <4>2. CASE packet[i] # SysExStart
        <5>1. PICK q \in 0..3 : q = StatusLength(packet[i])
          BY StatusLengthRange
        <5>2. q > 0 /\ i + q \in starts
          BY <1>1, <3>1, <4>2, <5>1
        <5> QED
          BY <1>1, <3>1, <4>2, <5>1, <5>2
      <4> QED
        BY <4>1, <4>2
    <3> HIDE DEF j
    <3>3. L + 1 - j \in 0..L /\ L + 1 - j < n /\ L + 1 - (L + 1 - j) = j
      BY <2>3, <2>5, <3>2
    <3>4. L + 1 - j \notin T
      BY <2>1, <2>2, <3>3
    <3>5. Good(j)
      <4> HIDE DEF Good
      <4> QED
        BY <3>2, <3>3, <3>4 DEF T
    <3> HIDE DEF Good
    <3>6. Good(i)
      BY <1>4, <3>1, <3>2, <3>5 DEF j
    <3> QED
      BY <2>3, <3>6
  <2> QED
    BY <2>4, <2>5
<1>6. L \in 0..L /\ L + 1 - L = 1
  OBVIOUS
<1>7. Good(1)
  <2> HIDE DEF Good
  <2> QED
    BY <1>1, <1>5, <1>6
<1>8. SubSeq(packet, 1, L) = packet
  BY <1>0, SubSeqFull
<1> QED
  BY <1>2, <1>7, <1>8

\* emitEvent loses nothing of a list of such packets that fits into the buffer.
THEOREM WholeListsAreSaid ==
    ASSUME NEW cable, NEW list, NEW room \in Nat, WholeList(cable, list, room)
    PROVE  /\ EncodedList(cable, list, room) \in Seq(UsbEvents({cable}))
           /\ Said(cable, EncodedList(cable, list, room)) = FlattenSeq(list)
<1> DEFINE C == {cable}
           U == UsbEvents(C)
           E == [k \in DOMAIN list |-> Encoded(cable, list[k])]
           all == FlattenSeq(E)
           B == Seq(Byte)
           SU == Seq(U)
<1>1. list \in Seq(B) /\ Len(all) <= room /\ \A k \in DOMAIN list : WholeMessages(list[k])
  BY DEF WholeList, EncodedPackets
<1>0. PICK L \in Nat : L = Len(list) /\ DOMAIN list = 1..L
  <2> HIDE DEF B
  <2> QED
    BY <1>1
<1>2. ASSUME NEW k \in 1..L
      PROVE  E[k] \in SU /\ Said(cable, E[k]) = list[k] /\ list[k] \in B
  <2>0. k \in DOMAIN list
    BY <1>0
  <2>1. list[k] \in B
    <3> HIDE DEF B
    <3> QED
      BY <1>0, <1>1
  <2> DEFINE packet == list[k]
  <2>2. packet \in Seq(Byte) /\ WholeMessages(packet)
    BY <1>1, <2>0, <2>1
  <2> HIDE DEF packet
  <2>3. Encoded(cable, packet) \in Seq(UsbEvents({cable})) /\ Said(cable, Encoded(cable, packet)) = packet
    BY <2>2, WholePacketsAreSaid
  <2> QED
    BY <1>0, <2>2, <2>3 DEF packet
<1>3. E \in Seq(SU) /\ Len(E) = L
  <2>1. E = [k \in 1..L |-> E[k]]
    BY <1>0
  <2>2. \A k \in 1..L : E[k] \in SU
    BY <1>2
  <2> HIDE DEF E, SU
  <2> QED
    BY <2>1, <2>2
<1>4. all \in Seq(U)
  <2> HIDE DEF E, U
  <2> QED
    BY <1>3, FlattenSeqType
<1>5. EncodedList(cable, list, room) = all
  <2>1. EncodedList(cable, list, room) = SubSeq(all, 1, Lesser(room, Len(all)))
    BY DEF EncodedList, EncodedPackets
  <2> HIDE DEF all, U
  <2>2. Lesser(room, Len(all)) = Len(all)
    BY <1>1, <1>4 DEF Lesser
  <2>3. SubSeq(all, 1, Len(all)) = all
    BY <1>4, SubSeqFull
  <2> QED
    BY <2>1, <2>2, <2>3
<1> DEFINE Told(n) == Said(cable, FlattenSeq(SubSeq(E, 1, n))) = FlattenSeq(SubSeq(list, 1, n))
           T == {n \in 0..L : ~Told(n)}
<1>6. Told(0)
  <2> HIDE DEF E
  <2>1. SubSeq(E, 1, 0) = <<>> /\ SubSeq(list, 1, 0) = <<>>
    OBVIOUS
  <2> QED
    BY <2>1, FlattenEmpty, SaidNothing
<1>7. ASSUME T # {} PROVE FALSE
  <2>1. T \in SUBSET Nat
    OBVIOUS
  <2> HIDE DEF T, Told, E, U
  <2>2. PICK n \in T : \A m \in T : n <= m
    BY <1>7, <2>1, LeastNumber
  <2>3. n \in 1..L /\ n - 1 \in 0..L /\ n - 1 \notin T /\ ~Told(n)
    BY <1>6, <2>2 DEF T
  <2>4. Told(n - 1)
    BY <2>3 DEF T
  <2> DEFINE a == SubSeq(E, 1, n - 1)
             b == SubSeq(list, 1, n - 1)
             x == E[n]
             y == list[n]
  <2>5. x \in SU /\ y \in B /\ Said(cable, x) = y
    BY <1>2, <2>3
  <2> HIDE DEF SU, B
  <2>6. a \in Seq(SU) /\ SubSeq(E, 1, n) = Append(a, x)
    <3>1. SubSeq(E, 1, n) = a \o <<x>> /\ a \in Seq(SU) /\ <<x>> \in Seq(SU)
      BY <1>3, <2>3, <2>5, SubSeqRecursiveSecond
    <3> HIDE DEF a, x
    <3> QED
      BY <2>5, <3>1, AppendIsConcat
  <2>7. b \in Seq(B) /\ SubSeq(list, 1, n) = Append(b, y)
    <3>1. SubSeq(list, 1, n) = b \o <<y>> /\ b \in Seq(B) /\ <<y>> \in Seq(B)
      BY <1>0, <1>1, <2>3, <2>5, SubSeqRecursiveSecond
    <3> HIDE DEF b, y
    <3> QED
      BY <2>5, <3>1, AppendIsConcat
  <2>8. Said(cable, FlattenSeq(a)) = FlattenSeq(b)
    BY <2>4 DEF Told
  <2> HIDE DEF a, b, x, y
  <2>9. FlattenSeq(Append(a, x)) = FlattenSeq(a) \o x /\ FlattenSeq(a) \in Seq(U) /\ x \in Seq(U)
    <3>1. a \in Seq(Seq(U)) /\ x \in Seq(U)
      BY <2>5, <2>6 DEF SU
    <3> QED
      BY <3>1, FlattenAppend, FlattenSeqType
  <2>10. FlattenSeq(Append(b, y)) = FlattenSeq(b) \o y
    <3>1. b \in Seq(Seq(Byte)) /\ y \in Seq(Byte)
      BY <2>5, <2>7 DEF B
    <3> QED
      BY <3>1, FlattenAppend
  <2>11. Said(cable, FlattenSeq(a) \o x) = FlattenSeq(b) \o y
    <3> DEFINE f == FlattenSeq(a)
    <3>1. f \in Seq(UsbEvents(C))
      BY <2>9 DEF U
    <3>2. x \in Seq(UsbEvents(C))
      BY <2>9 DEF U
    <3> HIDE DEF f, C
    <3>3. Said(cable, f \o x) = Said(cable, f) \o Said(cable, x)
      BY <3>1, <3>2, SaidConcat
    <3> QED
      BY <2>5, <2>8, <3>3 DEF f
  <2> QED
    BY <2>3, <2>6, <2>7, <2>9, <2>10, <2>11 DEF Told
<1>8. Told(L)
  BY <1>7
<1>9. SubSeq(E, 1, L) = E /\ SubSeq(list, 1, L) = list
  <2> HIDE DEF E, SU, B
  <2> QED
    BY <1>0, <1>1, <1>3, SubSeqFull
<1> QED
  BY <1>4, <1>5, <1>8, <1>9

-----------------------------------------------------------------------------
(* What is on its way.                                                     *)

TrafficType ==
    /\ events \in [Cables -> Seq(UsbEvents(Cables))]
    /\ line \in Seq(UsbEvents(Cables \cup Strays))
    /\ sent \in [Cables -> Seq(Byte)] /\ heard \in [Cables -> Seq(Byte)]
    /\ said \in [Cables -> Seq(Byte)] /\ received \in [Cables -> Seq(Byte)]

\* What is on its way belongs to the cable it is on and is all that is missing.
Outgoing ==
    \A c \in Cables :
        /\ events[c] \in Seq(UsbEvents({c}))
        /\ sender[c] = "idle" => events[c] = <<>>
        /\ sent[c] = heard[c] \o Said(c, events[c])

Incoming == \A c \in Cables : said[c] = received[c] \o Said(c, line)

Traffic == TrafficType /\ Outgoing /\ Incoming

\* The bytes nobody waits for any more leave nothing behind.
LEMMA PrefixForgotten ==
    ASSUME NEW S, NEW a \in Seq(S), NEW b \in Seq(S)
    PROVE  /\ IsPrefix(a, a \o b)
           /\ SubSeq(a \o b, Len(a) + 1, Len(a \o b)) = b
<1>0. PICK m \in Nat, n \in Nat : m = Len(a) /\ n = Len(b)
  OBVIOUS
<1>1. /\ Len(a \o b) = m + n /\ a \o b \in Seq(S)
      /\ \A i \in 1..(m + n) : (a \o b)[i] = IF i <= m THEN a[i] ELSE b[i - m]
  BY <1>0, ConcatProperties
<1> DEFINE w == a \o b
<1>2. w \in Seq(S) /\ Len(w) = m + n /\ \A i \in 1..(m + n) : w[i] = IF i <= m THEN a[i] ELSE b[i - m]
  BY <1>1
<1> HIDE DEF w
<1>3. SubSeq(a, 1, m) = SubSeq(w, 1, m)
  <2>1. SubSeq(a, 1, m) = a
    BY <1>0, SubSeqFull
  <2>2. SubSeq(w, 1, m) \in Seq(S) /\ Len(SubSeq(w, 1, m)) = m
    BY <1>2
  <2>3. \A i \in 1..m : SubSeq(w, 1, m)[i] = a[i]
    BY <1>2
  <2> QED
    BY <1>0, <2>1, <2>2, <2>3, SeqEqual
<1>4. SubSeq(w, m + 1, m + n) = b
  <2>1. SubSeq(w, m + 1, m + n) \in Seq(S) /\ Len(SubSeq(w, m + 1, m + n)) = n
    BY <1>2, SMTT(60)
  <2>2. ASSUME NEW i \in 1..n PROVE SubSeq(w, m + 1, m + n)[i] = b[i]
    <3>1. SubSeq(w, m + 1, m + n)[i] = w[m + i]
      BY <1>2
    <3> QED
      BY <1>2, <3>1
  <2> QED
    BY <1>0, <2>1, <2>2, SeqEqual
<1>5. IsPrefix(a, w)
  BY <1>0, <1>2, <1>3 DEF IsPrefix
<1> QED
  BY <1>0, <1>2, <1>4, <1>5 DEF w

\* Nothing is on its way when the process starts.
LEMMA InitTraffic == Init => Traffic
<1> SUFFICES ASSUME Init PROVE Traffic
  OBVIOUS
<1>1. \A c \in Cables : Said(c, <<>>) = <<>>
  BY SaidNothing
<1>2. \A S : <<>> \in Seq(S)
  OBVIOUS
<1>3. <<>> \o <<>> = <<>>
  OBVIOUS
<1>4. TrafficType
  BY <1>2 DEF Init, Silence, TrafficType
<1>5. Outgoing /\ Incoming
  BY <1>1, <1>2, <1>3 DEF Init, Silence, Outgoing, Incoming
<1> QED
  BY <1>4, <1>5 DEF Traffic

\* A list goes to its cable whole.
LEMMA SendKeepsTraffic ==
    ASSUME TrafficIsWhole, Traffic, SenderType, NEW c \in Cables, NEW list \in Lists, Send(c, list)
    PROVE  Traffic'
<1> DEFINE list_events == EncodedList(c, list, Room)
           C == {c}
           bytes == FlattenSeq(list)
<1>1. list_events \in Seq(UsbEvents(C)) /\ Said(c, list_events) = bytes
  <2>1. WholeList(c, list, Room) /\ Room \in Nat
    BY DEF TrafficIsWhole
  <2> QED
    BY <2>1, WholeListsAreSaid
<1>2. bytes \in Seq(Byte)
  <2> HIDE DEF list_events
  <2> QED
  BY <1>1, SaidType
<1>3. /\ sender[c] = "idle"
      /\ sent' = [sent EXCEPT ![c] = @ \o bytes]
      /\ events' = [events EXCEPT ![c] = list_events]
      /\ sender' = [sender EXCEPT ![c] = IF events'[c] = <<>> THEN "idle" ELSE "encoded"]
      /\ UNCHANGED <<heard, line, said, received>>
  BY DEF Send, readVars
<1> HIDE DEF list_events, bytes
<1>4. list_events \in Seq(UsbEvents(Cables))
  <2>1. UsbEvents(C) \subseteq UsbEvents(Cables)
    BY DEF UsbEvents
  <2> DEFINE A == UsbEvents(C)
             B == UsbEvents(Cables)
  <2>2. list_events \in Seq(A) /\ A \subseteq B
    BY <1>1, <2>1
  <2> HIDE DEF A, B
  <2>3. list_events \in Seq(B)
    BY <2>2, SeqMonotonic
  <2> QED
    BY <2>3 DEF B
<1>5. sent[c] = heard[c]
  <2>1. events[c] = <<>> /\ sent[c] = heard[c] \o Said(c, <<>>) /\ heard[c] \in Seq(Byte)
    BY <1>3 DEF Traffic, Outgoing, TrafficType
  <2> QED
    BY <2>1, SaidNothing, ConcatEmptySeq
<1>6. TrafficType'
  <2>1. sent[c] \in Seq(Byte)
    BY DEF Traffic, TrafficType
  <2>2. sent[c] \o bytes \in Seq(Byte)
    BY <1>2, <2>1, ConcatProperties
  <2> QED
    BY <1>3, <1>4, <2>2 DEF Traffic, TrafficType
<1>7. Outgoing'
  <2> SUFFICES ASSUME NEW d \in Cables
               PROVE  /\ events'[d] \in Seq(UsbEvents({d}))
                      /\ sender'[d] = "idle" => events'[d] = <<>>
                      /\ sent'[d] = heard'[d] \o Said(d, events'[d])
    BY DEF Outgoing
  <2>1. CASE d = c
    <3>1. events'[c] = list_events /\ sent'[c] = heard[c] \o bytes /\ heard' = heard
      BY <1>3, <1>5 DEF Traffic, TrafficType
    <3>2. sender'[c] = "idle" => events'[c] = <<>>
      BY <1>3 DEF SenderType
    <3> QED
      BY <1>1, <2>1, <3>1, <3>2
  <2>2. CASE d # c
    <3>1. events'[d] = events[d] /\ sent'[d] = sent[d] /\ heard' = heard /\ sender'[d] = sender[d]
      BY <1>3, <2>2 DEF Traffic, TrafficType, SenderType
    <3>2. /\ events[d] \in Seq(UsbEvents({d}))
          /\ sender[d] = "idle" => events[d] = <<>>
          /\ sent[d] = heard[d] \o Said(d, events[d])
      BY DEF Traffic, Outgoing
    <3> QED
      BY <3>1, <3>2
  <2> QED
    BY <2>1, <2>2
<1>8. Incoming'
  BY <1>3 DEF Traffic, Incoming
<1> QED
  BY <1>6, <1>7, <1>8 DEF Traffic

\* Waiting for gWriteLock changes nothing that is on its way.
LEMMA LockKeepsTraffic ==
    ASSUME Traffic, SenderType, NEW c \in Cables, TakeLock(c)
    PROVE  Traffic'
<1>1. /\ sender[c] = "encoded" /\ sender' = [sender EXCEPT ![c] = "writing"]
      /\ UNCHANGED <<events, sent, heard, line, said, received>>
  BY DEF TakeLock, readVars
<1>2. \A d \in Cables : sender'[d] = "idle" => sender[d] = "idle"
  BY <1>1 DEF SenderType
<1>3. Outgoing'
  BY <1>1, <1>2 DEF Traffic, Outgoing
<1> QED
  BY <1>1, <1>3 DEF Traffic, TrafficType, Incoming

\* A write that succeeds brings the rack what it lacked on the cable of the
\* callback, and nothing on another.
LEMMA WriteKeepsTraffic ==
    ASSUME Traffic, SenderType, NEW c \in Cables, Write(c)
    PROVE  Traffic'
<1>1. PICK ok \in BOOLEAN :
         LET got  == [d \in Cables |-> heard[d] \o (IF ok THEN Said(d, events[c]) ELSE <<>>)]
             over == ~ok \/ got[c] = sent[c]
         IN  /\ sent' = [sent EXCEPT ![c] = IF over THEN <<>> ELSE @]
             /\ heard' = [got EXCEPT ![c] = IF over THEN <<>> ELSE @]
  BY DEF Write
<1> DEFINE got == [d \in Cables |-> heard[d] \o (IF ok THEN Said(d, events[c]) ELSE <<>>)]
<1>2. /\ sender' = [sender EXCEPT ![c] = "idle"]
      /\ events' = [events EXCEPT ![c] = <<>>]
      /\ UNCHANGED <<line, said, received>>
  BY DEF Write, readVars
<1>3. ~ok \/ got[c] = sent[c]
  BY DEF Traffic, Outgoing
<1>4. ASSUME NEW d \in Cables, d # c PROVE got[d] = heard[d]
  <2> DEFINE C == {c}
  <2>1. events[c] \in Seq(UsbEvents(C)) /\ d \notin C
    BY <1>4 DEF Traffic, Outgoing
  <2> HIDE DEF C
  <2> DEFINE e == events[c]
  <2>2. e \in Seq(UsbEvents(C))
    BY <2>1
  <2> HIDE DEF e
  <2>3. Said(d, e) = <<>>
    BY <2>1, <2>2, OthersAreSilent
  <2>4. heard[d] \in Seq(Byte)
    BY DEF Traffic, TrafficType
  <2>5. heard[d] \o <<>> = heard[d]
    BY <2>4, ConcatEmptySeq
  <2> QED
    BY <2>3, <2>5 DEF e
<1>5. /\ sent' = [sent EXCEPT ![c] = <<>>]
      /\ heard' = [heard EXCEPT ![c] = <<>>]
  <2>1. sent' = [sent EXCEPT ![c] = <<>>] /\ heard' = [got EXCEPT ![c] = <<>>]
    BY <1>1, <1>3
  <2> DEFINE g == [got EXCEPT ![c] = <<>>]
             h == [heard EXCEPT ![c] = <<>>]
  <2>2. g = [d \in Cables |-> IF d = c THEN <<>> ELSE got[d]]
    OBVIOUS
  <2>3. h = [d \in Cables |-> IF d = c THEN <<>> ELSE heard[d]]
    BY DEF Traffic, TrafficType
  <2> HIDE DEF got
  <2>4. g = h
    BY <1>4, <2>2, <2>3
  <2> QED
    BY <2>1, <2>4
<1>6. \A S : <<>> \in Seq(S)
  OBVIOUS
<1>7. TrafficType'
  BY <1>2, <1>5, <1>6 DEF Traffic, TrafficType
<1>8. Outgoing'
  <2> SUFFICES ASSUME NEW d \in Cables
               PROVE  /\ events'[d] \in Seq(UsbEvents({d}))
                      /\ sender'[d] = "idle" => events'[d] = <<>>
                      /\ sent'[d] = heard'[d] \o Said(d, events'[d])
    BY DEF Outgoing
  <2>1. CASE d = c
    <3>1. events'[c] = <<>> /\ sent'[c] = <<>> /\ heard'[c] = <<>>
      BY <1>2, <1>5 DEF Traffic, TrafficType
    <3>2. Said(c, <<>>) = <<>> /\ <<>> \o <<>> = <<>>
      BY SaidNothing
    <3> QED
      BY <1>6, <2>1, <3>1, <3>2
  <2>2. CASE d # c
    <3>1. events'[d] = events[d] /\ sent'[d] = sent[d] /\ heard'[d] = heard[d] /\ sender'[d] = sender[d]
      BY <1>2, <1>5, <2>2 DEF Traffic, TrafficType, SenderType
    <3>2. /\ events[d] \in Seq(UsbEvents({d}))
          /\ sender[d] = "idle" => events[d] = <<>>
          /\ sent[d] = heard[d] \o Said(d, events[d])
      BY DEF Traffic, Outgoing
    <3> QED
      BY <3>1, <3>2
  <2> QED
    BY <2>1, <2>2
<1>9. Incoming'
  BY <1>2 DEF Traffic, Incoming
<1> QED
  BY <1>7, <1>8, <1>9 DEF Traffic

\* The same message on another cable.
Moved(c, message) == [k \in DOMAIN message |-> [message[k] EXCEPT !.cable = c]]

\* A message says the same on whichever cable.
LEMMA MovedSaysTheSame ==
    ASSUME NEW C, NEW c \in C, NEW message \in Seq(UsbEvents({0}))
    PROVE  /\ Moved(c, message) \in Seq(UsbEvents({c}))
           /\ Moved(c, message) \in Seq(UsbEvents(C))
           /\ Said(c, Moved(c, message)) = Said(0, message)
<1>0. PICK n \in Nat : n = Len(message) /\ DOMAIN message = 1..n
  <2> DEFINE U == UsbEvents({0})
  <2>1. message \in Seq(U)
    OBVIOUS
  <2> HIDE DEF U
  <2> QED
    BY <2>1
<1> DEFINE m == Moved(c, message)
<1>1. ASSUME NEW k \in 1..n
      PROVE  /\ m[k] \in UsbEvents({c}) /\ m[k] \in UsbEvents(C)
             /\ m[k].cable = c /\ Counted(m[k]) = Counted(message[k]) /\ message[k].cable = 0
  <2>1. m[k] = [message[k] EXCEPT !.cable = c]
    BY <1>0 DEF Moved
  <2>2. message[k] \in UsbEvents({0})
    BY <1>0
  <2> QED
    BY <2>1, <2>2 DEF UsbEvents, Counted
<1>2. m = [k \in 1..n |-> m[k]]
  BY <1>0 DEF Moved
<1>3. m \in Seq(UsbEvents({c})) /\ m \in Seq(UsbEvents(C)) /\ DOMAIN m = 1..n
  <2> DEFINE A == UsbEvents({c})
             B == UsbEvents(C)
  <2>1. (\A k \in 1..n : m[k] \in A /\ m[k] \in B) /\ m = [k \in 1..n |-> m[k]]
    BY <1>1, <1>2
  <2> HIDE DEF m, A, B
  <2>2. m \in Seq(A) /\ m \in Seq(B)
    BY <2>1, SMTT(60)
  <2>3. DOMAIN m = 1..n
    BY <2>1
  <2> QED
    BY <2>2, <2>3 DEF A, B
<1> HIDE DEF m
<1>4. [k \in DOMAIN m |-> IF m[k].cable = c THEN Counted(m[k]) ELSE <<>>]
        = [k \in DOMAIN message |-> IF message[k].cable = 0 THEN Counted(message[k]) ELSE <<>>]
  BY <1>0, <1>1, <1>3
<1> QED
  BY <1>3, <1>4 DEF Said, m

\* A message of the rack waits on the line for its cable, and for no other.
LEMMA SayKeepsTraffic ==
    ASSUME TrafficIsWhole, Traffic, NEW c \in Cables \cup Strays, NEW message \in Sayings,
           Say(c, message)
    PROVE  Traffic'
<1> DEFINE C == Cables \cup Strays
           m == Moved(c, message)
           D == {c}
<1>1. m \in Seq(UsbEvents(D)) /\ m \in Seq(UsbEvents(C)) /\ Said(c, m) = Said(0, message)
  <2>1. c \in C /\ message \in Seq(UsbEvents({0}))
    BY DEF TrafficIsWhole
  <2> HIDE DEF C
  <2> QED
    BY <2>1, MovedSaysTheSame
<1>2. /\ line' = line \o m
      /\ said' = [d \in Cables |-> said[d] \o (IF c = d THEN Said(0, message) ELSE <<>>)]
      /\ UNCHANGED <<received, sender, events, sent, heard>>
  BY DEF Say, Moved, senderVars
<1>3. line \in Seq(UsbEvents(C))
  BY DEF Traffic, TrafficType
<1> HIDE DEF m, C, D
<1>4. line \o m \in Seq(UsbEvents(C))
  BY <1>1, <1>3, ConcatProperties
<1>5. ASSUME NEW d \in Cables PROVE Said(d, m) = IF c = d THEN Said(0, message) ELSE <<>>
  <2>1. CASE d = c
    BY <1>1, <2>1
  <2>2. CASE d # c
    <3>1. d \notin D
      BY <2>2 DEF D
    <3>2. Said(d, m) = <<>>
      BY <1>1, <3>1, OthersAreSilent
    <3> QED
      BY <2>2, <3>2
  <2> QED
    BY <2>1, <2>2
<1>6. ASSUME NEW d \in Cables
      PROVE  said'[d] = received[d] \o Said(d, line \o m) /\ said'[d] \in Seq(Byte)
  <2>1. said'[d] = said[d] \o Said(d, m)
    BY <1>2, <1>5
  <2>2. said[d] = received[d] \o Said(d, line) /\ received[d] \in Seq(Byte) /\ said[d] \in Seq(Byte)
    BY DEF Traffic, TrafficType, Incoming
  <2>3. Said(d, line \o m) = Said(d, line) \o Said(d, m)
    BY <1>1, <1>3, SaidConcat
  <2> DEFINE r == received[d]
             a == Said(d, line)
             b == Said(d, m)
  <2>4. a \in Seq(Byte)
    BY <1>3, SaidType
  <2>5. b \in Seq(Byte)
    BY <1>1, SaidType
  <2>6. r \in Seq(Byte)
    BY <2>2
  <2> HIDE DEF r, a, b
  <2>7. (r \o a) \o b = r \o (a \o b) /\ r \o a \in Seq(Byte) /\ (r \o a) \o b \in Seq(Byte)
    BY <2>4, <2>5, <2>6, ConcatAssociative, ConcatProperties, SMTT(60)
  <2> QED
    BY <2>1, <2>2, <2>3, <2>7 DEF r, a, b
<1>7. TrafficType'
  <2>1. said' \in [Cables -> Seq(Byte)]
    <3>1. said' = [d \in Cables |-> said'[d]]
      BY <1>2
    <3> QED
      BY <1>6, <3>1
  <2> QED
    BY <1>2, <1>4, <2>1 DEF Traffic, TrafficType, C
<1>8. Outgoing'
  BY <1>2 DEF Traffic, Outgoing
<1>9. Incoming'
  BY <1>2, <1>6 DEF Incoming
<1> QED
  BY <1>7, <1>8, <1>9 DEF Traffic

\* What a read takes off the line is what the applications have not got yet.
LEMMA ReadKeepsTraffic ==
    ASSUME TrafficIsWhole, Traffic, ReadEvents
    PROVE  Traffic'
<1> DEFINE C == Cables \cup Strays
<1>0. PICK L \in Nat : L = Len(line) /\ line \in Seq(UsbEvents(C)) /\ Room \in Nat
  BY DEF Traffic, TrafficType, TrafficIsWhole
<1>1. PICK n \in 1..Lesser(Room, Len(line)) :
         /\ LET got == [c \in Cables |-> received[c] \o Said(c, SubSeq(line, 1, n))]
                agreed == {c \in Cables : IsPrefix(got[c], said[c])}
            IN  /\ received' = [c \in Cables |-> IF c \in agreed THEN <<>> ELSE got[c]]
                /\ said' = [c \in Cables |-> IF c \in agreed
                               THEN SubSeq(said[c], Len(got[c]) + 1, Len(said[c])) ELSE said[c]]
         /\ line' = SubSeq(line, n + 1, Len(line))
  BY DEF ReadEvents
<1>2. UNCHANGED <<sender, events, sent, heard>>
  BY DEF ReadEvents, senderVars
<1>3. n \in 1..L
  BY <1>0, <1>1 DEF Lesser
<1> DEFINE taken == SubSeq(line, 1, n)
           rest == SubSeq(line, n + 1, L)
           got(c) == received[c] \o Said(c, taken)
<1>4. taken \in Seq(UsbEvents(C)) /\ rest \in Seq(UsbEvents(C)) /\ taken \o rest = line
  <2> DEFINE U == UsbEvents(C)
  <2>1. line \in Seq(U)
    BY <1>0
  <2> HIDE DEF U
  <2>2. taken \in Seq(U) /\ rest \in Seq(U)
    BY <1>0, <1>3, <2>1
  <2>3. taken \o rest = line
    <3>1. 1 \in 1..Len(line) + 1 /\ n \in 1 - 1..Len(line) /\ Len(line) \in n..Len(line)
      BY <1>0, <1>3
    <3>2. SubSeq(line, 1, n) \o SubSeq(line, n + 1, Len(line)) = SubSeq(line, 1, Len(line))
      BY <2>1, <3>1, ConcatAdjacentSubSeq
    <3>3. SubSeq(line, 1, Len(line)) = line
      BY <2>1, SubSeqFull
    <3> QED
      BY <1>0, <3>2, <3>3
  <2> QED
    BY <2>2, <2>3 DEF U
<1> HIDE DEF C, taken, rest
<1>5. ASSUME NEW c \in Cables
      PROVE  /\ said[c] = got(c) \o Said(c, rest)
             /\ got(c) \in Seq(Byte) /\ Said(c, rest) \in Seq(Byte)
             /\ IsPrefix(got(c), said[c])
             /\ SubSeq(said[c], Len(got(c)) + 1, Len(said[c])) = Said(c, rest)
  <2> DEFINE r == received[c]
             a == Said(c, taken)
             b == Said(c, rest)
  <2>1. r \in Seq(Byte) /\ said[c] = r \o Said(c, line)
    BY DEF Traffic, TrafficType, Incoming
  <2>2. a \in Seq(Byte)
    BY <1>4, SaidType
  <2>3. b \in Seq(Byte)
    BY <1>4, SaidType
  <2>4. Said(c, line) = a \o b
    <3>1. taken \in Seq(UsbEvents(C)) /\ rest \in Seq(UsbEvents(C))
      BY <1>4
    <3>2. Said(c, taken \o rest) = Said(c, taken) \o Said(c, rest)
      BY <3>1, SaidConcat
    <3> QED
      BY <1>4, <3>2
  <2>5. said[c] = r \o (a \o b)
    BY <2>1, <2>4
  <2> HIDE DEF r, a, b
  <2> DEFINE g == r \o a
  <2>6. said[c] = g \o b /\ g \in Seq(Byte)
    <3>1. r \in Seq(Byte) /\ a \in Seq(Byte) /\ b \in Seq(Byte)
      BY <2>1, <2>2, <2>3
    <3>2. (r \o a) \o b = r \o (a \o b)
      BY ONLY <3>1, ConcatAssociative, SMTT(60)
    <3>3. r \o a \in Seq(Byte)
      BY ONLY <3>1, ConcatProperties
    <3> QED
      BY ONLY <2>5, <3>2, <3>3
  <2> HIDE DEF g
  <2>7. IsPrefix(g, g \o b) /\ SubSeq(g \o b, Len(g) + 1, Len(g \o b)) = b
    BY <2>3, <2>6, PrefixForgotten
  <2> QED
    BY <2>3, <2>6, <2>7 DEF g, r, a, b
<1>6. /\ received' = [c \in Cables |-> <<>>]
      /\ said' = [c \in Cables |-> Said(c, rest)]
      /\ line' = rest
  <2> DEFINE g == [c \in Cables |-> received[c] \o Said(c, SubSeq(line, 1, n))]
             agreed == {c \in Cables : IsPrefix(g[c], said[c])}
  <2>1. /\ received' = [c \in Cables |-> IF c \in agreed THEN <<>> ELSE g[c]]
        /\ said' = [c \in Cables |-> IF c \in agreed
                         THEN SubSeq(said[c], Len(g[c]) + 1, Len(said[c])) ELSE said[c]]
        /\ line' = rest
    BY <1>0, <1>1 DEF rest
  <2>2. \A c \in Cables : g[c] = got(c)
    BY DEF taken
  <2> HIDE DEF g, got
  <2>3. \A c \in Cables : c \in agreed
    BY <1>5, <2>2
  <2> HIDE DEF agreed
  <2>4. \A c \in Cables : SubSeq(said[c], Len(g[c]) + 1, Len(said[c])) = Said(c, rest)
    BY <1>5, <2>2
  <2> QED
    BY <2>1, <2>3, <2>4
<1> HIDE DEF got
<1>7. <<>> \in Seq(Byte)
  OBVIOUS
<1>8. TrafficType'
  BY <1>2, <1>4, <1>5, <1>6, <1>7 DEF Traffic, TrafficType, C
<1>9. Outgoing'
  BY <1>2 DEF Traffic, Outgoing
<1>10. Incoming'
  <2>1. ASSUME NEW c \in Cables PROVE said'[c] = received'[c] \o Said(c, line')
    <3>1. <<>> \o Said(c, rest) = Said(c, rest)
      BY <1>5, ConcatEmptySeq
    <3> QED
      BY <1>6, <3>1
  <2> QED
    BY <2>1 DEF Incoming
<1> QED
  BY <1>8, <1>9, <1>10 DEF Traffic

\* The steps of main and of the idle reader touch no traffic.
LEMMA OthersKeepTraffic ==
    ASSUME Traffic, UNCHANGED <<senderVars, readVars>>
    PROVE  Traffic'
  BY DEF Traffic, TrafficType, Outgoing, Incoming, senderVars, readVars

\* Every step keeps the traffic whole.
LEMMA NextKeepsTraffic ==
    ASSUME TrafficIsWhole, Traffic, SenderType, [Next]_bridgeVars
    PROVE  Traffic'
<1>1. CASE OpenUSB \/ Publish \/ SelfTest \/ InstallHandlers \/ EnterRunLoop \/ Signal
             \/ LeaveRunLoop \/ AbortReading \/ JoinReader \/ DisposeClient \/ CloseUSB
             \/ StartAgain \/ ReaderTests \/ StartReading \/ ReadTimesOut \/ ReadFails
             \/ UNCHANGED bridgeVars
  <2>1. UNCHANGED <<senderVars, readVars>>
    BY <1>1 DEF OpenUSB, Publish, SelfTest, InstallHandlers, EnterRunLoop, Signal,
                LeaveRunLoop, AbortReading, JoinReader, DisposeClient, CloseUSB, StartAgain,
                ReaderTests, StartReading, ReadTimesOut, ReadFails, bridgeVars
  <2> QED
    BY <2>1, OthersKeepTraffic
<1>2. ASSUME NEW c \in Cables, NEW list \in Lists, Send(c, list) PROVE Traffic'
  BY <1>2, SendKeepsTraffic
<1>3. ASSUME NEW c \in Cables, TakeLock(c) PROVE Traffic'
  BY <1>3, LockKeepsTraffic
<1>4. ASSUME NEW c \in Cables, Write(c) PROVE Traffic'
  BY <1>4, WriteKeepsTraffic
<1>5. ASSUME NEW c \in Cables \cup Strays, NEW message \in Sayings, Say(c, message)
      PROVE  Traffic'
  BY <1>5, SayKeepsTraffic
<1>6. CASE ReadEvents
  BY <1>6, ReadKeepsTraffic
<1> QED
  BY <1>1, <1>2, <1>3, <1>4, <1>5, <1>6 DEF Next

(***************************************************************************)
(* Whoever sends, reads and fails in between: what the rack heard on a     *)
(* cable is what applications sent there, and what applications received   *)
(* is what the rack said, up to what nobody has read.  For any number of   *)
(* cables, any whole lists that fit into the buffer and any messages of    *)
(* the rack.                                                               *)
(***************************************************************************)
THEOREM MessagesAreCarried ==
    ASSUME TrafficIsWhole
    PROVE  Spec => []CablesCarryTheirMessages
<1>1. Init => Traffic
  BY InitTraffic
<1>2. IInv /\ Traffic /\ [Next]_bridgeVars => Traffic'
  BY TrafficIsWhole, NextKeepsTraffic DEF IInv
<1>3. Traffic => CablesCarryTheirMessages
  <2> SUFFICES ASSUME Traffic, NEW c \in Cables
               PROVE  /\ sender[c] = "idle" => heard[c] = sent[c]
                      /\ received[c] \o Said(c, line) = said[c]
    BY DEF CablesCarryTheirMessages
  <2>1. ASSUME sender[c] = "idle" PROVE heard[c] = sent[c]
    <3>1. events[c] = <<>> /\ sent[c] = heard[c] \o Said(c, <<>>) /\ heard[c] \in Seq(Byte)
      BY <2>1 DEF Traffic, Outgoing, TrafficType
    <3> QED
      BY <3>1, SaidNothing, ConcatEmptySeq
  <2> QED
    BY <2>1 DEF Traffic, Incoming
<1> QED
  BY <1>1, <1>2, <1>3, BridgeInvariance, PTL DEF Spec
=============================================================================
