------------------------ MODULE EngineStream_proofs -------------------------
(***************************************************************************)
(* Proofs about the samples of the engine, for any width of words, frames  *)
(* and packets, any rates and streams of any length: frames are whole      *)
(* wherever the packets end, playback follows the rate to the frame, and   *)
(* the streams are switched as StreamSwitch demands.                       *)
(***************************************************************************)
EXTENDS EngineStream, TLAPS

-----------------------------------------------------------------------------
(* Arithmetic of the parser and of the accordion.                          *)

\* A division is determined by its result.
LEMMA QuotientIs ==
    ASSUME NEW d \in Nat \ {0}, NEW q \in Nat, NEW r \in 0..(d - 1)
    PROVE  (q * d + r) \div d = q /\ (q * d + r) % d = r
  OBVIOUS

LEMMA DivisionSplits ==
    ASSUME NEW d \in Nat \ {0}, NEW n \in Nat
    PROVE  /\ n \div d \in Nat /\ n % d \in 0..(d - 1)
           /\ n = (n \div d) * d + (n % d)
  OBVIOUS

LEMMA ProductGrows ==
    ASSUME NEW a \in Nat, NEW b \in Nat, a < b, NEW d \in Nat
    PROVE  (a + 1) * d <= b * d /\ (a + 1) * d = a * d + d /\ a * d \in Nat
<1>1. PICK k \in Nat : b = a + 1 + k
  <2>1. b - a - 1 \in Nat /\ b = a + 1 + (b - a - 1)
    OBVIOUS
  <2> QED
    BY <2>1
<1>2. b * d = (a + 1) * d + k * d
  BY <1>1
<1>3. k * d \in Nat /\ a * d \in Nat
  OBVIOUS
<1> QED
  BY <1>2, <1>3

-----------------------------------------------------------------------------
(* Playback.                                                               *)

\* A microframe at a supported rate never asks for more than it can hold.
LEMMA AccordionFits ==
    ASSUME TypeOK, accum < Micro
    PROVE  /\ (accum + rate) \div Micro \in Nat
           /\ AtMost((accum + rate) \div Micro, MostFrames) = (accum + rate) \div Micro
<1> DEFINE n == accum + rate
           q == n \div Micro
<1>1. n \in Nat /\ n < MostFrames * Micro + Micro
  BY FormatAssumption DEF TypeOK
<1>2. q \in Nat /\ n % Micro \in 0..(Micro - 1) /\ n = q * Micro + (n % Micro)
  BY <1>1, DivisionSplits, FormatAssumption
<1>3. q <= MostFrames
  <2>1. SUFFICES ASSUME MostFrames < q PROVE FALSE
    BY <1>2, FormatAssumption
  <2>2. (MostFrames + 1) * Micro <= q * Micro /\ (MostFrames + 1) * Micro = MostFrames * Micro + Micro
    BY <1>2, <2>1, ProductGrows, FormatAssumption
  <2> QED
    BY <1>1, <1>2, <2>2, FormatAssumption
<1> QED
  BY <1>2, <1>3, FormatAssumption DEF AtMost

LEMMA FillKeepsRate ==
    ASSUME TypeOK, PlaybackFollowsRate, FillMicroframe
    PROVE  PlaybackFollowsRate' /\ taken' \in Nat /\ accum' \in Nat /\ micros' \in Nat
<1> DEFINE n == accum + rate
           q == n \div Micro
<1>1. n \in Nat /\ Micro \in Nat \ {0} /\ rate \in Nat
  BY FormatAssumption DEF TypeOK
<1>2. q \in Nat /\ n % Micro \in 0..(Micro - 1) /\ n = q * Micro + (n % Micro)
  BY <1>1, DivisionSplits
<1>3. /\ taken' = taken + q /\ accum' = n % Micro /\ micros' = micros + 1
      /\ rate' = rate
  BY AccordionFits DEF FillMicroframe, PlaybackFollowsRate, Left, control
<1>4. taken \in Nat /\ micros \in Nat /\ accum \in Nat
  BY DEF TypeOK
<1>5. (taken + q) * Micro = taken * Micro + q * Micro
  BY <1>1, <1>2, <1>4
<1>6. (micros + 1) * rate = micros * rate + rate
  BY <1>1, <1>4
<1>7. taken * Micro \in Nat /\ q * Micro \in Nat /\ micros * rate \in Nat
  BY <1>1, <1>2, <1>4
<1>8. taken' * Micro + accum' = micros' * rate'
  BY <1>1, <1>2, <1>3, <1>4, <1>5, <1>6, <1>7 DEF PlaybackFollowsRate
<1> QED
  BY <1>1, <1>2, <1>3, <1>4, <1>8 DEF PlaybackFollowsRate
-----------------------------------------------------------------------------
(* Capture.                                                                *)

\* A packet is put behind the bytes that wait.
LEMMA FeedKeepsTail ==
    ASSUME TypeOK, CarryIsTail, NEW len \in Nat,
           bytes' = bytes \o [i \in 1..len |-> Byte(stream, sent + i - 1)],
           sent' = sent + len, stream' = stream
    PROVE  /\ bytes' \in Seq(Bytes) /\ sent' \in Nat
           /\ Parsed' = Parsed /\ CarryIsTail'
<1> DEFINE packet == [i \in 1..len |-> Byte(stream, sent + i - 1)]
<1>1. packet \in Seq(Bytes) /\ Len(packet) = len
  <2>1. \A i \in 1..len : Byte(stream, sent + i - 1) \in Bytes
    BY DEF TypeOK, Byte, Bytes
  <2> QED
    BY <2>1
<1>2. bytes \in Seq(Bytes) /\ Len(bytes) \in Nat /\ sent \in Nat
  BY DEF TypeOK
<1>3. bytes' \in Seq(Bytes) /\ Len(bytes') = Len(bytes) + len
  BY <1>1, <1>2
<1>4. Parsed' = Parsed
  BY <1>2, <1>3 DEF Parsed
<1>5. ASSUME NEW i \in 1..Len(bytes') PROVE bytes'[i] = Byte(stream, Parsed + i - 1)
  <2>1. CASE i <= Len(bytes)
    <3>1. bytes'[i] = bytes[i] /\ i \in 1..Len(bytes)
      BY <1>1, <1>2, <1>3, <1>5, <2>1
    <3> QED
      BY <3>1 DEF CarryIsTail
  <2>2. CASE i > Len(bytes)
    <3>1. bytes'[i] = packet[i - Len(bytes)] /\ i - Len(bytes) \in 1..len
      BY <1>1, <1>2, <1>3, <1>5, <2>2
    <3>2. bytes'[i] = Byte(stream, sent + (i - Len(bytes)) - 1)
      BY <3>1
    <3>3. sent + (i - Len(bytes)) - 1 = Parsed + i - 1
      BY <1>2, <1>5 DEF Parsed
    <3> QED
      BY <3>2, <3>3
  <2> QED
    BY <1>2, <1>3, <1>5, <2>1, <2>2
<1>6. Len(bytes) <= sent
  BY DEF CarryIsTail
<1>7. sent' \in Nat /\ Len(bytes') <= sent'
  BY <1>2, <1>3, <1>6
<1>8. CarryIsTail'
  BY <1>4, <1>5, <1>7 DEF CarryIsTail
<1> QED
  BY <1>3, <1>4, <1>7, <1>8

\* The word that is taken off the front is the next of the stream.
LEMMA PlaceKeepsTail ==
    ASSUME TypeOK, CarryIsTail, Len(bytes) >= WordBytes,
           bytes' = SubSeq(bytes, WordBytes + 1, Len(bytes)), sent' = sent, stream' = stream
    PROVE  /\ bytes' \in Seq(Bytes) /\ Parsed' = Parsed + WordBytes /\ CarryIsTail'
           /\ SubSeq(bytes, 1, WordBytes) \in Seq(Bytes)
           /\ \A w \in Nat : Parsed = w * WordBytes => SubSeq(bytes, 1, WordBytes) = WordOf(stream, w)
<1>1. bytes \in Seq(Bytes) /\ Len(bytes) \in Nat /\ sent \in Nat /\ WordBytes \in Nat \ {0}
  BY FormatAssumption DEF TypeOK
<1>2. bytes' \in Seq(Bytes) /\ Len(bytes') = Len(bytes) - WordBytes
  BY <1>1
<1>3. Parsed' = Parsed + WordBytes /\ Len(bytes') <= sent'
  <2>1. Len(bytes) <= sent
    BY DEF CarryIsTail
  <2>2. Parsed = sent - Len(bytes) /\ Parsed' = sent - Len(bytes')
    BY DEF Parsed
  <2> QED
    BY <1>1, <1>2, <2>1, <2>2
<1>4. Parsed \in Nat
  BY <1>1 DEF Parsed, CarryIsTail
<1>5. ASSUME NEW i \in 1..Len(bytes') PROVE bytes'[i] = Byte(stream, Parsed' + i - 1)
  <2>1. bytes'[i] = bytes[i + WordBytes] /\ i + WordBytes \in 1..Len(bytes)
    BY <1>1, <1>2
  <2>2. Parsed + (i + WordBytes) - 1 = Parsed' + i - 1
    BY <1>1, <1>2, <1>3, <1>4
  <2> QED
    BY <2>1, <2>2 DEF CarryIsTail
<1>6. CarryIsTail'
  BY <1>3, <1>5 DEF CarryIsTail
<1>7. SubSeq(bytes, 1, WordBytes) \in Seq(Bytes) /\ Len(SubSeq(bytes, 1, WordBytes)) = WordBytes
  BY <1>1
<1>8. ASSUME NEW w \in Nat, Parsed = w * WordBytes
      PROVE  SubSeq(bytes, 1, WordBytes) = WordOf(stream, w)
  <2>1. \A i \in 1..WordBytes : SubSeq(bytes, 1, WordBytes)[i] = Byte(stream, w * WordBytes + i - 1)
    BY <1>1, <1>8 DEF CarryIsTail
  <2>2. SubSeq(bytes, 1, WordBytes) = [i \in 1..WordBytes |-> SubSeq(bytes, 1, WordBytes)[i]]
    BY <1>1
  <2> QED
    BY <2>1, <2>2 DEF WordOf
<1> QED
  BY <1>2, <1>3, <1>6, <1>7, <1>8

\* The lane of the next word, and the phase after it, also when it wraps.
LEMMA PhaseTurns ==
    ASSUME NEW l \in 0..(Lanes - 1), NEW turn \in Nat, phase = turn * Lanes + l, phase < PhaseWidth,
           phase' = (phase + 1) % PhaseWidth
    PROVE  /\ Lane = l
           /\ \E next \in Nat :
                /\ phase' = next * Lanes + (IF l = Lanes - 1 THEN 0 ELSE l + 1)
                /\ phase' < PhaseWidth
<1>1. Lanes \in Nat \ {0} /\ PhaseWidth \in Nat
  BY FormatAssumption
<1>2. Lane = l
  BY <1>1, QuotientIs DEF Lane
<1>3. PICK turns \in 1..PhaseWidth : PhaseWidth = turns * Lanes
  BY FormatAssumption
<1>4. turn * Lanes \in Nat /\ phase \in Nat
  BY <1>1
<1>5. turn < turns
  <2>1. SUFFICES ASSUME turns <= turn PROVE FALSE
    BY <1>1, <1>3
  <2>2. CASE turns = turn
    BY <1>1, <1>3, <1>4, <2>2
  <2>3. CASE turns < turn
    <3>1. (turns + 1) * Lanes <= turn * Lanes /\ (turns + 1) * Lanes = turns * Lanes + Lanes
      BY <1>1, <1>3, <2>3, ProductGrows
    <3> QED
      BY <1>1, <1>3, <1>4, <3>1
  <2> QED
    BY <1>1, <1>3, <2>1, <2>2, <2>3
<1>6. turn * Lanes + Lanes <= PhaseWidth
  BY <1>1, <1>3, <1>5, ProductGrows
<1>7. CASE phase + 1 < PhaseWidth
  <2>1. phase' = phase + 1
    BY <1>1, <1>4, <1>7
  <2>2. CASE l = Lanes - 1
    <3>1. phase' = (turn + 1) * Lanes + 0
      BY <1>1, <1>4, <2>1, <2>2
    <3> QED
      BY <1>2, <1>7, <2>1, <2>2, <3>1
  <2>3. CASE l # Lanes - 1
    BY <1>1, <1>2, <1>4, <1>7, <2>1, <2>3
  <2> QED
    BY <2>2, <2>3
<1>8. CASE phase + 1 >= PhaseWidth
  <2>1. l = Lanes - 1 /\ phase + 1 = PhaseWidth
    BY <1>1, <1>4, <1>6, <1>8
  <2>2. phase' = 0 /\ 0 < PhaseWidth
    BY <1>1, <1>3, <1>4, <2>1
  <2>3. phase' = 0 * Lanes + 0
    BY <1>1, <2>2
  <2> QED
    BY <1>2, <2>1, <2>2, <2>3
<1> QED
  BY <1>1, <1>4, <1>7, <1>8

\* A word goes to its lane; the last one of a frame publishes the frame.
LEMMA PlaceKeepsParsing ==
    ASSUME TypeOK, Parsing, PlaceWord
    PROVE  /\ Parsing'
           /\ bytes' \in Seq(Bytes) /\ phase' \in Nat /\ count' \in Nat
           /\ unit' \in [0..(Lanes - 1) -> Seq(Bytes)]
<1>1. PICK l \in 0..(Lanes - 1) : AtLane(l)
  BY DEF Parsing
<1>2. PICK turn \in Nat : phase = turn * Lanes + l /\ phase < PhaseWidth
  BY <1>1 DEF AtLane
<1>3. /\ Lanes \in Nat \ {0} /\ WordBytes \in Nat \ {0} /\ PhaseWidth \in Nat
      /\ count \in Nat /\ unit \in [0..(Lanes - 1) -> Seq(Bytes)]
  BY FormatAssumption DEF TypeOK
<1>4. stream' = stream /\ sent' = sent /\ l \in Nat
  BY <1>3 DEF PlaceWord, EmitSuperframe
<1>5. /\ bytes' \in Seq(Bytes) /\ Parsed' = Parsed + WordBytes /\ CarryIsTail'
      /\ SubSeq(bytes, 1, WordBytes) \in Seq(Bytes)
      /\ \A w \in Nat : Parsed = w * WordBytes => SubSeq(bytes, 1, WordBytes) = WordOf(stream, w)
  BY <1>4, PlaceKeepsTail DEF Parsing, PlaceWord, EmitSuperframe
<1>6. /\ Lane = l
      /\ \E next \in Nat :
            /\ phase' = next * Lanes + (IF l = Lanes - 1 THEN 0 ELSE l + 1)
            /\ phase' < PhaseWidth
  BY <1>2, PhaseTurns DEF PlaceWord, EmitSuperframe
<1>7. phase' \in Nat
  <2>1. PICK next \in Nat : phase' = next * Lanes + (IF l = Lanes - 1 THEN 0 ELSE l + 1)
    BY <1>6
  <2>2. next * Lanes \in Nat
    BY <1>3
  <2>3. (IF l = Lanes - 1 THEN 0 ELSE l + 1) \in Nat
    BY <1>4
  <2> QED
    BY <2>1, <2>2, <2>3
<1> DEFINE w == count * Lanes + l
           word == SubSeq(bytes, 1, WordBytes)
<1>8. w \in Nat /\ Parsed = w * WordBytes /\ word = WordOf(stream, w)
  <2>1. count * Lanes \in Nat
    BY <1>3
  <2>2. w \in Nat
    BY <1>4, <2>1
  <2>3. Parsed = w * WordBytes
    BY <1>1 DEF AtLane
  <2> QED
    BY <1>5, <2>2, <2>3
<1>9. unit' = [unit EXCEPT ![l] = word] /\ unit' \in [0..(Lanes - 1) -> Seq(Bytes)]
  BY <1>3, <1>5, <1>6 DEF PlaceWord, EmitSuperframe
<1>10. \A j \in 0..l : unit'[j] = WordOf(stream, count * Lanes + j)
  <2>1. ASSUME NEW j \in 0..l PROVE unit'[j] = WordOf(stream, count * Lanes + j)
    <3>1. CASE j = l
      BY <1>3, <1>8, <1>9, <3>1
    <3>2. CASE j # l
      <4>1. j \in 0..(l - 1) /\ j \in 0..(Lanes - 1)
        BY <1>3, <3>2
      <4>2. unit[j] = WordOf(stream, count * Lanes + j)
        BY <1>1, <4>1 DEF AtLane
      <4>3. unit'[j] = unit[j]
        BY <1>3, <1>9, <3>2, <4>1
      <4> QED
        BY <4>2, <4>3
    <3> QED
      BY <3>1, <3>2
  <2> QED
    BY <2>1
<1>11. Parsed' = (w + 1) * WordBytes
  BY <1>3, <1>5, <1>8
<1>12. CASE l # Lanes - 1
  <2>1. l + 1 \in 0..(Lanes - 1) /\ count' = count /\ frame' = frame
    BY <1>3, <1>6, <1>12 DEF PlaceWord, EmitSuperframe
  <2>2. w + 1 = count' * Lanes + (l + 1)
    BY <1>3, <2>1
  <2>3. \A j \in 0..(l + 1 - 1) : unit'[j] = WordOf(stream', count' * Lanes + j)
    BY <1>4, <1>10, <2>1
  <2>4. \E next \in Nat : phase' = next * Lanes + (l + 1) /\ phase' < PhaseWidth
    BY <1>6, <1>12
  <2>5. AtLane(l + 1)'
    BY <1>11, <2>2, <2>3, <2>4 DEF AtLane
  <2>6. LastFrame'
    BY <1>4, <2>1 DEF Parsing, LastFrame, FrameOf, WordOf
  <2> QED
    BY <1>3, <1>5, <1>7, <1>9, <2>1, <2>5, <2>6 DEF Parsing
<1>13. CASE l = Lanes - 1
  <2>1. count' = count + 1 /\ frame' = unit' /\ count' - 1 = count
    BY <1>3, <1>6, <1>13 DEF PlaceWord, EmitSuperframe
  <2>2. w + 1 = count' * Lanes + 0
    BY <1>3, <1>13, <2>1
  <2>3. \E next \in Nat : phase' = next * Lanes + 0 /\ phase' < PhaseWidth
    BY <1>6, <1>13
  <2>4. 0 \in 0..(Lanes - 1) /\ 0..(0 - 1) = {}
    BY <1>3
  <2>5. AtLane(0)'
    BY <1>11, <2>2, <2>3, <2>4 DEF AtLane
  <2>6. unit' = [j \in 0..(Lanes - 1) |-> WordOf(stream, count * Lanes + j)]
    BY <1>9, <1>10, <1>13
  <2>7. LastFrame'
    BY <1>4, <2>1, <2>6 DEF LastFrame, FrameOf
  <2> QED
    BY <1>3, <1>5, <1>7, <1>9, <2>1, <2>4, <2>5, <2>7 DEF Parsing
<1> QED
  BY <1>12, <1>13

-----------------------------------------------------------------------------
(* Every step preserves the invariant.                                     *)

LEMMA InitInvariant == Init => IInv
<1> SUFFICES ASSUME Init PROVE IInv
  OBVIOUS
<1>1. /\ Lanes \in Nat \ {0} /\ WordBytes \in Nat \ {0} /\ PhaseWidth \in Nat
      /\ Micro \in Nat \ {0}
  BY FormatAssumption
<1>2. 0 < PhaseWidth
  BY <1>1, FormatAssumption
<1>3. TypeOK
  BY <1>1 DEF Init, TypeOK, NoFrame
<1>4. Parsed = 0 /\ CarryIsTail
  <2>1. Len(bytes) = 0 /\ sent = 0 /\ 1..0 = {}
    BY DEF Init
  <2> QED
    BY <2>1 DEF Parsed, CarryIsTail
<1>5. AtLane(0)
  <2>1. phase = 0 * Lanes + 0 /\ phase < PhaseWidth
    BY <1>1, <1>2 DEF Init
  <2>2. Parsed = (count * Lanes + 0) * WordBytes
    BY <1>1, <1>4 DEF Init
  <2>3. 0..(0 - 1) = {}
    OBVIOUS
  <2> QED
    BY <2>1, <2>2, <2>3 DEF AtLane
<1>6. Parsing
  BY <1>1, <1>4, <1>5 DEF Init, Parsing, LastFrame
<1>7. PlaybackFollowsRate
  <2>1. rate \in Nat
    BY FormatAssumption DEF Init
  <2> QED
    BY <1>1, <2>1 DEF Init, PlaybackFollowsRate
<1> QED
  BY <1>3, <1>6, <1>7 DEF Init, IInv, Switching

\* Steps that leave the parser alone.
LEMMA ParsingUnchanged ==
    ASSUME Parsing, UNCHANGED capture
    PROVE  Parsing'
  BY DEF Parsing, CarryIsTail, AtLane, LastFrame, Parsed, capture, FrameOf, WordOf, Byte

LEMMA FeedKeepsParsing ==
    ASSUME TypeOK, Parsing, NEW len \in Lengths, FeedPacket(len)
    PROVE  Parsing' /\ bytes' \in Seq(Bytes) /\ sent' \in Nat
<1>1. /\ bytes' = bytes \o [i \in 1..len |-> Byte(stream, sent + i - 1)]
      /\ sent' = sent + len /\ stream' = stream
      /\ UNCHANGED <<phase, unit, frame, count>>
  BY DEF FeedPacket
<1>2. len \in Nat
  BY FormatAssumption
<1>3. /\ bytes' \in Seq(Bytes) /\ sent' \in Nat
      /\ Parsed' = Parsed /\ CarryIsTail'
  BY <1>1, <1>2, FeedKeepsTail DEF Parsing
<1>4. \A l : AtLane(l) => AtLane(l)'
  BY <1>1, <1>3 DEF AtLane, WordOf
<1>5. LastFrame'
  BY <1>1 DEF Parsing, LastFrame, FrameOf, WordOf
<1> QED
  BY <1>3, <1>4, <1>5 DEF Parsing

\* A restart begins both directions anew.
LEMMA ReconfigureRestarts ==
    ASSUME TypeOK, Switching, mode = "draining", Reconfigure
    PROVE  IInv'
<1>1. /\ Lanes \in Nat \ {0} /\ WordBytes \in Nat \ {0} /\ PhaseWidth \in Nat
      /\ Micro \in Nat \ {0} /\ Pool \in Nat /\ Pool * Packets \in Nat
  BY FormatAssumption
<1>2. 0 < PhaseWidth
  BY <1>1, FormatAssumption
<1>3. /\ rate' \in SampleRates /\ target' = 0 /\ phase' = 0 /\ bytes' = <<>>
      /\ accum' = 0 /\ sent' = 0 /\ count' = 0 /\ micros' = 0 /\ taken' = 0
      /\ mode' = "streaming" /\ armedIn' = Pool /\ armedOut' = Pool
      /\ run' = "prime" /\ todo' = Pool * Packets
      /\ stream' \in {0, 1} /\ unit' = unit
  BY DEF Reconfigure, ResetParser, ArmAll, Switching, TypeOK
<1>4. TypeOK'
  BY <1>1, <1>3 DEF TypeOK
<1>5. Parsed' = 0 /\ CarryIsTail'
  <2>1. Len(bytes') = 0 /\ sent' = 0 /\ 1..0 = {}
    BY <1>3
  <2> QED
    BY <2>1 DEF Parsed, CarryIsTail
<1>6. AtLane(0)'
  <2>1. phase' = 0 * Lanes + 0 /\ phase' < PhaseWidth
    BY <1>1, <1>2, <1>3
  <2>2. Parsed' = (count' * Lanes + 0) * WordBytes
    BY <1>1, <1>3, <1>5
  <2>3. 0..(0 - 1) = {}
    OBVIOUS
  <2> QED
    BY <2>1, <2>2, <2>3 DEF AtLane
<1>7. Parsing'
  BY <1>1, <1>3, <1>5, <1>6 DEF Parsing, LastFrame
<1>8. PlaybackFollowsRate'
  <2>1. PICK r \in Nat : rate' = r
    BY <1>3, FormatAssumption
  <2>2. 0 * Micro = 0 /\ 0 * r = 0 /\ 0 < Micro
    BY <1>1
  <2>3. taken' * Micro + accum' = micros' * r /\ accum' < Micro
    BY <1>1, <1>3, <2>2
  <2> QED
    BY <1>3, <2>1, <2>3 DEF PlaybackFollowsRate
<1> QED
  BY <1>3, <1>4, <1>7, <1>8 DEF IInv, Switching

LEMMA NextPreserves == IInv /\ [Next]_vars => IInv'
<1> SUFFICES ASSUME IInv, [Next]_vars PROVE IInv'
  OBVIOUS
<1> USE DEF IInv
<1>1. Pool \in Nat /\ Packets \in Nat /\ Pool * Packets \in Nat
  BY FormatAssumption
<1>2. CASE Start
  <2>1. Parsing'
    BY <1>2, ParsingUnchanged DEF Start
  <2> QED
    BY <1>1, <1>2, <2>1
    DEF Start, ArmAll, TypeOK, Switching, PlaybackFollowsRate, capture, playback
<1>3. CASE InDone
  <2>1. Parsing'
    BY <1>3, ParsingUnchanged DEF InDone
  <2> QED
    BY <1>1, <1>3, <2>1 DEF InDone, TypeOK, Switching, PlaybackFollowsRate, capture, playback
<1>4. CASE PlaceWord
  <2>1. /\ Parsing'
        /\ bytes' \in Seq(Bytes) /\ phase' \in Nat /\ count' \in Nat
        /\ unit' \in [0..(Lanes - 1) -> Seq(Bytes)]
    BY <1>4, PlaceKeepsParsing
  <2> QED
    BY <1>4, <2>1 DEF PlaceWord, EmitSuperframe, TypeOK, Switching, PlaybackFollowsRate, control, playback
<1>5. CASE RearmIn
  <2>1. Parsing'
    BY <1>5, ParsingUnchanged DEF RearmIn
  <2> QED
    BY <1>5, <2>1 DEF RearmIn, TypeOK, Switching, PlaybackFollowsRate, capture, playback
<1>6. ASSUME NEW len \in Lengths, FeedPacket(len) PROVE IInv'
  <2>1. Parsing' /\ bytes' \in Seq(Bytes) /\ sent' \in Nat
    BY <1>6, FeedKeepsParsing
  <2> QED
    BY <1>6, <2>1 DEF FeedPacket, TypeOK, Switching, PlaybackFollowsRate, control, playback
<1>7. CASE OutDone
  <2>1. Parsing'
    BY <1>7, ParsingUnchanged DEF OutDone
  <2> QED
    BY <1>1, <1>7, <2>1 DEF OutDone, TypeOK, Switching, PlaybackFollowsRate, capture, playback
<1>8. CASE FillMicroframe
  <2>1. Parsing'
    BY <1>8, ParsingUnchanged DEF FillMicroframe
  <2>2. PlaybackFollowsRate' /\ taken' \in Nat /\ accum' \in Nat /\ micros' \in Nat
    BY <1>8, FillKeepsRate
  <2> QED
    BY <1>8, <2>1, <2>2 DEF FillMicroframe, TypeOK, Switching, control, capture
<1>9. CASE RearmOut
  <2>1. Parsing'
    BY <1>9, ParsingUnchanged DEF RearmOut
  <2> QED
    BY <1>9, <2>1 DEF RearmOut, TypeOK, Switching, PlaybackFollowsRate, capture, playback
<1>10. CASE Primed
  <2>1. Parsing'
    BY <1>10, ParsingUnchanged DEF Primed
  <2> QED
    BY <1>10, <2>1 DEF Primed, TypeOK, Switching, PlaybackFollowsRate, control, capture, playback
<1>11. CASE RateFollow
  <2>1. Parsing'
    BY <1>11, ParsingUnchanged DEF RateFollow
  <2> QED
    BY <1>11, <2>1 DEF RateFollow, TypeOK, Switching, PlaybackFollowsRate, capture, playback
<1>12. CASE Drain
  <2>1. CASE Reconfigure
    BY <1>12, <2>1, ReconfigureRestarts DEF Drain
  <2>2. CASE ~Reconfigure
    <3>1. /\ UNCHANGED <<mode, rate, target, run, todo, capture, playback>>
          /\ armedIn' \in Nat /\ armedOut' \in Nat /\ mode = "draining"
      BY <1>12, <2>2 DEF Drain, TypeOK
    <3>2. Parsing'
      BY <3>1, ParsingUnchanged
    <3> QED
      BY <3>1, <3>2 DEF TypeOK, Switching, PlaybackFollowsRate, capture, playback
  <2> QED
    BY <2>1, <2>2
<1>13. CASE UNCHANGED vars
  <2>1. Parsing'
    BY <1>13, ParsingUnchanged DEF vars
  <2> QED
    BY <1>13, <2>1 DEF vars, TypeOK, Switching, PlaybackFollowsRate, control, capture, playback
<1> QED
  BY <1>2, <1>3, <1>4, <1>5, <1>6, <1>7, <1>8, <1>9, <1>10, <1>11, <1>12, <1>13 DEF Next

-----------------------------------------------------------------------------
(* Theorems                                                                *)

THEOREM StreamInvariance == Spec => []IInv
  BY InitInvariant, NextPreserves, PTL DEF Spec

\* Every frame of a stream is published whole and in order, wherever its packets
\* end, whenever the phase wraps, and after any number of rate changes.
THEOREM CaptureIsWhole == Spec => []FramesAreWhole
<1>1. IInv => FramesAreWhole
  <2> SUFFICES ASSUME IInv PROVE FramesAreWhole
    OBVIOUS
  <2>1. PICK l \in 0..(Lanes - 1) : Parsed = (count * Lanes + l) * WordBytes
    BY DEF IInv, Parsing, AtLane
  <2>2. /\ Lanes \in Nat \ {0} /\ WordBytes \in Nat \ {0} /\ count \in Nat /\ l \in Nat
        /\ l < Lanes
    BY FormatAssumption DEF IInv, TypeOK
  <2> DEFINE size == Lanes * WordBytes
  <2>3. size \in Nat \ {0}
    BY <2>2
  <2>4. Parsed = count * size + l * WordBytes
    BY <2>1, <2>2
  <2>5. l * WordBytes \in 0..(size - 1)
    <3>1. (l + 1) * WordBytes <= size /\ (l + 1) * WordBytes = l * WordBytes + WordBytes
          /\ l * WordBytes \in Nat
      BY <2>2, ProductGrows
    <3> QED
      BY <2>2, <2>3, <3>1
  <2>6. count = Parsed \div size
    BY <2>2, <2>3, <2>4, <2>5, QuotientIs
  <2> QED
    BY <2>6 DEF FramesAreWhole, IInv, Parsing, LastFrame
<1> QED
  BY <1>1, StreamInvariance, PTL

\* Playback takes the frames the rate calls for, short of less than one.
THEOREM PlaybackDoesNotDrift == Spec => []PlaybackFollowsRate
  BY StreamInvariance, PTL DEF IInv

-----------------------------------------------------------------------------
(* The samples' view of the engine implements StreamSwitch as well.        *)

LEMMA SwitchInit == Init => Switch!Init
  BY DEF Init, Switch!Init

\* Steps of a callback leave the transfer that it handles outstanding.
LEMMA SwitchStutters ==
    ASSUME UNCHANGED <<mode, rate, target>>,
           armedIn' + armedOut' + (IF run' \in {"capture", "playback"} THEN 1 ELSE 0)
             = armedIn + armedOut + (IF run \in {"capture", "playback"} THEN 1 ELSE 0)
    PROVE  UNCHANGED Switch!switchVars
  BY DEF Switch!switchVars

LEMMA SwitchNext == IInv /\ [Next]_vars => [Switch!Next]_(Switch!switchVars)
<1> SUFFICES ASSUME IInv, [Next]_vars PROVE Switch!Next \/ UNCHANGED Switch!switchVars
  OBVIOUS
<1>1. /\ Pool \in Nat \ {0} /\ SampleRates \subseteq Nat
      /\ armedIn \in Nat /\ armedOut \in Nat
  BY FormatAssumption DEF IInv, TypeOK
<1>2. CASE Start
  <2>1. Switch!Start
    BY <1>1, <1>2 DEF Start, ArmAll, Switch!Start
  <2> QED
    BY <2>1 DEF Switch!Next
<1>3. CASE InDone
  BY <1>1, <1>3, SwitchStutters DEF InDone
<1>4. CASE PlaceWord
  BY <1>4, SwitchStutters DEF PlaceWord, EmitSuperframe, control
<1>5. CASE RearmIn
  BY <1>1, <1>5, SwitchStutters DEF RearmIn
<1>6. ASSUME NEW len \in Lengths, FeedPacket(len) PROVE UNCHANGED Switch!switchVars
  BY <1>6, SwitchStutters DEF FeedPacket, control
<1>7. CASE OutDone
  BY <1>1, <1>7, SwitchStutters DEF OutDone
<1>8. CASE FillMicroframe
  BY <1>8, SwitchStutters DEF FillMicroframe, control
<1>9. CASE RearmOut
  BY <1>1, <1>9, SwitchStutters DEF RearmOut
<1>10. CASE Primed
  BY <1>10, SwitchStutters DEF Primed, control
<1>11. CASE RateFollow
  <2>1. Switch!BeginDrain
    BY <1>11 DEF RateFollow, Switch!BeginDrain
  <2> QED
    BY <2>1 DEF Switch!Next
<1>12. CASE Drain
  <2>1. CASE armedIn + armedOut = 1
    <3>1. Switch!Restart
      BY <1>1, <1>12, <2>1 DEF Drain, Reconfigure, ArmAll, Switch!Restart
    <3> QED
      BY <3>1 DEF Switch!Next
  <2>2. CASE armedIn + armedOut # 1
    <3>1. /\ armedIn' + armedOut' = armedIn + armedOut - 1 /\ armedIn + armedOut > 1
          /\ run = "loop" /\ run' = "loop" /\ mode = "draining"
          /\ UNCHANGED <<mode, rate, target>>
      BY <1>1, <1>12, <2>2 DEF Drain
    <3>2. Switch!Finish
      BY <1>1, <3>1 DEF Switch!Finish
    <3> QED
      BY <3>2 DEF Switch!Next
  <2> QED
    BY <2>1, <2>2
<1>13. CASE UNCHANGED vars
  BY <1>13, SwitchStutters DEF vars, control
<1> QED
  BY <1>2, <1>3, <1>4, <1>5, <1>6, <1>7, <1>8, <1>9, <1>10, <1>11, <1>12, <1>13 DEF Next

THEOREM SamplesImplementSwitch == Spec => SwitchSpec
  BY SwitchInit, SwitchNext, StreamInvariance, PTL DEF Spec, SwitchSpec, Switch!Spec
=============================================================================
