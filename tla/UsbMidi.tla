------------------------------ MODULE UsbMidi -------------------------------
(***************************************************************************)
(* USB-MIDI 1.0 events and how Tools/ermidi_bridge.c makes them from the   *)
(* packets CoreMIDI hands it: an event has a cable, a code that says how   *)
(* many of its bytes count, and three bytes.  A packet is a sequence of    *)
(* bytes; statuses are 128 and up, and 240 to 247 frame a SysEx message.   *)
(***************************************************************************)
EXTENDS Integers, SequencesExt

SysExStart == 240
SysExEnd   == 247

Lesser(a, b) == IF a < b THEN a ELSE b

\* cinLength: the bytes that count in an event of this code.
CinLength(cin) == <<0, 0, 2, 3, 3, 1, 2, 3, 3, 3, 3, 3, 2, 2, 3, 1>>[cin + 1]

Counted(event) == SubSeq(event.bytes, 1, CinLength(event.cin))

Event(cable, cin, bytes) ==
    [cable |-> cable, cin |-> cin,
     bytes |-> [j \in 1..3 |-> IF j <= Len(bytes) THEN bytes[j] ELSE 0]]

\* statusLength: 0 for a data byte, which starts nothing.
StatusLength(status) ==
    IF status < 128 THEN 0
    ELSE IF status < 192 THEN 3
    ELSE IF status < 224 THEN 2
    ELSE IF status < 240 THEN 3
    ELSE IF status = 242 THEN 3
    ELSE IF status \in {241, 243} THEN 2 ELSE 1

-----------------------------------------------------------------------------
\* Mutation: a last piece of two bytes is coded as one of three.
PieceCodeRoundsUp(piece) ==
    IF Len(piece) = 3 /\ piece[3] # SysExEnd THEN 4 ELSE IF Len(piece) = 1 THEN 5 ELSE 7

\* A SysEx goes out in threes: 4 goes on, 5, 6 and 7 end with one, two and three
\* bytes.  What is left over when a packet ends is coded as an end as well.
PieceCode(piece) ==
    IF Len(piece) = 3 /\ piece[3] # SysExEnd THEN 4 ELSE 4 + Len(piece)

Pieces(cable, bytes) ==
    [k \in 1..((Len(bytes) + 2) \div 3) |->
        LET piece == SubSeq(bytes, 3 * k - 2, Lesser(3 * k, Len(bytes)))
        IN  Event(cable, PieceCode(piece), piece)]

\* Where the SysEx that starts at i ends: at its end byte, or with the packet.
SysExLast(packet, i) ==
    LET ends == {j \in (i + 1)..Len(packet) : packet[j] = SysExEnd}
    IN  IF ends = {} THEN Len(packet) ELSE CHOOSE j \in ends : \A k \in ends : j <= k

MessageCode(status, length) ==
    IF status < 240 THEN status \div 16 ELSE CASE length = 1 -> 15 [] length = 2 -> 2 [] OTHER -> 3

(***************************************************************************)
(* encodeMIDI: the packet is taken apart from its first byte.  A data byte *)
(* where a status is due is skipped, a message the packet cuts is sent cut.*)
(***************************************************************************)
Encoded(cable, packet) ==
    LET from[i \in 1..(Len(packet) + 1)] ==
            IF i > Len(packet) THEN <<>>
            ELSE IF packet[i] = SysExStart
            THEN LET last == SysExLast(packet, i)
                 IN  Pieces(cable, SubSeq(packet, i, last)) \o from[last + 1]
            ELSE IF StatusLength(packet[i]) = 0 THEN from[i + 1]
            ELSE LET length == Lesser(StatusLength(packet[i]), Len(packet) - i + 1)
                 IN  <<Event(cable, MessageCode(packet[i], length),
                             SubSeq(packet, i, i + length - 1))>> \o from[i + length]
    IN  from[1]

\* The packets of a list share one buffer of so many events; emitEvent drops
\* what does not fit.
EncodedPackets(cable, list) ==
    FlattenSeq([k \in DOMAIN list |-> Encoded(cable, list[k])])

EncodedList(cable, list, room) ==
    LET all == EncodedPackets(cable, list)
    IN  SubSeq(all, 1, Lesser(room, Len(all)))

\* What the events say on a cable, in order.
Said(cable, events) ==
    FlattenSeq([k \in DOMAIN events |->
        IF events[k].cable = cable THEN Counted(events[k]) ELSE <<>>])

-----------------------------------------------------------------------------
(* What the encoding is made for.                                          *)

Byte == 0..255
UsbEvents(cables) == [cable : cables, cin : 0..15, bytes : [1..3 -> Byte]]

\* A packet of whole messages: each one starts with its status, right behind the
\* one before, and is there to its end.  (A SysEx may end with its packet.)
WholeMessages(packet) ==
    \E starts \in SUBSET (1..Len(packet) + 1) :
        /\ 1 \in starts
        /\ \A i \in starts \ {Len(packet) + 1} :
              IF packet[i] = SysExStart THEN SysExLast(packet, i) + 1 \in starts
              ELSE StatusLength(packet[i]) > 0 /\ i + StatusLength(packet[i]) \in starts

\* A list of such packets that fits into the buffer.
WholeList(cable, list, room) ==
    /\ list \in Seq(Seq(Byte))
    /\ \A k \in DOMAIN list : WholeMessages(list[k])
    /\ Len(EncodedPackets(cable, list)) <= room
=============================================================================
