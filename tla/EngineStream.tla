---------------------------- MODULE EngineStream ----------------------------
(***************************************************************************)
(* The samples that pass through Tools/erengine.c while it streams, and    *)
(* what a rate change does to them.  Capture: the packets of a completed   *)
(* request are cut into 32-bit words, the words into frames (inDone,       *)
(* feedBytes, emitSuperframe).  Playback: each microframe of a request     *)
(* takes as many frames as the rate calls for (armOut, "the accordion").   *)
(*                                                                         *)
(* One thread runs every callback.  A frame is published to the ring as    *)
(* soon as it is complete, so a step is one packet, one word or one        *)
(* microframe.  Requests of one pipe end in the order they were armed, so  *)
(* they are only counted; the failures of Engine are left out here.        *)
(***************************************************************************)
EXTENDS StreamState

CONSTANTS MaxBytes,    \* bound on the bytes of one stream, for model checking
          MaxMicros    \* bound on the microframes of one stream, for model checking

control  == <<mode, rate, target, armedIn, armedOut>>
capture  == <<stream, sent, bytes, phase, unit, frame, count>>
playback == <<accum, micros, taken>>
vars == <<control, run, todo, capture, playback>>

NoFrame == [l \in 0..(Lanes - 1) |-> <<>>]

\* A new process: everything is zero, whatever an earlier one left behind.
Init ==
    /\ mode = "off"
    /\ rate \in SampleRates
    /\ target = 0
    /\ armedIn = 0 /\ armedOut = 0
    /\ run = "loop" /\ todo = 0
    /\ stream = 0 /\ sent = 0 /\ bytes = <<>> /\ phase = 0
    /\ unit = NoFrame /\ frame = NoFrame /\ count = 0
    /\ accum = 0 /\ micros = 0 /\ taken = 0

\* armOut and armIn for every request, by main or by reconfigure.  Filling the
\* playback requests is left to FillMicroframe: until it is done nothing else runs.
ArmAll ==
    /\ mode' = "streaming"
    /\ armedIn' = Pool /\ armedOut' = Pool
    /\ run' = "prime" /\ todo' = Pool * Packets

Start ==
    /\ mode = "off"
    /\ ArmAll
    /\ UNCHANGED <<rate, target, capture, playback>>

-----------------------------------------------------------------------------
(* Capture.                                                                *)

InDone ==
    /\ run = "loop" /\ mode = "streaming" /\ armedIn > 0
    /\ armedIn' = armedIn - 1
    /\ run' = "capture" /\ todo' = Packets
    /\ UNCHANGED <<mode, rate, target, armedOut, capture, playback>>

\* The words of the previous packet have been placed; what is left of it is
\* put in front of this one.
FeedPacket(len) ==
    /\ run = "capture" /\ todo > 0 /\ Len(bytes) < WordBytes
    /\ sent + len <= MaxBytes
    /\ bytes' = bytes \o [i \in 1..len |-> Byte(stream, sent + i - 1)]
    /\ sent' = sent + len
    /\ todo' = todo - 1
    /\ UNCHANGED <<control, run, stream, phase, unit, frame, count, playback>>

Lane == phase % Lanes

\* The frame goes to the ring as it is; gSF keeps it.
EmitSuperframe == frame' = unit' /\ count' = count + 1

PlaceWord ==
    /\ run = "capture" /\ Len(bytes) >= WordBytes
    /\ unit' = [unit EXCEPT ![Lane] = SubSeq(bytes, 1, WordBytes)]
    /\ bytes' = SubSeq(bytes, WordBytes + 1, Len(bytes))
    /\ phase' = (phase + 1) % PhaseWidth
    /\ IF Lane = Lanes - 1
       THEN EmitSuperframe
       ELSE UNCHANGED <<frame, count>>
    /\ UNCHANGED <<control, run, todo, stream, sent, playback>>

RearmIn ==
    /\ run = "capture" /\ todo = 0 /\ Len(bytes) < WordBytes
    /\ armedIn' = armedIn + 1
    /\ run' = "loop"
    /\ UNCHANGED <<mode, rate, target, armedOut, todo, capture, playback>>

-----------------------------------------------------------------------------
(* Playback.                                                               *)

OutDone ==
    /\ run = "loop" /\ mode = "streaming" /\ armedOut > 0
    /\ micros + Packets <= MaxMicros
    /\ armedOut' = armedOut - 1
    /\ run' = "playback" /\ todo' = Packets
    /\ UNCHANGED <<mode, rate, target, armedIn, capture, playback>>

\* Mutation: what is left of a frame is dropped instead of carried over.
LeftDropped == 0
Left == (accum + rate) % Micro

AtMost(n, most) == IF n > most THEN most ELSE n

FillMicroframe ==
    /\ run \in {"playback", "prime"} /\ todo > 0
    /\ taken' = taken + AtMost((accum + rate) \div Micro, MostFrames)
    /\ accum' = Left
    /\ micros' = micros + 1
    /\ todo' = todo - 1
    /\ UNCHANGED <<control, run, capture>>

RearmOut ==
    /\ run = "playback" /\ todo = 0
    /\ armedOut' = armedOut + 1
    /\ run' = "loop"
    /\ UNCHANGED <<mode, rate, target, armedIn, todo, capture, playback>>

\* Every request of a new stream has been filled and armed.
Primed ==
    /\ run = "prime" /\ todo = 0
    /\ run' = "loop"
    /\ UNCHANGED <<control, todo, capture, playback>>

-----------------------------------------------------------------------------
(* Rate changes.                                                           *)

RateFollow ==
    /\ run = "loop" /\ mode = "streaming"
    /\ mode' = "draining"
    /\ target' \in SampleRates \ {rate}
    /\ UNCHANGED <<rate, armedIn, armedOut, run, todo, capture, playback>>

\* Mutation: bytes carried over from the old stream survive.
ParserKeepsCarry == phase' = 0 /\ UNCHANGED bytes
ResetParser == phase' = 0 /\ bytes' = <<>>

\* reconfigure: parser and accordion start anew; gSF keeps what it holds.
Reconfigure ==
    /\ rate' = target /\ target' = 0
    /\ ResetParser
    /\ accum' = 0
    /\ ArmAll
    /\ stream' = 1 - stream /\ sent' = 0 /\ count' = 0
    /\ micros' = 0 /\ taken' = 0
    /\ UNCHANGED <<unit, frame>>

\* While draining a callback hands nothing to the parser and arms nothing; the
\* last one of either direction restarts the streams.
Drain ==
    /\ run = "loop" /\ mode = "draining"
    /\ IF armedIn + armedOut = 1
       THEN Reconfigure
       ELSE /\ \/ armedIn > 0 /\ armedIn' = armedIn - 1 /\ UNCHANGED armedOut
               \/ armedOut > 0 /\ armedOut' = armedOut - 1 /\ UNCHANGED armedIn
            /\ UNCHANGED <<mode, rate, target, run, todo, capture, playback>>

Next ==
    \/ Start
    \/ InDone \/ PlaceWord \/ RearmIn
    \/ \E len \in Lengths : FeedPacket(len)
    \/ OutDone \/ FillMicroframe \/ RearmOut \/ Primed
    \/ RateFollow \/ Drain

Spec == Init /\ [][Next]_vars

-----------------------------------------------------------------------------
(* Properties                                                              *)

\* The streams are switched as StreamSwitch demands.
Switch == INSTANCE StreamSwitch
            WITH Most <- 2 * Pool, Accepted <- SampleRates, AnyRates <- SampleRates,
                 outstanding <- armedIn + armedOut + (IF run \in {"capture", "playback"} THEN 1 ELSE 0)
SwitchSpec == Switch!Spec

-----------------------------------------------------------------------------
(* The inductive invariants behind the two.                                *)

Bytes == [stream : {0, 1}, place : Nat]

TypeOK ==
    /\ mode \in {"off", "streaming", "draining"}
    /\ rate \in SampleRates
    /\ armedIn \in Nat /\ armedOut \in Nat
    /\ run \in {"loop", "prime", "capture", "playback"} /\ todo \in Nat
    /\ stream \in {0, 1} /\ sent \in Nat /\ bytes \in Seq(Bytes)
    /\ phase \in Nat /\ unit \in [0..(Lanes - 1) -> Seq(Bytes)] /\ count \in Nat
    /\ accum \in Nat /\ micros \in Nat /\ taken \in Nat

\* Only a drain has a rate to switch to, and while it lasts nothing else runs.
Switching ==
    /\ target \in IF mode = "draining" THEN SampleRates ELSE {0}
    /\ mode # "streaming" => run = "loop"
    /\ mode = "off" => armedIn + armedOut = 0

\* The bytes that wait are the last of the stream, in order.
CarryIsTail ==
    /\ Len(bytes) <= sent
    /\ \A i \in 1..Len(bytes) : bytes[i] = Byte(stream, Parsed + i - 1)

\* The parser is at a word l of a frame: what was parsed is count frames and l
\* words, the phase agrees, and those words are in their lanes.
AtLane(l) ==
    /\ \E turn \in Nat : phase = turn * Lanes + l /\ phase < PhaseWidth
    /\ Parsed = (count * Lanes + l) * WordBytes
    /\ \A j \in 0..(l - 1) : unit[j] = WordOf(stream, count * Lanes + j)

LastFrame == count > 0 => frame = FrameOf(stream, count - 1)

Parsing == CarryIsTail /\ (\E l \in 0..(Lanes - 1) : AtLane(l)) /\ LastFrame

IInv == TypeOK /\ Switching /\ Parsing /\ PlaybackFollowsRate
=============================================================================
