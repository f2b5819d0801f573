----------------------------- MODULE StreamState -----------------------------
\* The shape of the engine's USB streams (constants of erengine.c), the state of
\* their samples, and what is promised of it.  EngineStream has the steps.
EXTENDS Integers, Sequences

CONSTANTS WordBytes,    \* bytes of a word, 4
          Lanes,        \* words of a capture frame, SF_WORDS
          PhaseWidth,   \* 2^32: gWordPhase is a uint32_t
          Lengths,      \* payloads of a packet, in bytes; 0 is a packet that was lost
          Pool,         \* requests of each direction, N_REQ
          Packets,      \* packets or microframes of a request, FPR
          SampleRates,  \* rates of a stream, in frames per second
          Micro,        \* microframes per second, 8000
          MostFrames    \* playback frames of a microframe at most, 12

\* The lanes come round again when the phase wraps, and no rate asks for more
\* frames than a microframe may hold: 96,000 is twelve times 8,000.
ASSUME FormatAssumption ==
    /\ WordBytes \in Nat \ {0} /\ Lanes \in Nat \ {0}
    /\ Pool \in Nat \ {0} /\ Packets \in Nat \ {0} /\ Micro \in Nat \ {0}
    /\ MostFrames \in Nat
    /\ PhaseWidth \in Nat
    /\ \E turns \in 1..PhaseWidth : PhaseWidth = turns * Lanes
    /\ Lengths \subseteq Nat
    /\ SampleRates \subseteq 1..(MostFrames * Micro)

VARIABLES mode,      \* off, streaming, or draining for a rate change (gRateState)
          rate,      \* gHwRate
          target,    \* gPendingRate while draining, else 0
          armedIn,   \* capture requests in flight
          armedOut,  \* playback requests in flight
          run,       \* what the thread is doing: the run loop or one of its callbacks
          todo,      \* packets or microframes the callback has still to handle
          stream,    \* 0 or 1, changes with every restart
          sent,      \* bytes of the stream that have arrived
          bytes,     \* those not yet in a word: gCarry between packets
          phase,     \* gWordPhase
          unit,      \* gSF
          frame,     \* the last frame published to the ring
          count,     \* frames of the stream published so far
          accum,     \* gOutAccum, in units of 1/Micro of a frame
          micros,    \* microframes of the stream filled so far
          taken      \* frames they took

\* A byte is known by its stream and its place in it.
Byte(s, n) == [stream |-> s, place |-> n]
WordOf(s, w) == [i \in 1..WordBytes |-> Byte(s, w * WordBytes + i - 1)]
FrameOf(s, f) == [l \in 0..(Lanes - 1) |-> WordOf(s, f * Lanes + l)]

-----------------------------------------------------------------------------
(* Properties                                                              *)

\* Bytes of the stream that have been made into words.
Parsed == sent - Len(bytes)

(***************************************************************************)
(* Wherever the packets end, and after however many rate changes, the ring *)
(* gets every frame of the stream once, in order, each channel in its      *)
(* lane: the frames published are the whole frames among the bytes parsed, *)
(* and the last one is made of its own words and of no others (feedBytes). *)
(***************************************************************************)
FramesAreWhole ==
    /\ count = Parsed \div (Lanes * WordBytes)
    /\ count > 0 => frame = FrameOf(stream, count - 1)

(***************************************************************************)
(* "gHwRate/8000 on average": playback neither drifts from the rate of the *)
(* stream nor loses frames to the limit of twelve.  The frames taken after *)
(* n microframes fall short of n times the exact number by what the        *)
(* accordion holds, which is less than one frame.                          *)
(***************************************************************************)
PlaybackFollowsRate ==
    /\ taken * Micro + accum = micros * rate
    /\ accum < Micro
=============================================================================
