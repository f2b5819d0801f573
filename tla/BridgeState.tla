----------------------------- MODULE BridgeState -----------------------------
\* The state of the MIDI bridge, and what is promised of it.  MidiBridge has the
\* steps.
EXTENDS UsbMidi

CONSTANT Cables        \* 0 .. ER_CABLES - 1

VARIABLES main,        \* where main and cleanup are
          gStop,
          stopped,     \* CFRunLoopStop was called on the loop that runs
          usb,         \* gMidi and gDev are open
          client,      \* gClient, its sources and destinations exist
          reader,      \* the reading thread
          sender,      \* per cable: where its coreMidiOutput is
          events,      \* per cable: the events that call has encoded
          gWriteLock,  \* "free" or "taken"
          line,        \* what the rack has sent and nobody has read
          sent, heard,     \* per cable: bytes applications gave, the rack got
          said, received   \* per cable: bytes the rack sent, applications got

-----------------------------------------------------------------------------
(* Properties                                                              *)

(***************************************************************************)
(* README.md:97-98, "It routes USB-MIDI cable numbers 0 and 1, translates  *)
(* channel/system messages and SysEx in both directions": what the rack    *)
(* has heard on a cable is what applications sent there, byte for byte and *)
(* in order, but for lists whose write failed; what applications have      *)
(* received is what the rack said on that cable, up to what nobody has     *)
(* read.                                                                   *)
(***************************************************************************)
CablesCarryTheirMessages ==
    \A c \in Cables :
        /\ sender[c] = "idle" => heard[c] = sent[c]
        /\ received[c] \o Said(c, line) = said[c]

(***************************************************************************)
(* Whichever way main leaves, and whoever is in the middle of what: the    *)
(* reader runs only while there is a client to deliver to and an open      *)
(* interface to read, a callback only while the interface is open, and     *)
(* nothing is left open when the process ends.                             *)
(***************************************************************************)
LifetimesNest ==
    /\ reader \notin {"none", "done"} => client /\ usb
    /\ (\E c \in Cables : sender[c] # "idle") => client /\ usb
    /\ main = "exited" => ~client /\ ~usb

\* A signal that reaches the run loop ends the process, although the thread it
\* waits for may have tested gStop before and call ReadPipeTO after AbortPipe.
BridgeStops == stopped ~> main = "exited"
=============================================================================
