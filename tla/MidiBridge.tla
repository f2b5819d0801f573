----------------------------- MODULE MidiBridge -----------------------------
(***************************************************************************)
(* Tools/ermidi_bridge.c: a process that publishes the two MIDI cables of  *)
(* the rack as CoreMIDI sources and destinations.  Its main thread sets    *)
(* everything up, waits in a run loop and takes it down; a thread reads    *)
(* the rack; CoreMIDI calls coreMidiOutput on threads of its own.          *)
(*                                                                         *)
(* MIDIClientDispose is taken to start no callback any more and to return  *)
(* only when none runs: nothing in the code itself waits for them.         *)
(*                                                                         *)
(* Both directions keep a history of what was sent and what arrived, from  *)
(* which the part that agrees is forgotten: a history is never finished.   *)
(***************************************************************************)
EXTENDS BridgeState

CONSTANTS Strays,      \* cables the rack may use and the bridge does not know
          Room,        \* events a buffer of 512 bytes holds, 128 in the code
          Lists,       \* packet lists an application may send
          Sayings,     \* messages the rack may send, as events
          MaxLine      \* bound on the events that wait to be read

mainVars   == <<main, gStop, stopped, usb, client>>
senderVars == <<sender, events, gWriteLock, sent, heard>>
readVars   == <<line, said, received>>
bridgeVars == <<mainVars, reader, senderVars, readVars>>

Silence == [c \in Cables |-> <<>>]

\* What the bridge is made to carry: whole messages from applications, and of the
\* rack events as USB-MIDI defines them.
TrafficIsWhole ==
    /\ Room \in Nat \ {0}
    /\ \A c \in Cables, list \in Lists : WholeList(c, list, Room)
    /\ Sayings \subseteq Seq(UsbEvents({0}))

Init ==
    /\ main = "starting" /\ gStop = FALSE /\ stopped = FALSE /\ usb = FALSE /\ client = FALSE
    /\ reader = "none"
    /\ sender = [c \in Cables |-> "idle"] /\ events = Silence /\ gWriteLock = "free"
    /\ line = <<>> /\ sent = Silence /\ heard = Silence /\ said = Silence /\ received = Silence

-----------------------------------------------------------------------------
(* main.                                                                   *)

\* openUSB; when it fails, whatever it had opened is left to cleanup.
OpenUSB ==
    /\ main = "starting"
    /\ \/ main' = "claimed" /\ usb' = TRUE
       \/ main' = "leaving" /\ usb' \in BOOLEAN
    /\ UNCHANGED <<gStop, stopped, client, reader, senderVars, readVars>>

\* The client and its endpoints, and then the reader.
Publish ==
    /\ main = "claimed"
    /\ \/ main' = "online" /\ client' = TRUE /\ reader' = "testing"
       \/ main' = "leaving" /\ client' \in BOOLEAN /\ UNCHANGED reader
    /\ UNCHANGED <<gStop, stopped, usb, senderVars, readVars>>

\* The self test ends on its own; without it main installs the signal handlers.
SelfTest ==
    /\ main = "online"
    /\ main' = "leaving"
    /\ UNCHANGED <<gStop, stopped, usb, client, reader, senderVars, readVars>>

InstallHandlers ==
    /\ main = "online"
    /\ main' = "armed"
    /\ UNCHANGED <<gStop, stopped, usb, client, reader, senderVars, readVars>>

EnterRunLoop ==
    /\ main = "armed"
    /\ main' = "looping"
    /\ UNCHANGED <<gStop, stopped, usb, client, reader, senderVars, readVars>>

\* sig: before the loop runs, CFRunLoopStop has nothing to stop.
Signal ==
    /\ main \in {"armed", "looping"}
    /\ gStop' = TRUE
    /\ stopped' = (main = "looping")
    /\ UNCHANGED <<main, usb, client, reader, senderVars, readVars>>

LeaveRunLoop ==
    /\ main = "looping" /\ stopped
    /\ main' = "leaving"
    /\ UNCHANGED <<gStop, stopped, usb, client, reader, senderVars, readVars>>

-----------------------------------------------------------------------------
(* cleanup.                                                                *)

\* AbortPipe ends the read that is under way; it does nothing to a later one.
AbortReading ==
    /\ main = "leaving"
    /\ main' = "joining"
    /\ gStop' = TRUE
    /\ reader' = IF reader = "reading" THEN "aborted" ELSE reader
    /\ UNCHANGED <<stopped, usb, client, senderVars, readVars>>

\* Mutation: the client is disposed of without waiting for the reader.
JoinNothing ==
    /\ main = "joining"
    /\ main' = "disposing"
    /\ UNCHANGED <<gStop, stopped, usb, client, reader, senderVars, readVars>>

JoinReader ==
    /\ main = "joining"
    /\ reader \in {"none", "done"}
    /\ main' = "disposing"
    /\ UNCHANGED <<gStop, stopped, usb, client, reader, senderVars, readVars>>

DisposeClient ==
    /\ main = "disposing"
    /\ \A c \in Cables : sender[c] = "idle"
    /\ main' = "closing"
    /\ client' = FALSE
    /\ UNCHANGED <<gStop, stopped, usb, reader, senderVars, readVars>>

CloseUSB ==
    /\ main = "closing"
    /\ main' = "exited"
    /\ usb' = FALSE
    /\ UNCHANGED <<gStop, stopped, client, reader, senderVars, readVars>>

\* The process is run again.
StartAgain ==
    /\ main = "exited"
    /\ main' = "starting" /\ gStop' = FALSE /\ stopped' = FALSE /\ reader' = "none"
    /\ UNCHANGED <<usb, client, senderVars, readVars>>

-----------------------------------------------------------------------------
(* coreMidiOutput, once a time on each cable.                              *)

Send(c, list) ==
    /\ client /\ main # "disposing" /\ sender[c] = "idle"
    /\ sent' = [sent EXCEPT ![c] = @ \o FlattenSeq(list)]
    /\ events' = [events EXCEPT ![c] = EncodedList(c, list, Room)]
    /\ sender' = [sender EXCEPT ![c] = IF events'[c] = <<>> THEN "idle" ELSE "encoded"]
    /\ UNCHANGED <<gWriteLock, heard, mainVars, reader, readVars>>

TakeLock(c) ==
    /\ sender[c] = "encoded" /\ gWriteLock = "free"
    /\ sender' = [sender EXCEPT ![c] = "writing"]
    /\ gWriteLock' = "taken"
    /\ UNCHANGED <<events, sent, heard, mainVars, reader, readVars>>

\* WritePipeTO is over in a second.  If it fails, what the rack took of the
\* events is not known, and the list is sent up.
Write(c) ==
    /\ sender[c] = "writing"
    /\ \E ok \in BOOLEAN :
         LET got  == [d \in Cables |-> heard[d] \o (IF ok THEN Said(d, events[c]) ELSE <<>>)]
             over == ~ok \/ got[c] = sent[c]
         IN  /\ sent' = [sent EXCEPT ![c] = IF over THEN <<>> ELSE @]
             /\ heard' = [got EXCEPT ![c] = IF over THEN <<>> ELSE @]
    /\ sender' = [sender EXCEPT ![c] = "idle"]
    /\ events' = [events EXCEPT ![c] = <<>>]
    /\ gWriteLock' = "free"
    /\ UNCHANGED <<mainVars, reader, readVars>>

-----------------------------------------------------------------------------
(* The rack, and reader.                                                   *)

\* The rack says a message; the bytes an application should see are its own.
Say(c, message) ==
    /\ Len(line) < MaxLine
    /\ line' = line \o [k \in DOMAIN message |-> [message[k] EXCEPT !.cable = c]]
    /\ said' = [d \in Cables |-> said[d] \o (IF c = d THEN Said(0, message) ELSE <<>>)]
    /\ UNCHANGED <<received, mainVars, reader, senderVars>>

ReaderTests ==
    /\ reader = "testing"
    /\ reader' = IF gStop THEN "done" ELSE "calling"
    /\ UNCHANGED <<mainVars, senderVars, readVars>>

StartReading ==
    /\ reader = "calling"
    /\ reader' = "reading"
    /\ UNCHANGED <<mainVars, senderVars, readVars>>

\* A read takes what there is, and deliver drops cables and codes it does not know.
ReadEvents ==
    /\ reader = "reading" /\ line # <<>>
    /\ \E n \in 1..Lesser(Room, Len(line)) :
         /\ LET got == [c \in Cables |-> received[c] \o Said(c, SubSeq(line, 1, n))]
                agreed == {c \in Cables : IsPrefix(got[c], said[c])}
            IN  /\ received' = [c \in Cables |-> IF c \in agreed THEN <<>> ELSE got[c]]
                /\ said' = [c \in Cables |-> IF c \in agreed
                               THEN SubSeq(said[c], Len(got[c]) + 1, Len(said[c])) ELSE said[c]]
         /\ line' = SubSeq(line, n + 1, Len(line))
    /\ reader' = "testing"
    /\ UNCHANGED <<mainVars, senderVars>>

\* Mutation: ReadPipe, which waits for as long as the rack is silent.
ReadWaits == FALSE /\ UNCHANGED bridgeVars

ReadTimesOut ==
    /\ reader = "reading" /\ line = <<>>
    /\ reader' = "testing"
    /\ UNCHANGED <<mainVars, senderVars, readVars>>

\* Any other error ends the thread, and the bridge goes on without it.
ReadFails ==
    /\ reader \in {"reading", "aborted"}
    /\ reader' = "done"
    /\ UNCHANGED <<mainVars, senderVars, readVars>>

-----------------------------------------------------------------------------
Main == OpenUSB \/ Publish \/ EnterRunLoop \/ LeaveRunLoop \/ AbortReading \/ JoinReader
            \/ DisposeClient \/ CloseUSB

Next ==
    \/ OpenUSB \/ Publish \/ SelfTest \/ InstallHandlers \/ EnterRunLoop \/ Signal
    \/ LeaveRunLoop \/ AbortReading \/ JoinReader \/ DisposeClient \/ CloseUSB
    \/ StartAgain
    \/ \E c \in Cables : (\E list \in Lists : Send(c, list)) \/ TakeLock(c) \/ Write(c)
    \/ \E c \in Cables \cup Strays, message \in Sayings : Say(c, message)
    \/ ReaderTests \/ StartReading \/ ReadEvents \/ ReadTimesOut \/ ReadFails

Spec == Init /\ [][Next]_bridgeVars

(***************************************************************************)
(* Threads run, reads and writes end within their timeouts.  Nobody has to *)
(* send a signal, and the rack has to say nothing.                         *)
(***************************************************************************)
Fairness ==
    /\ WF_bridgeVars(Main)
    /\ WF_bridgeVars(ReaderTests) /\ WF_bridgeVars(StartReading)
    /\ WF_bridgeVars(ReadEvents)
    /\ WF_bridgeVars(ReadTimesOut)
    /\ WF_bridgeVars(reader = "aborted" /\ ReadFails)
    /\ \A c \in Cables : WF_bridgeVars(TakeLock(c)) /\ WF_bridgeVars(Write(c))

FairSpec == Spec /\ Fairness
=============================================================================
