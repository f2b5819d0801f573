------------------------------ MODULE RingSetup ------------------------------
(***************************************************************************)
(* How the engine and the clients of the ring come to share one object     *)
(* (er_ring_create, er_ring_attach and er_ring_close of                    *)
(* Tools/ERAudioRing.h; their calls in erengine.c, ersweep.c, ringstat.c). *)
(*                                                                         *)
(* The engine may fail or die between any two steps and is started again.  *)
(* There is one at a time: it claims the USB device before it comes here.  *)
(* Shared-memory objects are numbered; a name that was removed may leave   *)
(* processes on an object nobody else can find.                            *)
(***************************************************************************)
EXTENDS Integers

CONSTANTS Clients,     \* processes that attach: the plugin, the tools
          MaxObjects   \* bound on the objects ever created

VARIABLES objects,     \* the shared-memory objects, by number
          name,        \* the object ER_RING_NAME stands for, 0 if none
          made,        \* objects created so far
          engine,      \* where the engine is, and the object it has open or mapped
          client       \* per client, the same

\* There is room for an object.
ASSUME SetupAssumption == MaxObjects \in Nat \ {0}

Ids == 1..MaxObjects

\* size: empty, small (an older, shorter layout) or full; magic: none, old (of
\* another build) or current; header: version, rate and channel counts stored.
Objects == [size : {"empty", "small", "full"}, magic : {"none", "old", "current"},
            header : {"none", "stored"}]

Initialised(id) ==
    /\ objects[id].size = "full"
    /\ objects[id].magic = "current"
    /\ objects[id].header = "stored"

setupVars == <<objects, name, made, engine, client>>

Fresh == [size |-> "empty", magic |-> "none", header |-> "none"]

\* What an older build, or an engine that died, may have left.
Legacy == {[size |-> "small", magic |-> "old", header |-> "stored"],
           [size |-> "full", magic |-> "old", header |-> "stored"],
           [size |-> "full", magic |-> "none", header |-> "none"]}

SetupInit ==
    /\ \/ name = 0 /\ made = 0 /\ objects = [i \in Ids |-> Fresh]
       \/ name = 1 /\ made = 1
          /\ \E left \in Legacy : objects = [i \in Ids |-> IF i = 1 THEN left ELSE Fresh]
    /\ engine = [pc |-> "down", on |-> 0, first |-> FALSE]
    /\ client = [c \in Clients |-> [pc |-> "detached", on |-> 0]]

-----------------------------------------------------------------------------
(* er_ring_create, one step per system call or store.                      *)

OpenOrCreate ==
    /\ engine.pc = "down"
    /\ \/ /\ name # 0
          /\ engine' = [pc |-> "opened", on |-> name, first |-> FALSE]
          /\ UNCHANGED <<objects, name, made>>
       \/ /\ name = 0 /\ made < MaxObjects
          /\ made' = made + 1 /\ name' = made'
          /\ engine' = [pc |-> "opened", on |-> made', first |-> TRUE]
          /\ UNCHANGED objects
    /\ UNCHANGED client

\* fstat or ftruncate fails: the object is removed again if it is this call's.
SizingFails ==
    /\ engine.pc = "opened"
    /\ engine.first => made < MaxObjects
    /\ name' = IF engine.first THEN 0 ELSE name
    /\ engine' = [pc |-> "noRing", on |-> 0, first |-> FALSE]
    /\ UNCHANGED <<objects, made, client>>

\* Growing an object keeps what is in it and adds zeros.
Resize ==
    /\ engine.pc = "opened"
    /\ objects' = [objects EXCEPT ![engine.on].size = "full"]
    /\ engine' = [engine EXCEPT !.pc = "sized"]
    /\ UNCHANGED <<name, made, client>>

\* Mutation: only the call that created the object initialises it.
MustInitialiseFirst == engine.first
MustInitialise == engine.first \/ objects[engine.on].magic # "current"

MapFails ==
    /\ engine.pc = "sized"
    /\ engine' = [pc |-> "noRing", on |-> 0, first |-> FALSE]
    /\ UNCHANGED <<objects, name, made, client>>

MapRing ==
    /\ engine.pc = "sized"
    /\ engine' = [engine EXCEPT !.pc = IF MustInitialise THEN "wipe" ELSE "ready"]
    /\ UNCHANGED <<objects, name, made, client>>

Wipe ==
    /\ engine.pc = "wipe"
    /\ objects' = [objects EXCEPT ![engine.on] = [size |-> @.size, magic |-> "none", header |-> "none"]]
    /\ engine' = [engine EXCEPT !.pc = "fill"]
    /\ UNCHANGED <<name, made, client>>

FillHeader ==
    /\ engine.pc = "fill"
    /\ objects' = [objects EXCEPT ![engine.on].header = "stored"]
    /\ engine' = [engine EXCEPT !.pc = "publish"]
    /\ UNCHANGED <<name, made, client>>

PublishMagic ==
    /\ engine.pc = "publish"
    /\ objects' = [objects EXCEPT ![engine.on].magic = "current"]
    /\ engine' = [engine EXCEPT !.pc = "ready"]
    /\ UNCHANGED <<name, made, client>>

\* Mutation: the engine removes the ring when it stops.
CloseUnlinks ==
    /\ engine.pc \in {"ready", "noRing"}
    /\ name' = 0
    /\ engine' = [pc |-> "down", on |-> 0, first |-> FALSE]
    /\ UNCHANGED <<objects, made, client>>

\* er_ring_close(gRing, 0) at the end of main; without a ring there is none.
\* ERAudioRing.h:171 says of the removal of the name that "the engine does this
\* on shutdown"; it does not, and CloseUnlinks shows what would follow.
Close ==
    /\ engine.pc \in {"ready", "noRing"}
    /\ engine' = [pc |-> "down", on |-> 0, first |-> FALSE]
    /\ UNCHANGED <<objects, name, made, client>>

\* The process ends anywhere; its mapping goes, the object and its name stay.
Crash ==
    /\ engine.pc # "down"
    /\ engine' = [pc |-> "down", on |-> 0, first |-> FALSE]
    /\ UNCHANGED <<objects, name, made, client>>

-----------------------------------------------------------------------------
(* er_ring_attach and er_ring_close.                                       *)

OpenRing(c) ==
    /\ client[c].pc = "detached" /\ name # 0
    /\ client' = [client EXCEPT ![c] = [pc |-> "opened", on |-> name]]
    /\ UNCHANGED <<objects, name, made, engine>>

\* An empty object cannot be mapped, and one without this build's magic is
\* unmapped again.
MapAndCheck(c) ==
    /\ client[c].pc = "opened"
    /\ client' = [client EXCEPT ![c] =
         IF objects[@.on].size # "empty" /\ objects[@.on].magic = "current"
         THEN [@ EXCEPT !.pc = "attached"] ELSE [pc |-> "detached", on |-> 0]]
    /\ UNCHANGED <<objects, name, made, engine>>

\* mmap fails, or a client that is attached ends or unmaps.
Detach(c) ==
    /\ client[c].pc # "detached"
    /\ client' = [client EXCEPT ![c] = [pc |-> "detached", on |-> 0]]
    /\ UNCHANGED <<objects, name, made, engine>>

SetupNext ==
    \/ OpenOrCreate \/ SizingFails \/ Resize \/ MapFails \/ MapRing
    \/ Wipe \/ FillHeader \/ PublishMagic \/ Close \/ Crash
    \/ \E c \in Clients : OpenRing(c) \/ MapAndCheck(c) \/ Detach(c)

SetupSpec == SetupInit /\ [][SetupNext]_setupVars

\* A client that is not attached tries again (ersweep.c polls); the engine's
\* call runs to its end.  Nobody has to start an engine.
SetupFairness ==
    /\ WF_setupVars(Resize) /\ WF_setupVars(MapRing) /\ WF_setupVars(Wipe)
    /\ WF_setupVars(FillHeader) /\ WF_setupVars(PublishMagic)
    /\ \A c \in Clients : WF_setupVars(OpenRing(c)) /\ WF_setupVars(MapAndCheck(c))

-----------------------------------------------------------------------------
(* Properties                                                              *)

(***************************************************************************)
(* "a restarting engine reuses it and every consumer [...] keeps a valid   *)
(* mapping across restarts instead of orphaning onto a dead ring": through *)
(* failures, crashes in the middle of an initialisation and rings of other *)
(* builds, a client that is attached has the whole of an initialised ring, *)
(* and it is the one the engine uses and the next engine will find.        *)
(***************************************************************************)
ClientsShareTheRing ==
    \A c \in Clients : client[c].pc = "attached" =>
        /\ Initialised(client[c].on)
        /\ client[c].on = name
        /\ engine.on \in {0, name}

\* Whatever the earlier engines left behind, once one keeps running with a
\* ring every client that keeps trying, and lets go only of what is refused, is
\* attached to it.
ClientAttaches ==
    \A c \in Clients :
        <>[](engine.pc = "ready") /\ <>[][Detach(c) => MapAndCheck(c)]_setupVars
            => <>[](client[c].pc = "attached")
=============================================================================
