----------------------------- MODULE Inventory ------------------------------
(***************************************************************************)
(* Tools/er_inventory.c: a resumable capture of every program of the       *)
(* device.  Each run selects the programs that have no capture yet, waits  *)
(* for the device to report the one it asked for, reads the edit buffer    *)
(* and saves it.  Runs are interrupted by signals, by crashes and by a     *)
(* device that answers late, loses a message or ignores a change.          *)
(*                                                                         *)
(* Programs are numbered in the order of main's two loops.  The device     *)
(* answers in the order it is asked; an answer that comes after the query  *)
(* was given up stays in the pipe and is read by a later one.              *)
(***************************************************************************)
EXTENDS Integers, Sequences, FiniteSets

CONSTANTS Rigs,         \* number of programs: 2 * ER_RIGS_PER_BANK
          FirstProgram, \* the program selected before the first run
          VerifyTries,  \* main's five queries for the current program
          EditTries,    \* query_edit_buffer's three
          Faults        \* the device may become slow, deaf or absent, the disk full

ASSUME InventoryAssumption ==
    /\ Rigs \in Nat \ {0}
    /\ FirstProgram \in 1..Rigs
    /\ VerifyTries \in Nat \ {0} /\ EditTries \in Nat \ {0}
    /\ Faults \in BOOLEAN

VARIABLES
    phase,      \* where main is; "off" between two runs
    rig,        \* the program main's loops are at
    tries,      \* queries of the current phase that failed
    waiting,    \* a query was sent and wait_for_object is reading
    buffer,     \* the edit buffer that is being saved: whose it is
    original,   \* original_bank and original_rig, None without have_original
    switched,   \* have_last_switch
    completed,  \* programs counted in this run
    stop,       \* er_inventory_stop
    exit,       \* how the last run ended
    files,      \* per program: whose edit buffer the final file holds
    saved,      \* original_program.txt
    program,    \* the program the device plays
    target,     \* the last one it was asked for
    asked,      \* requests the device has not answered
    replies,    \* replies nobody has read
    prompt      \* the device answers within the timeouts, the disk takes files

toolVars   == <<phase, rig, tries, waiting, buffer, original, switched, completed, stop, exit>>
diskVars   == <<files, saved>>
deviceVars == <<program, target>>
pipeVars   == <<asked, replies>>
vars == <<toolVars, diskVars, deviceVars, pipeVars, prompt>>

Programs == 1..Rigs
None     == 0
Torn     == -1      \* a file that exists and does not hold what it should

Init ==
    /\ phase = "off" /\ rig = 1 /\ tries = 0 /\ waiting = FALSE /\ buffer = None
    /\ original = None /\ switched = FALSE /\ completed = 0 /\ stop = FALSE /\ exit = "none"
    /\ files = [p \in Programs |-> None] /\ saved = None
    /\ program = FirstProgram /\ target = FirstProgram
    /\ asked = <<>> /\ replies = <<>>
    /\ prompt = TRUE

-----------------------------------------------------------------------------
(* The ends of a run.                                                      *)

\* The goto cleanup of a failed step: no program change, nothing restored.
Leave(how) == phase' = "off" /\ exit' = how /\ waiting' = FALSE /\ buffer' = None /\ tries' = 0
Fail == Leave("failed")

\* Opening the device and the identity query, which reads everything that is
\* left in the pipe up to the identity response.  A run that fails before
\* that has changed nothing.
Start ==
    /\ phase = "off" /\ exit # "complete"
    /\ phase' = "original" /\ rig' = 1 /\ tries' = 0 /\ waiting' = FALSE /\ buffer' = None
    /\ original' = None /\ switched' = FALSE /\ completed' = 0 /\ stop' = FALSE /\ exit' = "none"
    /\ asked' = <<>> /\ replies' = <<>>
    /\ UNCHANGED <<diskVars, deviceVars, prompt>>

Signal ==
    /\ phase # "off" /\ ~stop
    /\ stop' = TRUE
    /\ UNCHANGED <<phase, rig, tries, waiting, buffer, original, switched, completed, exit,
                   diskVars, deviceVars, pipeVars, prompt>>

Crash ==
    /\ phase # "off"
    /\ Leave("killed")
    /\ UNCHANGED <<rig, original, switched, completed, stop,
                   diskVars, deviceVars, pipeVars, prompt>>

-----------------------------------------------------------------------------
(* Queries: send_get_request, then wait_for_object, which skips replies    *)
(* about other objects.                                                    *)

Wanted == IF phase = "edit" THEN "edit" ELSE "program"

\* After ER_SETTLE_SECONDS a prompt device plays what it was asked for.
Ask ==
    /\ phase \in {"original", "verify", "edit"} /\ ~waiting
    /\ prompt => program = target
    /\ waiting' = TRUE
    /\ asked' = Append(asked, Wanted)
    /\ UNCHANGED <<phase, rig, tries, buffer, original, switched, completed, stop, exit,
                   diskVars, deviceVars, replies, prompt>>

SkipReply ==
    /\ waiting /\ replies # <<>> /\ Head(replies).about # Wanted
    /\ replies' = Tail(replies)
    /\ UNCHANGED <<toolVars, diskVars, deviceVars, asked, prompt>>

\* The reply the current query takes: not always the one to its own request.
Answered(p) ==
    /\ waiting /\ replies # <<>> /\ Head(replies) = [about |-> Wanted, of |-> p]
    /\ waiting' = FALSE
    /\ replies' = Tail(replies)
    /\ UNCHANGED asked

\* A request that was not sent, a reply that is lost, late or too short.
Unanswered ==
    \/ /\ waiting /\ replies = <<>> /\ (prompt => asked = <<>>)
       /\ waiting' = FALSE
       /\ UNCHANGED pipeVars
    \/ /\ ~waiting /\ ~prompt
       /\ UNCHANGED <<waiting, pipeVars>>
    \/ /\ ~prompt /\ \E p \in Programs : Answered(p)

-----------------------------------------------------------------------------
(* The program to return to.                                               *)

QueryOriginal ==
    /\ phase = "original"
    /\ \/ \E p \in Programs : Answered(p) /\ original' = p
       \/ Unanswered /\ original' = None
    /\ phase' = "record"
    /\ UNCHANGED <<rig, tries, buffer, switched, completed, stop, exit, diskVars,
                   deviceVars, prompt>>

\* original_program.txt is read if it is there; fopen makes it, empty, if not.
RecordOriginal ==
    /\ phase = "record"
    /\ original' = IF saved \in Programs THEN saved ELSE original
    /\ \/ /\ saved = None /\ original # None
          /\ saved' = Torn /\ phase' = "write"
       \/ /\ saved # None \/ original = None \/ ~prompt
          /\ phase' = "next" /\ UNCHANGED saved
    /\ UNCHANGED <<rig, tries, waiting, buffer, switched, completed, stop, exit, files,
                   deviceVars, pipeVars, prompt>>

WriteOriginal ==
    /\ phase = "write"
    /\ phase' = "next"
    /\ saved' \in {original} \cup (IF prompt THEN {} ELSE {Torn})
    /\ UNCHANGED <<rig, tries, waiting, buffer, original, switched, completed, stop, exit, files,
                   deviceVars, pipeVars, prompt>>

-----------------------------------------------------------------------------
(* The two loops of main.                                                  *)

Captured(p) == files[p] # None

\* Mutation: a resumed program is not counted.
ResumeUncounted ==
    /\ phase = "next" /\ ~stop /\ rig \in Programs /\ Captured(rig)
    /\ rig' = rig + 1
    /\ UNCHANGED <<phase, tries, waiting, buffer, original, switched, completed, stop, exit,
                   diskVars, deviceVars, pipeVars, prompt>>

\* Mutation: every program counts as captured.
ResumeAnything ==
    /\ phase = "next" /\ ~stop /\ rig \in Programs
    /\ completed' = completed + 1
    /\ rig' = rig + 1
    /\ UNCHANGED <<phase, tries, waiting, buffer, original, switched, stop, exit,
                   diskVars, deviceVars, pipeVars, prompt>>

Resume ==
    /\ phase = "next" /\ ~stop /\ rig \in Programs /\ Captured(rig)
    /\ completed' = completed + 1
    /\ rig' = rig + 1
    /\ UNCHANGED <<phase, tries, waiting, buffer, original, switched, stop, exit,
                   diskVars, deviceVars, pipeVars, prompt>>

\* Mutation: a program that cannot be selected is left for the next run.
SwitchSkips ==
    /\ phase = "next" /\ ~stop /\ rig \in Programs /\ ~Captured(rig)
    /\ \/ /\ target' = rig /\ switched' = TRUE
          /\ phase' = "verify"
          /\ UNCHANGED rig
       \/ /\ ~prompt /\ rig' = rig + 1
          /\ UNCHANGED <<target, switched, phase>>
    /\ UNCHANGED <<tries, waiting, buffer, exit, original, completed, stop, diskVars,
                   program, pipeVars, prompt>>

\* wait_for_switch_window and send_rig_change.
Switch ==
    /\ phase = "next" /\ ~stop /\ rig \in Programs /\ ~Captured(rig)
    /\ \/ /\ target' = rig /\ switched' = TRUE
          /\ phase' = "verify"
          /\ UNCHANGED <<tries, waiting, buffer, exit>>
       \/ /\ ~prompt /\ Fail
          /\ UNCHANGED <<target, switched>>
    /\ UNCHANGED <<rig, original, completed, stop, diskVars, program, pipeVars, prompt>>

\* Mutation: any answer about the current program is taken for the right one.
VerifiesAnything(p) == p \in Programs
Verifies(p) == p = rig

TryAgain(limit) ==
    IF tries + 1 < limit THEN tries' = tries + 1 /\ UNCHANGED <<phase, exit, buffer>>
                         ELSE phase' = "off" /\ exit' = "failed" /\ buffer' = None /\ tries' = 0

Verify ==
    /\ phase = "verify"
    /\ \/ /\ \E p \in Programs : Answered(p) /\ Verifies(p)
          /\ phase' = "edit" /\ tries' = 0
          /\ UNCHANGED <<exit, buffer>>
       \/ /\ Unanswered \/ \E p \in Programs : Answered(p) /\ ~Verifies(p)
          /\ TryAgain(VerifyTries)
    /\ UNCHANGED <<rig, original, switched, completed, stop, diskVars, deviceVars, prompt>>

QueryEditBuffer ==
    /\ phase = "edit"
    /\ \/ /\ \E p \in Programs : Answered(p) /\ buffer' = p
          /\ phase' = "save" /\ tries' = 0
          /\ UNCHANGED exit
       \/ Unanswered /\ TryAgain(EditTries)
    /\ UNCHANGED <<rig, original, switched, completed, stop, diskVars, deviceVars, prompt>>

\* save_capture: the final name appears, complete, with the rename.
SaveCapture ==
    /\ phase = "save"
    /\ \/ /\ files' = [files EXCEPT ![rig] = buffer]
          /\ completed' = completed + 1 /\ rig' = rig + 1
          /\ phase' = "next" /\ buffer' = None
          /\ UNCHANGED <<exit, waiting, tries>>
       \/ /\ ~prompt /\ Fail
          /\ UNCHANGED <<files, completed, rig>>
    /\ UNCHANGED <<original, switched, stop, saved, deviceVars, pipeVars, prompt>>

\* The loops are over, by themselves or by the signal.
Restore ==
    /\ phase = "next" /\ (stop \/ rig > Rigs)
    /\ phase' = "report"
    /\ IF original # None /\ switched /\ ~stop
       THEN target' = original \/ (~prompt /\ UNCHANGED target)
       ELSE UNCHANGED target
    /\ UNCHANGED <<rig, tries, waiting, buffer, original, switched, completed, stop, exit,
                   diskVars, program, pipeVars, prompt>>

Report ==
    /\ phase = "report"
    /\ phase' = "off"
    /\ exit' = IF stop THEN "signalled" ELSE IF completed = Rigs THEN "complete" ELSE "failed"
    /\ UNCHANGED <<rig, tries, waiting, buffer, original, switched, completed, stop,
                   diskVars, deviceVars, pipeVars, prompt>>

Tool == \/ Ask \/ SkipReply \/ QueryOriginal \/ RecordOriginal \/ WriteOriginal
        \/ Resume \/ Switch \/ Verify \/ QueryEditBuffer \/ SaveCapture \/ Restore \/ Report

-----------------------------------------------------------------------------
(* The device.                                                             *)

Answer ==
    /\ asked # <<>>
    /\ asked' = Tail(asked)
    /\ replies' = Append(replies, [about |-> Head(asked), of |-> program])
    /\ UNCHANGED <<toolVars, diskVars, deviceVars, prompt>>

LoseRequest ==
    /\ ~prompt /\ asked # <<>>
    /\ asked' = Tail(asked)
    /\ UNCHANGED <<toolVars, diskVars, deviceVars, replies, prompt>>

LoadProgram ==
    /\ program # target
    /\ program' = target
    /\ UNCHANGED <<toolVars, diskVars, target, pipeVars, prompt>>

IgnoreChange ==
    /\ ~prompt /\ program # target
    /\ target' = program
    /\ UNCHANGED <<toolVars, diskVars, program, pipeVars, prompt>>

PromptnessChanges ==
    /\ Faults
    /\ prompt' = ~prompt
    /\ UNCHANGED <<toolVars, diskVars, deviceVars, pipeVars>>

Next ==
    \/ Start \/ Signal \/ Crash
    \/ Ask \/ SkipReply \/ QueryOriginal \/ RecordOriginal \/ WriteOriginal
    \/ Resume \/ Switch \/ Verify \/ QueryEditBuffer \/ SaveCapture \/ Restore \/ Report
    \/ Answer \/ LoseRequest \/ LoadProgram \/ IgnoreChange \/ PromptnessChanges

Spec == Init /\ [][Next]_vars

(***************************************************************************)
(* The program runs, the device acts, and the user follows "rerun to       *)
(* resume" until an inventory is complete.                                 *)
(***************************************************************************)
FairSpec ==
    /\ Spec
    /\ WF_vars(Tool) /\ WF_vars(Start)
    /\ WF_vars(Answer) /\ WF_vars(LoadProgram)

-----------------------------------------------------------------------------
(* Properties                                                              *)

Message == [about : {"program", "edit"}, of : Programs]

ToolTypes ==
    /\ phase \in {"off", "original", "record", "write", "next", "verify", "edit", "save", "report"}
    /\ rig \in 1..(Rigs + 1)
    /\ completed \in 0..Rigs
    /\ tries \in 0..(VerifyTries - 1) \cup 0..(EditTries - 1)
    /\ buffer \in Programs \cup {None}
    /\ original \in Programs \cup {None}
    /\ exit \in {"none", "failed", "killed", "signalled", "complete"}
    /\ files \in [Programs -> Programs \cup {None}]
    /\ saved \in Programs \cup {None, Torn}

FlagTypes ==
    /\ waiting \in BOOLEAN
    /\ switched \in BOOLEAN
    /\ stop \in BOOLEAN
    /\ prompt \in BOOLEAN

DeviceTypes ==
    /\ program \in Programs
    /\ target \in Programs
    /\ asked \in Seq({"program", "edit"})
    /\ replies \in Seq(Message)

\* Every variable keeps its type.
TypeOK == ToolTypes /\ FlagTypes /\ DeviceTypes

(***************************************************************************)
(* README: "It verifies each selected address": a capture holds the edit   *)
(* buffer of the program it is named after, although replies are told      *)
(* apart only by their object and may come one or more queries late.       *)
(***************************************************************************)
CapturesMatch == \A p \in Programs : files[p] \in {None, p}

(***************************************************************************)
(* Exit status 0 and "inventory complete" mean that every program has a    *)
(* capture, although they are decided by a counter that also counts the    *)
(* resumed ones.                                                           *)
(***************************************************************************)
CompleteMeansAll == exit = "complete" => \A p \in Programs : Captured(p)

(***************************************************************************)
(* "rerun to resume": once the device stays prompt and nothing interrupts  *)
(* the runs any more, one of them completes the inventory, whatever        *)
(* earlier runs left in the directory, in the device and in the pipe.      *)
(***************************************************************************)
InventoryFinishes ==
    (<>[]prompt /\ <>[][~Signal /\ ~Crash]_vars) => <>(exit = "complete")

(***************************************************************************)
(* README: the inventory "restores the original program": after it has     *)
(* been reported complete the device is asked for the program it had       *)
(* before the first run.                                                   *)
(***************************************************************************)
OriginalRestored == exit = "complete" => target = FirstProgram

(***************************************************************************)
(* "rerun to resume": what one run has put into the directory the next one *)
(* builds on and does not touch.  Runs that end anywhere implement         *)
(* CaptureArchive: captures are added in the order of main's loops, none   *)
(* is replaced, and the record of the original program is the first one.   *)
(***************************************************************************)
Archive == INSTANCE CaptureArchive WITH complete <- (exit = "complete")
ArchiveSpec == Archive!Spec

-----------------------------------------------------------------------------
(* The inductive invariant behind CompleteMeansAll.  The counter is not    *)
(* the number of captures: a program before the current one was counted    *)
(* once, resumed or saved, and a program that was counted is captured.     *)

Progress ==
    /\ phase \in {"verify", "edit", "save"} => rig \in Programs
    /\ phase = "save" => buffer \in Programs
    /\ phase # "off" => /\ completed = rig - 1
                        /\ \A p \in Programs : p < rig => Captured(p)

IInv == TypeOK /\ Progress /\ CompleteMeansAll
=============================================================================
