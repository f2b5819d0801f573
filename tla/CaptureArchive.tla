--------------------------- MODULE CaptureArchive ---------------------------
(***************************************************************************)
(* What the output directory of Tools/er_inventory.c promises whoever      *)
(* reads it between runs and during one, without the device, the replies   *)
(* and the runs: captures appear in the order of the programs, each once   *)
(* and never replaced, and hold the program they are named after; a        *)
(* readable original_program.txt is never replaced either; the inventory   *)
(* is declared complete when nothing is missing.                           *)
(***************************************************************************)
EXTENDS Integers

CONSTANTS Programs,  \* the programs, in the order in which they are captured
          None,      \* no file
          Torn       \* a file that cannot be read

VARIABLES files,     \* per program: whose edit buffer its file holds
          saved,     \* the program original_program.txt names
          complete   \* the inventory was declared complete

archiveVars == <<files, saved, complete>>

Missing == {p \in Programs : files[p] = None}

Init ==
    /\ files = [p \in Programs |-> None]
    /\ saved = None
    /\ complete = FALSE

\* The first program that is missing gets its file, in one step.
Add(p) ==
    /\ p \in Missing
    /\ \A q \in Missing : p <= q
    /\ files' = [files EXCEPT ![p] = p]
    /\ UNCHANGED <<saved, complete>>

\* The file is made first, and written then, if nothing interrupts that.
MakeRecord ==
    /\ saved = None
    /\ saved' = Torn
    /\ UNCHANGED <<files, complete>>

WriteRecord ==
    /\ saved = Torn
    /\ saved' \in Programs
    /\ UNCHANGED <<files, complete>>

Declare ==
    /\ ~complete
    /\ Missing = {}
    /\ complete' = TRUE
    /\ UNCHANGED <<files, saved>>

Next == (\E p \in Programs : Add(p)) \/ MakeRecord \/ WriteRecord \/ Declare

Spec == Init /\ [][Next]_archiveVars
=============================================================================
