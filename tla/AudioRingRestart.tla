-------------------------- MODULE AudioRingRestart --------------------------
(***************************************************************************)
(* The capture ring when the engine process is restarted while coreaudiod  *)
(* keeps reading.  The shared object outlives the engine (erengine.c       *)
(* unmaps it and does not unlink it), so the new engine finds the counters *)
(* of the old one and stores zero in each of them, in two stores and with  *)
(* no regard for a read call that is running.                              *)
(***************************************************************************)
EXTENDS AudioRing

\* The old engine is gone, wherever its write call was; the new one attaches
\* and resets inWrite.
RestartStoresWrite ==
    /\ prod.pc # "restart"
    /\ write' = 0
    /\ prod' = [pc |-> "restart", w |-> 0, n |-> 0, k |-> 0]
    /\ UNCHANGED <<cell, read, cons, taken>>

\* ... and then inRead, the counter the consumer owns.
RestartStoresRead ==
    /\ prod.pc = "restart"
    /\ read' = 0
    /\ prod' = [prod EXCEPT !.pc = "idle"]
    /\ UNCHANGED <<cell, write, cons, taken>>

RestartNext == Next \/ RestartStoresWrite \/ RestartStoresRead

RestartSpec == Init /\ [][RestartNext]_vars

(***************************************************************************)
(* What er__rd requires of its callers: "Frame count to read (must not     *)
(* exceed available frames)".  In a read that started after the reset the  *)
(* frames it copies are frames the engine has published.                   *)
(***************************************************************************)
ReadsOnlyAvailable == cons.pc = "copy" => cons.rd + cons.n <= cons.w
=============================================================================
