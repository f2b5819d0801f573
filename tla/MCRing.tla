------------------------------- MODULE MCRing -------------------------------
\* Both halves of the ring's life in one run: how processes come to share it
\* (RingSetup), and how two of them use one direction of it (AudioRing).  A
\* behaviour takes one of them, chosen at the start.
EXTENDS AudioRing, RingSetup

VARIABLE view

\* The half that is not taken stays in one initial state.
MCInit ==
    /\ Init /\ SetupInit
    /\ view \in IF made = 0 THEN {"setup", "use"} ELSE {"setup"}

MCNext ==
    \/ view = "use" /\ Next /\ UNCHANGED <<view, setupVars>>
    \/ view = "setup" /\ SetupNext /\ UNCHANGED <<view, vars>>

\* Each half has its own fairness, and promises liveness only where it is taken.
MCSpec ==
    /\ MCInit /\ [][MCNext]_<<view, vars, setupVars>>
    /\ view = "use" => Fairness
    /\ view = "setup" => SetupFairness
=============================================================================
