----------------------------- MODULE MCIsoch -----------------------------
\* Two devices in one run, chosen at the start, with the same variables and the
\* same properties.  The sound one has the rates and the clock arguments of the
\* cfg and never fails.  The failing one fails anywhere; it has one rate and two
\* clock sources, and no user client asks it for a change, because none of that
\* meets the transfers that a failure, a stop and a restart leave behind.
EXTENDS IsochTransport

Failing == INSTANCE IsochTransport
             WITH SupportedRates <- {DefaultRate}, OtherRates <- {},
                  ClockArguments <- {2}, Faults <- TRUE

VARIABLE device

MCInit ==
    \/ device = "sound" /\ Init
    \/ device = "failing" /\ Failing!Init /\ hw.source \in {1, 2} /\ ~hw.stalls

MCNext ==
    \/ device = "sound" /\ Next /\ UNCHANGED device
    \/ device = "failing" /\ Failing!Next /\ requests' = {} /\ UNCHANGED device

MCSpec == MCInit /\ [][MCNext]_<<vars, device>> /\ Fairness
=============================================================================
