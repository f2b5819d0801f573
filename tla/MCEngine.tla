------------------------------ MODULE MCEngine ------------------------------
\* Both views of the engine in one run: Engine, its requests with every failure,
\* and EngineStream, the samples of streams that do not fail.  A behaviour takes
\* one view, chosen at the start.
EXTENDS Engine, StreamState

CONSTANTS MaxBytes, MaxMicros

VARIABLE view

sampleVars == <<mode, rate, target, armedIn, armedOut, run, todo, stream, sent, bytes,
                phase, unit, frame, count, accum, micros, taken>>

Samples == INSTANCE EngineStream

\* The view that is not taken starts in one state, whichever.
MCInit ==
    /\ Init /\ Samples!Init
    /\ \/ view = "requests" /\ \A r \in SampleRates : rate <= r
       \/ view = "samples" /\ devRate = DefaultRate /\ coreRate = DefaultRate

MCNext ==
    \/ view = "requests" /\ Next /\ UNCHANGED <<view, sampleVars>>
    \/ view = "samples" /\ Samples!Next /\ UNCHANGED <<view, vars>>

\* Nothing is promised to happen to the samples.
MCSpec ==
    /\ MCInit /\ [][MCNext]_<<view, vars, sampleVars>>
    /\ view = "requests" => Fairness
=============================================================================
