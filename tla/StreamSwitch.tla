---------------------------- MODULE StreamSwitch ----------------------------
(***************************************************************************)
(* The rule of erengine.c's rate-change state machine: "A sample-rate      *)
(* change must not happen mid-stream.  On a change the engine stops        *)
(* re-arming isoc requests, lets in-flight transfers drain, then restarts  *)
(* the streams at the new rate".  Which transfers there are, and how they  *)
(* end, is left to the modules that implement it: Engine, which has the    *)
(* failures, and EngineStream, which has the samples.                      *)
(***************************************************************************)
EXTENDS Integers

CONSTANTS Most,      \* transfers that are outstanding at most
          Accepted,  \* rates a switch may be asked for
          AnyRates   \* rates an engine may be started with

VARIABLES mode,        \* off, streaming or draining
          rate,        \* the rate of the stream
          target,      \* the rate being switched to, 0 if none
          outstanding  \* transfers that were started and not yet dealt with

switchVars == <<mode, rate, target, outstanding>>

Init ==
    /\ mode = "off"
    /\ rate \in AnyRates
    /\ target = 0
    /\ outstanding = 0

\* A rate is chosen freely only while nothing streams.
Configure ==
    /\ mode = "off"
    /\ rate' \in AnyRates
    /\ UNCHANGED <<mode, target, outstanding>>

Start ==
    /\ mode = "off"
    /\ mode' = "streaming"
    /\ outstanding' \in 0..Most
    /\ UNCHANGED <<rate, target>>

\* A transfer that ends is started again, or is not when it failed.
Transfer ==
    /\ mode = "streaming"
    /\ outstanding' \in {outstanding, outstanding - 1} \cap Nat
    /\ UNCHANGED <<mode, rate, target>>

BeginDrain ==
    /\ mode = "streaming"
    /\ mode' = "draining"
    /\ target' \in Accepted \ {rate}
    /\ UNCHANGED <<rate, outstanding>>

\* Nothing is started while the stream drains, whatever ends.
Finish ==
    /\ mode = "draining"
    /\ outstanding > 1
    /\ outstanding' = outstanding - 1
    /\ UNCHANGED <<mode, rate, target>>

\* The last transfer makes the switch: no other one spans it.
Restart ==
    /\ mode = "draining"
    /\ outstanding = 1
    /\ mode' = "streaming"
    /\ rate' = target
    /\ target' = 0
    /\ outstanding' \in 0..Most

Halt ==
    /\ mode # "off"
    /\ mode' = "off"
    /\ target' = 0
    /\ outstanding' = 0
    /\ UNCHANGED rate

Next == Configure \/ Start \/ Transfer \/ BeginDrain \/ Finish \/ Restart \/ Halt

Spec == Init /\ [][Next]_switchVars
=============================================================================
