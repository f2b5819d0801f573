------------------------------- MODULE Engine -------------------------------
(***************************************************************************)
(* The user-space engine, Tools/erengine.c, in bridge mode: start-up, the  *)
(* isochronous requests in flight, the rate-follow state machine, and the  *)
(* shutdown.  One thread runs main and then the run loop; callbacks and    *)
(* timers are handled one at a time and never before CFRunLoopRun.         *)
(*                                                                         *)
(* The HAL plugin, which is not in the repository, is the user of the ring *)
(* ERAudioRing.h:60 describes: it publishes the Core Audio rate there.     *)
(***************************************************************************)
EXTENDS Integers, FiniteSets

CONSTANTS Requests,     \* N_REQ
          Rates,        \* the four rates rateFollow accepts
          OddRates,     \* other rates Core Audio can have
          DefaultRate,  \* ER_RATE
          StartupRaces, \* Core Audio is slow, or changes its rate during start-up
          EarlyStops,   \* a stop may be requested before the run loop runs
          ArmsFail,     \* a request may fail to arm, a transfer may fail
          RateSetFails  \* SET_CUR of the sample rate may fail

ASSUME EngineAssumption ==
    /\ Requests \in Nat \ {0}
    /\ Rates \subseteq Nat /\ OddRates \subseteq Nat
    /\ DefaultRate \in Rates
    /\ {StartupRaces, EarlyStops, ArmsFail, RateSetFails} \subseteq BOOLEAN

VARIABLES stage,      \* how far main has come
          slot,       \* per request: unarmed, in flight, or its callback pending
          inFlight,   \* gInFlight
          draining,   \* gRateState
          pending,    \* gPendingRate
          hwRate,     \* gHwRate
          devRate,    \* the rate the device really runs at
          ringRate,   \* ERRing.sampleRate
          coreRate,   \* the nominal rate of the Core Audio device
          stop,       \* gStop
          loopStop    \* the run loop was told to return

vars == <<stage, slot, inFlight, draining, pending, hwRate, devRate, ringRate,
          coreRate, stop, loopStop>>

Ins   == {"in"} \X (1..Requests)
Outs  == {"out"} \X (1..Requests)
Slots == Ins \cup Outs
CoreRates == Rates \cup OddRates

States  == {"unarmed", "flying", "done", "failed"}
Armed   == {x \in Slots : slot[x] # "unarmed"}
Pending == {x \in Slots : slot[x] \in {"done", "failed"}}

\* What a control request may leave the device at.
DeviceRates(rate) == {rate} \cup (IF RateSetFails THEN {devRate} ELSE {})

\* armIn and armOut: whether the submission succeeds.
Submits == {TRUE} \cup (IF ArmsFail THEN {FALSE} ELSE {})

Init ==
    /\ stage = "query"
    /\ slot = [x \in Slots |-> "unarmed"]
    /\ inFlight = 0
    /\ draining = FALSE
    /\ pending = 0
    /\ hwRate = DefaultRate
    /\ devRate \in Rates
    /\ coreRate \in CoreRates
    /\ ringRate = coreRate
    /\ stop = FALSE
    /\ loopStop = FALSE

-----------------------------------------------------------------------------
(* main, up to the run loop.                                               *)

\* Lines 674-678: adopt Core Audio's rate, or the default when the bounded
\* query times out, and program it; a failure is only printed.
AdoptRate ==
    /\ stage = "query"
    /\ \E rate \in {coreRate} \cup (IF StartupRaces THEN {DefaultRate} ELSE {}) :
         /\ hwRate' = rate
         /\ devRate' \in DeviceRates(rate)
    /\ stage' = "ring"
    /\ UNCHANGED <<slot, inFlight, draining, pending, ringRate, coreRate, stop, loopStop>>

\* Lines 697-703: the ring is created or attached, and takes the engine's rate.
PublishRate ==
    /\ stage = "ring"
    /\ ringRate' = hwRate
    /\ stage' = "prime"
    /\ UNCHANGED <<slot, inFlight, draining, pending, hwRate, devRate, coreRate, stop, loopStop>>

\* Mutation: playback requests that failed to arm are counted too.
ArmAllMiscounts(running) ==
    \E arms \in [Slots -> Submits] :
      /\ slot' = [x \in Slots |-> IF arms[x] THEN "flying" ELSE "unarmed"]
      /\ inFlight' = Cardinality({x \in Slots : arms[x] \/ x \in Outs})
      /\ stop' = (stop \/ \E x \in Ins : ~arms[x])
      /\ loopStop' = (loopStop \/ (running /\ \E x \in Ins : ~arms[x]))

(***************************************************************************)
(* armOut and armIn for every request.  A capture request that fails to    *)
(* arm stops the engine; CFRunLoopStop has no effect on a run loop that    *)
(* does not run yet.  A playback request that fails is dropped.            *)
(***************************************************************************)
ArmAll(running) ==
    \E arms \in [Slots -> Submits] :
      /\ slot' = [x \in Slots |-> IF arms[x] THEN "flying" ELSE "unarmed"]
      /\ inFlight' = Cardinality({x \in Slots : arms[x]})
      /\ stop' = (stop \/ \E x \in Ins : ~arms[x])
      /\ loopStop' = (loopStop \/ (running /\ \E x \in Ins : ~arms[x]))

Prime ==
    /\ stage = "prime"
    /\ ArmAll(FALSE)
    /\ EarlyStops \/ ~stop'
    /\ stage' = "armed"
    /\ UNCHANGED <<draining, pending, hwRate, devRate, ringRate, coreRate>>

EnterRunLoop ==
    /\ stage = "armed"
    /\ stage' = "running"
    /\ UNCHANGED <<slot, inFlight, draining, pending, hwRate, devRate, ringRate,
                   coreRate, stop, loopStop>>

-----------------------------------------------------------------------------
(* The run loop.                                                           *)

Looping == stage = "running" /\ ~loopStop

\* Mutation: the streams are restarted while one request is still in flight.
DrainedEarly(n) == n <= 1
Drained(n) == n <= 0

\* reconfigure, called by the callback that saw the count reach zero.
Reconfigure ==
    /\ devRate' \in DeviceRates(pending)
    /\ hwRate' = pending
    /\ draining' = FALSE
    /\ ArmAll(TRUE)
    /\ UNCHANGED <<stage, pending, ringRate, coreRate>>

\* Mutation: a callback that finds the engine draining forgets to look at the count.
DrainForgets(x) ==
    /\ slot' = [slot EXCEPT ![x] = "unarmed"]
    /\ inFlight' = inFlight - 1
    /\ UNCHANGED <<stage, draining, pending, hwRate, devRate, ringRate, coreRate, stop, loopStop>>

\* Lines 400-401 and 430-431: while draining a request is not armed again.
Drain(x) ==
    IF Drained(inFlight - 1)
    THEN Reconfigure
    ELSE /\ slot' = [slot EXCEPT ![x] = "unarmed"]
         /\ inFlight' = inFlight - 1
         /\ UNCHANGED <<stage, draining, pending, hwRate, devRate, ringRate, coreRate, stop, loopStop>>

\* Arming one request from its own callback.
Rearm(x) ==
    \E arms \in Submits :
      /\ slot' = [slot EXCEPT ![x] = IF arms THEN "flying" ELSE "unarmed"]
      /\ inFlight' = IF arms THEN inFlight ELSE inFlight - 1
      /\ stop' = (stop \/ (x \in Ins /\ ~arms))
      /\ loopStop' = (loopStop \/ (x \in Ins /\ ~arms))

Retire(x) ==
    /\ slot' = [slot EXCEPT ![x] = "unarmed"]
    /\ inFlight' = inFlight - 1

\* Mutation: the error branch sets the flag and forgets the run loop.
FailureKeepsLoop(x) == Retire(x) /\ stop' = TRUE /\ UNCHANGED loopStop

\* Line 402.
CaptureFailed(x) == Retire(x) /\ stop' = TRUE /\ loopStop' = TRUE

InDone(x) ==
    /\ Looping
    /\ slot[x] \in {"done", "failed"}
    /\ IF draining THEN Drain(x)
       ELSE /\ IF slot[x] = "failed" THEN CaptureFailed(x)
               ELSE IF stop THEN Retire(x) /\ UNCHANGED <<stop, loopStop>>
               ELSE Rearm(x)
            /\ UNCHANGED <<stage, draining, pending, hwRate, devRate, ringRate, coreRate>>

OutDone(x) ==
    /\ Looping
    /\ slot[x] \in {"done", "failed"}
    /\ IF draining THEN Drain(x)
       ELSE /\ IF stop THEN Retire(x) /\ UNCHANGED <<stop, loopStop>> ELSE Rearm(x)
            /\ UNCHANGED <<stage, draining, pending, hwRate, devRate, ringRate, coreRate>>

RateFollow ==
    /\ Looping
    /\ ~draining
    /\ ringRate # hwRate /\ ringRate \in Rates
    /\ pending' = ringRate
    /\ draining' = TRUE
    /\ UNCHANGED <<stage, slot, inFlight, hwRate, devRate, ringRate, coreRate, stop, loopStop>>

\* onSig: SIGINT or SIGTERM once the handlers are installed.
Signal ==
    /\ stage = "running" \/ (EarlyStops /\ stage = "armed")
    /\ ~stop
    /\ stop' = TRUE
    /\ loopStop' = (stage = "running")
    /\ UNCHANGED <<stage, slot, inFlight, draining, pending, hwRate, devRate, ringRate, coreRate>>

\* Lines 740-766: the run loop has returned; closing the pipes ends every transfer.
Teardown ==
    /\ stage = "running"
    /\ loopStop
    /\ stage' = "down"
    /\ slot' = [x \in Slots |-> "unarmed"]
    /\ UNCHANGED <<inFlight, draining, pending, hwRate, devRate, ringRate, coreRate, stop, loopStop>>

\* The engine is launched again: a new process, the same device and ring.
Launch ==
    /\ stage = "down"
    /\ stage' = "query"
    /\ inFlight' = 0
    /\ draining' = FALSE
    /\ pending' = 0
    /\ hwRate' = DefaultRate
    /\ stop' = FALSE
    /\ loopStop' = FALSE
    /\ UNCHANGED <<slot, devRate, ringRate, coreRate>>

-----------------------------------------------------------------------------
(* The device and the plugin.                                              *)

CompleteTransfer(x, how) ==
    /\ slot[x] = "flying"
    /\ how = "done" \/ ArmsFail
    /\ slot' = [slot EXCEPT ![x] = how]
    /\ UNCHANGED <<stage, inFlight, draining, pending, hwRate, devRate, ringRate,
                   coreRate, stop, loopStop>>

\* Core Audio changes its nominal rate and the plugin publishes it.
ChooseRate(rate) ==
    /\ rate # coreRate
    /\ StartupRaces \/ stage # "ring"
    /\ coreRate' = rate
    /\ ringRate' = rate
    /\ UNCHANGED <<stage, slot, inFlight, draining, pending, hwRate, devRate, stop, loopStop>>

Next ==
    \/ AdoptRate \/ PublishRate \/ Prime \/ EnterRunLoop
    \/ \E x \in Ins : InDone(x)
    \/ \E x \in Outs : OutDone(x)
    \/ RateFollow \/ Signal \/ Teardown \/ Launch
    \/ \E x \in Slots, how \in {"done", "failed"} : CompleteTransfer(x, how)
    \/ \E rate \in CoreRates : ChooseRate(rate)

Spec == Init /\ [][Next]_vars

(***************************************************************************)
(* The thread runs, the device completes what is in flight, every callback *)
(* is delivered, the 50 ms timer fires.  Nobody has to send a signal, to   *)
(* change the rate or to launch the engine again.                          *)
(***************************************************************************)
Fairness ==
    /\ WF_vars(AdoptRate) /\ WF_vars(PublishRate) /\ WF_vars(Prime) /\ WF_vars(EnterRunLoop)
    /\ WF_vars(Teardown)
    /\ WF_vars(RateFollow)
    /\ \A x \in Ins : WF_vars(InDone(x))
    /\ \A x \in Outs : WF_vars(OutDone(x))
    /\ \A x \in Slots : WF_vars(CompleteTransfer(x, "done") \/ CompleteTransfer(x, "failed"))

FairSpec == Spec /\ Fairness

-----------------------------------------------------------------------------
(* Properties                                                              *)

RateTypes ==
    /\ pending \in Rates \cup {0}
    /\ hwRate \in CoreRates
    /\ devRate \in CoreRates
    /\ ringRate \in CoreRates
    /\ coreRate \in CoreRates

\* Every variable keeps its type.
TypeOK ==
    /\ stage \in {"query", "ring", "prime", "armed", "running", "down"}
    /\ slot \in [Slots -> States]
    /\ inFlight \in Nat
    /\ draining \in BOOLEAN /\ stop \in BOOLEAN /\ loopStop \in BOOLEAN
    /\ RateTypes

(***************************************************************************)
(* gInFlight is "Count of armed-but-not-completed isoc requests": one per  *)
(* request whose callback has not run.  The drain stands or falls with it. *)
(***************************************************************************)
InFlightIsExact == stage \notin {"down", "query"} => inFlight = Cardinality(Armed)

(***************************************************************************)
(* "A sample-rate change must not happen mid-stream": the rate the engine  *)
(* programs changes only when no request is in flight or waiting, and the  *)
(* one whose callback runs the change is the last.                         *)
(***************************************************************************)
NeverMidStream == [][stage = "running" /\ hwRate' # hwRate => Cardinality(Armed) = 1]_vars

(***************************************************************************)
(* A drain cannot be stuck: while the engine drains and has not been told  *)
(* to stop, some callback is still to come.                                *)
(***************************************************************************)
DrainHasCallback == draining /\ ~stop => Armed # {}

(***************************************************************************)
(* Rate-follow: once the rate in the ring stays at a supported value and   *)
(* the engine keeps running, the device ends at that rate, whatever other  *)
(* rates were asked for before or during a drain.                          *)
(***************************************************************************)
RingRateIsFollowed ==
    \A r \in Rates : <>[](ringRate = r /\ ~stop) => <>[](devRate = r)

\* Once it is told to stop, by a signal or by an error, the engine releases
\* the device (onSig: "request a clean stop of the run loop, which proceeds to
\* teardown").
StopReleasesDevice == stop ~> stage = "down"

(***************************************************************************)
(* "on timeout it returns 0 (caller falls back to a default rate, which    *)
(* rate-follow later corrects)": when Core Audio stays at a supported rate *)
(* and the engine keeps running, the device ends at Core Audio's rate.     *)
(***************************************************************************)
CoreRateIsFollowed ==
    \A r \in Rates : <>[](coreRate = r /\ stage = "running" /\ ~stop) => <>[](devRate = r)

(***************************************************************************)
(* "A sample-rate change must not happen mid-stream", as StreamSwitch puts *)
(* it: whichever callbacks, failures, signals and further rate changes     *)
(* come in between, a running engine's rate is changed by a drain, to the  *)
(* rate the drain was begun for, and only by the last transfer.            *)
(***************************************************************************)
Mode ==
    IF stage \notin {"armed", "running"} THEN "off"
    ELSE IF draining THEN "draining" ELSE "streaming"

Switch == INSTANCE StreamSwitch
            WITH Most <- 2 * Requests, Accepted <- Rates, AnyRates <- CoreRates,
                 mode <- Mode, rate <- hwRate,
                 target <- IF Mode = "draining" THEN pending ELSE 0,
                 outstanding <- Cardinality(Armed)
SwitchSpec == Switch!Spec

-----------------------------------------------------------------------------
(* The inductive invariant behind the count and the drain.                 *)

\* No request is armed before the streams are primed or after the teardown.
NotYetArmed == stage \in {"query", "ring", "prime", "down"} => Armed = {}

\* The count is kept from the start of the process to its teardown.
Counted == stage # "down" => inFlight = Cardinality(Armed)

\* A running engine that was not told to stop captures with every request: a
\* capture request that cannot be armed stops it.
Capturing ==
    stage \in {"armed", "running"} /\ ~draining /\ ~stop => Ins \subseteq Armed

\* The run loop is told to return only together with gStop, and drains only
\* while it runs.
LoopState ==
    /\ loopStop => stop
    /\ draining => stage \in {"running", "down"} /\ pending \in Rates
    /\ stage = "down" => stop

IInv == TypeOK /\ NotYetArmed /\ Counted /\ Capturing /\ LoopState /\ DrainHasCallback
=============================================================================
