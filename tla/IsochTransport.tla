--------------------------- MODULE IsochTransport ---------------------------
(***************************************************************************)
(* The AudioDriverKit device, ElevenRackDevice.cpp: isochronous transfers, *)
(* the watchdog that stops and restarts them, the hardware clock, and the  *)
(* Core Audio configuration changes that follow it.                        *)
(*                                                                         *)
(* Every entry point runs on the driver's serial work queue, so a handler  *)
(* is one step.  What interleaves is the rest: the device completes        *)
(* transfers and changes its clock between two handlers, and a completion  *)
(* waits in the queue until the handler that is running has returned.      *)
(*                                                                         *)
(* A handler makes several fallible calls in a row.  The operators that    *)
(* stand for them return the SET of outcomes they can have; only a device  *)
(* that is not "healthy" can make one of them fail.                        *)
(***************************************************************************)
EXTENDS Integers

CONSTANTS PerDirection,   \* kUSBRequestCount
          SupportedRates, \* kSupportedSampleRates
          DefaultRate,    \* kDefaultSampleRate
          OtherRates,     \* unsupported rates an external clock can have
          ClockArguments, \* 32-bit arguments of the SetClockSource selector
          Faults,         \* requests and transfers may fail
          HostAborts,     \* the host may abort a configuration change
          MaxOutstanding  \* bound: how often one request is in flight or queued

ASSUME TransportAssumption ==
    /\ PerDirection \in Nat \ {0}
    /\ SupportedRates \subseteq Nat \ {0}
    /\ DefaultRate \in SupportedRates
    /\ OtherRates \subseteq Nat \ {0}
    /\ ClockArguments \subseteq Nat
    /\ Faults \in BOOLEAN
    /\ HostAborts \in BOOLEAN
    /\ MaxOutstanding \in Nat \ {0}

VARIABLES ioActive,   \* m_io_active
          usb,        \* pipes, transfers and their bookkeeping
          clk,        \* m_usb_clock_source, m_usb_clock_valid, m_pending_external_rate
          sampleRate, \* GetSampleRate(): the rate Core Audio uses
          cooldown,   \* watchdog passes until m_next_recovery_time
          requests,   \* configuration changes the host has not performed yet
          hw,         \* the device: selected clock, its rate, external lock, and
                      \* whether its firmware stalls the clock-validity read
          healthy     \* the device and the frameworks answer without errors

vars == <<ioActive, usb, clk, sampleRate, cooldown, requests, hw, healthy>>

Internal  == 1
Sources   == {1, 2, 3}     \* Internal, AES/EBU, S/PDIF
External  == Sources \ {Internal}

HardwareRates(source) ==
    IF source = Internal THEN SupportedRates ELSE SupportedRates \cup OtherRates

Dirs      == {"in", "out"}
Transfers == Dirs \X (1..PerDirection)
All       == 2 * PerDirection

\* StartUSBTransport primes capture i, then playback i, for each i in turn.
Position(x) == 2 * x[2] - (IF x[1] = "in" THEN 1 ELSE 0)

None     == [x \in Transfers |-> 0]
NoData   == [x \in Transfers |-> "none"]
MaxAge   == 3

\* Outcomes only a device in trouble can produce.
Faulty(outcomes) == IF healthy THEN {} ELSE outcomes

-----------------------------------------------------------------------------
(* Transfers: armed counts the transfers the host controller holds, ok and *)
(* bad the completions that wait in the queue, lateOk and lateBad those    *)
(* of them that a stop left there, data what a capture buffer still holds  *)
(* (a non-zero completeCount), age the watchdog passes since               *)
(* m_last_input_completion_time and m_last_output_completion_time.         *)

Idle == [running |-> FALSE, open |-> {}, armed |-> None, ok |-> None, bad |-> None,
         lateOk |-> None, lateBad |-> None,
         data |-> NoData, age |-> [d \in Dirs |-> 0], failed |-> FALSE]

(***************************************************************************)
(* StopUSBTransport.  The transfers in flight are aborted.  Their          *)
(* completions run on the serial queue this handler occupies, so they wait *)
(* there behind the ones that are queued already, which nothing withdraws. *)
(***************************************************************************)
Stopped(u) ==
    [u EXCEPT
        !.running = FALSE,
        !.open    = {},
        !.armed   = None,
        !.ok      = None,
        !.bad     = None,
        !.lateOk  = [x \in Transfers |-> @[x] + u.ok[x]],
        !.lateBad = [x \in Transfers |-> @[x] + u.bad[x] + u.armed[x]],
        !.data    = [x \in Transfers |-> IF @[x] = "live" THEN "stale" ELSE @[x]]]

(***************************************************************************)
(* The end of StartUSBTransport: running is set and the two completion     *)
(* handlers are called once per request.  The first n requests are armed;  *)
(* the handler of the next one, if any, fails to arm and stops the rest.   *)
(***************************************************************************)
Primed(u, n) ==
    LET reached == {x \in Transfers : Position(x) <= n + 1}
    IN  [u EXCEPT
            !.running  = (n = All),
            !.open     = Dirs,
            !.armed    = [x \in Transfers |-> IF Position(x) <= n THEN @[x] + 1 ELSE @[x]],
            !.data     = [x \in Transfers |-> IF x \in reached THEN "none" ELSE @[x]],
            !.age      = [d \in Dirs |-> 0],
            !.failed   = @ \/ n < All]

\* Mutation: a request whose arming fails is left to the watchdog's stall test.
RearmedAnyway(u, x, arms) ==
    [u EXCEPT !.data[x] = "none", !.age[x[1]] = 0,
              !.armed[x] = IF arms THEN @ + 1 ELSE @]

(***************************************************************************)
(* The body of InputIsochComplete_Impl and OutputIsochComplete_Impl: the   *)
(* buffer is decoded or filled, and the request is armed again.            *)
(***************************************************************************)
Rearmed(u, x, arms) ==
    [u EXCEPT
        !.running  = arms,
        !.armed[x] = IF arms THEN @ + 1 ELSE @,
        !.data[x]  = "none",
        !.age[x[1]] = 0,
        !.failed   = @ \/ ~arms]

-----------------------------------------------------------------------------
(* The hardware clock.                                                     *)

\* Mutation: the results of the two requests are ignored.
ProgramRateUnchecked(h, c, rate) ==
    {[hw |-> [h EXCEPT !.source = Internal, !.rate = rate], ok |-> TRUE]}
    \cup Faulty({[hw |-> h, ok |-> TRUE]})

\* SetUSBHardwareRate: source Internal, then the rate, as two requests.
ProgramRate(h, c, rate) ==
    IF c.source # Internal
    THEN {[hw |-> h, ok |-> FALSE]}
    ELSE {[hw |-> [h EXCEPT !.source = Internal, !.rate = rate], ok |-> TRUE]}
         \cup Faulty({[hw |-> h, ok |-> FALSE]} \cup
                     {[hw |-> [h EXCEPT !.source = Internal, !.rate = r], ok |-> FALSE] :
                        r \in IF h.source = Internal THEN {h.rate} ELSE SupportedRates})

\* SetUSBClockSource: refused for an unknown source and while streaming.
ProgramSource(h, c, u, s) ==
    IF s \notin Sources \/ u.running
    THEN {[hw |-> h, clk |-> c, ok |-> FALSE]}
    ELSE {[hw  |-> [h EXCEPT !.source = s, !.rate = r],
           clk |-> [c EXCEPT !.source = s], ok |-> TRUE] :
             r \in IF s = h.source THEN {h.rate} ELSE HardwareRates(s)}
         \cup Faulty({[hw |-> h, clk |-> c, ok |-> FALSE]} \cup
                     {[hw |-> [h EXCEPT !.source = s, !.rate = r], clk |-> c, ok |-> FALSE] :
                        r \in IF s = h.source THEN {h.rate} ELSE HardwareRates(s)})

\* StartIO and StartUSBTransport reassert the clock the driver believes in.
ProgramClock(h, c, u) ==
    IF c.source = Internal
    THEN ProgramRate(h, c, sampleRate)
    ELSE {[hw |-> p.hw, ok |-> p.ok] : p \in ProgramSource(h, c, u, c.source)}

\* The answers of the clock-validity read, which some firmware stalls.
Validity(h) ==
    IF h.source = Internal THEN {"locked"}
    ELSE IF h.stalls THEN {"unknown"}
    ELSE {IF h.locked THEN "locked" ELSE "unlocked"} \cup Faulty({"unknown"})

\* ReadUSBClockStatus: what the device says becomes what the driver believes.
ReadClock(h, c) ==
    {[clk |-> [c EXCEPT !.source = h.source, !.valid = v], ok |-> TRUE] : v \in Validity(h)}
    \cup Faulty({[clk |-> c, ok |-> FALSE]})

KnownUnlocked(c) == c.source # Internal /\ c.valid = "unlocked"

-----------------------------------------------------------------------------
(* StartUSBTransport.  It can return before it opens anything; once it has *)
(* opened an interface every failure goes through StopUSBTransport.        *)

\* Mutation: the failure path forgets to close what was opened.
FailedStartLeaks(u) == u
FailedStart(u) == Stopped(u)

StartTransport(u, c, h) ==
    LET opened == [u EXCEPT !.open = Dirs]
    IN  {[usb |-> Primed(opened, n), hw |-> p.hw, ok |-> TRUE] :
            p \in {q \in ProgramClock(h, c, u) : q.ok},
            n \in IF healthy THEN {All} ELSE 0..All}
        \cup {[usb |-> FailedStart(opened), hw |-> p.hw, ok |-> FALSE] :
                p \in {q \in ProgramClock(h, c, u) : ~q.ok \/ ~healthy}}
        \cup Faulty({[usb |-> u, hw |-> h, ok |-> FALSE]} \cup
                    {[usb |-> FailedStart([u EXCEPT !.open = s]), hw |-> h, ok |-> FALSE] :
                        s \in SUBSET Dirs})

-----------------------------------------------------------------------------
(* Core Audio's rate.                                                      *)

\* ApplySampleRate: the device first when it is the master, then Core Audio.
ApplyRate(h, c, rate, program) ==
    IF rate \notin SupportedRates
    THEN {[hw |-> h, rate |-> sampleRate]}
    ELSE LET programmed == IF program THEN ProgramRate(h, c, rate) ELSE {[hw |-> h, ok |-> TRUE]}
         IN  {[hw |-> p.hw, rate |-> IF p.ok THEN rate ELSE sampleRate] : p \in programmed}
             \cup Faulty({[hw |-> p.hw, rate |-> sampleRate] : p \in programmed})

\* Mutation: the rate of an external clock is taken without asking the device.
ChangeRateUnasked(rate) ==
    {[clk |-> clk, hw |-> a.hw, rate |-> a.rate] :
        a \in ApplyRate(hw, clk, rate, clk.source = Internal)}

(***************************************************************************)
(* HandleChangeSampleRate: with the internal clock Core Audio commands the *)
(* device; with an external clock it may only follow it.                   *)
(***************************************************************************)
ChangeRate(rate) ==
    IF clk.source = Internal
    THEN {[clk |-> clk, hw |-> a.hw, rate |-> a.rate] : a \in ApplyRate(hw, clk, rate, TRUE)}
    ELSE UNION {
           IF ~r.ok \/ r.clk.valid = "unlocked" \/ hw.rate # rate
           THEN {[clk |-> r.clk, hw |-> hw, rate |-> sampleRate]}
           ELSE {[clk |-> r.clk, hw |-> a.hw, rate |-> a.rate] :
                   a \in ApplyRate(hw, r.clk, rate, FALSE)} : r \in ReadClock(hw, clk)}

\* The rate k_custom_config_change_action selects: the next one of the list,
\* which is ascending, and after the last the first.
NextRate(rate) ==
    LET higher == {r \in SupportedRates : r > rate}
        least(rates) == CHOOSE r \in rates : \A q \in rates : r <= q
    IN  least(IF higher = {} THEN SupportedRates ELSE higher)

-----------------------------------------------------------------------------
Init ==
    /\ ioActive = FALSE
    /\ usb = Idle
    /\ clk = [source |-> Internal, valid |-> "unknown", pending |-> 0]
    /\ sampleRate = DefaultRate
    /\ cooldown = 0
    /\ requests = {}
    /\ \E s \in Sources, l, v \in BOOLEAN : \E r \in HardwareRates(s) :
          hw = [source |-> s, rate |-> r, locked |-> l, stalls |-> v]
    /\ healthy = TRUE

\* The work queue is first in, first out: what a stop left there comes before
\* what has completed since, and before the next pass of the watchdog.
Late   == {x \in Transfers : usb.lateOk[x] + usb.lateBad[x] > 0}
Queued == {x \in Transfers : usb.ok[x] + usb.bad[x] > 0} \cup Late

Outstanding(u, x) == u.armed[x] + u.ok[x] + u.bad[x] + u.lateOk[x] + u.lateBad[x]

\* usb once the queue has handed over a completion of x, good or bad.
Taken(x, good) ==
    (IF good /\ usb.lateOk[x] > 0 THEN {[usb EXCEPT !.lateOk[x] = @ - 1]} ELSE {})
    \cup (IF ~good /\ usb.lateBad[x] > 0 THEN {[usb EXCEPT !.lateBad[x] = @ - 1]} ELSE {})
    \cup (IF good /\ Late = {} /\ usb.ok[x] > 0 THEN {[usb EXCEPT !.ok[x] = @ - 1]} ELSE {})
    \cup (IF ~good /\ Late = {} /\ usb.bad[x] > 0 THEN {[usb EXCEPT !.bad[x] = @ - 1]} ELSE {})

(***************************************************************************)
(* The device finishes a transfer; its completion joins the work queue.    *)
(***************************************************************************)
Complete(x, good) ==
    /\ usb.armed[x] > 0
    /\ good \/ ~healthy
    /\ usb' = IF good
              THEN [usb EXCEPT !.armed[x] = @ - 1, !.ok[x] = @ + 1,
                               !.data[x] = IF x[1] = "in" THEN "live" ELSE @]
              ELSE [usb EXCEPT !.armed[x] = @ - 1, !.bad[x] = @ + 1]
    /\ UNCHANGED <<ioActive, clk, sampleRate, cooldown, requests, hw, healthy>>

\* Input/OutputIsochComplete_Impl with kIOReturnSuccess or kIOReturnUnderrun.
HandleCompletion(x) ==
    /\ \E u \in Taken(x, TRUE) :
           IF u.running
           THEN \E arms \in {TRUE} \cup Faulty({FALSE}) : usb' = Rearmed(u, x, arms)
           ELSE usb' = u
    /\ UNCHANGED <<ioActive, clk, sampleRate, cooldown, requests, hw, healthy>>

\* The same handlers with any other status: the transport is declared down.
HandleFailure(x) ==
    /\ \E u \in Taken(x, FALSE) :
           usb' = [u EXCEPT !.running = FALSE, !.failed = @ \/ u.running]
    /\ UNCHANGED <<ioActive, clk, sampleRate, cooldown, requests, hw, healthy>>

(***************************************************************************)
(* StartIO.  The host starts I/O when it has no configuration change to    *)
(* perform; the block waits in the queue behind earlier completions.       *)
(***************************************************************************)
StartIO ==
    /\ ~ioActive
    /\ requests = {}
    /\ Queued = {}
    /\ \E p \in ProgramClock(hw, clk, usb) :
         \E s \in (IF p.ok THEN StartTransport(usb, clk, p.hw)
                          ELSE {[usb |-> usb, hw |-> p.hw, ok |-> FALSE]})
                  \cup Faulty({[usb |-> usb, hw |-> hw, ok |-> FALSE]}) :
            /\ usb' = s.usb
            /\ hw' = s.hw
            /\ ioActive' = s.ok
    /\ cooldown' \in 0..cooldown
    /\ UNCHANGED <<clk, sampleRate, requests, healthy>>

StopIO ==
    /\ ioActive
    /\ ioActive' = FALSE
    /\ usb' = Stopped(usb)
    /\ UNCHANGED <<clk, sampleRate, cooldown, requests, hw, healthy>>

\* The host changes the nominal rate; it has stopped I/O first.
HandleChangeSampleRate(rate) ==
    /\ ~ioActive
    /\ \E o \in ChangeRate(rate) : clk' = o.clk /\ hw' = o.hw /\ sampleRate' = o.rate
    /\ UNCHANGED <<ioActive, usb, cooldown, requests, healthy>>

\* ElevenRackDriver::HandleTestConfigChange: a user client asks for a change.
HandleTestConfigChange ==
    /\ "custom" \notin requests
    /\ requests' = requests \cup {"custom"}
    /\ UNCHANGED <<ioActive, usb, clk, sampleRate, cooldown, hw, healthy>>

PerformCustomChange ==
    /\ ~ioActive
    /\ "custom" \in requests
    /\ requests' = requests \ {"custom"}
    /\ \E o \in ChangeRate(NextRate(sampleRate)) :
          clk' = o.clk /\ hw' = o.hw /\ sampleRate' = o.rate
    /\ UNCHANGED <<ioActive, usb, cooldown, healthy>>

\* Mutation: the change is performed and the pending rate stays set.
PerformLeavesPending ==
    /\ ~ioActive
    /\ "external" \in requests
    /\ requests' = requests \ {"external"}
    /\ \E a \in ApplyRate(hw, clk, clk.pending, FALSE) : hw' = a.hw /\ sampleRate' = a.rate
    /\ UNCHANGED <<ioActive, usb, clk, cooldown, healthy>>

PerformExternalRate ==
    /\ ~ioActive
    /\ "external" \in requests
    /\ requests' = requests \ {"external"}
    /\ clk' = [clk EXCEPT !.pending = 0]
    /\ \E a \in ApplyRate(hw, clk, clk.pending, FALSE) : hw' = a.hw /\ sampleRate' = a.rate
    /\ UNCHANGED <<ioActive, usb, cooldown, healthy>>

\* Mutation: an aborted change leaves the pending rate set.
AbortForgets(change) ==
    /\ HostAborts
    /\ change \in requests
    /\ requests' = requests \ {change}
    /\ UNCHANGED <<ioActive, usb, clk, sampleRate, cooldown, hw, healthy>>

AbortDeviceConfigurationChange(change) ==
    /\ HostAborts
    /\ change \in requests
    /\ requests' = requests \ {change}
    /\ clk' = [clk EXCEPT !.pending = IF change = "external" THEN 0 ELSE @]
    /\ UNCHANGED <<ioActive, usb, sampleRate, cooldown, hw, healthy>>

(***************************************************************************)
(* The user client's SetClockSource.  Only the low byte of the argument    *)
(* reaches the device; the test for Internal looks at all of it.           *)
(***************************************************************************)
SetClockSource(argument) ==
    /\ \E p \in ProgramSource(hw, clk, usb, argument % 256) :
       \E q \in (IF p.ok /\ argument = Internal
                    THEN ProgramRate(p.hw, p.clk, sampleRate)
                    ELSE {[hw |-> p.hw, ok |-> p.ok]}) :
       \E r \in (IF q.ok THEN ReadClock(q.hw, p.clk) ELSE {[clk |-> p.clk, ok |-> FALSE]}) :
         /\ hw' = q.hw
         /\ clk' = r.clk
    /\ UNCHANGED <<ioActive, usb, sampleRate, cooldown, requests, healthy>>

GetAudioStatus ==
    /\ \E r \in ReadClock(hw, clk) : clk' = r.clk
    /\ UNCHANGED <<ioActive, usb, sampleRate, cooldown, requests, hw, healthy>>

-----------------------------------------------------------------------------
(* The watchdog, MonitorAndRecoverTransport, one pass a second.  A healthy *)
(* device completes its transfers every two milliseconds, so between two   *)
(* passes each direction completes; only after a failure may it not.       *)

TimePasses ==
    /\ Late = {}
    /\ \/ ~healthy
       \/ usb.failed
       \/ IF usb.running
          THEN \A d \in Dirs : usb.age[d] = 0
          ELSE \A x \in Transfers : Outstanding(usb, x) = 0

Ticked(u) == [u EXCEPT !.age = [d \in Dirs |-> IF @[d] < MaxAge THEN @[d] + 1 ELSE MaxAge],
                       !.failed = FALSE]

Cooled == IF cooldown = 0 THEN 0 ELSE cooldown - 1

\* Mutation: the rate of the clock is not looked up among the supported ones.
FollowAnyRate(r) ==
    IF r.ok /\ r.clk.source # Internal /\ hw.rate # sampleRate /\ r.clk.pending = 0
    THEN {[clk |-> [r.clk EXCEPT !.pending = hw.rate], requests |-> requests \cup {"external"}]}
    ELSE {[clk |-> r.clk, requests |-> requests]}

\* Lines 1028-1040: an external clock runs at a supported rate Core Audio does not have.
FollowRate(r) ==
    IF /\ r.ok
       /\ r.clk.source # Internal
       /\ hw.rate \in SupportedRates \ {sampleRate}
       /\ r.clk.pending = 0
    THEN {[clk |-> [r.clk EXCEPT !.pending = hw.rate], requests |-> requests \cup {"external"}]}
         \cup Faulty({[clk |-> r.clk, requests |-> requests]})
    ELSE {[clk |-> r.clk, requests |-> requests]}

\* Mutation: only a stall counts, a transport that is down does not.
RestartsOnlyStalled(u) == u.running /\ \E d \in Dirs : u.age[d] >= 2

\* A completion two passes old is on either side of the two-second threshold.
MaybeFlowing(u) == u.running /\ \A d \in Dirs : u.age[d] <= 2
MaybeStalled(u) == ~u.running \/ \E d \in Dirs : u.age[d] >= 2

LosesLock(r) == r.ok /\ KnownUnlocked(r.clk)

\* Mutation: the stream keeps running when lock is lost.
StopsNothing ==
    /\ ioActive
    /\ TimePasses
    /\ \E r \in ReadClock(hw, clk) : LosesLock(r) /\ clk' = r.clk
    /\ usb' = Ticked(usb)
    /\ cooldown' = Cooled
    /\ UNCHANGED <<ioActive, sampleRate, requests, hw, healthy>>

WatchdogStopsUnlocked ==
    /\ ioActive
    /\ TimePasses
    /\ \E r \in ReadClock(hw, clk) : LosesLock(r) /\ clk' = r.clk
    /\ usb' = IF usb.running THEN Stopped(Ticked(usb)) ELSE Ticked(usb)
    /\ cooldown' = Cooled
    /\ UNCHANGED <<ioActive, sampleRate, requests, hw, healthy>>

WatchdogWaits ==
    /\ ioActive
    /\ TimePasses
    /\ \E r \in {q \in ReadClock(hw, clk) : ~LosesLock(q)} : \E f \in FollowRate(r) :
         /\ MaybeFlowing(Ticked(usb)) \/ KnownUnlocked(f.clk) \/ Cooled > 0
         /\ clk' = f.clk
         /\ requests' = f.requests
    /\ usb' = Ticked(usb)
    /\ cooldown' = Cooled
    /\ UNCHANGED <<ioActive, sampleRate, hw, healthy>>

WatchdogRestarts ==
    /\ ioActive
    /\ TimePasses
    /\ MaybeStalled(Ticked(usb))
    /\ Cooled = 0
    /\ \A x \in Transfers : Outstanding(usb, x) < MaxOutstanding
    /\ \E r \in {q \in ReadClock(hw, clk) : ~LosesLock(q)} : \E f \in FollowRate(r) :
         /\ ~KnownUnlocked(f.clk)
         /\ clk' = f.clk
         /\ requests' = f.requests
         /\ \E s \in StartTransport(Stopped(Ticked(usb)), f.clk, hw) :
               usb' = s.usb /\ hw' = s.hw
    /\ cooldown' = 2
    /\ UNCHANGED <<ioActive, sampleRate, healthy>>

Watchdog == WatchdogStopsUnlocked \/ WatchdogWaits \/ WatchdogRestarts

-----------------------------------------------------------------------------
(* The world: the external clock comes, goes and changes its rate, and the *)
(* device or the frameworks may stop answering for a while.                *)

ExternalLockChanges ==
    /\ hw.source # Internal
    /\ hw' = [hw EXCEPT !.locked = ~@]
    /\ UNCHANGED <<ioActive, usb, clk, sampleRate, cooldown, requests, healthy>>

ExternalRateChanges ==
    /\ hw.source # Internal
    /\ \E r \in HardwareRates(hw.source) \ {hw.rate} : hw' = [hw EXCEPT !.rate = r]
    /\ UNCHANGED <<ioActive, usb, clk, sampleRate, cooldown, requests, healthy>>

HealthChanges ==
    /\ Faults
    /\ healthy' = ~healthy
    /\ UNCHANGED <<ioActive, usb, clk, sampleRate, cooldown, requests, hw>>

Next ==
    \/ \E x \in Transfers, good \in BOOLEAN : Complete(x, good)
    \/ \E x \in Transfers : HandleCompletion(x) \/ HandleFailure(x)
    \/ StartIO \/ StopIO
    \/ \E rate \in SupportedRates : HandleChangeSampleRate(rate)
    \/ HandleTestConfigChange \/ PerformCustomChange \/ PerformExternalRate
    \/ \E change \in {"custom", "external"} : AbortDeviceConfigurationChange(change)
    \/ \E argument \in ClockArguments : SetClockSource(argument)
    \/ GetAudioStatus
    \/ WatchdogStopsUnlocked \/ WatchdogWaits \/ WatchdogRestarts
    \/ ExternalLockChanges \/ ExternalRateChanges \/ HealthChanges

Spec == Init /\ [][Next]_vars

(***************************************************************************)
(* Transfers complete, queued handlers run, the watchdog timer is always   *)
(* rearmed, and the host stops I/O to perform a change it was asked for;   *)
(* none of it depends on which rates are supported.                       *)
(***************************************************************************)
Fairness ==
    /\ \A x \in Transfers :
         /\ WF_vars(Complete(x, TRUE) \/ Complete(x, FALSE))
         /\ WF_vars(HandleCompletion(x))
         /\ WF_vars(HandleFailure(x))
    /\ WF_vars(Watchdog)
    /\ WF_vars(requests # {} /\ StopIO)
    /\ WF_vars(PerformExternalRate)

FairSpec == Spec /\ Fairness

-----------------------------------------------------------------------------
(* Properties                                                              *)

UsbStates == [running : BOOLEAN, open : SUBSET Dirs,
              armed : [Transfers -> Nat], ok : [Transfers -> Nat], bad : [Transfers -> Nat],
              lateOk : [Transfers -> Nat], lateBad : [Transfers -> Nat],
              data : [Transfers -> {"none", "live", "stale"}],
              age : [Dirs -> 0..MaxAge], failed : BOOLEAN]
Clocks    == [source : Sources, valid : {"locked", "unlocked", "unknown"},
              pending : {0} \cup SupportedRates]
Devices   == [source : Sources, rate : SupportedRates \cup OtherRates,
              locked : BOOLEAN, stalls : BOOLEAN]

\* Every variable keeps its type.
TypeOK ==
    /\ ioActive \in BOOLEAN
    /\ usb \in UsbStates
    /\ clk \in Clocks
    /\ sampleRate \in SupportedRates
    /\ cooldown \in 0..2
    /\ requests \subseteq {"custom", "external"}
    /\ hw \in Devices
    /\ healthy \in BOOLEAN

(***************************************************************************)
(* The pipes belong to an active stream: the transport runs only on two    *)
(* open interfaces, a transfer is in flight only on an open one, and once  *)
(* Core Audio has stopped I/O, or failed to start it, nothing is open.     *)
(***************************************************************************)
PipesFollowIO ==
    /\ usb.running => ioActive /\ usb.open = Dirs
    /\ \A x \in Transfers : usb.armed[x] > 0 => x[1] \in usb.open
    /\ ~ioActive => usb.open = {}

(***************************************************************************)
(* Conservation of requests (README: "schedules eight asynchronous         *)
(* 16-microframe isochronous requests per direction"): while the transport *)
(* runs no request is lost, and every request is armed once by a start.    *)
(* The one step that arms a request that is still outstanding is a restart *)
(* by the watchdog after a failure, whose stop and start share a handler:  *)
(* it meets what the stop aborted and what had completed before it.        *)
(***************************************************************************)
NoneIsLost == usb.running => \A x \in Transfers : Outstanding(usb, x) > 0

Restarted == ioActive /\ cooldown < 2 /\ cooldown' = 2

RequestsConserved ==
    [][/\ NoneIsLost'
       /\ \A x \in Transfers :
            Outstanding(usb', x) > Outstanding(usb, x)
              => /\ Outstanding(usb', x) = Outstanding(usb, x) + 1
                 /\ Outstanding(usb, x) > 0 => Restarted /\ (~healthy \/ usb.failed)]_vars

(***************************************************************************)
(* While the transport runs on the internal clock, the device plays at the *)
(* rate Core Audio uses, whatever SetClockSource, rate changes and their   *)
(* failures left behind before it was started.                             *)
(***************************************************************************)
RatesAgree ==
    usb.running => /\ hw.source = clk.source
                   /\ clk.source = Internal => hw.rate = sampleRate

(***************************************************************************)
(* m_pending_external_rate is set exactly while the host still has an      *)
(* external-rate change to perform: set longer, it would block every later *)
(* change; cleared early, a change would be performed with rate zero.      *)
(***************************************************************************)
PendingMatchesRequest == clk.pending # 0 <=> "external" \in requests

(***************************************************************************)
(* ElevenRackDevice.cpp:896, "In external mode, Core Audio may follow but  *)
(* never command the hardware": its rate only ever becomes the one the     *)
(* clock has, or the one the watchdog saw it have.                         *)
(***************************************************************************)
CoreAudioFollows ==
    [][clk.source # Internal /\ sampleRate' # sampleRate
         => sampleRate' \in {hw.rate, clk.pending}]_vars

(***************************************************************************)
(* ElevenRackDevice.cpp:1022, "Do not feed stale/repeated samples to Core  *)
(* Audio after external synchronization is lost": no capture buffer filled *)
(* before the stop is still there when the restart decodes them all.       *)
(***************************************************************************)
NoStaleSamples ==
    [][ioActive /\ KnownUnlocked(clk) /\ ~usb.running /\ usb'.running
         => \A x \in Transfers : usb.data[x] # "stale"]_vars

(***************************************************************************)
(* README: "a watchdog retry after a stalled transfer or recovered         *)
(* external clock": a stream that stays wanted, on a healthy device with a *)
(* usable clock, runs in the end and then is never interrupted again.      *)
(***************************************************************************)
Usable == hw.source = Internal \/ hw.locked \/ hw.stalls
TransportRecovers == <>[](ioActive /\ healthy /\ Usable) => <>[]usb.running

(***************************************************************************)
(* The same comment as for NoStaleSamples: a stream whose external clock   *)
(* stays unlocked is silenced, and stays so.                               *)
(***************************************************************************)
UnlockedIsSilenced ==
    <>[](ioActive /\ healthy /\ hw.source # Internal /\ ~hw.locked /\ ~hw.stalls)
        => <>[]~usb.running

(***************************************************************************)
(* README: "follows a supported externally clocked rate through a Core     *)
(* Audio device configuration change": if the watchdog keeps running on a  *)
(* steady, locked external clock and the host stops refusing the change,   *)
(* Core Audio ends at that clock's rate, whatever was refused before.      *)
(***************************************************************************)
RateIsFollowed ==
    \A r \in SupportedRates :
        /\ <>[](healthy /\ hw.source # Internal /\ hw.locked /\ hw.rate = r)
        /\ []<><<Watchdog>>_vars
        /\ <>[][~AbortDeviceConfigurationChange("external")]_vars
        => <>[](sampleRate = r)

-----------------------------------------------------------------------------
(* Together the safety invariants are inductive: what a start may rely on  *)
(* is what the last stop, failed start or change of the clock left behind. *)

IInv ==
    /\ TypeOK
    /\ PipesFollowIO
    /\ NoneIsLost
    /\ RatesAgree
    /\ PendingMatchesRequest
=============================================================================
