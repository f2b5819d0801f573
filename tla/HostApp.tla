------------------------------- MODULE HostApp -------------------------------
(***************************************************************************)
(* The host application: ElevenRackViewModel.swift and the user client     *)
(* bridge it calls, ElevenRackUserClient.mm, in front of the driver        *)
(* service and Core Audio.                                                 *)
(*                                                                         *)
(* Buttons and the two-second timer run handlers on the main thread, one   *)
(* at a time.  A handler is a sequence of synchronous calls to the driver  *)
(* or to Core Audio, one step each: between two of them the device may be  *)
(* unplugged and come back, its clock may change and a stream may start.   *)
(*                                                                         *)
(* The driver appears here as its clients see it; IsochTransport has its   *)
(* inside.                                                                 *)
(***************************************************************************)
EXTENDS Naturals

CONSTANTS Rates,            \* supportedSampleRates
          DefaultRate,      \* kDefaultSampleRate
          OtherRates,       \* unsupported rates an external clock can have
          ExternalSources   \* the external clock sources in use: AES/EBU, S/PDIF

ASSUME HostAssumption ==
    /\ Rates \subseteq Nat \ {0}
    /\ DefaultRate \in Rates
    /\ OtherRates \subseteq Nat \ (Rates \cup {0})
    /\ ExternalSources \subseteq {2, 3}

VARIABLES main,      \* the main thread: step, handler, status read, rate to be set
          conn,      \* _ioConnection: none, to a live service, or to a terminated one
          app,       \* hardwareClockSource and audioControlsConnected, as displayed
          driver,    \* the driver service: registered, device published, clock it believes in
          dev,       \* the device: clock source, rate, and how its controls answer
          core,      \* the nominal sample rate in Core Audio
          streaming  \* m_usb_running

vars == <<main, conn, app, driver, dev, core, streaming>>

Internal == 1
Sources  == {Internal} \cup ExternalSources

ClockRates(source) == IF source = Internal THEN Rates ELSE Rates \cup OtherRates

\* What readAudioStatus returns when the call fails: an empty dictionary.
NoStatus == [source |-> 0, rate |-> 0, streaming |-> FALSE]

-----------------------------------------------------------------------------
(* The driver and Core Audio, as seen by a client.                         *)

Absent == [up |-> FALSE, published |-> FALSE, believes |-> Internal]

\* HandleGetAudioStatus through the connection, and what the driver learns from it.
Status == IF conn = "live" /\ dev.state # "silent"
          THEN [source |-> dev.source, rate |-> dev.rate, streaming |-> streaming]
          ELSE NoStatus

Learned == [driver EXCEPT !.believes = IF Status = NoStatus THEN @ ELSE dev.source]

\* readCurrentSampleRate: zero when Core Audio has no such device.
CoreRate == IF driver.published THEN core ELSE 0

(***************************************************************************)
(* AudioObjectSetPropertyData of the nominal rate, which ends in the       *)
(* device's HandleChangeSampleRate: with the internal clock the device is  *)
(* programmed, an external clock can only be followed.                     *)
(***************************************************************************)
SetNominalRate(rate) ==
    IF ~driver.published \/ dev.state = "silent" \/ rate \notin Rates
    THEN UNCHANGED <<driver, dev, core>>
    ELSE IF driver.believes = Internal
    THEN /\ dev' = [dev EXCEPT !.source = Internal, !.rate = rate]
         /\ core' = rate
         /\ UNCHANGED driver
    ELSE /\ driver' = [driver EXCEPT !.believes = dev.source]
         /\ core' = IF dev.rate = rate /\ dev.state = "locked" THEN rate ELSE core
         /\ UNCHANGED dev

\* SetUSBClockSource and what SetClockSource does after it; refused while streaming.
SelectClock(source) ==
    IF conn # "live" \/ dev.state = "silent" \/ streaming
    THEN UNCHANGED <<driver, dev>>
    ELSE /\ driver' = [driver EXCEPT !.believes = source]
         /\ dev' \in {[dev EXCEPT !.source = source, !.rate = r] :
                        r \in IF source = Internal THEN {core}
                              ELSE IF source = dev.source THEN {dev.rate}
                              ELSE ClockRates(source)}

-----------------------------------------------------------------------------
(* The view model.  Of what the window shows, hwSource and connected are   *)
(* kept from one handler to the next; the rates and the streaming flag of  *)
(* a refresh are used by the handler that made it, if at all.  The values  *)
(* of the two pickers are the arguments of their Apply buttons: a user can *)
(* always select source Internal first, which enables the rate picker.     *)

\* refreshAudioStatus: what the status that was read makes of the variables.
Refreshed == [app EXCEPT !.hwSource = IF main.seen.source \in 1..3 THEN main.seen.source ELSE @]

\* Its result.
Complete == main.seen # NoStatus /\ CoreRate > 0

\* pollAudioStatus, lines 148-149: an idle external clock that Core Audio has not followed.
Unfollowed == /\ main.seen.source # Internal
              /\ ~main.seen.streaming
              /\ main.seen.rate > 0
              /\ main.seen.rate # CoreRate

Call(step, job) == main' = [at |-> step, job |-> job, seen |-> NoStatus, rate |-> 0]
CallWith(step, job, rate) == main' = [at |-> step, job |-> job, seen |-> NoStatus, rate |-> rate]
Return == Call("idle", "none")
At(step, job) == main.at = step /\ main.job = job

Init ==
    /\ main = [at |-> "idle", job |-> "none", seen |-> NoStatus, rate |-> 0]
    /\ conn = "none"
    /\ app = [hwSource |-> 0, connected |-> FALSE]
    /\ driver = Absent
    /\ \E s \in Sources : \E r \in ClockRates(s) :
          dev = [source |-> s, rate |-> r, state |-> "locked"]
    /\ core = DefaultRate
    /\ streaming = FALSE

-----------------------------------------------------------------------------
(* Handlers start when the main thread is idle.                            *)

\* Open finds the registered service, or no service at all.
Opened == IF driver.up THEN "live" ELSE "none"

\* The Connect button, and the window appearing; an open client is left alone.
ConnectAudioControls ==
    /\ At("idle", "none")
    /\ conn' = IF conn = "none" THEN Opened ELSE conn
    /\ Call("status", "controls")
    /\ UNCHANGED <<app, driver, dev, core, streaming>>

PollAudioStatus ==
    /\ At("idle", "none")
    /\ Call("status", "poll")
    /\ UNCHANGED <<conn, app, driver, dev, core, streaming>>

\* exportDiagnostics refreshes the variables and ignores the result.
ExportDiagnostics ==
    /\ At("idle", "none")
    /\ Call("status", "export")
    /\ UNCHANGED <<conn, app, driver, dev, core, streaming>>

ApplySampleRate(rate) ==
    /\ At("idle", "none")
    /\ CallWith("check", "apply", rate)
    /\ UNCHANGED <<conn, app, driver, dev, core, streaming>>

ApplyClockSource(source) ==
    /\ At("idle", "none")
    /\ SelectClock(source)
    /\ Call("status", "controls")
    /\ UNCHANGED <<conn, app, core, streaming>>

-----------------------------------------------------------------------------
(* The calls a handler makes.                                              *)

ReadAudioStatus ==
    /\ main.at = "status"
    /\ main' = [main EXCEPT !.at = "core", !.seen = Status]
    /\ driver' = Learned
    /\ UNCHANGED <<conn, app, dev, core, streaming>>

(***************************************************************************)
(* readCoreAudioStatus ends refreshAudioStatus; what the handler makes of  *)
(* its result is local, up to the handler's next call.                     *)
(***************************************************************************)
ControlsRefreshed ==
    /\ At("core", "controls")
    /\ app' = [Refreshed EXCEPT !.connected = Complete]
    /\ Return
    /\ UNCHANGED <<conn, driver, dev, core, streaming>>

ExportRefreshed ==
    /\ At("core", "export")
    /\ app' = Refreshed
    /\ Return
    /\ UNCHANGED <<conn, driver, dev, core, streaming>>

PollSettles ==
    /\ At("core", "poll")
    /\ Complete
    /\ ~Unfollowed
    /\ app' = [Refreshed EXCEPT !.connected = TRUE]
    /\ Return
    /\ UNCHANGED <<conn, driver, dev, core, streaming>>

PollFollows ==
    /\ At("core", "poll")
    /\ Complete
    /\ Unfollowed
    /\ app' = Refreshed
    /\ CallWith("check", "follow", main.seen.rate)
    /\ UNCHANGED <<conn, driver, dev, core, streaming>>

\* Mutation: the connection is reopened with open alone, which keeps a dead one.
PollKeepsClient ==
    /\ At("core", "poll")
    /\ ~Complete
    /\ app' = [Refreshed EXCEPT !.connected = FALSE]
    /\ conn' = IF conn = "none" THEN Opened ELSE conn
    /\ Call("status", "reopened")
    /\ UNCHANGED <<driver, dev, core, streaming>>

\* Mutation: an incomplete refresh leaves the connection shown.
PollForgetsLoss ==
    /\ At("core", "poll")
    /\ ~Complete
    /\ app' = Refreshed
    /\ conn' = Opened
    /\ Call("status", "reopened")
    /\ UNCHANGED <<driver, dev, core, streaming>>

\* Lines 159-164: the connection is closed and opened again.
PollReopens ==
    /\ At("core", "poll")
    /\ ~Complete
    /\ app' = [Refreshed EXCEPT !.connected = FALSE]
    /\ conn' = Opened
    /\ Call("status", "reopened")
    /\ UNCHANGED <<driver, dev, core, streaming>>

ReopenRefreshed ==
    /\ At("core", "reopened")
    /\ app' = [Refreshed EXCEPT !.connected = @ \/ Complete]
    /\ Return
    /\ UNCHANGED <<conn, driver, dev, core, streaming>>

FollowRefreshed ==
    /\ At("core", "followed")
    /\ app' = [Refreshed EXCEPT !.connected = TRUE]
    /\ Return
    /\ UNCHANGED <<conn, driver, dev, core, streaming>>

\* Mutation: following is refused with an external clock, as setting is.
CheckRefusesExternal ==
    /\ main.at = "check"
    /\ driver' = Learned
    /\ IF Status.source > Internal
       THEN Call("status", IF main.job = "follow" THEN "followed" ELSE "controls")
       ELSE CallWith("set", main.job, main.rate)
    /\ UNCHANGED <<conn, app, dev, core, streaming>>

(***************************************************************************)
(* setSampleRate and followExternalSampleRate look at the clock source     *)
(* first; a read that fails yields 0, which neither of them refuses.       *)
(***************************************************************************)
CheckClockSource ==
    /\ main.at = "check"
    /\ IF main.rate \notin Rates
       THEN Call("status", "followed") /\ UNCHANGED driver
       ELSE /\ driver' = Learned
            /\ CASE main.job = "apply" /\ Status.source > Internal  -> Call("status", "controls")
                 [] main.job = "follow" /\ Status.source = Internal -> Call("status", "followed")
                 [] OTHER -> CallWith("set", main.job, main.rate)
    /\ UNCHANGED <<conn, app, dev, core, streaming>>

SetSampleRate ==
    /\ main.at = "set"
    /\ SetNominalRate(main.rate)
    /\ Call("status", IF main.job = "follow" THEN "followed" ELSE "controls")
    /\ UNCHANGED <<conn, app, streaming>>

MainThread ==
    \/ ReadAudioStatus \/ ControlsRefreshed \/ ExportRefreshed
    \/ PollSettles \/ PollFollows \/ PollReopens \/ ReopenRefreshed \/ FollowRefreshed
    \/ CheckClockSource \/ SetSampleRate

-----------------------------------------------------------------------------
(* The driver service comes and goes with the device: unplug and replug,   *)
(* sleep and wake.                                                         *)

\* ElevenRackDriver::Start registers the service.
DriverStarts ==
    /\ ~driver.up
    /\ driver' = [Absent EXCEPT !.up = TRUE]
    /\ core' = DefaultRate
    /\ UNCHANGED <<main, conn, app, dev, streaming>>

\* The audio server finds the device the service has added.
DevicePublished ==
    /\ driver.up
    /\ ~driver.published
    /\ driver' = [driver EXCEPT !.published = TRUE]
    /\ UNCHANGED <<main, conn, app, dev, core, streaming>>

\* ElevenRackDriver::Stop; calls on an open user client fail from now on.
DriverStops ==
    /\ driver.up
    /\ driver' = Absent
    /\ conn' = IF conn = "live" THEN "dead" ELSE conn
    /\ streaming' = FALSE
    /\ UNCHANGED <<main, app, dev, core>>

\* StartIO reasserts the clock the driver believes in.
StreamStarts ==
    /\ driver.published
    /\ dev.state = "locked"
    /\ ~streaming
    /\ streaming' = TRUE
    /\ dev' \in {[dev EXCEPT !.source = driver.believes, !.rate = r] :
                   r \in IF driver.believes = Internal THEN {core}
                         ELSE IF driver.believes = dev.source THEN {dev.rate}
                         ELSE ClockRates(driver.believes)}
    /\ UNCHANGED <<main, conn, app, driver, core>>

StreamStops ==
    /\ streaming
    /\ streaming' = FALSE
    /\ UNCHANGED <<main, conn, app, driver, dev, core>>

\* The watchdog of a stream reads the clock and follows it, or is refused.
WatchdogFollows ==
    /\ streaming
    /\ dev.state # "silent"
    /\ driver' = [driver EXCEPT !.believes = dev.source]
    /\ core' \in IF dev.source # Internal /\ dev.rate \in Rates THEN {core, dev.rate} ELSE {core}
    /\ UNCHANGED <<main, conn, app, dev, streaming>>

\* Another application sets the nominal rate.
OtherClientSetsRate ==
    /\ driver.published
    /\ \E rate \in Rates : SetNominalRate(rate)
    /\ UNCHANGED <<main, conn, app, streaming>>

\* The front panel and the external clock; the controls may stop answering.
DeviceChanges ==
    /\ \E s \in Sources, st \in {"locked", "unlocked", "silent"} : \E r \in ClockRates(s) :
          dev' = [source |-> s, rate |-> r, state |-> st]
    /\ UNCHANGED <<main, conn, app, driver, core, streaming>>

Next ==
    \/ ConnectAudioControls \/ PollAudioStatus \/ ExportDiagnostics
    \/ \E rate \in Rates : ApplySampleRate(rate)
    \/ \E source \in Sources : ApplyClockSource(source)
    \/ ReadAudioStatus \/ ControlsRefreshed \/ ExportRefreshed
    \/ PollSettles \/ PollFollows \/ PollReopens \/ ReopenRefreshed \/ FollowRefreshed
    \/ CheckClockSource \/ SetSampleRate
    \/ DriverStarts \/ DevicePublished \/ DriverStops
    \/ StreamStarts \/ StreamStops \/ WatchdogFollows
    \/ OtherClientSetsRate \/ DeviceChanges

Spec == Init /\ [][Next]_vars

(***************************************************************************)
(* Calls return, and the timer's event waits in the main queue like any    *)
(* other: a user who keeps clicking cannot overtake it for ever.           *)
(***************************************************************************)
FairSpec == Spec /\ WF_vars(MainThread) /\ SF_vars(PollAudioStatus)

-----------------------------------------------------------------------------
(* Properties                                                              *)

AnyRate == {0} \cup Rates \cup OtherRates

\* What the variables hold.
TypeOK ==
    /\ main.at \in {"idle", "status", "core", "check", "set"}
    /\ main.job \in {"none", "controls", "export", "poll", "reopened", "apply", "follow", "followed"}
    /\ main.seen \in [source : {0} \cup Sources, rate : AnyRate, streaming : BOOLEAN]
    /\ main.rate \in AnyRate
    /\ conn \in {"none", "live", "dead"}
    /\ app \in [hwSource : {0} \cup Sources, connected : BOOLEAN]
    /\ driver \in [up : BOOLEAN, published : BOOLEAN, believes : Sources]
    /\ dev \in [source : Sources, rate : AnyRate, state : {"locked", "unlocked", "silent"}]
    /\ core \in Rates
    /\ streaming \in BOOLEAN

(***************************************************************************)
(* README: "It polls for unplug/replug and wake recovery": once the driver *)
(* is published and the device answers for good, the window shows it as    *)
(* connected, with the device's clock source.                              *)
(***************************************************************************)
Reconnects ==
    \A s \in Sources :
        <>[](driver.published /\ dev.state # "silent" /\ dev.source = s)
            => <>[](app.connected /\ app.hwSource = s)

(***************************************************************************)
(* The same sentence, the other way: once Core Audio has lost the device   *)
(* for good the window says so, whatever handler was under way.            *)
(***************************************************************************)
NoticesUnplug == <>[]~driver.published => <>[]~app.connected

(***************************************************************************)
(* ElevenRackViewModel.swift:148: no watchdog runs while nothing streams,  *)
(* so the poll must bring Core Audio to the rate of an external clock that *)
(* stays put, whatever the user and other applications do meanwhile.       *)
(***************************************************************************)
IdleRateFollowed ==
    \A r \in Rates :
        <>[](/\ driver.published /\ ~streaming
             /\ dev.state = "locked" /\ dev.source # Internal /\ dev.rate = r)
            => <>[](core = r)
=============================================================================
