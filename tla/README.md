# TLA+ verification of the Eleven Rack driver

This directory specifies the concurrent parts of the Eleven Rack driver
project in TLA+, model-checks them with TLC on small instances, and proves the
main facts about most of them with TLAPS for every value of the constants.
Paths below are relative to the repository; `D` abbreviates
`ElevenRackDriverExtension/ElevenRackDevice.cpp`, `E` `Tools/erengine.c`, `R`
`Tools/errig_read.c` and `Z` `Tools/ermidi_bridge.c`.

Each definition that models code names its lines in `PROJECT.json` (`map`). To
repeat the checks:

    tlc -workers 2 -config AudioRing.cfg MCRing        # any run listed below
    tlapm AudioRing_proofs.tla                         # any *_proofs module

## 1. The system

The Eleven Rack is a USB guitar processor with 8 capture and 6 playback
channels. The repository drives it in two alternative ways, and has tools that
talk to it over USB-MIDI.

```
 Core Audio host (coreaudiod)                    Core Audio host (coreaudiod)
   | StartIO/StopIO, rate and                      | HAL plugin (not in the repository)
   | configuration changes                         |   er_in_read / er_out_write
   v                                               v
 ElevenRackDevice  <- user client <- host app    ERAudioRing (shared memory)
   | isochronous USB                               ^   er_in_write / er_out_read
   v                                               |
 Eleven Rack                                     erengine -- isochronous USB --> Eleven Rack

 er_inventory -- includes --> errig_read -- USB-MIDI SysEx --> Eleven Rack
   | one .syx file per rig        ^ decoder
   v                              |
 er_inventory_export -- includes -+--> settings.csv

 CoreMIDI applications <-- 2 cables --> ermidi_bridge -- USB-MIDI events --> Eleven Rack
```

### Inventory

| Component | State it keeps | Operations | Interacts with |
|---|---|---|---|
| Shared audio ring, `Tools/ERAudioRing.h` | four 64-bit counters, two float arrays, the published rate, meters | `er_in_write`, `er_in_read`, `er_out_write`, `er_out_read`, create, attach, close | written and read by two processes without a lock; an object that outlives both |
| DriverKit audio device, `ElevenRackDevice.cpp` | transport flags, pipes, 16 requests, believed clock, pending external rate, watchdog times | `StartIO`, `StopIO`, rate and configuration changes, clock selectors, completions, `MonitorAndRecoverTransport` | Core Audio calls it; the device completes its transfers; it requests configuration changes |
| Driver service and user client, `ElevenRackDriver.cpp`, `...UserClient.cpp` | the device object, the work queue | `Start`, `Stop`, selectors | selectors are forwarded to the device |
| User-space engine, `Tools/erengine.c` | requests in flight, drain state, three views of the rate, capture parser, accordion | start-up, `inDone`, `outDone`, `rateFollow`, `reconfigure`, `onSig`, teardown | the ring, the device |
| Hardware inventory, `Tools/er_inventory.c` | files in the output directory, counters of the run | `main`, `query_program`, `read_edit`, signals | runs the rig reader in-process; the device answers over MIDI |
| Rig reader and decoder, `Tools/errig_read.c` | reply buffer, decoded sections | `send_get_request`, `read_pipe_bounded`, `read_sysex`, unpacking, section parsing | MIDI pipes |
| Inventory export, `Tools/er_inventory_export.c` | rows written, rigs missing | `main`, `export_rig`, `write_row` | reads what the inventory saves, with the decoder |
| MIDI bridge, `Tools/ermidi_bridge.c` | two cables' endpoints, an open interface, a reader thread, a write lock | set-up, CoreMIDI send callbacks, reader thread, self test, clean-up | CoreMIDI, MIDI pipes; three kinds of threads share `gStop` and a lock |
| Host application, `Shared/ElevenRackViewModel.swift`, `ElevenRackUserClient.mm` | connection, last source, pickers, message | status poll, Connect, Apply, rate following, activation | the user client; Core Audio properties |
| Views, analysis, diagnostics, research aids, build files | none, or single-shot | - | - |

### What is hard about each

* **Ring.** Two processes copy into and out of the same array with only
  acquire/release counters between them; a stale counter is used after it was
  loaded; the reader skips a backlog; a producer may be restarted under a
  mapped ring. The ring itself is an object that crashes, older builds and
  processes that attach in the middle of its initialisation must not spoil.
* **Device.** Handlers are serial, but transfers complete and the external
  clock changes between them; completions that were queued before a stop run
  after it; sixteen requests are primed one by one and any can fail; a host may
  refuse a configuration change; a watchdog stops and restarts everything.
* **Engine.** One counter, kept by hand in five places, decides when the
  streams may be reprogrammed; a signal may come before the run loop runs; the
  rate is adopted, published and followed by three parties. Packets end inside a
  word, and a carry that survives a restart shifts every channel after it.
* **Inventory.** A six-hour crawl that must survive signals, crashes and
  reruns; replies are recognised by their object only, so a late one answers a
  later question.
* **Decoder and export.** Sizes and offsets come from the dump, which a lost
  byte shifts, and nothing notices: what follows is read as whatever it happens to
  look like. What a setting is called, shown as and cataloged as comes from
  five functions with lists of their own.
* **MIDI bridge.** A SysEx is coded in threes and its end in the code; the reader
  may test `gStop` just before it is set and read just after the abort; clean-up
  starts from any point of the set-up while callbacks wait for the lock.
* **Host application.** A poll makes half a dozen calls, and the device can
  vanish, return or change its clock between any two of them.

### What makes each correct

* Ring: what is read is what was written, in order and uncopied-over; fill and
  backlog stay bounded; a full ring drains when reading resumes. Whoever is
  attached is on one whole ring, the one the next engine finds.
* Device: pipes are open only under active I/O; no request is lost while it
  runs, and none is doubled but in a restart after a failure;
  a running stream and Core Audio agree on rate and clock; an external rate is
  followed, never commanded; a stream that is wanted on a usable clock comes
  back, one on an unlocked clock is silenced.
* Engine: the count is exact; rates change between streams; a drain ends; the
  ring's rate is reached; a stop releases the device. Every captured word lands
  in its lane, and playback follows the rate without drift.
* Inventory: each saved file is the buffer of the rig it is named after; a run
  that says it is complete is; no rerun replaces what is there; the crawl finishes;
  the original program returns.
* Decoder and export: no bit of a dump is lost; each row belongs to its module;
  the catalog describes what is displayed; a damage costs nothing that was read
  before it; a run without complaint has a capture of every rig.
* MIDI bridge: each cable carries its bytes, all of them, in order; nothing is used
  before it is open or after it is closed; a signal ends the process.
* Host application: a returned device is reconnected, a lost one noticed, an
  idle Core Audio rate ends at the external clock's.

`PROJECT.json` (`hazards`) lists the places where these can go wrong, each with
its line and the properties about it, or the reason there is none.

## 2. Modules

| Module | Role |
|---|---|
| `FrameStream` | abstract specification: an ordered stream of frames from which a reader drops and takes |
| `AudioRing` | one direction of the ring, call by call; implements `FrameStream` |
| `AudioRingRestart` | `AudioRing` under an engine that restarts and resets the counters |
| `AudioRing_proofs` | proofs of `AudioRing`, its refinement, and `RingSetup` |
| `RingSetup` | creating, attaching and closing the shared object |
| `MCRing` | `AudioRing` and `RingSetup` in one run |
| `IsochTransport`, `MCIsoch`, `IsochTransport_proofs` | the DriverKit audio device; `MCIsoch` runs a sound and a failing one |
| `StreamSwitch` | abstract specification: how the rate of running streams may change |
| `Engine`, `Engine_proofs` | the user-space engine in bridge mode, request by request; implements `StreamSwitch` |
| `StreamState`, `EngineStream`, `EngineStream_proofs` | the engine's samples, packet by packet; implements `StreamSwitch` |
| `MCEngine` | both views of the engine in one run |
| `CaptureArchive` | abstract specification: what the directory of captures promises across runs |
| `Inventory`, `Inventory_proofs` | the crawl, its files, and the MIDI query path under it; implements `CaptureArchive` |
| `SevenBit` | the unpacking of a dump, for any symbol width |
| `RigSchema` | the decoder's tables of effects, keys, displays, units, ranges and curves |
| `RigDecode` | one dump or setting decoded |
| `RigExport` | the section walk, the summary and the export of a directory of captures |
| `RigTools_proofs` | proofs of the four modules above |
| `UsbMidi` | USB-MIDI events and how the bridge makes them of packets |
| `BridgeState`, `MidiBridge`, `MidiBridge_proofs` | the bridge's threads, from set-up to clean-up |
| `MidiTraffic`, `MCMidi` | what applications and the rack say; the bridge with it |
| `MCRigTools` | export, decoder and bridge in one run |
| `SequenceLemmas` | what the proofs need of flattened, picked and mapped sequences |
| `HostApp` | the view model and its client library against a service that comes and goes |

A component whose properties are checked in a run with another one has its state
and its properties in a module of their own (`StreamState`,
`BridgeState`), which the module with its steps extends. Machines that share a
run share no state; each behaviour runs one of them, or, in `MCRing`, both.

### AudioRing, FrameStream

A call is split where the other process can see a difference: load of the
peer's counter, decision, the copy of each frame, and the publication of the own
counter. The writer owns `inWrite`, the reader `inRead`; cells hold the index
of the frame last copied into them, so a torn or overwritten frame is visible.
`er__avail` truncates the difference of two counters to a word (`Word`), as the
code's `uint32_t` does. The two directions of the ring run the same code with
the roles of the processes exchanged, so one direction is modelled.

`FrameStream` knows only what was put and what was taken. A step of the ring
that publishes maps to `Put`, `Drop` or `Take` of the frames it publishes, any
other to a stutter.

`AudioRingRestart` adds the four stores of a starting engine (`E:700`) to a
ring another process still uses.

### RingSetup

Shared-memory objects are numbered, `name` is the one `ER_RING_NAME` stands for,
and each records its size, its magic and whether the header is stored.
`er_ring_create` is one step per system call or store (open or create, `fstat`
and `ftruncate`, `mmap`, the wipe, the header, the magic); any call can fail
and the process can end between any two. It is started again, one at a time: it
claims the USB device first. What an older build or an engine that died left is
among the initial states. Clients attach, are refused, and detach in between.

Abstracted: who may open the object (the mode bits), the contents of the audio.

### IsochTransport

One action per entry point on the driver's serial queue: `StartIO`, `StopIO`,
`HandleChangeSampleRate`, the configuration-change requests with their perform
and abort sides, `SetClockSource`, `GetAudioStatus`, the two completion
handlers and the watchdog pass. A handler is one step because the queue is
serial. Between handlers the device completes transfers, loses and finds
external lock, changes its external rate, and stops and resumes answering
(`healthy`). Each fallible call is an operator that returns the set of its
outcomes, so a handler that makes four of them has every mixture of failures.

`usb` holds what `StartUSBTransport` and `StopUSBTransport` change, `clk` what
the driver believes of the clock, and `hw` what is true of the device; most
properties relate the last two. `hw.stalls` is the firmware that stalls the
clock-validity read.

A stop withdraws nothing from the queue. What had completed and what it aborts
is delivered after the handler that stopped (`lateOk`, `lateBad`), and the
queue is first in, first out: before anything that completes later, before a
`StartIO` that was asked for later, and before the next pass of the watchdog.
After `StopIO` such completions find the transport down and do nothing. After a
restart by the watchdog, which stops and starts in one handler, they find it
running: a good one arms its request once more, an aborted one takes the new
stream down. `RequestsConserved` says that this is the only way a request is
doubled, and that it takes a failure; `TransportRecovers`, that the stream
comes back all the same. `MaxOutstanding` bounds how often a request is
doubled: restarts wait when it is reached.

Abstracted: sample data (a capture buffer is empty, live or stale), wall time
(watchdog passes, ages up to `MaxAge`, a cool-down of two), time stamps, the
construction of streams and controls, latency properties, reference counts.

`MCIsoch` has two devices: a sound one with two rates and every clock
argument, and one whose calls all fail now and then, with one rate, two clock
sources and no requests of a user client. They are checked against the same properties under the same fairness.

### Engine

`stage` is how far `main` has come; each request is unarmed, in flight, or has
a callback pending. `InDone` and `OutDone` are the whole callbacks, including
the drain and the `reconfigure` the last one runs, and `Reconfigure` arms every
request again with any of them failing. Three views of the rate are kept apart:
`hwRate` (what the engine believes), `devRate` (what the device does),
`ringRate` (what the ring says), and `coreRate` for the plugin's own. Four
constants admit faults: `StartupRaces`, `EarlyStops`, `ArmsFail`,
`RateSetFails`.

Not modelled: metering, the file, sweep and monitor modes, a hard kill.

### StreamSwitch, StreamState, EngineStream

`StreamSwitch` is the comment at the head of `erengine.c` as a state machine:
streaming, draining, restarting; a rate changes only while nothing is
outstanding. `Engine` implements it with every failure (requests that are not
off the wire count as outstanding), `EngineStream` with the samples.

`EngineStream` follows the bytes. A byte is known by its stream and its place in
it, so a byte of the stream before, a lost carry or a shifted lane shows in
`frame`, the last frame handed to the ring. `FeedPacket` appends a packet of any
length to the carry, `PlaceWord` cuts a word and puts it in the lane of
`gWordPhase`, which wraps. On the playback side `FillMicroframe` takes the
frames the accordion of `armOut` grants; `accum` is `gOutAccum` in units of
1/8000 of a frame, in which it is an integer. `Reconfigure` resets what the code
resets and keeps what it keeps (`gSF`).

Abstracted: values of samples, failures (they are in `Engine`), the contents of
playback frames (they come from the ring), bus frame numbers.

### Inventory

The tool is a sequence of steps named after the functions of `er_inventory.c`
and `errig_read.c`; the device is a FIFO of answers, each for the program that
was loaded when it was made. `LoadProgram` lets the device change program late
or not at all, `Answer` lets it answer late, `Signal` and `Crash` interrupt,
and `Start` reruns the tool over the files that are left. A device is `prompt`
when it answers within the time-outs and the disk takes files.

Abstracted: seconds and the 15-second gap, labels and names, USB set-up.
Programs changed at the front panel during a run, and the reader's limits of
64 and 32 packets, are left out.

### SevenBit, RigSchema, RigDecode, RigExport

The decoder is pure, so it is operators. `SevenBit` is `unpack_7bit` with the
width of a symbol as a parameter. `RigSchema` turns the chains of key
comparisons into sets of rows [effects, keys, ...], one table per function of
the code, so that they can be compared; end points are numbers, names are left
out. `RigExport` takes a dump as a sequence of 32-bit words: the walk reads
sizes and offsets in bytes, as the code does, and stops where a section does not
parse. The device side is external: it packs a rig (`Packed`), and what came of
the dump (`Dump`) is the first words of that and then any words at all, `Rests`. A byte
that is lost, added or changed, at whatever place, also inside a section or the
table of contents, spoils at most what is from its word on, and that may parse or
not; so may a dump that simply ends early. A capture whose frame is broken counts
as missing, as does one without a table, so the frame is not modelled apart. The
export is one action per rig, since nothing but the file it reads is shared, and
`SaveCapture` may come in between.

`RigDecode` chooses one dump or one setting at a time. `MCRigTools` puts both
machines, and the bridge, in one run.

### UsbMidi, BridgeState, MidiBridge

`UsbMidi` is the coding: `Encoded` is `encodeMIDI` (status by status, SysEx in
threes, the end in the code of the last event), `Counted` is what `deliver`
passes on. `MidiBridge` has `main` with its failures at every step of the
set-up, the signal handler, the self test, `cleanup` call by call, the reader
thread between its test of `gStop`, its call and its return, and one
`coreMidiOutput` at a time on each cable, with the write lock. A failed write
leaves unknown what the rack took, so that list is not counted.

What was sent and what arrived are histories; as soon as they agree they are
forgotten, which keeps the state space finite without a bound on messages.

Abstracted: values of data bytes, time stamps, the search for the interface.
Assumed of CoreMIDI: `MIDIClientDispose` starts no callback any more and waits
for those that run. The code itself waits for none.

### HostApp

Both threads that can touch the connection run on the main queue; a handler is
a sequence of steps, one per call that reaches the service or Core Audio, since
the world changes between them. `driver` is the service (and its published
rates, which go with it), `conn` the connection the application holds, which may
be dead. What a picker holds is the argument of Apply.

The activation of the extension (`ElevenRackViewModel.swift:32-73`) is one
request to the system whose answer is shown as text; it is left out.

## 3. Runs

`isoch` and `rig_tools` take between one and two minutes, the others less than one. Machines that
share no state share a run.

| Run | Module | States | Bounds | What it shows |
|---|---|---|---|---|
| `ring` | `MCRing` | 43,834 | 4 frames, target fill 1, requests of 0, 1, 3 and 5 frames, 9 frames written; 2 clients, 3 objects | safety, refinement and progress of the ring; clients share one whole ring and get attached |
| `ring_restart` | `AudioRingRestart` | - | as above, smaller | finding 1 |
| `isoch` | `MCIsoch` | 232,636 | 1 request per direction; sound: two rates, an unsupported external one, aborts, arguments 1, 2 and 257; failing: one rate, two sources, every call fallible, a request doubled once (`MaxOutstanding` 2) | the safety properties of the device; a wanted stream recovers once faults end, an unlocked one is silenced, rates are followed |
| `isoch_stale` | `IsochTransport` | - | no faults | finding 2 |
| `engine` | `MCEngine` | 43,756 | requests: 2 per direction, two supported rates and an odd one; samples: words of 2 bytes, 2 lanes, a phase of 4, packets of 0, 1, 3 and 4 bytes, 16 bytes or 6 microframes a stream | count, drain, rate and shutdown; whole frames and no drift; the abstract switch |
| `engine_early_stop`, `engine_startup` | `Engine` | - | 1 request | findings 3 and 4 |
| `inventory` | `Inventory` | 67,978 | 3 rigs, 3 verification and 2 edit tries, faults | captures are honest and stay, the abstract archive, and the crawl finishes |
| `inventory_restore` | `Inventory` | - | 2 rigs, no faults but signals | finding 5 |
| `rig_tools` | `MCRigTools` | 351,843 | 2 captures, 7 small rigs; the last 0, 2, 5 or 9 words of a dump lost, and in their place nothing, a word that does not parse, or 2 or 8 that do; symbols of 2 bits, dumps of up to 7; every effect and key, values -1 to 130; 2 cables and a stray one, 2 events waiting, 4 in a buffer | rows, summary and tables of the decoder; the bridge's cables, lifetimes and its end |
| `midi_cut` | `MCMidi` | - | a SysEx in two packets, and one longer than the buffer | finding 6 |
| `host_app` | `HostApp` | 86,880 | two rates, an unsupported one, one external source | reconnection, loss, rate following |

The types of `AudioRing`, `Engine`, `Inventory` and `RingSetup` are part of the invariants
proved about them and are not checked again; `TypeOK` of `HostApp` and `RigExport`
documents their variables and is in no configuration.

Why the bounds are enough to see the interesting cases:

* *Ring.* Nine writes wrap four cells twice. A request of 5 exceeds the ring, 3
  crosses the wrap, 1 leaves a backlog above the target, 0 is the empty call.
* *Ring set-up.* Three objects allow one that is left behind, one that is removed
  again by a failed sizing and one that stays; `SizingFails` does not remove the
  last one, which would end every behaviour. Two clients can be on different
  sides of any step.
* *Transport.* Requests of one direction do not interact except through the
  `running` flag and the shared `age`; one per direction already has priming
  stop at 0, 1 and 2, a failure while the other direction is in flight, and
  completions queued across a stop. A request doubled once already meets every
  mixture of old and new completions. One rate suffices for the faults, since
  they concern the transfers and the selected source; two are needed for
  following, and faults with more are left to the proofs. 257 is Internal in its low byte and not in its 32 bits.
* *Engine.* Two requests per direction give a last callback of either direction,
  and partial arming. Two supported rates let the request change back in a
  drain; the odd one is refused.
* *Samples.* Packets of 1 and 3 bytes end inside a word of 2, one of 4 is whole
  words, 0 is a packet that was lost; 16 bytes are four frames, which wraps the
  phase twice. Rates of 22, 24 and 48 frames per second over 4 microframes leave
  a half, nothing, and reach the limit of twelve exactly.
* *Inventory.* Three rigs give one before, at and after the original; a late
  answer can then belong to the previous, the same or the next program.

* *Decoder.* Seven symbols of two bits are two groups of three and a partial one.
  The selectors of every effect lie below 126, but for amplifiers and cabinets,
  which have a value each. The small rigs have modules in and out of order,
  bypassed, running and without a state, an empty section in the middle and at
  the end, and a section that belongs to no slot.
* *Bridge.* The lists have every kind of status, SysEx of every remainder by
  three, messages behind one another and lists of two packets; what the rack says
  ends a SysEx in the middle of an event. Four events hold each of them.

Deadlock is checked in every run but `inventory_restore`, whose tool has
nothing left to do once every capture exists and no one signals it.

### Fairness

* Ring: the reader's steps are weakly fair and it keeps asking for frames, as the
  audio clock makes it while I/O runs. Nothing obliges the producer to write.
* Ring set-up: a client that is not attached tries again (`ersweep.c` polls), and
  the engine's call runs to its end. Nobody has to start an engine or keep it
  alive: this, and that the client lets go only of what is refused, are the premises of `ClientAttaches`.
* Transport: armed transfers complete, queued handlers run (the queue is
  serial and FIFO), the watchdog timer is rearmed at the end of every pass, and
  the host, asked for a configuration change, stops I/O and performs it or
  aborts it. Nobody has to start I/O or give the device its health or its lock
  back: these are premises of the liveness properties.
* Engine: the thread runs, the device completes what is in flight, run-loop
  callbacks and the 50 ms timer are served. No fairness on signals, rate
  changes or launches, and none on the samples, which have no liveness property.
* Bridge: its threads run, reads and writes end within their time-outs. The rack
  need not speak and nobody need send a signal.
* Inventory: the tool steps, is started again, the device answers and loads
  programs; `InventoryFinishes` assumes that the device is prompt from some time
  on and that signals and crashes end.
* Host application: the main thread steps (weak), and the poll is served
  (strong): its timer event waits in the main queue, which is FIFO, until
  a handler that is running has returned.

## 4. What is proved

TLAPS checks the seven `*_proofs` modules and `SequenceLemmas` to the last leaf,
for any number of frames, requests, rigs, clients and cables, any rates, dumps
and messages, from the named
assumptions of the modules (`RingAssumption`, `SetupAssumption`,
`TransportAssumption`, `EngineAssumption`, `FormatAssumption`,
`InventoryAssumption`, `WidthAssumption`, `ExportAssumption`). They type the constants and ask that the
default rate is a supported one, that a word is wide enough for the ring, that
the lanes divide the width of the phase, and that no rate needs more than the
twelve frames a microframe may take. No theorem assumes that a fault is absent.
The theorems about what is carried or exported have a hypothesis on what comes from
outside, `TrafficIsWhole` or `ContentsAreRigs`, explained below; TLC evaluates
both on the inputs of `rig_tools` (`SmallTraffic`, `RealRigs`). Every safety
property of the runs, invariant or action property, is stated by a theorem.

* **Ring.** None of the four safety properties is inductive: that a cell is not
  read while it is written depends on what each process has loaded and not yet
  used. The invariant adds that a loaded counter never exceeds the real one,
  that every reservation lies inside the free or the available part as its
  owner saw it, and which frame each cell of the readable part holds.
  `Invariance` proves it; `FillStaysBounded`, `ReadsAreIntact`,
  `ReadsStayInside`, `CopiesNeverRace` and `BacklogStaysBounded` follow, and
  `RingImplementsStream` shows that every step is one of `FrameStream` or a
  stutter. The first of them is why the 32-bit truncation in `er__avail` is
  harmless: the counters never cross.
* **Ring set-up.** `RingIsShared` rests on `MagicMeansWhole`: only the object that
  has the name ever carries this build's magic, and only while it is whole. It is
  kept because the engine knows that an object it created has no magic yet, that
  one it wipes has lost it, and that sizes only grow (`EngineKnows`); a client
  that is attached found the magic, and no step takes it away again.
* **Device.** The safety invariants need each other and the types, and
  nothing more (`IInv`): a start finds nothing armed because the pipes were
  closed with I/O, runs only once every request is armed, and has programmed the clock it believes in before the first transfer. The proof
  goes bottom-up: what each fallible request to the device can leave behind
  (`ProgramRateOutcome`, `ReadClockOutcome`, ...), what a start or a stop made of
  them leaves behind (`StartOutcome`, `StopOutcome`), and one lemma per action.
  `RequestsAreConserved` follows every step by what it does to `Outstanding`:
  a stop moves requests, a completion takes one and arms at most that one, a
  start adds one each; `StartIO` finds none because it waits behind the queue,
  and a restart finds one only after a failure (`RestartAfterFailure`), because
  a running stream that completes is not stalled and a stream that is down has
  been drained. It and `ExternalRateIsFollowed` are the action properties.
* **Engine.** `InFlightIsExact` and `DrainHasCallback` lean on each other:
  the drain has a callback to come because a running engine that was not told
  to stop captures with every request (`Capturing`), and the count is right
  across a restart because the last callback re-arms only when it is zero
  (`Counted`). `IInv` is that conjunction; `EngineInvariance` holds with every
  fault constant at either value, more than the run checks.
  `RateChangesBetweenStreams` is the action property, and
  `EngineImplementsSwitch` shows that every step is one of `StreamSwitch` or a
  stutter; that the last callback is the last request is `Counted`.
* **Samples.** `CaptureIsWhole`: the parser is always at some word of a frame
  (`AtLane`): what it has parsed is a number of frames and that many words, the
  phase agrees with them, though it wraps, and the words are in their lanes; the
  carry is the tail of the stream (`CarryIsTail`). `PlaybackDoesNotDrift`: the
  accordion loses nothing as long as the limit of twelve is not exceeded, which
  `FormatAssumption` says of the rates. `SamplesImplementSwitch` is the second
  refinement of `StreamSwitch`.
* **Inventory.** `CompletionIsHonest`: a run that ends with status complete has
  every file, however the runs before it ended. The invariant ties the counter
  of the current pass to the files of the rigs it has passed.
  `CapturesAreHonest`: replies are told apart only by their object, so the
  argument is their order (`Honest`). The device answers with what it plays, a
  change that is still to come is the change to the next program to capture
  (`ChangesToNext`), also after a crash, and so one reply of that program in the
  pipe means that it is loaded and that nothing of another comes after
  (`RepliesInOrder`). Verification waits for such a reply; from then to the
  capture the pipe holds nothing else (`Verified`).
  `InventoryImplementsArchive` is the refinement: a program that was missing when
  it was selected is still missing when it is saved (`Verified` again), it is the
  first that is (`Progress`), and `original_program.txt` is written only by the run
  that made it (`Underway`). Two statements of the code are behind it: a step that
  fails ends the run, so no program is left out, and main makes the record only
  when there is none. That the *restore* survives a rerun is not part of it
  (finding 5).

* **Unpacking.** `EveryWholeByte`: the loops of `unpack_7bit` yield the whole
  bytes of the dump, whatever its length and the symbols' width; so
  `CapacitySuffices`, and the test of the capacity inside them never cuts a dump
  short. `UnpackingIsExact` adds which bytes: bit j of the result is bit j of the
  symbols. A byte lies across two neighbouring symbols of one group; the proof
  divides j by the two word sizes and shows, with lemmas on quotients of powers of
  two, that shifting the left symbol up and the right one down leaves the bit
  where it was. All rest on `WidthAssumption` alone.
* **Tables.** `CatalogIsTrue` and `SiblingsAreAlike` hold for every integer value of
  a setting, not only the selectors of the run. Their proofs go through the
  tables family by family: which rows an effect has, that no two rows of one
  table apply to the same effect and key (so that the choice in `TheRow` is none),
  and that the rows of `Conversions`, `Units` and `Ranges` for them say the same.
* **Export.** `RowsAreCaptures` and `SummaryIsTheRig` are about rigs with any number of
  modules and settings, exported any number of times while captures are saved. A
  dump may have anything from any word on; the theorem is about the sections that
  came through whole (`SoundUpTo`): all their settings are the first rows, under
  their own modules. Of what follows it says nothing, since the code exports it
  unnoticed. `RowsAreTheCaptures` is not inductive: it says
  nothing of a rig that is skipped, nor that the rows of a later rig do not
  stand there yet. `ExportInv` adds that the rigs to come have no rows, that a rig with
  rows has exactly what its capture exports to (`Exported`), and that as long as
  nothing is missing so has every rig passed; status 0 then means that all have.
  What a capture exports to is the larger part: a dump is words one behind another, so
  the proof finds where each section starts (`Start`), that an offset of the
  walk is one of these places or lies behind the sound words (`WalkPlaces`), and that the
  walk ends whatever it reads, each section leading further (`WalkResult`); then what `Find` and `TableEntry` make of the settings, and that rows
  concatenate. Of a rig, `ContentsAreRigs` asks for a nonempty list of globals, for one module at
  most in each of the ten slots, and that no other setting of it is stored under
  the keys of the module table or of the bypass: of two
  entries the decoder would take the last one (`TableEntry`), and of two settings
  under the bypass key the first (`Find`).
* **Bridge.** `LifetimesAreNested`: each layer is there while the next uses it
  (`Layers`), and `main` knows at each stage which are (`Stages`). It needs no
  assumption on constants; it needs that `MIDIClientDispose` waits.
  `MessagesAreCarried`: on every cable, what was sent is what arrived, followed by
  what waits on the line or in the callback that writes (`Traffic`). Its core is about the coding: `WholePacketsAreSaid`, for
  packets of any length, by the position at which a message starts, and
  `WholeListsAreSaid` for a list in the shared buffer. `TrafficIsWhole` asks that
  packets are whole messages and that lists fit into the buffer; finding 6
  shows both to be needed.

Induction over data is out of the provers' reach. Where a proof needs it, over the length
of a packet, the sections of a dump or the exponents of two, it takes the least
number for which the statement fails (`LeastNumber`, in `SequenceLemmas`) and
derives a contradiction; recursive definitions are functions on a range of
numbers, whose defining equations the provers do use.

Model-checked only: the liveness properties of all components (`FullRingDrains`,
`ClientAttaches`, `TransportRecovers`, `UnlockedIsSilenced`, `RateIsFollowed`,
`RingRateIsFollowed`, `StopReleasesDevice`, `InventoryFinishes`, `BridgeStops`, and
the three of `HostApp`), since fairness and ENABLED are outside what can be proved
here.

## 5. Findings

1. **A restarting engine resets the reader's counters** (`ring_restart`,
   `E:700`). A read call in progress then sees an availability of almost 2^32.
2. **A restart decodes capture buffers of the stream before it**
   (`isoch_stale`, `D:375`): `completeCount` survives `StopUSBTransport`.
3. **A stop before `CFRunLoopRun` is forgotten** (`engine_early_stop`,
   `E:626`): the engine keeps the device and does nothing.
4. **The default rate overwrites the plugin's** (`engine_startup`, `E:702`),
   against `E:251-252`.
5. **A rerun never restores the original program** (`inventory_restore`,
   `Tools/er_inventory.c:378`), against README.md:119-120.
6. **A SysEx in several packets, or of more than 128 events, is cut** (`midi_cut`,
   `Z:66`, `Z:60`), against README.md:97-98: `encodeMIDI` codes the end of a
   packet as the end of the message and skips the data bytes of the next one, and
   `emitEvent` drops what does not fit.

7. **A restart by the watchdog meets what its own stop left in the queue**
   (`isoch`, `D:1054`): the stop and the start share a handler, so the completions
   of the stream before are handled when `m_usb_running` is true again (`D:410`). An aborted one
   takes the new stream down, and the retry succeeds only at a later pass; a good
   one arms its request a second time, against the eight per direction of
   README.md:54. `RequestsConserved` names this exception and excludes every other.
8. **The ring's name outlives the engine** (`ring`, `Tools/ERAudioRing.h:171`): the
   header says of `shm_unlink` that "the engine does this on shutdown", while
   `E:760-763` passes 0 to `er_ring_close` and explains why. The code is what
   `ClientsShareTheRing` needs: with the documented behaviour (`CloseUnlinks`)
   a client attached over a restart stays on a dead ring.

Behaviours the models contain and no property excludes:

* `SetClockSource` is refused while the transport runs, not while I/O is
  active; one failed transfer is enough to let it through (README.md:82).
* A playback request that fails to arm stays unarmed until the next rate change.
* A failed status read counts as clock source 0 in the host application, so a
  rate may be commanded on an externally clocked device while the driver still
  believes in Internal (`ElevenRackUserClient.mm:155`).
* A poll replaces a picker value that was not applied yet.
* Speed of the Orange Phaser, the Flanger and effect 35 is shown as a bare
  number and cataloged as an enumeration, with the unit 0-10 and the range
  0.0..10.0: `is_discrete_setting` names "Sped" for every effect (R:951), meant
  for the Roto Speaker. `BareSpeed` excepts it from `CatalogDescribesDisplay`.
* Effect 46, a sibling of 35 under the one name Vibe Phaser, is missing from
  `is_ten_scale_setting` (R:761-765), so its volume, depth and speed are shown
  differently (Docs/RigDataModel.md:45-46). `SiblingsAlike` excepts it.
* A byte lost, added or changed inside a dump is not noticed. From there on
  `settings.csv` has garbled rows, when what is there happens to parse, or ends
  early for that rig; inside the damaged section `enabled`, looked up in all of it,
  may be wrong for the rows before the damage too. The rig counts as exported, with
  status 0 (W:148); `valid_capture` looks at a file's size only.
* The export looks at the result of `fclose` only: a write that failed before it
  leaves rows out under status 0. Disk faults are not in `RigExport`.
* A crash can leave `original_program.txt` empty, and no later run repairs it.
* A signal between the bridge's handlers and its run loop ends the reader and
  leaves the process, without input, until the next signal.
* A read error other than a time-out or an abort ends the bridge's reader for good;
  the process goes on with output only.

## 6. Plan

Done, in this order: ring and its refinement; device transport and clock;
engine; inventory; host application; decoder and export; proofs of ring, engine,
inventory, device, unpacking; the engine's samples, with the abstract switch that
both views of it implement; the MIDI bridge; the set-up of the ring; proofs of
these three, and of the captures; proofs of the decoder, the export and of what the
bridge carries; the directory of captures as an abstract specification that the
inventory implements.

Open:

1. The time line: zero time stamps across a watchdog restart.
2. Engine and both rings composed, with the plugin as the other side.

## 7. Not modelled

The analysis script (it counts and prints rows), views (no state of their
own), diagnostics and probes (single-shot; their streaming loops are earlier
forms of `erengine.c`), interoperability aids (another vendor's process),
build files. What a selector meets while `ElevenRackDriver::Stop` takes its queue
and device away depends on how DriverKit orders the two, which no code here
decides; `HostApp` has the connections a stop leaves dead. Names, labels, log messages, meters and the file modes of the
engine are left out of the modules that otherwise model their components.
