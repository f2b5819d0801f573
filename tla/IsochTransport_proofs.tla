------------------------ MODULE IsochTransport_proofs ------------------------
(***************************************************************************)
(* Proofs about the DriverKit device, for any number of requests, any set  *)
(* of rates and every fault: pipes follow I/O, a running stream agrees     *)
(* with the device about its clock, an external rate is followed and never *)
(* commanded, no request is lost while the transport runs, and none is     *)
(* doubled but by a restart after a failure.                               *)
(***************************************************************************)
EXTENDS IsochTransport, TLAPS

-----------------------------------------------------------------------------
(* Rates and positions.                                                    *)

\* The default rate is supported, and zero is no rate.
LEMMA RatesAreReal ==
    /\ SupportedRates \subseteq Nat \ {0}
    /\ DefaultRate \in SupportedRates
    /\ \A s : SupportedRates \subseteq HardwareRates(s)
    /\ \A s : HardwareRates(s) \subseteq SupportedRates \cup OtherRates
  BY TransportAssumption DEF HardwareRates

\* Priming reaches every request before it reaches position 2 * PerDirection.
LEMMA PositionsReached == \A x \in Transfers : Position(x) \in Int /\ Position(x) <= All
<1> TAKE x \in Transfers
<1>1. x[2] \in 1..PerDirection
  BY DEF Transfers
<1>2. PerDirection \in Nat
  BY TransportAssumption
<1> QED
  BY <1>1, <1>2 DEF Position, All

-----------------------------------------------------------------------------
(* What a stop, a tick and a start leave behind.                           *)

\* A type for a step that gives some of the fields of the transfers a value.
LEMMA Counted ==
    ASSUME NEW u \in UsbStates, NEW x \in Transfers
    PROVE  /\ u.armed[x] \in Nat /\ u.ok[x] \in Nat /\ u.bad[x] \in Nat
           /\ u.lateOk[x] \in Nat /\ u.lateBad[x] \in Nat
           /\ Outstanding(u, x) \in Nat
  BY DEF UsbStates, Outstanding

\* A stop leaves nothing open and nothing armed; every request it aborted is
\* as outstanding as it was.
LEMMA StopOutcome ==
    ASSUME NEW u \in UsbStates
    PROVE  /\ Stopped(u) \in UsbStates
           /\ ~Stopped(u).running
           /\ Stopped(u).open = {}
           /\ Stopped(u).armed = None
           /\ \A x \in Transfers : Outstanding(Stopped(u), x) = Outstanding(u, x)
<1> DEFINE ok  == [x \in Transfers |-> u.lateOk[x] + u.ok[x]]
           bad == [x \in Transfers |-> u.lateBad[x] + u.bad[x] + u.armed[x]]
<1>1. None \in [Transfers -> Nat]
  BY DEF None
<1>2. ok \in [Transfers -> Nat] /\ bad \in [Transfers -> Nat]
  BY Counted
<1>3. [x \in Transfers |-> IF u.data[x] = "live" THEN "stale" ELSE u.data[x]]
        \in [Transfers -> {"none", "live", "stale"}]
  BY DEF UsbStates
<1>4. /\ ~Stopped(u).running /\ Stopped(u).open = {} /\ Stopped(u).armed = None
      /\ Stopped(u).ok = None /\ Stopped(u).bad = None
      /\ Stopped(u).lateOk = ok /\ Stopped(u).lateBad = bad
  BY DEF Stopped, UsbStates
<1>5. Stopped(u) \in UsbStates
  BY <1>1, <1>2, <1>3 DEF Stopped, UsbStates
<1>6. ASSUME NEW x \in Transfers
      PROVE  Outstanding(Stopped(u), x) = Outstanding(u, x)
  <2>1. None[x] = 0
    BY DEF None
  <2>2. /\ Stopped(u).armed[x] = 0 /\ Stopped(u).ok[x] = 0 /\ Stopped(u).bad[x] = 0
        /\ Stopped(u).lateOk[x] = u.lateOk[x] + u.ok[x]
        /\ Stopped(u).lateBad[x] = u.lateBad[x] + u.bad[x] + u.armed[x]
    BY <1>4, <2>1
  <2> QED
    BY <2>2, Counted DEF Outstanding
<1> QED
  BY <1>4, <1>5, <1>6

\* A watchdog pass ages the transfers and changes nothing else.
LEMMA TickOutcome ==
    ASSUME NEW u \in UsbStates
    PROVE  /\ Ticked(u) \in UsbStates
           /\ Ticked(u).running = u.running
           /\ Ticked(u).open = u.open
           /\ Ticked(u).armed = u.armed
           /\ \A x \in Transfers : Outstanding(Ticked(u), x) = Outstanding(u, x)
<1>1. [d \in Dirs |-> IF u.age[d] < MaxAge THEN u.age[d] + 1 ELSE MaxAge] \in [Dirs -> 0..MaxAge]
  BY DEF UsbStates, MaxAge
<1> QED
  BY <1>1 DEF Ticked, UsbStates, Outstanding

\* What every attempt to start the transport relies on.
Quiet(u) == u \in UsbStates /\ ~u.running /\ u.armed = None

\* No request is lost while the transport runs.
Conserved(u) == u.running => \A x \in Transfers : Outstanding(u, x) > 0

\* Each request stays as outstanding as it was, or is armed once more.
ArmedOnce(u, v) ==
    \A x \in Transfers : Outstanding(v, x) \in {Outstanding(u, x), Outstanding(u, x) + 1}

\* Priming arms each of the first n requests once.
LEMMA PrimeOutcome ==
    ASSUME NEW u \in UsbStates, Quiet(u), NEW n \in 0..All
    PROVE  /\ Primed(u, n) \in UsbStates
           /\ Primed(u, n).open = Dirs
           /\ ArmedOnce(u, Primed(u, n))
           /\ Conserved(Primed(u, n))
<1> DEFINE armed == [x \in Transfers |-> IF Position(x) <= n THEN u.armed[x] + 1 ELSE u.armed[x]]
           data  == [x \in Transfers |-> IF Position(x) <= n + 1 THEN "none" ELSE u.data[x]]
<1>1. armed \in [Transfers -> Nat] /\ data \in [Transfers -> {"none", "live", "stale"}]
  BY DEF UsbStates
<1>2. [d \in Dirs |-> 0] \in [Dirs -> 0..MaxAge]
  BY DEF MaxAge
<1>3. /\ Primed(u, n).running <=> n = All
      /\ Primed(u, n).open = Dirs
      /\ Primed(u, n).armed = armed
      /\ Primed(u, n).ok = u.ok /\ Primed(u, n).bad = u.bad
      /\ Primed(u, n).lateOk = u.lateOk /\ Primed(u, n).lateBad = u.lateBad
  BY DEF Primed, UsbStates
<1>4. Primed(u, n).data = data
  BY DEF Primed, UsbStates
<1>5. Primed(u, n) \in UsbStates
  BY <1>1, <1>2, <1>4 DEF Primed, UsbStates
<1>6. ASSUME NEW x \in Transfers
      PROVE  Outstanding(Primed(u, n), x)
               = IF Position(x) <= n THEN Outstanding(u, x) + 1 ELSE Outstanding(u, x)
  <2>1. Primed(u, n).armed[x] = IF Position(x) <= n THEN u.armed[x] + 1 ELSE u.armed[x]
    BY <1>3
  <2> QED
    BY <1>3, <2>1, Counted DEF Outstanding
<1>7. n = All => \A x \in Transfers : Position(x) <= n
  BY PositionsReached
<1>8. ArmedOnce(u, Primed(u, n))
  BY <1>6 DEF ArmedOnce
<1>9. Conserved(Primed(u, n))
  BY <1>3, <1>6, <1>7, Counted DEF Conserved
<1> QED
  BY <1>3, <1>5, <1>8, <1>9

-----------------------------------------------------------------------------
(* The hardware clock.                                                     *)

\* A rate that was programmed without an error is the device's, internally.
LEMMA ProgramRateOutcome ==
    ASSUME NEW h \in Devices, NEW c \in Clocks, NEW r \in SupportedRates,
           NEW p \in ProgramRate(h, c, r)
    PROVE  /\ p.hw \in Devices
           /\ p.ok \in BOOLEAN
           /\ p.ok => c.source = Internal /\ p.hw.source = Internal /\ p.hw.rate = r
<1>1. CASE c.source # Internal
  <2>1. p = [hw |-> h, ok |-> FALSE]
    BY <1>1 DEF ProgramRate
  <2> QED
    BY <2>1
<1>2. CASE c.source = Internal
  <2> DEFINE set(q) == [h EXCEPT !.source = Internal, !.rate = q]
  <2>1. \/ p = [hw |-> set(r), ok |-> TRUE]
        \/ p = [hw |-> h, ok |-> FALSE]
        \/ \E q \in SupportedRates \cup {h.rate} : p = [hw |-> set(q), ok |-> FALSE]
    BY <1>2 DEF ProgramRate, Faulty
  <2>2. \A q \in SupportedRates \cup {h.rate} :
           set(q) \in Devices /\ set(q).source = Internal /\ set(q).rate = q
    BY DEF Devices, Sources, Internal
  <2> HIDE DEF set
  <2>3. CASE p = [hw |-> set(r), ok |-> TRUE]
    BY <1>2, <2>2, <2>3
  <2>4. CASE p = [hw |-> h, ok |-> FALSE]
    BY <2>4
  <2>5. ASSUME NEW q \in SupportedRates \cup {h.rate}, p = [hw |-> set(q), ok |-> FALSE]
        PROVE  p.hw \in Devices /\ ~p.ok /\ p.ok \in BOOLEAN
    BY <2>2, <2>5
  <2> QED
    BY <2>1, <2>3, <2>4, <2>5
<1> QED
  BY <1>1, <1>2

\* A source that was selected without an error is the device's and the
\* driver's; while the transport runs nothing is selected.
LEMMA ProgramSourceOutcome ==
    ASSUME NEW h \in Devices, NEW c \in Clocks, NEW u, NEW s,
           NEW p \in ProgramSource(h, c, u, s)
    PROVE  /\ p.hw \in Devices
           /\ p.clk \in Clocks
           /\ p.ok \in BOOLEAN
           /\ p.clk.pending = c.pending
           /\ p.ok => p.hw.source = s /\ p.clk.source = s
           /\ u.running => p.hw = h /\ p.clk = c /\ ~p.ok
<1>1. CASE s \notin Sources \/ u.running
  <2>1. p = [hw |-> h, clk |-> c, ok |-> FALSE]
    BY <1>1 DEF ProgramSource
  <2> QED
    BY <2>1
<1>2. CASE s \in Sources /\ ~u.running
  <2> DEFINE set(r) == [h EXCEPT !.source = s, !.rate = r]
             believed == [c EXCEPT !.source = s]
  <2>1. \/ p = [hw |-> h, clk |-> c, ok |-> FALSE]
        \/ \E r \in HardwareRates(s) \cup {h.rate} :
              \/ p = [hw |-> set(r), clk |-> believed, ok |-> TRUE]
              \/ p = [hw |-> set(r), clk |-> c, ok |-> FALSE]
    BY <1>2 DEF ProgramSource, Faulty
  <2>2. \A r \in HardwareRates(s) \cup {h.rate} : set(r) \in Devices /\ set(r).source = s
    BY <1>2, RatesAreReal DEF Devices
  <2>3. believed \in Clocks /\ believed.pending = c.pending /\ believed.source = s
    BY <1>2 DEF Clocks
  <2> HIDE DEF set, believed
  <2>4. CASE p = [hw |-> h, clk |-> c, ok |-> FALSE]
    BY <1>2, <2>4
  <2>5. ASSUME NEW r \in HardwareRates(s) \cup {h.rate},
               p = [hw |-> set(r), clk |-> believed, ok |-> TRUE]
        PROVE  /\ p.hw \in Devices /\ p.clk \in Clocks /\ p.ok = TRUE
               /\ p.clk.pending = c.pending /\ p.hw.source = s /\ p.clk.source = s
    BY <2>2, <2>3, <2>5
  <2>6. ASSUME NEW r \in HardwareRates(s) \cup {h.rate},
               p = [hw |-> set(r), clk |-> c, ok |-> FALSE]
        PROVE  p.hw \in Devices /\ p.clk = c /\ p.ok = FALSE
    BY <2>2, <2>6
  <2> QED
    BY <1>2, <2>1, <2>4, <2>5, <2>6
<1> QED
  BY <1>1, <1>2

\* Before a start, a clock that was programmed without an error is the one the
\* driver believes in, at Core Audio's rate if it is the internal one.
LEMMA ProgramClockOutcome ==
    ASSUME sampleRate \in SupportedRates,
           NEW h \in Devices, NEW c \in Clocks, NEW u, NEW p \in ProgramClock(h, c, u)
    PROVE  /\ p.hw \in Devices
           /\ p.ok \in BOOLEAN
           /\ p.ok => /\ p.hw.source = c.source
                      /\ c.source = Internal => p.hw.rate = sampleRate
<1>1. CASE c.source = Internal
  BY <1>1, ProgramRateOutcome DEF ProgramClock
<1>2. CASE c.source # Internal
  <2>1. PICK q \in ProgramSource(h, c, u, c.source) : p = [hw |-> q.hw, ok |-> q.ok]
    BY <1>2 DEF ProgramClock
  <2> QED
    BY <1>2, <2>1, ProgramSourceOutcome
<1> QED
  BY <1>1, <1>2

\* A successful read makes the driver believe in the source the device has,
\* and leaves the pending rate alone.
LEMMA ReadClockOutcome ==
    ASSUME NEW h \in Devices, NEW c \in Clocks, NEW r \in ReadClock(h, c)
    PROVE  /\ r.clk \in Clocks
           /\ r.clk.pending = c.pending
           /\ r.clk.source \in {c.source, h.source}
<1> DEFINE read(v) == [c EXCEPT !.source = h.source, !.valid = v]
<1>1. \A v \in {"locked", "unlocked", "unknown"} :
         read(v) \in Clocks /\ read(v).pending = c.pending /\ read(v).source = h.source
  BY DEF Clocks, Devices
<1>2. Validity(h) \subseteq {"locked", "unlocked", "unknown"}
  BY DEF Validity, Faulty
<1>3. \/ r = [clk |-> c, ok |-> FALSE]
      \/ \E v \in Validity(h) : r = [clk |-> read(v), ok |-> TRUE]
  BY DEF ReadClock, Faulty
<1> HIDE DEF read
<1>4. CASE r = [clk |-> c, ok |-> FALSE]
  BY <1>4
<1>5. ASSUME NEW v \in Validity(h), r = [clk |-> read(v), ok |-> TRUE]
      PROVE  /\ r.clk \in Clocks
             /\ r.clk.pending = c.pending
             /\ r.clk.source \in {c.source, h.source}
  BY <1>1, <1>2, <1>5
<1> QED
  BY <1>3, <1>4, <1>5

-----------------------------------------------------------------------------
(* Core Audio's rate.                                                      *)

\* Core Audio's rate stays, or becomes the supported one it was asked for.
LEMMA ApplyRateOutcome ==
    ASSUME sampleRate \in SupportedRates,
           NEW h \in Devices, NEW c \in Clocks, NEW rate, NEW program \in BOOLEAN,
           NEW a \in ApplyRate(h, c, rate, program)
    PROVE  /\ a.hw \in Devices
           /\ a.rate \in SupportedRates
           /\ a.rate \in {sampleRate, rate}
<1>1. CASE rate \notin SupportedRates
  BY <1>1 DEF ApplyRate
<1>2. CASE rate \in SupportedRates
  <2> DEFINE programmed == IF program THEN ProgramRate(h, c, rate) ELSE {[hw |-> h, ok |-> TRUE]}
  <2>1. \A p \in programmed : p.hw \in Devices
    BY <1>2, ProgramRateOutcome
  <2>2. PICK p \in programmed : a.hw = p.hw /\ a.rate \in {sampleRate, rate}
    BY <1>2 DEF ApplyRate, Faulty
  <2> QED
    BY <1>2, <2>1, <2>2
<1> QED
  BY <1>1, <1>2

\* A change of the nominal rate leaves the pending rate alone and, on an
\* external clock, takes no rate but the device's.
LEMMA ChangeRateOutcome ==
    ASSUME sampleRate \in SupportedRates, hw \in Devices, clk \in Clocks,
           NEW rate, NEW o \in ChangeRate(rate)
    PROVE  /\ o.clk \in Clocks /\ o.clk.pending = clk.pending
           /\ o.hw \in Devices
           /\ o.rate \in SupportedRates
           /\ clk.source # Internal => o.rate \in {sampleRate, hw.rate}
<1>1. CASE clk.source = Internal
  <2>1. PICK a \in ApplyRate(hw, clk, rate, TRUE) : o = [clk |-> clk, hw |-> a.hw, rate |-> a.rate]
    BY <1>1 DEF ChangeRate
  <2> QED
    BY <1>1, <2>1, ApplyRateOutcome
<1>2. CASE clk.source # Internal
  <2>1. PICK r \in ReadClock(hw, clk) :
          \/ o = [clk |-> r.clk, hw |-> hw, rate |-> sampleRate]
          \/ /\ hw.rate = rate
             /\ \E a \in ApplyRate(hw, r.clk, rate, FALSE) :
                   o = [clk |-> r.clk, hw |-> a.hw, rate |-> a.rate]
    BY <1>2 DEF ChangeRate
  <2>2. r.clk \in Clocks /\ r.clk.pending = clk.pending
    BY ReadClockOutcome
  <2>3. CASE o = [clk |-> r.clk, hw |-> hw, rate |-> sampleRate]
    BY <2>2, <2>3
  <2>4. ASSUME hw.rate = rate, NEW a \in ApplyRate(hw, r.clk, rate, FALSE),
               o = [clk |-> r.clk, hw |-> a.hw, rate |-> a.rate]
        PROVE  /\ o.clk \in Clocks /\ o.clk.pending = clk.pending
               /\ o.hw \in Devices /\ o.rate \in SupportedRates
               /\ o.rate \in {sampleRate, hw.rate}
    BY <2>2, <2>4, ApplyRateOutcome
  <2> QED
    BY <2>1, <2>3, <2>4
<1> QED
  BY <1>1, <1>2

-----------------------------------------------------------------------------
(* StartUSBTransport.                                                      *)

\* A start that fails closes what it opened; one that succeeds has programmed
\* the clock and opened both interfaces; each request is armed at most once.
LEMMA StartOutcome ==
    ASSUME sampleRate \in SupportedRates,
           NEW u \in UsbStates, Quiet(u), u.open = {},
           NEW h \in Devices, NEW c \in Clocks, NEW s \in StartTransport(u, c, h)
    PROVE  /\ s.usb \in UsbStates
           /\ s.hw \in Devices
           /\ s.ok \in BOOLEAN
           /\ s.usb.running => /\ s.ok
                               /\ s.hw.source = c.source
                               /\ c.source = Internal => s.hw.rate = sampleRate
           /\ s.usb.open = IF s.ok THEN Dirs ELSE {}
           /\ ~s.ok => s.usb.armed = None
           /\ ArmedOnce(u, s.usb)
           /\ Conserved(s.usb)
<1> DEFINE opened(d) == [u EXCEPT !.open = d]
<1>1. \A d \in SUBSET Dirs :
         /\ opened(d) \in UsbStates /\ Quiet(opened(d))
         /\ \A x \in Transfers : Outstanding(opened(d), x) = Outstanding(u, x)
  BY DEF UsbStates, Quiet, Outstanding
<1>2. \A d \in SUBSET Dirs :
         /\ Stopped(opened(d)) \in UsbStates
         /\ ~Stopped(opened(d)).running
         /\ Stopped(opened(d)).open = {}
         /\ Stopped(opened(d)).armed = None
         /\ \A x \in Transfers : Outstanding(Stopped(opened(d)), x) = Outstanding(u, x)
  BY <1>1, StopOutcome
<1>3. ASSUME NEW v \in UsbStates, ~v.running,
             \A x \in Transfers : Outstanding(v, x) = Outstanding(u, x)
      PROVE  Conserved(v) /\ ArmedOnce(u, v)
  BY <1>3 DEF Conserved, ArmedOnce
<1>4. \/ \E p \in ProgramClock(h, c, u), n \in 0..All :
            p.ok /\ s = [usb |-> Primed(opened(Dirs), n), hw |-> p.hw, ok |-> TRUE]
      \/ \E p \in ProgramClock(h, c, u) :
            s = [usb |-> Stopped(opened(Dirs)), hw |-> p.hw, ok |-> FALSE]
      \/ s = [usb |-> u, hw |-> h, ok |-> FALSE]
      \/ \E d \in SUBSET Dirs : s = [usb |-> Stopped(opened(d)), hw |-> h, ok |-> FALSE]
  <2>1. All \in 0..All
    BY TransportAssumption DEF All
  <2> QED
    BY <2>1 DEF StartTransport, Faulty, FailedStart
<1> HIDE DEF opened
<1>5. ASSUME NEW p \in ProgramClock(h, c, u), NEW n \in 0..All, p.ok,
             s = [usb |-> Primed(opened(Dirs), n), hw |-> p.hw, ok |-> TRUE]
      PROVE  /\ s.usb \in UsbStates /\ s.hw \in Devices /\ s.ok = TRUE
             /\ s.hw.source = c.source /\ (c.source = Internal => s.hw.rate = sampleRate)
             /\ s.usb.open = Dirs
             /\ ArmedOnce(u, s.usb) /\ Conserved(s.usb)
  <2>1. /\ Primed(opened(Dirs), n) \in UsbStates
        /\ Primed(opened(Dirs), n).open = Dirs
        /\ ArmedOnce(opened(Dirs), Primed(opened(Dirs), n))
        /\ Conserved(Primed(opened(Dirs), n))
    BY <1>1, PrimeOutcome
  <2>2. p.hw \in Devices /\ p.hw.source = c.source /\ (c.source = Internal => p.hw.rate = sampleRate)
    BY <1>5, ProgramClockOutcome
  <2>3. ArmedOnce(u, Primed(opened(Dirs), n))
    BY <1>1, <2>1 DEF ArmedOnce
  <2> QED
    BY <1>5, <2>1, <2>2, <2>3
<1>6. ASSUME NEW g \in Devices, NEW d \in SUBSET Dirs,
             s = [usb |-> Stopped(opened(d)), hw |-> g, ok |-> FALSE]
      PROVE  /\ s.usb \in UsbStates /\ s.hw \in Devices /\ s.ok = FALSE /\ ~s.usb.running
             /\ s.usb.open = {} /\ s.usb.armed = None
             /\ ArmedOnce(u, s.usb) /\ Conserved(s.usb)
  BY <1>2, <1>3, <1>6
<1>7. \A p \in ProgramClock(h, c, u) : p.hw \in Devices
  BY ProgramClockOutcome
<1>8. CASE s = [usb |-> u, hw |-> h, ok |-> FALSE]
  BY <1>3, <1>8 DEF Quiet
<1> QED
  BY <1>4, <1>5, <1>6, <1>7, <1>8

-----------------------------------------------------------------------------
(* Initialisation, and the steps of the transfers.                         *)

\* Nothing is in flight when I/O is stopped and no completion is queued.
LEMMA QuietWhenStopped ==
    ASSUME IInv, ~ioActive
    PROVE  Quiet(usb) /\ usb.open = {}
<1>1. usb.open = {} /\ ~usb.running
  BY DEF IInv, PipesFollowIO
<1>2. \A x \in Transfers : usb.armed[x] = 0
  BY <1>1 DEF IInv, PipesFollowIO, TypeOK, UsbStates
<1>3. usb.armed = None
  BY <1>2 DEF IInv, TypeOK, UsbStates, None
<1> QED
  BY <1>1, <1>3 DEF Quiet, IInv, TypeOK

LEMMA InitInvariant == Init => IInv
<1> SUFFICES ASSUME Init PROVE IInv
  OBVIOUS
<1>1. usb \in UsbStates
  BY DEF Init, Idle, UsbStates, None, NoData, MaxAge
<1>2. clk \in Clocks /\ hw \in Devices /\ sampleRate \in SupportedRates
  BY RatesAreReal DEF Init, Clocks, Devices, Sources, Internal
<1>3. PipesFollowIO /\ NoneIsLost /\ RatesAgree
  BY DEF Init, Idle, None, PipesFollowIO, NoneIsLost, RatesAgree
<1>4. cooldown \in 0..2 /\ requests \subseteq {"custom", "external"}
  BY DEF Init
<1>5. ioActive \in BOOLEAN /\ healthy \in BOOLEAN
  BY Zenon DEF Init
<1>6. PendingMatchesRequest
  BY DEF Init, PendingMatchesRequest
<1> QED
  BY <1>1, <1>2, <1>3, <1>4, <1>5, <1>6 DEF IInv, TypeOK

\* What a step that changes only the transfers has to respect.
LEMMA TransfersPreserve ==
    ASSUME IInv, UNCHANGED <<ioActive, clk, sampleRate, cooldown, requests, hw, healthy>>,
           usb' \in UsbStates, usb'.open = usb.open, usb'.running => usb.running,
           \A x \in Transfers : usb'.armed[x] > 0 => usb.armed[x] > 0 \/ usb.running,
           Conserved(usb) => Conserved(usb')
    PROVE  IInv'
<1>1. TypeOK'
  BY DEF IInv, TypeOK
<1>2. PipesFollowIO'
  <2>1. \A x \in Transfers : usb'.armed[x] > 0 => x[1] \in usb'.open
    BY DEF IInv, PipesFollowIO, Transfers
  <2> QED
    BY <2>1 DEF IInv, PipesFollowIO
<1>3. RatesAgree' /\ PendingMatchesRequest'
  BY DEF IInv, RatesAgree, PendingMatchesRequest
<1>4. NoneIsLost'
  BY DEF IInv, NoneIsLost, Conserved
<1> QED
  BY <1>1, <1>2, <1>3, <1>4 DEF IInv

\* A transfer that ends leaves its request as outstanding as it was.
LEMMA CompleteOutcome ==
    ASSUME usb \in UsbStates, NEW x \in Transfers, NEW good \in BOOLEAN, Complete(x, good)
    PROVE  /\ usb' \in UsbStates
           /\ usb'.open = usb.open /\ usb'.running = usb.running
           /\ \A y \in Transfers : /\ usb'.armed[y] > 0 => usb.armed[y] > 0
                                   /\ Outstanding(usb', y) = Outstanding(usb, y)
<1>1. usb.armed[x] > 0
  BY DEF Complete
<1>2. [usb.armed EXCEPT ![x] = @ - 1] \in [Transfers -> Nat]
  BY <1>1 DEF UsbStates
<1>3. CASE good
  <2>1. usb' = [usb EXCEPT !.armed[x] = @ - 1, !.ok[x] = @ + 1,
                           !.data[x] = IF x[1] = "in" THEN "live" ELSE @]
    BY <1>3 DEF Complete
  <2>2. /\ usb'.armed = [usb.armed EXCEPT ![x] = @ - 1]
        /\ usb'.ok = [usb.ok EXCEPT ![x] = @ + 1] /\ usb'.bad = usb.bad
        /\ usb'.lateOk = usb.lateOk /\ usb'.lateBad = usb.lateBad
        /\ usb'.open = usb.open /\ usb'.running = usb.running
    BY <2>1 DEF UsbStates
  <2>3. /\ [usb.ok EXCEPT ![x] = @ + 1] \in [Transfers -> Nat]
        /\ [usb.data EXCEPT ![x] = IF x[1] = "in" THEN "live" ELSE @]
             \in [Transfers -> {"none", "live", "stale"}]
    BY DEF UsbStates
  <2>4. usb' \in UsbStates
    BY <1>2, <2>1, <2>3 DEF UsbStates
  <2>5. ASSUME NEW y \in Transfers
        PROVE  /\ usb'.armed[y] > 0 => usb.armed[y] > 0
               /\ usb'.armed[y] + usb'.ok[y] = usb.armed[y] + usb.ok[y]
    BY <1>1, <2>2 DEF UsbStates
  <2> QED
    BY <2>2, <2>4, <2>5, Counted DEF Outstanding
<1>4. CASE ~good
  <2>1. usb' = [usb EXCEPT !.armed[x] = @ - 1, !.bad[x] = @ + 1]
    BY <1>4 DEF Complete
  <2>2. /\ usb'.armed = [usb.armed EXCEPT ![x] = @ - 1]
        /\ usb'.bad = [usb.bad EXCEPT ![x] = @ + 1] /\ usb'.ok = usb.ok
        /\ usb'.lateOk = usb.lateOk /\ usb'.lateBad = usb.lateBad
        /\ usb'.open = usb.open /\ usb'.running = usb.running
    BY <2>1 DEF UsbStates
  <2>3. [usb.bad EXCEPT ![x] = @ + 1] \in [Transfers -> Nat]
    BY DEF UsbStates
  <2>4. usb' \in UsbStates
    BY <1>2, <2>1, <2>3 DEF UsbStates
  <2>5. ASSUME NEW y \in Transfers
        PROVE  /\ usb'.armed[y] > 0 => usb.armed[y] > 0
               /\ usb'.armed[y] + usb'.bad[y] = usb.armed[y] + usb.bad[y]
    BY <1>1, <2>2 DEF UsbStates
  <2> QED
    BY <2>2, <2>4, <2>5, Counted DEF Outstanding
<1> QED
  BY <1>3, <1>4

LEMMA CompletePreserves ==
    ASSUME IInv, NEW x \in Transfers, NEW good \in BOOLEAN, Complete(x, good)
    PROVE  IInv'
<1>1. usb \in UsbStates
  BY DEF IInv, TypeOK
<1>2. Conserved(usb) => Conserved(usb')
  BY <1>1, CompleteOutcome DEF Conserved
<1> QED
  BY <1>1, <1>2, CompleteOutcome, TransfersPreserve DEF Complete

\* The queue hands over one completion of x and leaves the rest.
LEMMA TakenOutcome ==
    ASSUME usb \in UsbStates, NEW x \in Transfers, NEW good \in BOOLEAN,
           NEW u \in Taken(x, good)
    PROVE  /\ u \in UsbStates
           /\ u.running = usb.running /\ u.open = usb.open /\ u.armed = usb.armed
           /\ Outstanding(u, x) = Outstanding(usb, x) - 1
           /\ \A y \in Transfers \ {x} : Outstanding(u, y) = Outstanding(usb, y)
<1>1. \/ usb.lateOk[x] > 0  /\ u = [usb EXCEPT !.lateOk[x] = @ - 1]
      \/ usb.lateBad[x] > 0 /\ u = [usb EXCEPT !.lateBad[x] = @ - 1]
      \/ usb.ok[x] > 0      /\ u = [usb EXCEPT !.ok[x] = @ - 1]
      \/ usb.bad[x] > 0     /\ u = [usb EXCEPT !.bad[x] = @ - 1]
  BY DEF Taken
<1>2. ASSUME NEW f \in [Transfers -> Nat], f[x] > 0
      PROVE  [f EXCEPT ![x] = @ - 1] \in [Transfers -> Nat]
  BY <1>2
<1>3. CASE usb.lateOk[x] > 0 /\ u = [usb EXCEPT !.lateOk[x] = @ - 1]
  <2>1. u.lateOk = [usb.lateOk EXCEPT ![x] = @ - 1] /\ u \in UsbStates
    BY <1>2, <1>3 DEF UsbStates
  <2>2. /\ u.running = usb.running /\ u.open = usb.open /\ u.armed = usb.armed
        /\ u.ok = usb.ok /\ u.bad = usb.bad /\ u.lateBad = usb.lateBad
    BY <1>3 DEF UsbStates
  <2>3. u.lateOk[x] = usb.lateOk[x] - 1 /\ \A y \in Transfers \ {x} : u.lateOk[y] = usb.lateOk[y]
    BY <2>1 DEF UsbStates
  <2> QED
    BY <2>1, <2>2, <2>3, Counted DEF Outstanding
<1>4. CASE usb.lateBad[x] > 0 /\ u = [usb EXCEPT !.lateBad[x] = @ - 1]
  <2>1. u.lateBad = [usb.lateBad EXCEPT ![x] = @ - 1] /\ u \in UsbStates
    BY <1>2, <1>4 DEF UsbStates
  <2>2. /\ u.running = usb.running /\ u.open = usb.open /\ u.armed = usb.armed
        /\ u.ok = usb.ok /\ u.bad = usb.bad /\ u.lateOk = usb.lateOk
    BY <1>4 DEF UsbStates
  <2>3. u.lateBad[x] = usb.lateBad[x] - 1 /\ \A y \in Transfers \ {x} : u.lateBad[y] = usb.lateBad[y]
    BY <2>1 DEF UsbStates
  <2> QED
    BY <2>1, <2>2, <2>3, Counted DEF Outstanding
<1>5. CASE usb.ok[x] > 0 /\ u = [usb EXCEPT !.ok[x] = @ - 1]
  <2>1. u.ok = [usb.ok EXCEPT ![x] = @ - 1] /\ u \in UsbStates
    BY <1>2, <1>5 DEF UsbStates
  <2>2. /\ u.running = usb.running /\ u.open = usb.open /\ u.armed = usb.armed
        /\ u.bad = usb.bad /\ u.lateOk = usb.lateOk /\ u.lateBad = usb.lateBad
    BY <1>5 DEF UsbStates
  <2>3. u.ok[x] = usb.ok[x] - 1 /\ \A y \in Transfers \ {x} : u.ok[y] = usb.ok[y]
    BY <2>1 DEF UsbStates
  <2> QED
    BY <2>1, <2>2, <2>3, Counted DEF Outstanding
<1>6. CASE usb.bad[x] > 0 /\ u = [usb EXCEPT !.bad[x] = @ - 1]
  <2>1. u.bad = [usb.bad EXCEPT ![x] = @ - 1] /\ u \in UsbStates
    BY <1>2, <1>6 DEF UsbStates
  <2>2. /\ u.running = usb.running /\ u.open = usb.open /\ u.armed = usb.armed
        /\ u.ok = usb.ok /\ u.lateOk = usb.lateOk /\ u.lateBad = usb.lateBad
    BY <1>6 DEF UsbStates
  <2>3. u.bad[x] = usb.bad[x] - 1 /\ \A y \in Transfers \ {x} : u.bad[y] = usb.bad[y]
    BY <2>1 DEF UsbStates
  <2> QED
    BY <2>1, <2>2, <2>3, Counted DEF Outstanding
<1> QED
  BY <1>1, <1>3, <1>4, <1>5, <1>6

\* Arming a request again makes it as outstanding as it was before its completion.
LEMMA RearmOutcome ==
    ASSUME NEW u \in UsbStates, NEW x \in Transfers, NEW arms \in BOOLEAN
    PROVE  /\ Rearmed(u, x, arms) \in UsbStates
           /\ Rearmed(u, x, arms).open = u.open
           /\ Rearmed(u, x, arms).running = arms
           /\ Outstanding(Rearmed(u, x, arms), x)
                = IF arms THEN Outstanding(u, x) + 1 ELSE Outstanding(u, x)
           /\ \A y \in Transfers \ {x} : Outstanding(Rearmed(u, x, arms), y) = Outstanding(u, y)
<1> DEFINE armed == [u.armed EXCEPT ![x] = IF arms THEN @ + 1 ELSE @]
<1>1. armed \in [Transfers -> Nat]
  BY DEF UsbStates
<1>2. [u.data EXCEPT ![x] = "none"] \in [Transfers -> {"none", "live", "stale"}]
  BY DEF UsbStates
<1>3. [u.age EXCEPT ![x[1]] = 0] \in [Dirs -> 0..MaxAge]
  <2>1. u.age \in [Dirs -> 0..MaxAge]
    BY DEF UsbStates
  <2>2. 0 \in 0..MaxAge
    BY DEF MaxAge
  <2> QED
    BY <2>1, <2>2
<1>4. /\ u.open \in SUBSET Dirs /\ u.failed \in BOOLEAN
      /\ u.ok \in [Transfers -> Nat] /\ u.bad \in [Transfers -> Nat]
      /\ u.lateOk \in [Transfers -> Nat] /\ u.lateBad \in [Transfers -> Nat]
  BY DEF UsbStates
<1>5. (u.failed \/ ~arms) \in BOOLEAN
  BY <1>4
<1>6. /\ Rearmed(u, x, arms).running = arms /\ Rearmed(u, x, arms).open = u.open
      /\ Rearmed(u, x, arms).armed = armed
      /\ Rearmed(u, x, arms).ok = u.ok /\ Rearmed(u, x, arms).bad = u.bad
      /\ Rearmed(u, x, arms).lateOk = u.lateOk /\ Rearmed(u, x, arms).lateBad = u.lateBad
  BY DEF Rearmed, UsbStates
<1>7. Rearmed(u, x, arms) \in UsbStates
  <2>1. PICK v : v = Rearmed(u, x, arms)
    OBVIOUS
  <2>2. v = [u EXCEPT !.running = arms, !.armed[x] = IF arms THEN @ + 1 ELSE @,
                      !.data[x] = "none", !.age[x[1]] = 0, !.failed = @ \/ ~arms]
    BY <2>1 DEF Rearmed
  <2>3. v = [running |-> arms, open |-> u.open, armed |-> armed, ok |-> u.ok, bad |-> u.bad,
             lateOk |-> u.lateOk, lateBad |-> u.lateBad,
             data |-> [u.data EXCEPT ![x] = "none"],
             age |-> [u.age EXCEPT ![x[1]] = 0], failed |-> (u.failed \/ ~arms)]
    BY <2>2 DEF UsbStates
  <2>4. v \in UsbStates
    BY ONLY <1>1, <1>2, <1>3, <1>4, <1>5, <2>3, arms \in BOOLEAN DEF UsbStates
  <2> QED
    BY <2>1, <2>4
<1>8. /\ armed[x] = IF arms THEN u.armed[x] + 1 ELSE u.armed[x]
      /\ \A y \in Transfers \ {x} : armed[y] = u.armed[y]
  BY DEF UsbStates
<1> HIDE DEF armed
<1> QED
  BY <1>6, <1>7, <1>8, Counted DEF Outstanding

\* A completion ends one transfer of its request and arms at most one.
LEMMA HandleCompletionOutcome ==
    ASSUME usb \in UsbStates, NEW x \in Transfers, HandleCompletion(x)
    PROVE  /\ usb' \in UsbStates /\ usb'.open = usb.open
           /\ usb'.running => usb.running
           /\ ~usb.running => usb'.armed = usb.armed
           /\ \A y \in Transfers : Outstanding(usb', y) <= Outstanding(usb, y)
           /\ Conserved(usb) => Conserved(usb')
<1>1. PICK u \in Taken(x, TRUE) :
        IF u.running
        THEN \E arms \in {TRUE} \cup Faulty({FALSE}) : usb' = Rearmed(u, x, arms)
        ELSE usb' = u
  BY DEF HandleCompletion
<1>2. /\ u \in UsbStates
      /\ u.running = usb.running /\ u.open = usb.open /\ u.armed = usb.armed
      /\ Outstanding(u, x) = Outstanding(usb, x) - 1
      /\ \A y \in Transfers \ {x} : Outstanding(u, y) = Outstanding(usb, y)
  BY <1>1, TakenOutcome
<1>3. CASE ~usb.running
  <2>1. usb' = u
    BY <1>1, <1>2, <1>3
  <2>2. \A y \in Transfers : Outstanding(u, y) <= Outstanding(usb, y)
    BY <1>2, Counted
  <2> QED
    BY <1>2, <1>3, <2>1, <2>2 DEF Conserved
<1>4. CASE usb.running
  <2>1. PICK arms \in BOOLEAN : usb' = Rearmed(u, x, arms)
    BY <1>1, <1>2, <1>4 DEF Faulty
  <2>2. /\ usb' \in UsbStates /\ usb'.open = usb.open /\ usb'.running = arms
        /\ Outstanding(usb', x) = IF arms THEN Outstanding(u, x) + 1 ELSE Outstanding(u, x)
        /\ \A y \in Transfers \ {x} : Outstanding(usb', y) = Outstanding(u, y)
    BY <1>2, <2>1, RearmOutcome
  <2>3. \A y \in Transfers : /\ Outstanding(usb', y) <= Outstanding(usb, y)
                             /\ arms => Outstanding(usb', y) = Outstanding(usb, y)
    BY <1>2, <2>2, Counted
  <2> QED
    BY <1>4, <2>2, <2>3 DEF Conserved
<1> QED
  BY <1>3, <1>4

\* A failed completion ends one transfer and takes the transport down.
LEMMA HandleFailureOutcome ==
    ASSUME usb \in UsbStates, NEW x \in Transfers, HandleFailure(x)
    PROVE  /\ usb' \in UsbStates /\ usb'.open = usb.open /\ usb'.armed = usb.armed
           /\ ~usb'.running
           /\ \A y \in Transfers : Outstanding(usb', y) <= Outstanding(usb, y)
<1>1. PICK u \in Taken(x, FALSE) : usb' = [u EXCEPT !.running = FALSE, !.failed = @ \/ u.running]
  BY DEF HandleFailure
<1>2. /\ u \in UsbStates
      /\ u.running = usb.running /\ u.open = usb.open /\ u.armed = usb.armed
      /\ Outstanding(u, x) = Outstanding(usb, x) - 1
      /\ \A y \in Transfers \ {x} : Outstanding(u, y) = Outstanding(usb, y)
  BY <1>1, TakenOutcome
<1>3. usb' \in UsbStates
  BY <1>1, <1>2 DEF UsbStates
<1>4. /\ ~usb'.running /\ usb'.open = u.open /\ usb'.armed = u.armed
      /\ usb'.ok = u.ok /\ usb'.bad = u.bad /\ usb'.lateOk = u.lateOk /\ usb'.lateBad = u.lateBad
  BY <1>1, <1>2 DEF UsbStates
<1>5. \A y \in Transfers : Outstanding(usb', y) = Outstanding(u, y)
  BY <1>4 DEF Outstanding
<1>6. \A y \in Transfers : Outstanding(usb', y) <= Outstanding(usb, y)
  BY <1>2, <1>5, Counted
<1> QED
  BY <1>2, <1>3, <1>4, <1>6

LEMMA HandlersPreserve ==
    ASSUME IInv, NEW x \in Transfers, HandleCompletion(x) \/ HandleFailure(x)
    PROVE  IInv'
<1>1. usb \in UsbStates
  BY DEF IInv, TypeOK
<1>2. CASE HandleCompletion(x)
  BY <1>1, <1>2, HandleCompletionOutcome, TransfersPreserve DEF HandleCompletion
<1>3. CASE HandleFailure(x)
  BY <1>1, <1>3, HandleFailureOutcome, TransfersPreserve DEF HandleFailure, Conserved
<1> QED
  BY <1>2, <1>3

-----------------------------------------------------------------------------
(* Starting and stopping I/O.                                              *)

LEMMA StopIOPreserves ==
    ASSUME IInv, StopIO
    PROVE  IInv'
<1>1. usb \in UsbStates /\ usb' = Stopped(usb) /\ ioActive' = FALSE
  BY DEF IInv, TypeOK, StopIO
<1>2. usb' \in UsbStates /\ ~usb'.running /\ usb'.open = {} /\ usb'.armed = None
  BY <1>1, StopOutcome
<1>3. PipesFollowIO' /\ NoneIsLost' /\ RatesAgree'
  BY <1>1, <1>2 DEF PipesFollowIO, NoneIsLost, RatesAgree, None
<1>4. TypeOK' /\ PendingMatchesRequest'
  BY <1>1, <1>2 DEF StopIO, IInv, TypeOK, PendingMatchesRequest
<1> QED
  BY <1>3, <1>4 DEF IInv

\* What StartUSBTransport leaves is right for I/O that is active if it
\* succeeded, and for I/O that is not if it failed.
LEMMA StartPreserves ==
    ASSUME IInv, NEW u \in UsbStates, Quiet(u), u.open = {},
           NEW h \in Devices, NEW c \in Clocks, NEW s \in StartTransport(u, c, h),
           usb' = s.usb, hw' = s.hw, clk' = c, sampleRate' = sampleRate,
           ioActive' \in BOOLEAN, s.ok => ioActive'
    PROVE  /\ usb' \in UsbStates /\ hw' \in Devices
           /\ PipesFollowIO' /\ NoneIsLost' /\ RatesAgree'
           /\ ArmedOnce(u, usb')
<1>1. sampleRate \in SupportedRates
  BY DEF IInv, TypeOK
<1>2. /\ s.usb \in UsbStates
      /\ s.hw \in Devices
      /\ s.ok \in BOOLEAN
      /\ s.usb.running => /\ s.ok
                          /\ s.hw.source = c.source
                          /\ c.source = Internal => s.hw.rate = sampleRate
      /\ s.usb.open = IF s.ok THEN Dirs ELSE {}
      /\ ~s.ok => s.usb.armed = None
      /\ ArmedOnce(u, s.usb) /\ Conserved(s.usb)
  BY <1>1, StartOutcome
<1>3. \A x \in Transfers : x[1] \in Dirs
  BY DEF Transfers
<1>4. PipesFollowIO'
  BY <1>2, <1>3 DEF PipesFollowIO, None
<1>5. NoneIsLost'
  BY <1>2 DEF NoneIsLost, Conserved
<1>6. RatesAgree'
  BY <1>2 DEF RatesAgree
<1> QED
  BY <1>2, <1>4, <1>5, <1>6

\* StartIO runs with no request outstanding, and arms each at most once.
LEMMA StartIOPreserves ==
    ASSUME IInv, StartIO
    PROVE  /\ IInv'
           /\ ArmedOnce(usb, usb')
           /\ \A x \in Transfers : Outstanding(usb, x) = 0
<1>1. /\ usb \in UsbStates /\ hw \in Devices /\ clk \in Clocks
      /\ sampleRate \in SupportedRates /\ cooldown \in 0..2
  BY DEF IInv, TypeOK
<1>2. Quiet(usb) /\ usb.open = {}
  BY QuietWhenStopped DEF StartIO
<1>3. \A x \in Transfers : Outstanding(usb, x) = 0
  <2>1. \A x \in Transfers : /\ ~(usb.ok[x] + usb.bad[x] > 0)
                             /\ ~(usb.lateOk[x] + usb.lateBad[x] > 0)
    BY DEF StartIO, Queued, Late
  <2>2. \A x \in Transfers : usb.armed[x] = 0
    BY <1>2 DEF Quiet, None
  <2> QED
    BY <1>1, <2>1, <2>2, Counted DEF Outstanding
<1>4. cooldown' \in 0..2 /\ UNCHANGED <<clk, sampleRate, requests, healthy>>
  BY <1>1 DEF StartIO
<1>5. PICK p \in ProgramClock(hw, clk, usb) :
      \E s \in (IF p.ok THEN StartTransport(usb, clk, p.hw)
                       ELSE {[usb |-> usb, hw |-> p.hw, ok |-> FALSE]})
               \cup Faulty({[usb |-> usb, hw |-> hw, ok |-> FALSE]}) :
         usb' = s.usb /\ hw' = s.hw /\ ioActive' = s.ok
  BY DEF StartIO
<1>6. p.hw \in Devices
  BY <1>1, <1>5, ProgramClockOutcome
<1>7. /\ usb' \in UsbStates /\ hw' \in Devices /\ ioActive' \in BOOLEAN
      /\ PipesFollowIO' /\ NoneIsLost' /\ RatesAgree' /\ ArmedOnce(usb, usb')
  <2>1. CASE \E s \in StartTransport(usb, clk, p.hw) :
                usb' = s.usb /\ hw' = s.hw /\ ioActive' = s.ok
    <3>1. PICK s \in StartTransport(usb, clk, p.hw) :
            usb' = s.usb /\ hw' = s.hw /\ ioActive' = s.ok
      BY <2>1
    <3>2. s.ok \in BOOLEAN
      BY <1>1, <1>2, <1>6, StartOutcome
    <3>3. ioActive' \in BOOLEAN /\ (s.ok => ioActive')
      BY <3>1, <3>2
    <3> QED
      BY <1>1, <1>2, <1>4, <1>6, <3>1, <3>3, StartPreserves
  <2>2. CASE usb' = usb /\ hw' \in Devices /\ ioActive' = FALSE
    <3>1. NoneIsLost' /\ PipesFollowIO' /\ ArmedOnce(usb, usb')
      BY <1>2, <2>2 DEF Quiet, PipesFollowIO, NoneIsLost, None, ArmedOnce
    <3>2. RatesAgree'
      BY <1>2, <2>2 DEF Quiet, RatesAgree
    <3> QED
      BY <1>1, <2>2, <3>1, <3>2
  <2>3. CASE \E s \in {[usb |-> usb, hw |-> p.hw, ok |-> FALSE], [usb |-> usb, hw |-> hw, ok |-> FALSE]} :
                usb' = s.usb /\ hw' = s.hw /\ ioActive' = s.ok
    <3>1. usb' = usb /\ hw' \in {hw, p.hw} /\ ioActive' = FALSE
      BY <2>3
    <3> QED
      BY <1>1, <1>6, <2>2, <3>1
  <2>4. (IF p.ok THEN StartTransport(usb, clk, p.hw)
                 ELSE {[usb |-> usb, hw |-> p.hw, ok |-> FALSE]})
           \cup Faulty({[usb |-> usb, hw |-> hw, ok |-> FALSE]})
          \subseteq StartTransport(usb, clk, p.hw)
             \cup {[usb |-> usb, hw |-> p.hw, ok |-> FALSE], [usb |-> usb, hw |-> hw, ok |-> FALSE]}
    BY DEF Faulty
  <2> QED
    BY <1>5, <2>1, <2>3, <2>4
<1> QED
  BY <1>1, <1>3, <1>4, <1>7 DEF IInv, TypeOK, PendingMatchesRequest

-----------------------------------------------------------------------------
(* The clock, and changes of the nominal rate while I/O is stopped.        *)

\* A step that leaves the transfers alone keeps their invariants.
LEMMA ClockPreserves ==
    ASSUME IInv, UNCHANGED <<ioActive, usb>>,
           clk' \in Clocks, hw' \in Devices, sampleRate' \in SupportedRates,
           cooldown' \in 0..2, requests' \subseteq {"custom", "external"}, healthy' \in BOOLEAN,
           PendingMatchesRequest', RatesAgree'
    PROVE  IInv'
  BY DEF IInv, TypeOK, PipesFollowIO, NoneIsLost

LEMMA NominalRatePreserves ==
    ASSUME IInv, ~ioActive, UNCHANGED <<ioActive, usb, cooldown, healthy>>,
           clk' \in Clocks, hw' \in Devices, sampleRate' \in SupportedRates,
           requests' \subseteq {"custom", "external"}, PendingMatchesRequest'
    PROVE  IInv'
<1>1. RatesAgree'
  BY DEF IInv, PipesFollowIO, RatesAgree
<1> QED
  BY <1>1, ClockPreserves DEF IInv, TypeOK

LEMMA HandleChangeSampleRatePreserves ==
    ASSUME IInv, NEW rate, HandleChangeSampleRate(rate)
    PROVE  IInv'
<1>1. PICK o \in ChangeRate(rate) : clk' = o.clk /\ hw' = o.hw /\ sampleRate' = o.rate
  BY DEF HandleChangeSampleRate
<1>2. clk' \in Clocks /\ clk'.pending = clk.pending /\ hw' \in Devices /\ sampleRate' \in SupportedRates
  BY <1>1, ChangeRateOutcome DEF IInv, TypeOK
<1> QED
  BY <1>2, NominalRatePreserves DEF HandleChangeSampleRate, IInv, TypeOK, PendingMatchesRequest

LEMMA PerformCustomChangePreserves ==
    ASSUME IInv, PerformCustomChange
    PROVE  IInv'
<1>1. PICK o \in ChangeRate(NextRate(sampleRate)) :
        clk' = o.clk /\ hw' = o.hw /\ sampleRate' = o.rate
  BY DEF PerformCustomChange
<1>2. clk' \in Clocks /\ clk'.pending = clk.pending /\ hw' \in Devices /\ sampleRate' \in SupportedRates
  BY <1>1, ChangeRateOutcome DEF IInv, TypeOK
<1> QED
  BY <1>2, NominalRatePreserves DEF PerformCustomChange, IInv, TypeOK, PendingMatchesRequest

LEMMA PerformExternalRatePreserves ==
    ASSUME IInv, PerformExternalRate
    PROVE  IInv'
<1>1. PICK a \in ApplyRate(hw, clk, clk.pending, FALSE) : hw' = a.hw /\ sampleRate' = a.rate
  BY DEF PerformExternalRate
<1>2. hw' \in Devices /\ sampleRate' \in SupportedRates
  BY <1>1, ApplyRateOutcome DEF IInv, TypeOK
<1>3. clk' \in Clocks /\ clk'.pending = 0
  BY DEF PerformExternalRate, IInv, TypeOK, Clocks
<1> QED
  BY <1>2, <1>3, NominalRatePreserves DEF PerformExternalRate, IInv, TypeOK, PendingMatchesRequest

LEMMA RequestsPreserve ==
    ASSUME IInv, \/ HandleTestConfigChange
                 \/ \E change \in {"custom", "external"} : AbortDeviceConfigurationChange(change)
    PROVE  IInv'
<1>1. CASE HandleTestConfigChange
  BY <1>1, ClockPreserves DEF HandleTestConfigChange, IInv, TypeOK, PendingMatchesRequest, RatesAgree
<1>2. ASSUME NEW change \in {"custom", "external"}, AbortDeviceConfigurationChange(change)
      PROVE  IInv'
  <2>1. /\ clk' \in Clocks /\ clk'.source = clk.source
        /\ clk'.pending = IF change = "external" THEN 0 ELSE clk.pending
    BY <1>2 DEF AbortDeviceConfigurationChange, IInv, TypeOK, Clocks
  <2>2. PendingMatchesRequest' /\ RatesAgree'
    BY <1>2, <2>1 DEF AbortDeviceConfigurationChange, IInv, PendingMatchesRequest, RatesAgree
  <2> QED
    BY <1>2, <2>1, <2>2, ClockPreserves DEF AbortDeviceConfigurationChange, IInv, TypeOK
<1> QED
  BY <1>1, <1>2

LEMMA SetClockSourcePreserves ==
    ASSUME IInv, NEW argument \in ClockArguments, SetClockSource(argument)
    PROVE  IInv'
<1>1. /\ hw \in Devices /\ clk \in Clocks /\ sampleRate \in SupportedRates
  BY DEF IInv, TypeOK
<1>2. PICK p \in ProgramSource(hw, clk, usb, argument % 256) :
      \E q \in (IF p.ok /\ argument = Internal
                   THEN ProgramRate(p.hw, p.clk, sampleRate)
                   ELSE {[hw |-> p.hw, ok |-> p.ok]}) :
      \E r \in (IF q.ok THEN ReadClock(q.hw, p.clk) ELSE {[clk |-> p.clk, ok |-> FALSE]}) :
         hw' = q.hw /\ clk' = r.clk
  BY DEF SetClockSource
<1>3. PICK q \in (IF p.ok /\ argument = Internal
                   THEN ProgramRate(p.hw, p.clk, sampleRate)
                   ELSE {[hw |-> p.hw, ok |-> p.ok]}) :
      \E r \in (IF q.ok THEN ReadClock(q.hw, p.clk) ELSE {[clk |-> p.clk, ok |-> FALSE]}) :
         hw' = q.hw /\ clk' = r.clk
  BY <1>2
<1>4. PICK r \in (IF q.ok THEN ReadClock(q.hw, p.clk) ELSE {[clk |-> p.clk, ok |-> FALSE]}) :
         hw' = q.hw /\ clk' = r.clk
  BY <1>3
<1>5. /\ p.hw \in Devices /\ p.clk \in Clocks /\ p.clk.pending = clk.pending
      /\ usb.running => p.hw = hw /\ p.clk = clk /\ ~p.ok
  BY <1>1, ProgramSourceOutcome
<1>6. q.hw \in Devices /\ (usb.running => q.hw = hw /\ ~q.ok)
  BY <1>1, <1>5, ProgramRateOutcome
<1>7. r.clk \in Clocks /\ r.clk.pending = clk.pending /\ (usb.running => r.clk = clk)
  BY <1>5, <1>6, ReadClockOutcome
<1>8. RatesAgree' /\ PendingMatchesRequest'
  BY <1>4, <1>6, <1>7 DEF SetClockSource, IInv, RatesAgree, PendingMatchesRequest
<1> QED
  BY <1>1, <1>4, <1>6, <1>7, <1>8, ClockPreserves DEF SetClockSource, IInv, TypeOK

LEMMA GetAudioStatusPreserves ==
    ASSUME IInv, GetAudioStatus
    PROVE  IInv'
<1>1. PICK r \in ReadClock(hw, clk) : clk' = r.clk
  BY DEF GetAudioStatus
<1>2. clk' \in Clocks /\ clk'.pending = clk.pending /\ clk'.source \in {clk.source, hw.source}
  BY <1>1, ReadClockOutcome DEF IInv, TypeOK
<1>3. RatesAgree' /\ PendingMatchesRequest'
  BY <1>2 DEF GetAudioStatus, IInv, RatesAgree, PendingMatchesRequest
<1> QED
  BY <1>2, <1>3, ClockPreserves DEF GetAudioStatus, IInv, TypeOK

LEMMA WorldPreserves ==
    ASSUME IInv, ExternalLockChanges \/ ExternalRateChanges \/ HealthChanges
    PROVE  IInv'
<1>1. CASE ExternalLockChanges
  <2>1. hw' \in Devices /\ hw'.source = hw.source /\ hw'.rate = hw.rate
    BY <1>1 DEF ExternalLockChanges, IInv, TypeOK, Devices
  <2> QED
    BY <1>1, <2>1, ClockPreserves
    DEF ExternalLockChanges, IInv, TypeOK, RatesAgree, PendingMatchesRequest
<1>2. CASE ExternalRateChanges
  <2>1. hw' \in Devices /\ hw'.source = hw.source /\ hw.source # Internal
    BY <1>2, RatesAreReal DEF ExternalRateChanges, IInv, TypeOK, Devices
  <2>2. RatesAgree'
    BY <1>2, <2>1 DEF ExternalRateChanges, IInv, RatesAgree
  <2> QED
    BY <1>2, <2>1, <2>2, ClockPreserves
    DEF ExternalRateChanges, IInv, TypeOK, PendingMatchesRequest
<1>3. CASE HealthChanges
  BY <1>3, ClockPreserves DEF HealthChanges, IInv, TypeOK, RatesAgree, PendingMatchesRequest
<1> QED
  BY <1>1, <1>2, <1>3


-----------------------------------------------------------------------------
(* The watchdog.                                                           *)

\* A pass leaves the source it read, and a pending rate only with a request.
LEMMA FollowRateOutcome ==
    ASSUME IInv, NEW r \in ReadClock(hw, clk), NEW f \in FollowRate(r)
    PROVE  /\ f.clk \in Clocks
           /\ f.clk.source \in {clk.source, hw.source}
           /\ f.requests \subseteq {"custom", "external"}
           /\ f.clk.pending # 0 <=> "external" \in f.requests
<1>1. /\ r.clk \in Clocks
      /\ r.clk.pending = clk.pending
      /\ r.clk.source \in {clk.source, hw.source}
  BY ReadClockOutcome DEF IInv, TypeOK
<1> DEFINE followed == [r.clk EXCEPT !.pending = hw.rate]
<1>2. hw.rate \in SupportedRates =>
        followed \in Clocks /\ followed.source = r.clk.source /\ followed.pending = hw.rate
  BY <1>1 DEF Clocks
<1>3. \/ f = [clk |-> r.clk, requests |-> requests]
      \/ /\ hw.rate \in SupportedRates
         /\ f = [clk |-> followed, requests |-> requests \cup {"external"}]
  BY DEF FollowRate, Faulty
<1> HIDE DEF followed
<1>4. CASE f = [clk |-> r.clk, requests |-> requests]
  BY <1>1, <1>4 DEF IInv, TypeOK, PendingMatchesRequest
<1>5. CASE /\ hw.rate \in SupportedRates
           /\ f = [clk |-> followed, requests |-> requests \cup {"external"}]
  <2>1. hw.rate # 0
    BY <1>5, RatesAreReal
  <2> QED
    BY <1>1, <1>2, <1>5, <2>1 DEF IInv, TypeOK
<1> QED
  BY <1>3, <1>4, <1>5

\* A watchdog pass brings the cool-down no further than its start.
LEMMA CooledType == cooldown \in 0..2 => Cooled \in 0..2
  BY DEF Cooled

LEMMA WatchdogStopsPreserves ==
    ASSUME IInv, WatchdogStopsUnlocked
    PROVE  IInv'
<1>1. usb \in UsbStates /\ hw \in Devices /\ clk \in Clocks /\ cooldown \in 0..2
  BY DEF IInv, TypeOK
<1>2. PICK r \in ReadClock(hw, clk) : clk' = r.clk
  BY DEF WatchdogStopsUnlocked
<1>3. clk' \in Clocks /\ clk'.pending = clk.pending /\ clk'.source \in {clk.source, hw.source}
  BY <1>1, <1>2, ReadClockOutcome
<1>4. /\ Ticked(usb) \in UsbStates
      /\ Ticked(usb).running = usb.running /\ Ticked(usb).open = usb.open
      /\ Ticked(usb).armed = usb.armed
      /\ \A x \in Transfers : Outstanding(Ticked(usb), x) = Outstanding(usb, x)
  BY <1>1, TickOutcome
<1>5. CASE usb.running
  <2>1. usb' = Stopped(Ticked(usb))
    BY <1>5 DEF WatchdogStopsUnlocked
  <2>2. usb' \in UsbStates /\ ~usb'.running /\ usb'.open = {} /\ usb'.armed = None
    BY <1>4, <2>1, StopOutcome
  <2>3. PipesFollowIO' /\ NoneIsLost' /\ RatesAgree'
    BY <2>2 DEF PipesFollowIO, NoneIsLost, RatesAgree, None
  <2>4. cooldown' \in 0..2
    BY <1>1, CooledType DEF WatchdogStopsUnlocked
  <2> QED
    BY <1>3, <2>2, <2>3, <2>4 DEF WatchdogStopsUnlocked, IInv, TypeOK, PendingMatchesRequest
<1>6. CASE ~usb.running
  <2>1. usb' = Ticked(usb) /\ cooldown' \in 0..2
    BY <1>1, <1>6, CooledType DEF WatchdogStopsUnlocked
  <2>2. PipesFollowIO' /\ NoneIsLost' /\ RatesAgree'
    BY <1>4, <1>6, <2>1
    DEF WatchdogStopsUnlocked, IInv, PipesFollowIO, NoneIsLost, RatesAgree
  <2> QED
    BY <1>3, <1>4, <2>1, <2>2 DEF WatchdogStopsUnlocked, IInv, TypeOK, PendingMatchesRequest
<1> QED
  BY <1>5, <1>6

LEMMA WatchdogWaitsPreserves ==
    ASSUME IInv, WatchdogWaits
    PROVE  IInv'
<1>1. usb \in UsbStates /\ cooldown \in 0..2
  BY DEF IInv, TypeOK
<1>2. PICK r \in ReadClock(hw, clk) :
        \E f \in FollowRate(r) : clk' = f.clk /\ requests' = f.requests
  BY DEF WatchdogWaits
<1>3. /\ clk' \in Clocks /\ clk'.source \in {clk.source, hw.source}
      /\ requests' \subseteq {"custom", "external"}
      /\ PendingMatchesRequest'
  BY <1>2, FollowRateOutcome DEF PendingMatchesRequest
<1>4. usb' = Ticked(usb) /\ cooldown' \in 0..2
  BY <1>1, CooledType DEF WatchdogWaits
<1>5. /\ usb' \in UsbStates
      /\ usb'.running = usb.running /\ usb'.open = usb.open
      /\ usb'.armed = usb.armed
      /\ \A x \in Transfers : Outstanding(usb', x) = Outstanding(usb, x)
  BY <1>1, <1>4, TickOutcome
<1>6. PipesFollowIO' /\ NoneIsLost'
  BY <1>5 DEF WatchdogWaits, IInv, PipesFollowIO, NoneIsLost
<1>7. RatesAgree'
  BY <1>3, <1>5 DEF WatchdogWaits, IInv, RatesAgree
<1> QED
  BY <1>3, <1>4, <1>5, <1>6, <1>7 DEF WatchdogWaits, IInv, TypeOK

\* A restart arms each request at most once, whatever the stop left behind.
LEMMA WatchdogRestartsPreserves ==
    ASSUME IInv, WatchdogRestarts
    PROVE  IInv' /\ ArmedOnce(usb, usb')
<1>1. usb \in UsbStates /\ hw \in Devices /\ ioActive \in BOOLEAN
  BY DEF IInv, TypeOK
<1> DEFINE u == Stopped(Ticked(usb))
<1>2. /\ u \in UsbStates /\ Quiet(u) /\ u.open = {}
      /\ \A x \in Transfers : Outstanding(u, x) = Outstanding(usb, x)
  BY <1>1, TickOutcome, StopOutcome DEF Quiet
<1>3. PICK r \in ReadClock(hw, clk) :
        \E f \in FollowRate(r) :
           /\ clk' = f.clk /\ requests' = f.requests
           /\ \E s \in StartTransport(Stopped(Ticked(usb)), f.clk, hw) : usb' = s.usb /\ hw' = s.hw
  BY DEF WatchdogRestarts
<1>4. PICK f \in FollowRate(r) :
        /\ clk' = f.clk /\ requests' = f.requests
        /\ \E s \in StartTransport(Stopped(Ticked(usb)), f.clk, hw) : usb' = s.usb /\ hw' = s.hw
  BY <1>3
<1>5. /\ f.clk \in Clocks
      /\ requests' \subseteq {"custom", "external"}
      /\ PendingMatchesRequest'
  BY <1>4, FollowRateOutcome DEF PendingMatchesRequest
<1>6. PICK s \in StartTransport(u, f.clk, hw) : usb' = s.usb /\ hw' = s.hw
  BY <1>4
<1>7. ioActive' = ioActive /\ ioActive = TRUE /\ sampleRate' = sampleRate /\ healthy' = healthy /\ cooldown' = 2
  BY <1>1 DEF WatchdogRestarts
<1> HIDE DEF u
<1>8. /\ usb' \in UsbStates /\ hw' \in Devices
      /\ PipesFollowIO' /\ NoneIsLost' /\ RatesAgree' /\ ArmedOnce(u, usb')
  BY <1>1, <1>2, <1>4, <1>5, <1>6, <1>7, StartPreserves
<1>9. ArmedOnce(usb, usb')
  BY <1>2, <1>8 DEF ArmedOnce
<1> QED
  BY <1>1, <1>4, <1>5, <1>7, <1>8, <1>9 DEF IInv, TypeOK

-----------------------------------------------------------------------------
(* Theorems                                                                *)

\* Every step keeps the invariant.
LEMMA NextPreserves == IInv /\ [Next]_vars => IInv'
<1> SUFFICES ASSUME IInv, [Next]_vars PROVE IInv'
  OBVIOUS
<1>1. CASE \E x \in Transfers, good \in BOOLEAN : Complete(x, good)
  BY <1>1, CompletePreserves
<1>2. CASE \E x \in Transfers : HandleCompletion(x) \/ HandleFailure(x)
  BY <1>2, HandlersPreserve
<1>3. CASE StartIO \/ StopIO
  BY <1>3, StartIOPreserves, StopIOPreserves
<1>4. CASE \E rate \in SupportedRates : HandleChangeSampleRate(rate)
  BY <1>4, HandleChangeSampleRatePreserves
<1>5. CASE PerformCustomChange \/ PerformExternalRate
  BY <1>5, PerformCustomChangePreserves, PerformExternalRatePreserves
<1>6. CASE \/ HandleTestConfigChange
           \/ \E change \in {"custom", "external"} : AbortDeviceConfigurationChange(change)
  BY <1>6, RequestsPreserve
<1>7. CASE GetAudioStatus \/ \E argument \in ClockArguments : SetClockSource(argument)
  BY <1>7, SetClockSourcePreserves, GetAudioStatusPreserves
<1>8. CASE WatchdogStopsUnlocked \/ WatchdogWaits \/ WatchdogRestarts
  BY <1>8, WatchdogStopsPreserves, WatchdogWaitsPreserves, WatchdogRestartsPreserves
<1>9. CASE ExternalLockChanges \/ ExternalRateChanges \/ HealthChanges
  BY <1>9, WorldPreserves
<1>10. CASE UNCHANGED vars
  BY <1>10, ClockPreserves, TransfersPreserve
  DEF vars, IInv, TypeOK, PendingMatchesRequest, RatesAgree
<1> QED
  BY <1>1, <1>2, <1>3, <1>4, <1>5, <1>6, <1>7, <1>8, <1>9, <1>10 DEF Next

\* The invariant holds in every reachable state, whatever fails.
THEOREM TransportInvariance == Spec => []IInv
  BY InitInvariant, NextPreserves, PTL DEF Spec

\* The variables keep their types through every failure.
THEOREM TransportTypeCorrect == Spec => []TypeOK
  BY TransportInvariance, PTL DEF IInv

\* Nothing is open or armed once I/O has stopped or failed to start, and a
\* transport that runs has both its interfaces.
THEOREM PipesBelongToIO == Spec => []PipesFollowIO
  BY TransportInvariance, PTL DEF IInv

\* A restart by the watchdog meets outstanding requests only after a failure: a
\* stream that runs has completed since the last pass, and is not stalled, and
\* one that is down has been drained by then.
LEMMA RestartAfterFailure ==
    ASSUME IInv, WatchdogRestarts, NEW x \in Transfers, Outstanding(usb, x) > 0
    PROVE  Restarted /\ (~healthy \/ usb.failed)
<1>1. ioActive /\ cooldown' = 2 /\ TimePasses /\ MaybeStalled(Ticked(usb)) /\ Cooled = 0
  BY DEF WatchdogRestarts
<1>2. cooldown \in 0..2 /\ usb \in UsbStates
  BY DEF IInv, TypeOK
<1>3. cooldown < 2
  BY <1>1, <1>2 DEF Cooled
<1>4. ASSUME usb.running, \A d \in Dirs : usb.age[d] = 0
      PROVE  FALSE
  <2>1. Ticked(usb).running
    BY <1>2, <1>4 DEF Ticked, UsbStates
  <2>2. \A d \in Dirs : Ticked(usb).age[d] = 1
    BY <1>2, <1>4 DEF Ticked, UsbStates, MaxAge
  <2> QED
    BY <1>1, <2>1, <2>2 DEF MaybeStalled
<1> QED
  BY <1>1, <1>3, <1>4 DEF TimePasses, Restarted

\* No step makes a request more outstanding than it was but a start and a
\* restart, which arm it once.
LEMMA StepConserves ==
    ASSUME IInv, [Next]_vars, NEW x \in Transfers, Outstanding(usb', x) > Outstanding(usb, x)
    PROVE  /\ Outstanding(usb', x) = Outstanding(usb, x) + 1
           /\ Outstanding(usb, x) > 0 => Restarted /\ (~healthy \/ usb.failed)
<1>1. usb \in UsbStates
  BY DEF IInv, TypeOK
<1>2. Outstanding(usb, x) \in Nat
  BY <1>1, Counted
<1>3. ASSUME usb' = usb \/ Outstanding(usb', x) <= Outstanding(usb, x)
      PROVE  FALSE
  <2>1. Outstanding(usb', x) = Outstanding(usb, x) \/ Outstanding(usb', x) <= Outstanding(usb, x)
    BY <1>3
  <2>2. usb' \in UsbStates
    BY NextPreserves DEF IInv, TypeOK
  <2>3. Outstanding(usb', x) \in Nat
    BY <2>2, Counted
  <2> QED
    BY <1>2, <2>1, <2>3
<1>4. ASSUME NEW y \in Transfers, NEW good \in BOOLEAN, Complete(y, good)
      PROVE  FALSE
  <2>1. Outstanding(usb', x) = Outstanding(usb, x)
    BY <1>1, <1>4, CompleteOutcome
  <2> QED
    BY <1>2, <1>3, <2>1
<1>5. ASSUME NEW y \in Transfers, HandleCompletion(y) \/ HandleFailure(y)
      PROVE  FALSE
  BY <1>1, <1>3, <1>5, HandleCompletionOutcome, HandleFailureOutcome
<1>6. CASE StartIO
  BY <1>2, <1>6, StartIOPreserves DEF ArmedOnce
<1>7. CASE StopIO
  BY <1>1, <1>2, <1>3, <1>7, StopOutcome DEF StopIO
<1>8. CASE WatchdogStopsUnlocked \/ WatchdogWaits
  <2>1. usb' \in {Ticked(usb), Stopped(Ticked(usb))}
    BY <1>8 DEF WatchdogStopsUnlocked, WatchdogWaits
  <2>2. Outstanding(usb', x) = Outstanding(usb, x)
    BY <1>1, <2>1, TickOutcome, StopOutcome
  <2> QED
    BY <1>2, <1>3, <2>2
<1>9. CASE WatchdogRestarts
  <2>1. Outstanding(usb', x) \in {Outstanding(usb, x), Outstanding(usb, x) + 1}
    BY <1>9, WatchdogRestartsPreserves DEF ArmedOnce
  <2>2. Outstanding(usb, x) > 0 => Restarted /\ (~healthy \/ usb.failed)
    BY <1>9, RestartAfterFailure
  <2> QED
    BY <1>2, <2>1, <2>2
<1> QED
  BY <1>3, <1>4, <1>5, <1>6, <1>7, <1>8, <1>9
  DEF Next, vars, HandleChangeSampleRate, PerformCustomChange, PerformExternalRate,
      HandleTestConfigChange, AbortDeviceConfigurationChange, SetClockSource, GetAudioStatus,
      ExternalLockChanges, ExternalRateChanges, HealthChanges

\* While the transport runs no request is lost, and only a restart after a
\* failure arms a request that is still outstanding, and arms it once.
THEOREM RequestsAreConserved == Spec => RequestsConserved
<1>1. IInv /\ [Next]_vars =>
        /\ NoneIsLost'
        /\ \A x \in Transfers :
             Outstanding(usb', x) > Outstanding(usb, x)
               => /\ Outstanding(usb', x) = Outstanding(usb, x) + 1
                  /\ Outstanding(usb, x) > 0 => Restarted /\ (~healthy \/ usb.failed)
  BY StepConserves, NextPreserves DEF IInv
<1> QED
  BY <1>1, TransportInvariance, PTL DEF Spec, RequestsConserved

\* A running transport has the clock the driver believes in and, on the
\* internal one, Core Audio's rate.
THEOREM RunningRatesAgree == Spec => []RatesAgree
  BY TransportInvariance, PTL DEF IInv

\* A pending external rate and the request that will clear it come and go
\* together.
THEOREM PendingIsRequested == Spec => []PendingMatchesRequest
  BY TransportInvariance, PTL DEF IInv

\* With an external clock Core Audio's rate only ever becomes the clock's.
THEOREM ExternalRateIsFollowed == Spec => CoreAudioFollows
<1>1. ASSUME IInv, [Next]_vars, clk.source # Internal, sampleRate' # sampleRate
      PROVE  sampleRate' \in {hw.rate, clk.pending}
  <2>1. sampleRate \in SupportedRates /\ hw \in Devices /\ clk \in Clocks
    BY <1>1 DEF IInv, TypeOK
  <2>2. ASSUME NEW rate, NEW o \in ChangeRate(rate), sampleRate' = o.rate
        PROVE  sampleRate' \in {hw.rate, clk.pending}
    BY <1>1, <2>1, <2>2, ChangeRateOutcome
  <2>3. CASE \E rate \in SupportedRates : HandleChangeSampleRate(rate)
    BY <2>2, <2>3 DEF HandleChangeSampleRate
  <2>4. CASE PerformCustomChange
    BY <2>2, <2>4 DEF PerformCustomChange
  <2>5. CASE PerformExternalRate
    <3>1. PICK a \in ApplyRate(hw, clk, clk.pending, FALSE) : sampleRate' = a.rate
      BY <2>5 DEF PerformExternalRate
    <3>2. a.rate \in {sampleRate, clk.pending}
      BY <2>1, ApplyRateOutcome
    <3> QED
      BY <1>1, <3>1, <3>2
  <2> QED
    BY <1>1, <2>3, <2>4, <2>5
    DEF Next, vars, Complete, HandleCompletion, HandleFailure, StartIO, StopIO,
        HandleTestConfigChange, AbortDeviceConfigurationChange, SetClockSource, GetAudioStatus,
        WatchdogStopsUnlocked, WatchdogWaits, WatchdogRestarts, ExternalLockChanges,
        ExternalRateChanges, HealthChanges
<1> QED
  BY <1>1, TransportInvariance, PTL DEF Spec, CoreAudioFollows
=============================================================================
