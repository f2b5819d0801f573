---------------------------- MODULE Engine_proofs ----------------------------
(***************************************************************************)
(* Proofs about the engine, for any number of requests and any rates:      *)
(* gInFlight is exact, a drain always has a callback to come, and the      *)
(* hardware rate changes between streams only.                             *)
(***************************************************************************)
EXTENDS Engine, FiniteSetTheorems, TLAPS

-----------------------------------------------------------------------------
(* The requests, and what arming and retiring them does to the count.      *)

\* There are finitely many requests, and at least one captures.
LEMMA SlotsFinite == IsFiniteSet(Slots) /\ Ins # {} /\ Ins \subseteq Slots /\ Outs \subseteq Slots
<1>1. IsFiniteSet(1..Requests)
  BY FS_Interval, EngineAssumption
<1>2. IsFiniteSet({"in"}) /\ IsFiniteSet({"out"})
  BY FS_Singleton
<1>3. IsFiniteSet(Ins) /\ IsFiniteSet(Outs)
  BY <1>1, <1>2, FS_Product DEF Ins, Outs
<1>4. <<"in", 1>> \in Ins
  BY EngineAssumption DEF Ins
<1> QED
  BY <1>3, <1>4, FS_Union DEF Slots

LEMMA ArmedCount == IsFiniteSet(Armed) /\ Cardinality(Armed) \in Nat
  BY SlotsFinite, FS_Subset, FS_CardinalityType DEF Armed

\* A callback that does not arm its request again leaves one less.
LEMMA RetireOne ==
    ASSUME TypeOK, NEW x \in Slots, slot[x] # "unarmed",
           slot' = [slot EXCEPT ![x] = "unarmed"]
    PROVE  /\ slot' \in [Slots -> States]
           /\ Armed' = Armed \ {x}
           /\ Cardinality(Armed') = Cardinality(Armed) - 1
           /\ Cardinality(Armed) >= 1
<1>1. Armed' = Armed \ {x} /\ x \in Armed
  BY DEF Armed, TypeOK
<1>2. slot' \in [Slots -> States]
  BY DEF TypeOK, States
<1>3. Cardinality(Armed \ {x}) = Cardinality(Armed) - 1
  BY <1>1, ArmedCount, FS_RemoveElement
<1>4. Cardinality(Armed \ {x}) \in Nat
  BY ArmedCount, FS_Subset, FS_CardinalityType
<1> QED
  BY <1>1, <1>2, <1>3, <1>4, ArmedCount

\* A request that goes from one armed state to another leaves as many.
LEMMA KeepOne ==
    ASSUME TypeOK, NEW x \in Slots, slot[x] # "unarmed",
           NEW s \in {"flying", "done", "failed"}, slot' = [slot EXCEPT ![x] = s]
    PROVE  slot' \in [Slots -> States] /\ Armed' = Armed
  BY DEF Armed, TypeOK, States

\* Arming all requests counts those that were armed, and stops the engine
\* when one that captures was not.
LEMMA ArmAllCounts ==
    ASSUME NEW running \in BOOLEAN, ArmAll(running)
    PROVE  /\ slot' \in [Slots -> States]
           /\ inFlight' = Cardinality(Armed')
           /\ stop' \/ Ins \subseteq Armed'
<1>1. PICK arms \in [Slots -> Submits] :
        /\ slot' = [x \in Slots |-> IF arms[x] THEN "flying" ELSE "unarmed"]
        /\ inFlight' = Cardinality({x \in Slots : arms[x]})
        /\ stop' = (stop \/ \E x \in Ins : ~arms[x])
  BY DEF ArmAll
<1>2. Armed' = {x \in Slots : arms[x]}
  BY <1>1 DEF Armed
<1>3. slot' \in [Slots -> States]
  BY <1>1 DEF States
<1>4. CASE \E x \in Ins : ~arms[x]
  BY <1>1, <1>2, <1>3, <1>4
<1>5. CASE \A x \in Ins : arms[x]
  BY <1>1, <1>2, <1>3, <1>5, SlotsFinite
<1> QED
  BY <1>4, <1>5

LEMMA ArmAllFlags ==
    ASSUME stop \in BOOLEAN, loopStop \in BOOLEAN, loopStop => stop,
           NEW running \in BOOLEAN, ArmAll(running)
    PROVE  stop' \in BOOLEAN /\ loopStop' \in BOOLEAN /\ (loopStop' => stop') /\ (stop => stop')
  BY Zenon DEF ArmAll
-----------------------------------------------------------------------------
(* Initialisation, and the steps that a callback can take.                 *)

LEMMA InitInvariant == Init => IInv
<1> SUFFICES ASSUME Init PROVE IInv
  OBVIOUS
<1>1. Armed = {}
  BY DEF Init, Armed
<1>2. Cardinality({}) = 0
  BY FS_EmptySet
<1>3. TypeOK
  BY EngineAssumption DEF Init, TypeOK, RateTypes, States, CoreRates
<1> QED
  BY <1>1, <1>2, <1>3 DEF IInv, Init, NotYetArmed, Counted, Capturing, LoopState, DrainHasCallback

\* The last callback of a drain programs the pending rate and arms everything.
LEMMA ReconfigurePreserves ==
    ASSUME IInv, Looping, draining, Reconfigure
    PROVE  IInv'
<1>1. /\ slot' \in [Slots -> States]
      /\ inFlight' = Cardinality(Armed')
      /\ stop' \/ Ins \subseteq Armed'
  BY ArmAllCounts DEF Reconfigure
<1>2. stop' \in BOOLEAN /\ loopStop' \in BOOLEAN /\ (loopStop' => stop') /\ (stop => stop')
  BY Zenon, ArmAllFlags DEF Reconfigure, IInv, TypeOK, LoopState
<1>3. Cardinality(Armed') \in Nat
  BY <1>1, SlotsFinite, FS_Subset, FS_CardinalityType DEF Armed
<1>4. RateTypes'
  BY EngineAssumption DEF Reconfigure, IInv, TypeOK, LoopState, RateTypes, DeviceRates, CoreRates
<1>5. TypeOK'
  BY <1>1, <1>2, <1>3, <1>4 DEF Reconfigure, IInv, TypeOK
<1> QED
  BY <1>1, <1>2, <1>5
  DEF Reconfigure, Looping, IInv, NotYetArmed, Counted, Capturing, LoopState, DrainHasCallback

\* Any other callback of a drain leaves a request that has one to come.
LEMMA DrainPreserves ==
    ASSUME IInv, Looping, draining, NEW x \in Slots, slot[x] # "unarmed", Drain(x)
    PROVE  IInv'
<1>1. CASE Drained(inFlight - 1)
  BY <1>1, ReconfigurePreserves DEF Drain
<1>2. CASE ~Drained(inFlight - 1)
  <2>1. /\ slot' = [slot EXCEPT ![x] = "unarmed"]
        /\ inFlight' = inFlight - 1
        /\ UNCHANGED <<stage, draining, pending, hwRate, devRate, ringRate, coreRate, stop, loopStop>>
    BY <1>2 DEF Drain
  <2>2. /\ slot' \in [Slots -> States]
        /\ Cardinality(Armed') = Cardinality(Armed) - 1
    BY <2>1, RetireOne DEF IInv
  <2>3. inFlight = Cardinality(Armed) /\ inFlight - 1 > 0
    BY <1>2 DEF Drained, IInv, Counted, Looping, TypeOK
  <2>4. Armed' # {}
    BY <2>2, <2>3, FS_EmptySet
  <2>5. TypeOK'
    BY <2>1, <2>2, <2>3 DEF IInv, TypeOK, RateTypes
  <2> QED
    BY <2>1, <2>2, <2>3, <2>4, <2>5
    DEF Looping, IInv, NotYetArmed, Counted, Capturing, LoopState, DrainHasCallback
<1> QED
  BY <1>1, <1>2

\* A request is retired by an engine that stops, or has been told to.
LEMMA RetirePreserves ==
    ASSUME IInv, Looping, ~draining, NEW x \in Slots, slot[x] # "unarmed", Retire(x),
           stop' = TRUE, loopStop' \in BOOLEAN,
           UNCHANGED <<stage, draining, pending, hwRate, devRate, ringRate, coreRate>>
    PROVE  IInv'
<1>1. /\ slot' \in [Slots -> States]
      /\ Cardinality(Armed') = Cardinality(Armed) - 1
      /\ Cardinality(Armed) >= 1
  BY RetireOne DEF IInv, Retire
<1>2. inFlight = Cardinality(Armed) /\ inFlight' = inFlight - 1
  BY DEF IInv, Counted, Looping, Retire
<1>3. TypeOK'
  BY <1>1, <1>2, ArmedCount DEF IInv, TypeOK, RateTypes
<1> QED
  BY <1>1, <1>2, <1>3
  DEF Looping, IInv, NotYetArmed, Counted, Capturing, LoopState, DrainHasCallback

\* Arming a request again, or failing to.
LEMMA RearmPreserves ==
    ASSUME IInv, Looping, ~draining, NEW x \in Slots, slot[x] # "unarmed", Rearm(x),
           UNCHANGED <<stage, draining, pending, hwRate, devRate, ringRate, coreRate>>
    PROVE  IInv'
<1>1. CASE /\ slot' = [slot EXCEPT ![x] = "flying"] /\ inFlight' = inFlight
           /\ UNCHANGED <<stop, loopStop>>
  <2>1. slot' \in [Slots -> States] /\ Armed' = Armed
    BY <1>1, KeepOne DEF IInv
  <2>2. TypeOK'
    BY <1>1, <2>1 DEF IInv, TypeOK, RateTypes
  <2> QED
    BY <1>1, <2>1, <2>2
    DEF Looping, IInv, NotYetArmed, Counted, Capturing, LoopState, DrainHasCallback
<1>2. CASE Retire(x) /\ x \in Ins /\ stop' = TRUE /\ loopStop' = TRUE
  BY <1>2, RetirePreserves
<1>3. CASE Retire(x) /\ x \notin Ins /\ UNCHANGED <<stop, loopStop>>
  <2>1. /\ slot' \in [Slots -> States]
        /\ Armed' = Armed \ {x}
        /\ Cardinality(Armed') = Cardinality(Armed) - 1
        /\ Cardinality(Armed) >= 1
    BY <1>3, RetireOne DEF IInv, Retire
  <2>2. inFlight = Cardinality(Armed) /\ inFlight' = inFlight - 1
    BY <1>3 DEF IInv, Counted, Looping, Retire
  <2>3. TypeOK'
    BY <1>3, <2>1, <2>2, ArmedCount DEF IInv, TypeOK, RateTypes
  <2> QED
    BY <1>3, <2>1, <2>2, <2>3
    DEF Looping, IInv, NotYetArmed, Counted, Capturing, LoopState, DrainHasCallback
<1> QED
  BY <1>1, <1>2, <1>3 DEF Rearm, Retire, IInv, TypeOK

LEMMA CallbackPreserves ==
    ASSUME IInv, NEW x \in Slots, InDone(x) \/ OutDone(x)
    PROVE  IInv'
<1>1. Looping /\ slot[x] # "unarmed"
  BY DEF InDone, OutDone
<1>2. CASE draining
  BY <1>1, <1>2, DrainPreserves DEF InDone, OutDone
<1>3. CASE ~draining /\ CaptureFailed(x)
           /\ UNCHANGED <<stage, draining, pending, hwRate, devRate, ringRate, coreRate>>
  BY <1>1, <1>3, RetirePreserves DEF CaptureFailed
<1>4. CASE ~draining /\ stop /\ Retire(x) /\ UNCHANGED <<stop, loopStop>>
           /\ UNCHANGED <<stage, draining, pending, hwRate, devRate, ringRate, coreRate>>
  BY <1>1, <1>4, RetirePreserves DEF IInv, TypeOK
<1>5. CASE ~draining /\ Rearm(x)
           /\ UNCHANGED <<stage, draining, pending, hwRate, devRate, ringRate, coreRate>>
  BY <1>1, <1>5, RearmPreserves
<1> QED
  BY Zenon, <1>2, <1>3, <1>4, <1>5 DEF InDone, OutDone

-----------------------------------------------------------------------------
(* Every step preserves the invariant.                                     *)

LEMMA NextPreserves == IInv /\ [Next]_vars => IInv'
<1> SUFFICES ASSUME IInv, [Next]_vars PROVE IInv'
  OBVIOUS
<1> USE DEF IInv, NotYetArmed, Counted, Capturing, LoopState, DrainHasCallback
<1>1. CASE AdoptRate
  BY <1>1, EngineAssumption DEF AdoptRate, TypeOK, RateTypes, DeviceRates, Armed, CoreRates
<1>2. CASE PublishRate
  BY <1>2 DEF PublishRate, TypeOK, RateTypes, Armed
<1>3. CASE Prime
  <2>1. ArmAll(FALSE)
    BY <1>3 DEF Prime
  <2>2. /\ slot' \in [Slots -> States]
        /\ inFlight' = Cardinality(Armed')
        /\ stop' \/ Ins \subseteq Armed'
    BY <2>1, ArmAllCounts
  <2>3. stop' \in BOOLEAN /\ loopStop' \in BOOLEAN /\ (loopStop' => stop')
    BY Zenon, <2>1, ArmAllFlags DEF TypeOK
  <2>4. Cardinality(Armed') \in Nat
    BY <2>2, SlotsFinite, FS_Subset, FS_CardinalityType DEF Armed
  <2> QED
    BY <1>3, <2>2, <2>3, <2>4 DEF Prime, TypeOK, RateTypes
<1>4. CASE EnterRunLoop
  BY <1>4 DEF EnterRunLoop, TypeOK, RateTypes, Armed
<1>5. ASSUME NEW x \in Ins, InDone(x) PROVE IInv'
  BY <1>5, CallbackPreserves, SlotsFinite
<1>6. ASSUME NEW x \in Outs, OutDone(x) PROVE IInv'
  BY <1>6, CallbackPreserves, SlotsFinite
<1>7. CASE RateFollow
  BY <1>7, SlotsFinite DEF RateFollow, Looping, TypeOK, RateTypes, Armed
<1>8. CASE Signal
  BY <1>8 DEF Signal, TypeOK, RateTypes, Armed
<1>9. CASE Teardown
  BY <1>9 DEF Teardown, TypeOK, RateTypes, Armed, States
<1>10. CASE Launch
  BY <1>10, FS_EmptySet, EngineAssumption DEF Launch, TypeOK, RateTypes, Armed, CoreRates
<1>11. ASSUME NEW x \in Slots, NEW how \in {"done", "failed"}, CompleteTransfer(x, how) PROVE IInv'
  <2>1. slot' \in [Slots -> States] /\ Armed' = Armed
    BY <1>11, KeepOne DEF CompleteTransfer
  <2> QED
    BY <1>11, <2>1 DEF CompleteTransfer, TypeOK, RateTypes
<1>12. ASSUME NEW rate \in CoreRates, ChooseRate(rate) PROVE IInv'
  BY <1>12 DEF ChooseRate, TypeOK, RateTypes, Armed
<1>13. CASE UNCHANGED vars
  BY <1>13 DEF vars, TypeOK, RateTypes, Armed
<1> QED
  BY <1>1, <1>2, <1>3, <1>4, <1>5, <1>6, <1>7, <1>8, <1>9, <1>10, <1>11, <1>12, <1>13 DEF Next

-----------------------------------------------------------------------------
(* Theorems                                                                *)

\* The invariant holds in every reachable state.
THEOREM EngineInvariance == Spec => []IInv
  BY InitInvariant, NextPreserves, PTL DEF Spec

\* The variables keep their types, whatever stops early and whatever fails.
THEOREM EngineTypeCorrect == Spec => []TypeOK
  BY EngineInvariance, PTL DEF IInv

\* gInFlight counts the requests whose callback has not run.
THEOREM CountIsExact == Spec => []InFlightIsExact
<1>1. IInv => InFlightIsExact
  BY DEF IInv, Counted, InFlightIsExact
<1> QED
  BY <1>1, EngineInvariance, PTL

\* A drain is never stuck without a callback to come.
THEOREM DrainsEnd == Spec => []DrainHasCallback
  BY EngineInvariance, PTL DEF IInv

\* The rate is programmed by the callback of the last request in flight.
THEOREM RateChangesBetweenStreams == Spec => NeverMidStream
<1>1. IInv /\ [Next]_vars
        => [stage = "running" /\ hwRate' # hwRate => Cardinality(Armed) = 1]_vars
  <2> SUFFICES ASSUME IInv, [Next]_vars, stage = "running", hwRate' # hwRate
               PROVE  Cardinality(Armed) = 1
    OBVIOUS
  <2>1. PICK x \in Slots : InDone(x) \/ OutDone(x)
    BY SlotsFinite
    DEF Next, AdoptRate, PublishRate, Prime, EnterRunLoop, RateFollow, Signal, Teardown, Launch,
        CompleteTransfer, ChooseRate, vars
  <2>2. draining /\ Drain(x) /\ Looping /\ slot[x] # "unarmed"
    BY <2>1 DEF InDone, OutDone
  <2>3. inFlight - 1 <= 0
    BY <2>2 DEF Drain, Drained
  <2>4. inFlight = Cardinality(Armed) /\ Armed # {}
    BY <2>2 DEF IInv, Counted, Looping, Armed
  <2> QED
    BY <2>3, <2>4, ArmedCount, FS_EmptySet
<1> QED
  BY <1>1, EngineInvariance, PTL DEF Spec, NeverMidStream

-----------------------------------------------------------------------------
(* The engine implements StreamSwitch.                                     *)

\* There are two requests of each number, so never more of them are armed.
LEMMA ArmedBound == ASSUME NEW A, A \subseteq Slots PROVE Cardinality(A) \in 0..2 * Requests
<1>1. IsFiniteSet(1..Requests) /\ Cardinality(1..Requests) = Requests
  BY FS_Interval, EngineAssumption
<1>2. /\ IsFiniteSet({"in"}) /\ Cardinality({"in"}) = 1
      /\ IsFiniteSet({"out"}) /\ Cardinality({"out"}) = 1
  BY FS_Singleton
<1>3. /\ IsFiniteSet(Ins) /\ Cardinality(Ins) = 1 * Requests
      /\ IsFiniteSet(Outs) /\ Cardinality(Outs) = 1 * Requests
  <2>1. /\ IsFiniteSet(Ins) /\ Cardinality(Ins) = Cardinality({"in"}) * Cardinality(1..Requests)
        /\ IsFiniteSet(Outs) /\ Cardinality(Outs) = Cardinality({"out"}) * Cardinality(1..Requests)
    BY <1>1, <1>2, FS_Product, Zenon DEF Ins, Outs
  <2> QED
    BY <1>1, <1>2, <2>1
<1>4. Cardinality(Slots) = Cardinality(Ins) + Cardinality(Outs) - Cardinality(Ins \cap Outs)
  BY <1>3, FS_Union DEF Slots
<1>5. Cardinality(Ins \cap Outs) \in Nat
  BY <1>3, FS_Intersection, FS_CardinalityType
<1>6. Cardinality(A) \in Nat /\ Cardinality(A) <= Cardinality(Slots)
  BY SlotsFinite, FS_Subset, FS_CardinalityType
<1> QED
  BY <1>3, <1>4, <1>5, <1>6, EngineAssumption

LEMMA SwitchInit == Init => Switch!Init
<1> SUFFICES ASSUME Init PROVE Switch!Init
  OBVIOUS
<1>1. Armed = {}
  BY DEF Init, Armed
<1> QED
  BY <1>1, FS_EmptySet, EngineAssumption DEF Init, Switch!Init, Mode, CoreRates

\* A step that leaves the mode, the rates and the number of armed requests
\* alone is a stutter of the switch.
LEMMA SwitchStutters ==
    ASSUME Mode' = Mode, hwRate' = hwRate, Mode = "draining" => pending' = pending,
           Cardinality(Armed') = Cardinality(Armed)
    PROVE  UNCHANGED Switch!switchVars
  BY DEF Switch!switchVars

LEMMA DrainImplements ==
    ASSUME IInv, Looping, draining, NEW x \in Slots, slot[x] # "unarmed", Drain(x)
    PROVE  Switch!Next
<1>1. /\ stage = "running" /\ Mode = "draining"
      /\ inFlight = Cardinality(Armed) /\ Cardinality(Armed) \in Nat
  BY ArmedCount DEF Looping, Mode, IInv, Counted
<1>2. x \in Armed /\ Cardinality(Armed) # 0
  <2>1. x \in Armed
    BY DEF Armed
  <2> QED
    BY <2>1, ArmedCount, FS_EmptySet
<1>3. CASE Drained(inFlight - 1)
  <2>1. Reconfigure /\ Cardinality(Armed) = 1
    BY <1>1, <1>2, <1>3 DEF Drain, Drained
  <2>2. Mode' = "streaming" /\ hwRate' = pending /\ ArmAll(TRUE)
    BY <1>1, <2>1 DEF Reconfigure, Mode
  <2>3. Cardinality(Armed') \in 0..2 * Requests
    BY ArmedBound DEF Armed
  <2>4. Switch!Restart
    BY <1>1, <2>1, <2>2, <2>3 DEF Switch!Restart
  <2> QED
    BY <2>4 DEF Switch!Next
<1>4. CASE ~Drained(inFlight - 1)
  <2>1. /\ slot' = [slot EXCEPT ![x] = "unarmed"]
        /\ UNCHANGED <<stage, draining, pending, hwRate>>
    BY <1>4 DEF Drain
  <2>2. Cardinality(Armed') = Cardinality(Armed) - 1 /\ Mode' = Mode
    BY <2>1, RetireOne DEF IInv, Mode
  <2>3. Cardinality(Armed) > 1
    BY <1>1, <1>4 DEF Drained
  <2>4. Switch!Finish
    BY <1>1, <2>1, <2>2, <2>3 DEF Switch!Finish
  <2> QED
    BY <2>4 DEF Switch!Next
<1> QED
  BY <1>3, <1>4

LEMMA CallbackImplements ==
    ASSUME IInv, NEW x \in Slots, InDone(x) \/ OutDone(x)
    PROVE  Switch!Next
<1>1. Looping /\ slot[x] # "unarmed"
  BY DEF InDone, OutDone
<1>2. CASE draining
  BY <1>1, <1>2, DrainImplements DEF InDone, OutDone
<1>3. CASE ~draining
  <2>1. UNCHANGED <<stage, draining, pending, hwRate>> /\ Mode = "streaming" /\ Mode' = Mode
    BY <1>1, <1>3 DEF InDone, OutDone, Looping, Mode
  <2>2. Retire(x) \/ Rearm(x)
    BY <1>3 DEF InDone, OutDone, CaptureFailed
  <2>3. CASE slot' = [slot EXCEPT ![x] = "flying"]
    <3>1. Armed' = Armed
      BY <1>1, <2>3, KeepOne DEF IInv
    <3>2. Switch!Transfer
      BY <2>1, <3>1, ArmedCount DEF Switch!Transfer
    <3> QED
      BY <3>2 DEF Switch!Next
  <2>4. CASE slot' = [slot EXCEPT ![x] = "unarmed"]
    <3>1. /\ Cardinality(Armed') = Cardinality(Armed) - 1
          /\ Cardinality(Armed) >= 1
      BY <1>1, <2>4, RetireOne DEF IInv
    <3>2. Switch!Transfer
      BY <2>1, <3>1, ArmedCount DEF Switch!Transfer
    <3> QED
      BY <3>2 DEF Switch!Next
  <2> QED
    BY <2>2, <2>3, <2>4 DEF Retire, Rearm
<1> QED
  BY <1>2, <1>3

LEMMA SwitchNext == IInv /\ [Next]_vars => [Switch!Next]_(Switch!switchVars)
<1> SUFFICES ASSUME IInv, [Next]_vars PROVE Switch!Next \/ UNCHANGED Switch!switchVars
  OBVIOUS
<1>1. CASE AdoptRate
  <2>1. Mode = "off" /\ Mode' = "off" /\ Armed' = Armed /\ hwRate' \in CoreRates
    BY <1>1, EngineAssumption DEF AdoptRate, Mode, Armed, IInv, TypeOK, RateTypes, CoreRates
  <2>2. Switch!Configure
    BY <2>1 DEF Switch!Configure
  <2> QED
    BY <2>2 DEF Switch!Next
<1>2. CASE PublishRate
  BY <1>2, SwitchStutters DEF PublishRate, Mode, Armed
<1>3. CASE Prime
  <2>1. Mode = "off" /\ Mode' = "streaming" /\ hwRate' = hwRate
    BY <1>3 DEF Prime, Mode, IInv, LoopState
  <2>2. Cardinality(Armed') \in 0..2 * Requests
    BY ArmedBound DEF Armed
  <2>3. Switch!Start
    BY <2>1, <2>2 DEF Switch!Start
  <2> QED
    BY <2>3 DEF Switch!Next
<1>4. CASE EnterRunLoop
  BY <1>4, SwitchStutters DEF EnterRunLoop, Mode, Armed
<1>5. ASSUME NEW x \in Ins, InDone(x) PROVE Switch!Next
  BY <1>5, CallbackImplements, SlotsFinite
<1>6. ASSUME NEW x \in Outs, OutDone(x) PROVE Switch!Next
  BY <1>6, CallbackImplements, SlotsFinite
<1>7. CASE RateFollow
  <2>1. /\ Mode = "streaming" /\ Mode' = "draining" /\ Armed' = Armed
        /\ pending' \in Rates \ {hwRate} /\ hwRate' = hwRate
    BY <1>7 DEF RateFollow, Looping, Mode, Armed
  <2>2. Switch!BeginDrain
    BY <2>1 DEF Switch!BeginDrain
  <2> QED
    BY <2>2 DEF Switch!Next
<1>8. CASE Signal
  BY <1>8, SwitchStutters DEF Signal, Mode, Armed
<1>9. CASE Teardown
  <2>1. Mode # "off" /\ Mode' = "off" /\ Armed' = {} /\ hwRate' = hwRate
    BY <1>9 DEF Teardown, Mode, Armed
  <2>2. Switch!Halt
    BY <2>1, FS_EmptySet DEF Switch!Halt
  <2> QED
    BY <2>2 DEF Switch!Next
<1>10. CASE Launch
  <2>1. Mode = "off" /\ Mode' = "off" /\ Armed' = Armed /\ hwRate' \in CoreRates
    BY <1>10, EngineAssumption DEF Launch, Mode, Armed, CoreRates
  <2>2. Switch!Configure
    BY <2>1 DEF Switch!Configure
  <2> QED
    BY <2>2 DEF Switch!Next
<1>11. ASSUME NEW x \in Slots, NEW how \in {"done", "failed"}, CompleteTransfer(x, how)
       PROVE  UNCHANGED Switch!switchVars
  <2>1. Armed' = Armed
    BY <1>11, KeepOne DEF CompleteTransfer, IInv
  <2> QED
    BY <1>11, <2>1, SwitchStutters DEF CompleteTransfer, Mode
<1>12. ASSUME NEW rate \in CoreRates, ChooseRate(rate) PROVE UNCHANGED Switch!switchVars
  BY <1>12, SwitchStutters DEF ChooseRate, Mode, Armed
<1>13. CASE UNCHANGED vars
  BY <1>13, SwitchStutters DEF vars, Mode, Armed
<1> QED
  BY <1>1, <1>2, <1>3, <1>4, <1>5, <1>6, <1>7, <1>8, <1>9, <1>10, <1>11, <1>12, <1>13 DEF Next

\* The engine is a StreamSwitch: with every failure, signal and relaunch, the
\* rate of a running stream changes only by a drain and by its last transfer.
THEOREM EngineImplementsSwitch == Spec => SwitchSpec
  BY SwitchInit, SwitchNext, EngineInvariance, PTL DEF Spec, SwitchSpec, Switch!Spec
=============================================================================
