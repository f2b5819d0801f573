---------------------------- MODULE MCRigTools ----------------------------
\* The command line tools that share no state, in one run: RigExport, RigDecode
\* and MidiBridge, each with small inputs.  A behaviour runs one of them, chosen
\* at the start.
EXTENDS RigExport, RigDecode, MidiTraffic, BridgeState

CONSTANTS Strays, Room, Lists, Sayings, MaxLine

VARIABLE tool

bridgeVars == <<main, gStop, stopped, usb, client, reader, sender, events, gWriteLock,
                line, sent, heard, said, received>>

Bridge == INSTANCE MidiBridge

ASSUME SmallTraffic == Bridge!TrafficIsWhole

Module(id, effect, category, state, settings) ==
    [id |-> id, effect |-> effect, category |-> category, state |-> state,
     settings |-> settings]

Amp(id, state) == Module(id, 12, 0, state, <<Setting("sld6", 3), Setting("Sync", 1)>>)
Delay(id, state) == Module(id, 80, 6, state, <<Setting("Mode", 1)>>)
Empty(id) == Module(id, 32, 8, "none", <<>>)
Stray(id) == Module(id, 0, 0, "none", <<Setting("bypa", 1)>>)
InTable(modules) == [globals |-> <<Setting("Tmpo", 120), Setting("RVol", 0)>>, modules |-> modules]

\* Modules in and out of order, one bypassed and one not, one without a state,
\* one without settings between others and at the end, and a section that is
\* none of the ten.
SmallRigs ==
    {InTable(modules) : modules \in
        {<<>>, <<Amp("C", "on")>>, <<Amp("C", "off"), Delay("L", "on")>>,
         <<Delay("G", "off"), Stray("M"), Amp("C", "none")>>, <<Empty("C"), Delay("D", "on")>>,
         <<Amp("C", "on"), Empty("D")>>, <<Delay("C", "off"), Delay("D", "on"), Amp("E", "off")>>}}

ASSUME RealRigs == ContentsAreRigs

\* What may follow the sound part of a dump: nothing, a word that does not parse,
\* or words that do, as many as a module's section has, with a bypass among them.
BadWord == [size |-> 3, id |-> "E", key |-> "bypa", value |-> 7]
FairWord == [size |-> 8, id |-> "D", key |-> "bypa", value |-> 1]
SmallRests == {<<>>, <<BadWord>>, [i \in 1..2 |-> FairWord], [i \in 1..8 |-> FairWord]}

\* Every selector with a name is below 126, but for amplifiers and cabinets.
SelectorValues == -1..130 \cup {1112957526, 1245919309}

MCInit == Init /\ DecodeInit /\ Bridge!Init /\ tool \in {"export", "decode", "bridge"}

MCNext ==
    \/ tool = "export" /\ Next /\ UNCHANGED <<tool, given, bridgeVars>>
    \/ tool = "decode" /\ DecodeNext /\ UNCHANGED <<tool, vars, bridgeVars>>
    \/ tool = "bridge" /\ Bridge!Next /\ UNCHANGED <<tool, vars, given>>

MCSpec ==
    /\ MCInit /\ [][MCNext]_<<tool, vars, given, bridgeVars>>
    /\ tool = "bridge" => Bridge!Fairness
=============================================================================
