----------------------------- MODULE RigSchema -----------------------------
(***************************************************************************)
(* What Tools/errig_read.c knows of the settings of a rig: which keys each *)
(* effect has, how a value is displayed, and the unit, range and curve     *)
(* that the catalog gives for it.  The code keeps these in five functions, *)
(* each with its own list of effects and keys; here each is a table, a set *)
(* of rows [effects, keys, ...].  Names and wording are left out, and the  *)
(* blanks that fill a key up to four letters.  End points are in           *)
(* hundredths of their unit, us and ms alike in ms.                        *)
(***************************************************************************)
EXTENDS Integers, Sequences

-----------------------------------------------------------------------------
\* Families of effects: the ids of one visible model, and groups of models.
AmpCab == {12}
VolumePedal == {38, 72}
BlackpanelSpring == {37, 47}
ElevenSR == {51, 52, 53}
BBDDelay == {27, 48}
TapeEcho == {28, 49}
DynDelay == {80, 81, 82}
GraphicEQ == {33, 50}
ParametricEQ == {78, 79}
Dyn3 == {85, 86}
OrangePhaser == {34, 71}
VibePhaser == {35, 46}
Flanger == {69, 70}
ChorusVibrato == {11, 39, 40}
MultiChorus == {88, 89, 90}
RotoSpeaker == {75, 76, 77}
FXLoop == {14, 15, 16, 17, 56, 57, 73}
Wahs == {36, 55}
Drives == {29, 30, 31, 87, 91}
GrayCompressor == {32}

\* The ids that effect_name shows under one name.
Models ==
    {AmpCab, VolumePedal, BlackpanelSpring, ElevenSR, BBDDelay, TapeEcho,
     DynDelay, GraphicEQ, ParametricEQ, Dyn3, OrangePhaser, VibePhaser,
     Flanger, ChorusVibrato, MultiChorus, RotoSpeaker, FXLoop,
     GrayCompressor} \cup {{id} : id \in Wahs \cup Drives}

Effects == UNION Models

-----------------------------------------------------------------------------
\* The keys that parameter_name has a name for.
KnownKeys ==
    {[effects |-> AmpCab, keys |->
        {"sld1", "sld2", "sld3", "sld4", "sld5", "sld6", "sldJ", "sldK", "sldL",
         "sldM", "sldN", "Sync", "TrOn", "sld7", "sld8", "sld9", "sldA", "sldB",
         "sldC", "sldD", "sldE", "sldF", "sldG", "sldO"}],
     [effects |-> VolumePedal, keys |-> {"Vol", "Min", "Tapr"}],
     [effects |-> Wahs, keys |-> {"Filt", "VxCr"}],
     [effects |-> Drives, keys |-> {"Driv", "Tone", "Levl", "Treb", "Bass"}],
     [effects |-> ParametricEQ, keys |->
        {"B1Gn", "B1Fr", "B1Q", "B1Ty", "B2Gn", "B2Fr", "B2Q", "B3Gn", "B3Fr",
         "B3Q", "B4Gn", "B4Fr", "B4Q", "B4Ty", "Out"}],
     [effects |-> Dyn3, keys |-> {"sldC", "sld1", "sld3", "sld2", "sldG", "sldD"}],
     [effects |-> MultiChorus, keys |->
        {"Rate", "Sync", "Dpth", "Mix", "PDly", "Voic", "LoCt", "Wdth", "Wave"}],
     [effects |-> DynDelay, keys |->
        {"Dly", "Fdbk", "DMix", "Sync", "Mode", "Rtio", "Wdth", "HiCt", "LoCt",
         "EnRt", "EnFb", "EnMx"}],
     [effects |-> ElevenSR, keys |-> {"Dcay", "Tone", "RMix", "Type", "PDly"}],
     [effects |-> FXLoop, keys |-> {"send", "rtrn", "wetp"}],
     [effects |-> ChorusVibrato, keys |-> {"ChIn", "VbRt", "VbDp", "Mode", "Sync"}],
     [effects |-> BBDDelay, keys |->
        {"Dly", "Blnd", "Fdbk", "InLv", "ChVb", "Dpth", "4X", "Nois", "Sync"}],
     [effects |-> TapeEcho, keys |->
        {"EDly", "Sust", "Vol", "Rec", "Tilt", "Wow", "4X", "Hiss", "Sync"}],
     [effects |-> GrayCompressor, keys |-> {"Sust", "Levl"}],
     [effects |-> GraphicEQ, keys |->
        {"LwSh", "LMGn", "MGn", "HMGn", "HiSh", "Out"}],
     [effects |-> OrangePhaser, keys |-> {"Sped", "Sync"}],
     [effects |-> VibePhaser, keys |-> {"Levl", "Intn", "Sped", "Chor", "Sync"}],
     [effects |-> BlackpanelSpring, keys |-> {"Dcay", "Tone", "RMix"}],
     [effects |-> Flanger, keys |-> {"PDly", "Dpth", "Sped", "Fdbk", "Sync"}],
     [effects |-> RotoSpeaker, keys |-> {"Sped", "Blnc", "Type"}]}

AllKeys == UNION {row.keys : row \in KnownKeys}

KeysOf(effect) ==
    {"bypa"} \cup UNION {row.keys : row \in {r \in KnownKeys : effect \in r.effects}}

GlobalKeys ==
    {"RVol", "RMno", "Tmpo", "PIGI", "ExpT", "WorB", "GlSF", "Msyc", "RslL",
     "FXc1", "FXc2", "FXc3", "FXc4", "Vol1", "Vol2"}

SlotIds == {"C", "D", "E", "F", "G", "H", "I", "J", "K", "L"}

\* The keys of the table of contents that name a slot's effect and category.
EffectKey ==
    [C |-> "WorC", D |-> "WorD", E |-> "WorE", F |-> "WorF", G |-> "WorG",
     H |-> "WorH", I |-> "WorI", J |-> "WorJ", K |-> "WorK", L |-> "WorL"]
CategoryKey ==
    [C |-> "WstC", D |-> "WstD", E |-> "WstE", F |-> "WstF", G |-> "WstG",
     H |-> "WstH", I |-> "WstI", J |-> "WstJ", K |-> "WstK", L |-> "WstL"]
SlotTableKeys == {EffectKey[id] : id \in SlotIds} \cup {CategoryKey[id] : id \in SlotIds}

-----------------------------------------------------------------------------
IsTenScale(effect, key) ==
    \/ /\ effect \in AmpCab
       /\ key \in {"sld7", "sld8", "sld9", "sldA", "sldB", "sldC", "sldD", "sldF",
                   "sldG", "sldN", "sldO"}
    \/ /\ effect \in Drives \cup GrayCompressor \cup OrangePhaser \cup Flanger \cup {35}
       /\ key \notin {"bypa", "Sync", "Chor"}
    \/ effect \in ChorusVibrato /\ key \in {"ChIn", "VbRt", "VbDp"}
    \/ effect \in BBDDelay /\ key \in {"InLv", "Dpth"}
    \/ effect \in TapeEcho /\ key \in {"Rec", "Tilt", "Wow"}
    \/ effect \in BlackpanelSpring \cup ElevenSR /\ key \in {"Dcay", "Tone"}

\* Mutation: a sibling of the Volume Pedal forgotten.
IsPercentForgets(effect, key) ==
    \/ effect \in FXLoop /\ key = "wetp"
    \/ effect = 38 /\ key \in {"Vol", "Min"}

IsPercent(effect, key) ==
    \/ effect \in FXLoop /\ key = "wetp"
    \/ effect \in BBDDelay /\ key \in {"Blnd", "Fdbk"}
    \/ effect \in TapeEcho /\ key \in {"Vol", "Sust"}
    \/ effect \in BlackpanelSpring \cup ElevenSR /\ key = "RMix"
    \/ effect \in VolumePedal /\ key \in {"Vol", "Min"}
    \/ effect \in Wahs /\ key = "Filt"
    \/ effect \in RotoSpeaker /\ key = "Blnc"

IsDiscrete(effect, key) ==
    \/ key \in {"bypa", "RMno", "PIGI", "ExpT", "FXc1", "FXc2", "FXc3", "FXc4",
                "GlSF", "Msyc", "WorB", "WstB", "WoLS", "Tapr", "4X", "ChVb",
                "Chor", "VxCr", "Nois", "Hiss", "Sped", "Sync", "Mode", "Type",
                "Voic", "Wave", "B1Ty", "B4Ty"} \cup SlotTableKeys
    \/ /\ effect \in AmpCab
       /\ key \in {"sld1", "sld5", "sld6", "sldE", "TrOn", "sldJ", "sldK", "sldL",
                   "sldM"}

-----------------------------------------------------------------------------
\* What a column says: a unit, the values at the two ends of the stored word,
\* and how the values between them are spaced.
Scale(unit, low, high, curve) ==
    [unit |-> unit, low |-> low, high |-> high, curve |-> curve]

\* A name or a bare number; and a position between ends nobody has verified.
Enumerated == Scale("none", 0, 0, "enum")
Normalized == Scale("%", 0, 10000, "unverified")

AmpCodes ==
    0..15 \cup {-2147483647 - 1, -1861152495, -1574821342, -1288490189,
        -1002159036, -715827883, -429496730, -143165577, 143165576, 429496729,
        715827882, 1002159035, 1095980628, 1112957526, 1112764530, 1129136945,
        1129726769, 1128428337, 1128940365, 1145261362, 1145263666, 1247032373,
        1288490188, 1296315184, 1345663095, 1349277298, 1447258221, 1481917250,
        1481917255, 1481917266, 1574821341, 1861152494, 2147483647}

CabinetCodes ==
    0..15 \cup {\h4A53584D, \h4A617A7A, \h32783330, \h34435453, \h34783230,
                \h34783635, \h38535654}

\* The values that format_setting_value shows as a name.
Named(effect, key, value) ==
    \/ key = "WorB" /\ value \in {18, 20, 21, 22, 23, 60, 61, 63, 64}
    \/ key = "PIGI" /\ value \in 0..11 \cup {125, 126}
    \/ key = "ExpT" /\ value \in 0..4
    \/ key = "Sync" /\ value \in 0..13
    \/ key = "bypa"
    \/ /\ effect \in AmpCab
       /\ \/ key = "sld6" /\ value \in AmpCodes
          \/ key = "sldK" /\ value \in CabinetCodes
          \/ key = "sldL" /\ value \in 0..7
          \/ key \in {"sldM", "sld5", "sldJ", "sldE", "TrOn"}
    \/ effect \in DynDelay /\ key = "Mode" /\ value \in 0..3
    \/ effect \in ChorusVibrato /\ key = "Mode" /\ value \in 0..1
    \/ effect \in BBDDelay /\ key = "ChVb" /\ value \in 0..1
    \/ effect \in BBDDelay \cup TapeEcho /\ key \in {"4X", "Nois", "Hiss"} /\ value \in 0..1
    \/ effect \in RotoSpeaker /\ key = "Sped" /\ value \in 0..2
    \/ effect \in RotoSpeaker /\ key = "Type" /\ value \in 0..8
    \/ effect \in VolumePedal /\ key = "Tapr"
    \/ effect \in MultiChorus /\ key = "Wave"
    \/ effect \in ParametricEQ /\ key \in {"B1Ty", "B4Ty"} /\ value \in 0..5
    \/ effect \in ElevenSR /\ key = "Type" /\ value \in 0..24

\* The conversions of format_setting_value with a unit of their own.
Conversions ==
    {[effects |-> GraphicEQ, keys |-> {"LwSh", "HiSh"}, scale |-> Scale("dB", -1200, 1200, "linear")],
     [effects |-> GraphicEQ, keys |-> {"LMGn", "MGn", "HMGn"}, scale |-> Scale("dB", -1800, 1800, "linear")],
     [effects |-> GraphicEQ, keys |-> {"Out"}, scale |-> Scale("dB", -2000, 600, "linear")],
     [effects |-> Dyn3, keys |-> {"sldC"}, scale |-> Scale("dB", -6000, 0, "linear")],
     [effects |-> Dyn3, keys |-> {"sld1"}, scale |-> Scale("ms", 1, 30000, "log")],
     [effects |-> Dyn3, keys |-> {"sld3"}, scale |-> Scale("ms", 500, 400000, "log")],
     [effects |-> Dyn3, keys |-> {"sld2"}, scale |-> Scale("ratio", 100, 10000, "log")],
     [effects |-> Dyn3, keys |-> {"sldG"}, scale |-> Scale("dB", 0, 3000, "linear")],
     [effects |-> Dyn3, keys |-> {"sldD"}, scale |-> Scale("dB", 0, 4000, "linear")],
     [effects |-> DynDelay, keys |-> {"Dly"}, scale |-> Scale("ms", 100, 400000, "linear")],
     [effects |-> DynDelay, keys |-> {"Rtio"}, scale |-> Scale("L:R", 50, 200, "linear")],
     [effects |-> DynDelay, keys |-> {"EnFb", "EnMx"}, scale |-> Scale("%", -10000, 10000, "linear")],
     [effects |-> DynDelay, keys |-> {"Fdbk", "DMix", "Wdth", "EnRt"}, scale |-> Scale("%", 0, 10000, "linear")],
     [effects |-> MultiChorus, keys |-> {"Rate"}, scale |-> Scale("Hz", 1, 1000, "log")],
     [effects |-> MultiChorus, keys |-> {"Dpth", "PDly"}, scale |-> Scale("ms", 0, 2400, "linear")],
     [effects |-> MultiChorus, keys |-> {"Mix", "Wdth"}, scale |-> Scale("%", 0, 10000, "linear")],
     [effects |-> MultiChorus, keys |-> {"LoCt"}, scale |-> Scale("Hz", 2000, 100000, "log")]}

RowsFor(table, effect, key) == {row \in table : effect \in row.effects /\ key \in row.keys}
TheRow(rows) == CHOOSE row \in rows : TRUE

\* format_setting_value: what the display column shows the value on.
Display(effect, key, value) ==
    IF key = "RVol" THEN Scale("dB", -2400, 0, "linear")
    ELSE IF key = "Tmpo" THEN Scale("BPM", 0, 0, "linear")
    ELSE IF Named(effect, key, value) \/ IsDiscrete(effect, key) THEN Enumerated
    ELSE IF IsTenScale(effect, key) THEN Scale("0-10", 0, 1000, "linear")
    ELSE IF IsPercent(effect, key) THEN Scale("%", 0, 10000, "linear")
    ELSE LET rows == RowsFor(Conversions, effect, key)
         IN  IF rows = {} THEN Normalized ELSE TheRow(rows).scale

-----------------------------------------------------------------------------
\* parameter_unit
Units ==
    {[effects |-> GraphicEQ, keys |-> AllKeys, unit |-> "dB"],
     [effects |-> Dyn3, keys |-> {"sldC", "sldG", "sldD"}, unit |-> "dB"],
     [effects |-> Dyn3, keys |-> {"sld1", "sld3"}, unit |-> "ms"],
     [effects |-> Dyn3, keys |-> {"sld2"}, unit |-> "ratio"],
     [effects |-> DynDelay, keys |-> {"Dly"}, unit |-> "ms"],
     [effects |-> DynDelay, keys |-> {"HiCt", "LoCt"}, unit |-> "Hz"],
     [effects |-> DynDelay, keys |-> {"Rtio"}, unit |-> "L:R"],
     [effects |-> DynDelay, keys |-> {"Fdbk", "DMix", "Wdth", "EnRt", "EnFb", "EnMx"}, unit |-> "%"],
     [effects |-> MultiChorus, keys |-> {"Rate", "LoCt"}, unit |-> "Hz"],
     [effects |-> MultiChorus, keys |-> {"Dpth", "PDly"}, unit |-> "ms"],
     [effects |-> MultiChorus, keys |-> {"Mix", "Wdth"}, unit |-> "%"],
     [effects |-> ElevenSR, keys |-> {"PDly"}, unit |-> "ms"]}

UnitOf(effect, key) ==
    IF key = "RVol" THEN "dB"
    ELSE IF key = "Tmpo" THEN "BPM"
    ELSE IF IsTenScale(effect, key) THEN "0-10"
    ELSE IF IsPercent(effect, key) THEN "%"
    ELSE LET rows == RowsFor(Units, effect, key)
         IN  IF rows = {} THEN "none" ELSE TheRow(rows).unit

\* Mutation: the middle bands are given the range of the shelves.
RangesOfShelves ==
    {[effects |-> GraphicEQ, keys |-> {"LwSh", "HiSh", "LMGn", "MGn", "HMGn"},
      ends |-> <<-1200, 1200>>]}

\* parameter_range: the two ends, or nothing.
Ranges ==
    {[effects |-> GraphicEQ, keys |-> {"LwSh", "HiSh"}, ends |-> <<-1200, 1200>>],
     [effects |-> GraphicEQ, keys |-> {"LMGn", "MGn", "HMGn"}, ends |-> <<-1800, 1800>>],
     [effects |-> GraphicEQ, keys |-> {"Out"}, ends |-> <<-2000, 600>>],
     [effects |-> Dyn3, keys |-> {"sldC"}, ends |-> <<-6000, 0>>],
     [effects |-> Dyn3, keys |-> {"sld1"}, ends |-> <<1, 30000>>],
     [effects |-> Dyn3, keys |-> {"sld3"}, ends |-> <<500, 400000>>],
     [effects |-> Dyn3, keys |-> {"sld2"}, ends |-> <<100, 10000>>],
     [effects |-> Dyn3, keys |-> {"sldG"}, ends |-> <<0, 3000>>],
     [effects |-> Dyn3, keys |-> {"sldD"}, ends |-> <<0, 4000>>],
     [effects |-> DynDelay, keys |-> {"Dly"}, ends |-> <<100, 400000>>],
     [effects |-> DynDelay, keys |-> {"Fdbk", "DMix", "Wdth", "EnRt"}, ends |-> <<0, 10000>>],
     [effects |-> DynDelay, keys |-> {"EnFb", "EnMx"}, ends |-> <<-10000, 10000>>],
     [effects |-> DynDelay, keys |-> {"Rtio"}, ends |-> <<50, 200>>],
     [effects |-> MultiChorus, keys |-> {"Rate"}, ends |-> <<1, 1000>>],
     [effects |-> MultiChorus, keys |-> {"Dpth", "PDly"}, ends |-> <<0, 2400>>],
     [effects |-> MultiChorus, keys |-> {"Mix", "Wdth"}, ends |-> <<0, 10000>>],
     [effects |-> MultiChorus, keys |-> {"LoCt"}, ends |-> <<2000, 100000>>]}

RangeOf(effect, key) ==
    IF key = "RVol" THEN <<-2400, 0>>
    ELSE IF key = "Tmpo" THEN <<0, 0>>      \* "hardware tempo range"
    ELSE IF IsTenScale(effect, key) THEN <<0, 1000>>
    ELSE IF IsPercent(effect, key) THEN <<0, 10000>>
    ELSE LET rows == RowsFor(Ranges, effect, key)
         IN  IF rows = {} THEN <<>> ELSE TheRow(rows).ends

\* parameter_curve
CurveOf(effect, key) ==
    IF IsDiscrete(effect, key) THEN "enum"
    ELSE IF \/ effect \in Dyn3 /\ key \in {"sld1", "sld2", "sld3"}
            \/ effect \in MultiChorus /\ key \in {"Rate", "LoCt"}
         THEN "log"
    ELSE IF RangeOf(effect, key) # <<>> THEN "linear" ELSE "unverified"

-----------------------------------------------------------------------------
\* The last four columns of a row of settings.csv.  Globals have the effect 0
\* there (and -1 where they are displayed): neither is in any family.
Columns(effect, key, value) ==
    [display |-> Display(effect, key, value), unit |-> UnitOf(effect, key),
     range |-> RangeOf(effect, key), curve |-> CurveOf(effect, key)]

=============================================================================
