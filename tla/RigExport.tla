----------------------------- MODULE RigExport -----------------------------
(***************************************************************************)
(* Tools/er_inventory_export.c: one run walks the captures of a directory, *)
(* rig after rig, and writes a row of settings.csv for every setting, with *)
(* the decoder of Tools/errig_read.c.  The inventory tool may be saving    *)
(* captures at the same time.                                              *)
(*                                                                         *)
(* A capture is the sequence of 32-bit words the device packed: nine words *)
(* of header and name, then sections.  The first word of a section has its *)
(* size in bytes and its id; two words, key and value, make a setting.     *)
(* Every offset the decoder comes to is a multiple of four, so the whole   *)
(* words are all it reads.                                                 *)
(***************************************************************************)
EXTENDS RigSchema, FiniteSets, SequencesExt

CONSTANTS
    RigCount,       \* captures of a complete inventory, 208 in the code
    Contents,       \* what the device can hold: a set of rigs, see SectionsOf
    Lost,           \* how many words at the end of a dump may be lost; 0 is none
    Rests           \* what a dump may have in their place: sequences of words

\* A word that nobody packed can be read as anything, in whatever place it is.
AnyWord == [size : Nat, id : STRING, key : STRING, value : Int]

ASSUME ExportAssumption ==
    /\ RigCount \in Nat \ {0}
    /\ Lost \subseteq Nat
    /\ \A rest \in Rests : rest \in Seq(AnyWord)

VARIABLES
    files,          \* the captures: rig -> what is in its file, or None
    next,           \* the rig the export has come to; 0: no export is running
    rows,           \* the rows of settings.csv
    missing,        \* what the export counted as missing or invalid
    status          \* how the last export ended

\* What stands at these places of a sequence, in its order.
Picked(seq, places) ==
    FlattenSeq([i \in DOMAIN seq |-> IF i \in places THEN <<seq[i]>> ELSE <<>>])

vars == <<files, next, rows, missing, status>>

Rigs == 1..RigCount
None == [lost |-> -1]

-----------------------------------------------------------------------------
\* The device: a rig is its global settings and its modules in the order of
\* their sections.  It dumps the table of contents, then the modules.
Setting(key, value) == [key |-> key, value |-> value]

Section(id, settings) ==
    <<[size |-> 8 * Len(settings), id |-> id]>>
        \o FlattenSeq([i \in DOMAIN settings |->
               <<[key |-> settings[i].key], [value |-> settings[i].value]>>])

\* A module that is bypassed says so under a key of its own.
BypassKey(module) == IF module.effect = 12 THEN "sld5" ELSE "bypa"

ModuleSettings(module) ==
    module.settings \o IF module.state = "none" THEN <<>>
        ELSE <<Setting(BypassKey(module), IF module.state = "on" THEN 0 ELSE 1)>>

TableEntries(module) ==
    IF module.id \notin SlotIds THEN <<>>
    ELSE <<Setting(EffectKey[module.id], module.effect),
           Setting(CategoryKey[module.id], module.category)>>

TableOf(rig) == FlattenSeq([i \in DOMAIN rig.modules |-> TableEntries(rig.modules[i])])

SectionsOf(rig) ==
    <<Section("A", rig.globals \o TableOf(rig))>>
        \o [i \in DOMAIN rig.modules |->
               Section(rig.modules[i].id, ModuleSettings(rig.modules[i]))]

Packed(rig) == [i \in 1..9 |-> "header"] \o FlattenSeq(SectionsOf(rig))

\* What came of a dump on its way.  Once a byte of it is lost, added or changed,
\* at any place, the words from there on can be any: ones that do not parse, ones
\* that happen to, or what the device sent.
Dump(capture) ==
    SubSeq(Packed(capture.rig), 1, Len(Packed(capture.rig)) - capture.lost) \o capture.rest

Intact(capture) == capture.lost = 0 /\ capture.rest = <<>>

\* The rigs of the hardware: the module table has one entry for a slot, no other
\* setting is stored under its keys, and a module has its bypass only once.
RigSettings == [key : STRING, value : Int]
RigModules == [id : STRING, effect : Int, category : Int, state : {"none", "on", "off"},
               settings : Seq(RigSettings)]

IsRig(rig) ==
    /\ rig \in [globals : Seq(RigSettings), modules : Seq(RigModules)]
    /\ rig.globals # <<>>
    /\ \A i \in DOMAIN rig.globals : rig.globals[i].key \notin SlotTableKeys
    /\ \A i, j \in DOMAIN rig.modules :
          rig.modules[i].id \in SlotIds /\ rig.modules[i].id = rig.modules[j].id => i = j
    /\ \A i \in DOMAIN rig.modules : rig.modules[i].id \in SlotIds =>
          \A j \in DOMAIN rig.modules[i].settings :
             rig.modules[i].settings[j].key
                 \notin SlotTableKeys \cup {"bypa", BypassKey(rig.modules[i])}

ContentsAreRigs == \A rig \in Contents : IsRig(rig)

-----------------------------------------------------------------------------
\* The decoder.  Offsets and sizes are in bytes; NoSection is a result of 0.
NoSection == [id |-> "none", count |-> 0, start |-> 0, end |-> 0]

ParseSection(raw, offset) ==
    LET length == 4 * Len(raw)
        header == raw[offset \div 4 + 1]
    IN  IF \/ offset + 4 > length
           \/ header.size % 8 # 0
           \/ offset + 4 + header.size > length
        THEN NoSection
        ELSE [id |-> header.id, count |-> header.size \div 8,
              start |-> offset + 4, end |-> offset + 4 + header.size]

SettingAt(raw, section, i) ==
    LET word == section.start \div 4 + 2 * (i - 1)
    IN  Setting(raw[word + 1].key, raw[word + 2].value)

Settings(raw, section) ==
    [i \in 1..section.count |-> SettingAt(raw, section, i)]

\* find_rig_setting: the first value under the key, or nothing.
Find(settings, key) ==
    LET at == SelectInSeq(settings, LAMBDA s : s.key = key)
    IN  IF at = 0 THEN <<>> ELSE <<settings[at].value>>

\* The sections behind the table, as both walks take them: until one does not
\* parse, or fewer than twelve bytes are left.
SectionsFrom(raw, start) ==
    LET offset[k \in 0..Len(raw)] ==
            IF k = 0 THEN start ELSE ParseSection(raw, offset[k - 1]).end
        Ends(k) == \/ offset[k] + 12 > 4 * Len(raw)
                   \/ ParseSection(raw, offset[k]) = NoSection
        count == CHOOSE k \in 0..Len(raw) : Ends(k) /\ \A j \in 0..k - 1 : ~Ends(j)
    IN  [k \in 1..count |-> ParseSection(raw, offset[k - 1])]

\* effect_ids and categories: the last entry of the table wins, none is 0.
TableEntry(table, key) ==
    LET at == SelectLastInSeq(table, LAMBDA s : s.key = key)
    IN  IF at = 0 THEN 0 ELSE table[at].value

\* A row of settings.csv.  Its name columns and those of RigSchema are
\* functions of the effect and the setting.
Row(rig, slot, category, effect, enabled, setting) ==
    [rig |-> rig, slot |-> slot, category |-> category, effect |-> effect,
     enabled |-> enabled, key |-> setting.key, value |-> setting.value]

\* Mutation: the bypass of an amplifier is not looked for.
EnabledByBypa(effect, settings) ==
    LET found == Find(settings, "bypa")
    IN  IF found = <<>> THEN <<>> ELSE <<found[1] = 0>>

\* Whether a module is on: by "bypa", for an amplifier else by "sld5".
Enabled(effect, settings) ==
    LET bypass == Find(settings, "bypa")
        found == IF bypass = <<>> /\ effect = 12 THEN Find(settings, "sld5") ELSE bypass
    IN  IF found = <<>> THEN <<>> ELSE <<found[1] = 0>>

HasTable(raw) == ParseSection(raw, 36).id = "A"

TableOfContents(raw) == Settings(raw, ParseSection(raw, 36))

Sections(raw) == SectionsFrom(raw, ParseSection(raw, 36).end)

\* export_rig: a row for every entry of the table, then for every setting of
\* the sections C to L.
RowsOfSection(rig, raw, section) ==
    LET table == TableOfContents(raw)
        settings == Settings(raw, section)
        effect == TableEntry(table, EffectKey[section.id])
        category == TableEntry(table, CategoryKey[section.id])
    IN  IF section.id \notin SlotIds THEN <<>>
        ELSE [i \in DOMAIN settings |->
                 Row(rig, section.id, category, effect, Enabled(effect, settings), settings[i])]

ExportedRows(rig, raw) ==
    LET table == TableOfContents(raw)
        sections == Sections(raw)
    IN  [i \in DOMAIN table |-> Row(rig, "Global", 16, 0, <<>>, table[i])]
            \o FlattenSeq([i \in DOMAIN sections |-> RowsOfSection(rig, raw, sections[i])])

\* print_rig_summary, the same walk written a second time for one dump: a
\* line for every setting but the table of the modules.
Line(slot, category, effect, setting) ==
    [slot |-> slot, category |-> category, effect |-> effect,
     key |-> setting.key, value |-> setting.value]

\* Mutation: the entries of the module table are printed as well.
PrintedGlobalsAll(table) == table

PrintedGlobals(table) == Picked(table, {i \in DOMAIN table : table[i].key \notin SlotTableKeys})

LinesOfSection(raw, section) ==
    LET table == TableOfContents(raw)
        settings == Settings(raw, section)
        effect == TableEntry(table, EffectKey[section.id])
        category == TableEntry(table, CategoryKey[section.id])
    IN  IF section.id \notin SlotIds THEN <<>>
        ELSE [i \in DOMAIN settings |-> Line(section.id, category, effect, settings[i])]

Summary(raw) ==
    LET globals == PrintedGlobals(TableOfContents(raw))
        sections == Sections(raw)
    IN  IF ~HasTable(raw) THEN <<>>
        ELSE [i \in DOMAIN globals |-> Line("Global", 16, 0, globals[i])]
                \o FlattenSeq([i \in DOMAIN sections |-> LinesOfSection(raw, sections[i])])

-----------------------------------------------------------------------------
Captures == [rig : Contents, lost : Lost, rest : Rests]

Init ==
    /\ files = [rig \in Rigs |-> None]
    /\ next = 0
    /\ rows = <<>>
    /\ missing = 0
    /\ status = "none"

\* main opens settings.csv, which loses what an earlier run wrote.
Open ==
    /\ next = 0
    /\ next' = 1
    /\ rows' = <<>>
    /\ missing' = 0
    /\ status' = "running"
    /\ UNCHANGED files

\* One turn of its loop: load_file and export_rig.
Export ==
    /\ next \in Rigs
    /\ LET capture == files[next]
           usable == capture # None /\ HasTable(Dump(capture))
       IN  /\ rows' = IF usable THEN rows \o ExportedRows(next, Dump(capture)) ELSE rows
           /\ missing' = IF usable THEN missing ELSE missing + 1
    /\ next' = next + 1
    /\ UNCHANGED <<files, status>>

Close ==
    /\ next = RigCount + 1
    /\ status' = IF missing > 0 THEN "2" ELSE "0"
    /\ next' = 0
    /\ UNCHANGED <<files, rows, missing>>

\* er_inventory saves a capture, in one step: save_capture renames.
SaveCapture ==
    \E rig \in Rigs, capture \in Captures :
        /\ files[rig] = None
        /\ files' = [files EXCEPT ![rig] = capture]
        /\ UNCHANGED <<next, rows, missing, status>>

Next == Open \/ Export \/ Close \/ SaveCapture

Spec == Init /\ [][Next]_vars

-----------------------------------------------------------------------------
\* What the variables hold.
TypeOK ==
    /\ files \in [Rigs -> Captures \cup {None}]
    /\ next \in 0..RigCount + 1
    /\ missing \in 0..RigCount
    /\ status \in {"none", "running", "0", "2"}
    /\ status = "running" <=> next # 0
    /\ \A i \in DOMAIN rows : rows[i].rig \in Rigs

\* What the device holds, row by row, without its dump: in the table, in each of
\* the modules, and in the first n sections of the dump.
HeldInTable(rig, content) ==
    LET table == content.globals \o TableOf(content)
    IN  [i \in DOMAIN table |-> Row(rig, "Global", 16, 0, <<>>, table[i])]

HeldInModule(rig, module) ==
    LET settings == IF module.id \in SlotIds THEN ModuleSettings(module) ELSE <<>>
    IN  [i \in DOMAIN settings |->
           Row(rig, module.id, module.category, module.effect,
               IF module.state = "none" THEN <<>> ELSE <<module.state = "on">>,
               settings[i])]

HeldIn(rig, content, n) ==
    IF n = 0 THEN <<>>
    ELSE HeldInTable(rig, content)
            \o FlattenSeq([m \in 1..n - 1 |-> HeldInModule(rig, content.modules[m])])

Held(rig, content) == HeldIn(rig, content, Len(SectionsOf(content)))

\* The words of a dump up to the end of its first n sections.
WordsUpTo(content, n) == 9 + Len(FlattenSeq([i \in 1..n |-> SectionsOf(content)[i]]))

\* Nothing is missing or changed in the first n sections.
SoundUpTo(capture, n) == WordsUpTo(capture.rig, n) <= Len(Packed(capture.rig)) - capture.lost

RowsOf(rig) == Picked(rows, {i \in DOMAIN rows : rows[i].rig = rig})

(* A rig with rows, and with status 0 every rig, has a capture.  Its rows    *)
(* begin with all settings of the sections that came through whole, each     *)
(* with the effect, category and state of its own module: a damage costs no  *)
(* section before the one it is in, whether or not what follows it parses.   *)
(* Of an intact capture there are no other rows.                             *)
RowsAreTheCaptures ==
    \A rig \in Rigs : RowsOf(rig) # <<>> \/ status = "0" =>
        /\ files[rig] # None
        /\ \A n \in 0..Len(SectionsOf(files[rig].rig)) :
              SoundUpTo(files[rig], n) => IsPrefix(HeldIn(rig, files[rig].rig, n), RowsOf(rig))
        /\ Intact(files[rig]) => RowsOf(rig) = Held(rig, files[rig].rig)

(* The summary that errig_read prints of an intact dump, by a walk of its    *)
(* own, shows every setting the device held under the module it belongs to;  *)
(* only the entries of the module table are left out.                        *)
SummaryShowsTheRig ==
    \A rig \in Rigs :
        files[rig] # None /\ Intact(files[rig]) =>
            LET all == Held(rig, files[rig].rig)
                held == Picked(all, {i \in DOMAIN all : all[i].key \notin SlotTableKeys})
            IN  Summary(Dump(files[rig])) =
                    [i \in DOMAIN held |->
                        Line(held[i].slot, held[i].category, held[i].effect, held[i])]

=============================================================================
