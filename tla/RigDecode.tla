----------------------------- MODULE RigDecode -----------------------------
(***************************************************************************)
(* errig_read --decode on one dump, at its two ends: the symbols it is     *)
(* given, and one setting as it is displayed and cataloged.                *)
(***************************************************************************)
EXTENDS SevenBit, RigSchema

CONSTANTS
    MaxSymbols,     \* the longest dump considered
    Values          \* the values of a setting

VARIABLE given      \* what is being decoded: Nothing, a dump or a setting

Nothing == [kind |-> "nothing"]

\* The settings a rig can have: those of an effect, and globals under effect 0.
KeysUnder(effect) ==
    IF effect = 0 THEN GlobalKeys \cup SlotTableKeys ELSE KeysOf(effect)

GiveDump ==
    /\ given = Nothing
    /\ \E n \in 0..MaxSymbols : \E packed \in [1..n -> 0..(Pow2[Width] - 1)] :
          given' = [kind |-> "dump", packed |-> packed]

GiveSetting ==
    /\ given = Nothing
    /\ \E effect \in Effects \cup {0}, value \in Values : \E key \in KeysUnder(effect) :
          given' = [kind |-> "setting", effect |-> effect, key |-> key, value |-> value]

Leave ==
    /\ given # Nothing
    /\ given' = Nothing

DecodeInit == given = Nothing
DecodeNext == GiveDump \/ GiveSetting \/ Leave
DecodeSpec == DecodeInit /\ [][DecodeNext]_given

-----------------------------------------------------------------------------
\* Bit j of a sequence of words of the given size, the first bit being 0.
Bit(words, size, j) ==
    (words[(j \div size) + 1] \div Pow2[size - 1 - (j % size)]) % 2

(* The bytes that unpack_7bit produces are the bits of the dump's symbols,   *)
(* in order: none is dropped, doubled or moved, at a group's end or in a     *)
(* partial last group, except those that do not make a whole byte.           *)
UnpackIsBitStream ==
    given.kind = "dump" =>
        LET bytes == Unpack(given.packed)
        IN  /\ (Len(given.packed) * Width) - Len(bytes) * (Width + 1) \in 0..Width
            /\ \A j \in 0..(Len(bytes) * (Width + 1) - 1) :
                  Bit(bytes, Width + 1, j) = Bit(given.packed, Width, j)

(* The effects whose speed is shown as a bare number although the catalog    *)
(* says it is on the 0-10 scale: is_discrete_setting lists "Sped" for every  *)
(* effect and not only for the Roto Speaker, whose speed is a switch.        *)
BareSpeed(effect, key) ==
    key = "Sped" /\ effect \in OrangePhaser \cup Flanger \cup {35}

(* The unit, range and curve of a setting, which the catalog takes from      *)
(* three functions, describe the number that a fourth displays: a name or a  *)
(* bare number exactly for an enumeration, a normalized position exactly     *)
(* when nothing is verified, and else the same unit and ends as the          *)
(* conversion.                                                               *)
CatalogDescribesDisplay ==
    given.kind = "setting" =>
        LET c == Columns(given.effect, given.key, given.value)
        IN  /\ (c.curve = "enum") = (c.display = Enumerated)
            /\ (c.curve = "unverified") = (c.display = Normalized)
            /\ c.curve = "enum" =>
                 BareSpeed(given.effect, given.key) \/ (c.unit = "none" /\ c.range = <<>>)
            /\ c.curve \in {"linear", "log"} =>
                 c.display = Scale(c.unit, c.range[1], c.range[2], c.curve)

(* The ids that are shown as one model show their settings alike.  (46, the  *)
(* second id of the Vibe Phaser, does not: is_ten_scale_setting knows 35.)   *)
SiblingsAlike ==
    given.kind = "setting" =>
        \A model \in Models : given.effect \in model \ {46} =>
            \A sibling \in model \ {46} :
                Columns(sibling, given.key, given.value)
                    = Columns(given.effect, given.key, given.value)

=============================================================================
