----------------------------- MODULE SevenBit ------------------------------
(***************************************************************************)
(* A SysEx dump carries eight-bit data in seven-bit symbols, most          *)
(* significant bit first.  unpack_7bit of Tools/errig_read.c takes it      *)
(* apart in groups of eight symbols, each of which carries seven bytes.    *)
(* Width is the number of bits of a symbol, 7 in the code.                 *)
(***************************************************************************)
EXTENDS Integers, Sequences

CONSTANT Width

\* 1 << n.
Pow2[n \in Nat] == IF n = 0 THEN 1 ELSE 2 * Pow2[n - 1]

ASSUME WidthAssumption == Width \in Nat \ {0}

\* How many bytes the loop produces from n symbols: Width for every whole
\* group, and one less than its symbols for the last, partial one.
UnpackedLength(n) ==
    LET rest == n % (Width + 1)
    IN  (n \div (Width + 1)) * Width + (IF rest = 0 THEN 0 ELSE rest - 1)

\* The capacity its callers give it for n symbols.
Capacity(n) == (n * Width) \div (Width + 1) + 1

\* The number of bytes written: the loop stops when the buffer is full.
Used(n) ==
    IF UnpackedLength(n) > Capacity(n) THEN Capacity(n) ELSE UnpackedLength(n)

\* Mutation: the loop advances by the seven bytes of a group, not by its eight
\* symbols.
UnpackedBySeven(packed, i) ==
    LET phase == ((i - 1) % Width) + 1
    IN  (packed[i] * Pow2[phase] + (packed[i + 1] \div Pow2[Width - phase])) % Pow2[Width + 1]

\* Byte i of the result: the low bits of one symbol and the high bits of the
\* next, as many of each as the position in the group says.
Unpacked(packed, i) ==
    LET phase == ((i - 1) % Width) + 1
        first == ((i - 1) \div Width) * (Width + 1) + phase
    IN  (packed[first] * Pow2[phase] + (packed[first + 1] \div Pow2[Width - phase]))
            % Pow2[Width + 1]

Unpack(packed) == [i \in 1..Used(Len(packed)) |-> Unpacked(packed, i)]

=============================================================================
