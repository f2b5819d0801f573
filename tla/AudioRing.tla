------------------------------ MODULE AudioRing ------------------------------
(***************************************************************************)
(* One direction of the lock-free single-producer/single-consumer ring     *)
(* that the USB engine and the HAL plugin share (Tools/ERAudioRing.h).     *)
(* er_in_write and er_out_write are the same code, and so are er_in_read   *)
(* and er_out_read: the producer below is either writer, the consumer      *)
(* either reader.                                                          *)
(*                                                                         *)
(* The two sides are different processes and nothing makes a call atomic:  *)
(* every load and store of a shared counter is a step, and so is every     *)
(* frame a memcpy moves.  A cell holds the counter value its frame was     *)
(* written at, which identifies the frame; sample values are abstracted.   *)
(***************************************************************************)
EXTENDS Integers, Sequences

CONSTANTS Frames,    \* ring capacity in frames, ER_RING_FRAMES
          Target,    \* ER_TARGET_FILL
          Requests,  \* frame counts callers pass to a read or a write
          Word,      \* 2^32: er__space and er__avail truncate to uint32_t
          MaxWrite   \* bound on the write counter, for model checking

ASSUME RingAssumption ==
    /\ Frames \in Nat \ {0}
    /\ Target \in Nat
    /\ Requests \subseteq Nat
    /\ Word \in Nat
    /\ Frames < Word
    /\ MaxWrite \in Nat

VARIABLES cell,      \* the float array, one entry per frame
          write,     \* inWrite or outWrite, the published write counter
          read,      \* inRead or outRead, the published read counter
          prod,      \* locals of the running write call
          cons,      \* locals of the running read call
          taken      \* frames the last read call returned to its caller

vars == <<cell, write, read, prod, cons, taken>>

NoFrame == -1

Larger(a, b)  == IF a >= b THEN a ELSE b
Smaller(a, b) == IF a <= b THEN a ELSE b

\* er__avail and er__space.  The first form of each is a mutation: an
\* off-by-one in what the other side may touch.
AvailOneMore(w, rd) == (w - rd + 1) % Word
Avail(w, rd) == (w - rd) % Word

SpaceOneMore(w, rd) == (Frames + 1 - Avail(w, rd)) % Word
Space(w, rd) == (Frames - Avail(w, rd)) % Word

Slot(counter) == counter % Frames

Init ==
    /\ cell = [i \in 0..(Frames - 1) |-> NoFrame]
    /\ write = 0
    /\ read = 0
    /\ prod = [pc |-> "idle", w |-> 0, n |-> 0, k |-> 0]
    /\ cons = [pc |-> "idle", w |-> 0, rd |-> 0, f |-> 0, n |-> 0, dst |-> <<>>]
    /\ taken = <<>>

-----------------------------------------------------------------------------
(* The producer: er_in_write, er_out_write.                                *)

BeginWrite(f) ==
    /\ prod.pc = "idle"
    /\ write + f <= MaxWrite
    /\ prod' = [pc |-> "loaded", w |-> write, n |-> f, k |-> 0]
    /\ UNCHANGED <<cell, write, read, cons, taken>>

ClampToSpace ==
    /\ prod.pc = "loaded"
    /\ prod' = [prod EXCEPT !.pc = "copy",
                            !.n = Smaller(@, Space(prod.w, read))]
    /\ UNCHANGED <<cell, write, read, cons, taken>>

CopyIn ==
    /\ prod.pc = "copy"
    /\ prod.k < prod.n
    /\ cell' = [cell EXCEPT ![Slot(prod.w + prod.k)] = prod.w + prod.k]
    /\ prod' = [prod EXCEPT !.k = @ + 1]
    /\ UNCHANGED <<write, read, cons, taken>>

\* Mutation: the counter is published before the copy has finished.
PublishWriteEarly ==
    /\ prod.pc = "copy"
    /\ write' = prod.w + prod.n
    /\ prod' = IF prod.k < prod.n THEN prod ELSE [prod EXCEPT !.pc = "idle"]
    /\ UNCHANGED <<cell, read, cons, taken>>

PublishWrite ==
    /\ prod.pc = "copy"
    /\ prod.k = prod.n
    /\ write' = prod.w + prod.n
    /\ prod' = [prod EXCEPT !.pc = "idle"]
    /\ UNCHANGED <<cell, read, cons, taken>>

-----------------------------------------------------------------------------
(* The consumer: er_in_read, er_out_read.                                  *)

BeginRead(f) ==
    /\ cons.pc = "idle"
    /\ cons' = [pc |-> "loaded", w |-> write, rd |-> 0, f |-> f, n |-> 0, dst |-> <<>>]
    /\ UNCHANGED <<cell, write, read, prod, taken>>

\* Mutation: no skip at all.
SkipNothing(avail, f) == 0
Skip(avail, f) == IF avail > f + Target THEN avail - (f + Target) ELSE 0

ClampToAvail ==
    /\ cons.pc = "loaded"
    /\ LET avail == Avail(cons.w, read)
           drop  == Skip(avail, cons.f)
       IN  cons' = [cons EXCEPT !.pc = "copy",
                                !.rd = read + drop,
                                !.n  = Smaller(cons.f, avail - drop)]
    /\ UNCHANGED <<cell, write, read, prod, taken>>

CopyOut ==
    /\ cons.pc = "copy"
    /\ Len(cons.dst) < cons.n
    /\ cons' = [cons EXCEPT !.dst = Append(@, cell[Slot(cons.rd + Len(@))])]
    /\ UNCHANGED <<cell, write, read, prod, taken>>

\* Mutations: the space is freed before the frames are copied out, and the new
\* read counter is never stored.
PublishReadEarly ==
    /\ cons.pc = "copy"
    /\ read' = cons.rd + cons.n
    /\ IF Len(cons.dst) < cons.n
       THEN UNCHANGED <<cons, taken>>
       ELSE taken' = cons.dst /\ cons' = [cons EXCEPT !.pc = "idle"]
    /\ UNCHANGED <<cell, write, prod>>

PublishReadForgotten ==
    /\ cons.pc = "copy"
    /\ Len(cons.dst) = cons.n
    /\ taken' = cons.dst
    /\ cons' = [cons EXCEPT !.pc = "idle"]
    /\ UNCHANGED <<cell, write, read, prod>>

PublishRead ==
    /\ cons.pc = "copy"
    /\ Len(cons.dst) = cons.n
    /\ read' = cons.rd + cons.n
    /\ taken' = cons.dst
    /\ cons' = [cons EXCEPT !.pc = "idle"]
    /\ UNCHANGED <<cell, write, prod>>

Producer ==
    \/ \E f \in Requests : BeginWrite(f)
    \/ ClampToSpace \/ CopyIn \/ PublishWrite

Consumer ==
    \/ \E f \in Requests : BeginRead(f)
    \/ ClampToAvail \/ CopyOut \/ PublishRead

Next == Producer \/ Consumer

Spec == Init /\ [][Next]_vars

(***************************************************************************)
(* The plugin reads on the audio clock for as long as I/O runs, and a call *)
(* that started runs to its end: the consumer's steps are weakly fair, and *)
(* it asks for at least one frame.  Nothing obliges the producer to write. *)
(***************************************************************************)
Fairness ==
    /\ WF_vars(\E f \in Requests \ {0} : BeginRead(f))
    /\ WF_vars(ClampToAvail \/ CopyOut \/ PublishRead)

FairSpec == Spec /\ Fairness

-----------------------------------------------------------------------------
(* Properties.                                                             *)

Cells      == [0..(Frames - 1) -> Nat \cup {NoFrame}]
Stages     == {"idle", "loaded", "copy"}
WriteCalls == [pc : Stages, w : Nat, n : Nat, k : Nat]
ReadCalls  == [pc : Stages, w : Nat, rd : Nat, f : Nat, n : Nat,
               dst : Seq(Nat \cup {NoFrame})]

\* Every variable holds a value of the shape the code gives it.
TypeOK ==
    /\ cell \in Cells
    /\ write \in Nat
    /\ read \in Nat
    /\ prod \in WriteCalls
    /\ cons \in ReadCalls
    /\ taken \in Seq(Nat \cup {NoFrame})

\* The counters stay within one ring of each other, so that truncating their
\* difference to 32 bits (er__avail, er__space) never loses anything.
FillBound == read <= write /\ write <= read + Frames

\* No frame is torn or overwritten while a read copies it out: the caller's
\* buffer holds, in order, the frames the counters said it would (er__rd).
CopiedIntact ==
    cons.pc = "copy" => \A i \in DOMAIN cons.dst : cons.dst[i] = cons.rd + i - 1

\* The frames a read copies are frames the producer had published when the
\* read looked ("must not exceed available frames", er__rd).
ReadWithinAvailable ==
    cons.pc = "copy" => read <= cons.rd /\ cons.rd + cons.n <= cons.w

\* The cells one side is writing and the cells the other side is reading are
\* never the same cell: the unlocked memcpys do not race.
NoSharedCell ==
    prod.pc = "copy" /\ cons.pc = "copy" =>
        \A i \in 0..(prod.n - 1), j \in 0..(cons.n - 1) :
            Slot(prod.w + i) # Slot(cons.rd + j)

\* A finished read leaves at most Target frames of what it saw behind, however
\* long the consumer was away (the latency bound of ER_TARGET_FILL).
BacklogBounded ==
    [][cons.pc = "copy" /\ cons'.pc = "idle" => cons.w - read' <= Target]_vars

\* A full ring does not stay full once something reads from it.
FullRingDrains == write - read = Frames ~> write - read < Frames

\* The ring implements the ordered, at-most-once stream of FrameStream.
Stream == INSTANCE FrameStream WITH head <- write, next <- read
StreamSpec == Stream!Spec
-----------------------------------------------------------------------------
(* The inductive invariant behind them, one conjunct per idea.             *)

\* The producer owns the write counter, and the space it found only grows.
ProducerView ==
    /\ prod.pc # "idle" => prod.w = write
    /\ prod.pc = "loaded" => prod.k = 0
    /\ prod.pc = "copy" => prod.k <= prod.n /\ write + prod.n <= read + Frames

\* The consumer owns the read counter, and what it found stays available.
ConsumerView ==
    /\ cons.pc # "idle" => read <= cons.w /\ cons.w <= write
    /\ cons.pc = "copy" =>
         /\ cons.f \in Requests
         /\ cons.rd = Larger(read, cons.w - (cons.f + Target))
         /\ cons.n = Smaller(cons.f, cons.w - cons.rd)
         /\ Len(cons.dst) <= cons.n
    /\ cons.pc = "loaded" => cons.f \in Requests /\ cons.dst = <<>>

\* Every published frame that is not consumed is in its cell, and so is every
\* frame the running write has copied.
CellsHold ==
    /\ \A i \in read..(write - 1) : cell[Slot(i)] = i
    /\ prod.pc = "copy" =>
         \A i \in write..(write + prod.k - 1) : cell[Slot(i)] = i

IInv ==
    /\ TypeOK
    /\ FillBound
    /\ ProducerView
    /\ ConsumerView
    /\ CellsHold
    /\ CopiedIntact
=============================================================================
