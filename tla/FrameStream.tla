----------------------------- MODULE FrameStream -----------------------------
(***************************************************************************)
(* What the shared-memory ring of Tools/ERAudioRing.h promises its two     *)
(* callers, without a ring: frames numbered in the order the producer      *)
(* published them, a consumer that takes them in order, each at most once, *)
(* and that drops the oldest frames, and only those, when it has fallen    *)
(* more than Target frames behind what it asked for.                       *)
(***************************************************************************)
EXTENDS Integers, Sequences

CONSTANTS Frames,    \* most frames that are published and not yet consumed
          Target,    \* backlog a read leaves behind at most (ER_TARGET_FILL)
          Requests   \* frame counts a caller may ask for

VARIABLES head,      \* frames published so far
          next,      \* number of the first frame that is not consumed
          taken      \* frame numbers the last read returned

svars == <<head, next, taken>>

Larger(a, b)  == IF a >= b THEN a ELSE b
Smaller(a, b) == IF a <= b THEN a ELSE b

(***************************************************************************)
(* Where a read of f frames starts, and how many frames it returns, for a  *)
(* consumer that sees the frames first .. seen - 1.                        *)
(***************************************************************************)
ReadStart(first, seen, f) == Larger(first, seen - (f + Target))
ReadCount(first, seen, f) == Smaller(f, seen - ReadStart(first, seen, f))

Init == head = 0 /\ next = 0 /\ taken = <<>>

Put(f) ==
    /\ head + f - next <= Frames
    /\ head' = head + f
    /\ UNCHANGED <<next, taken>>

(***************************************************************************)
(* A read may act on an older value of head than the current one.          *)
(***************************************************************************)
Take(f, seen) ==
    LET start == ReadStart(next, seen, f)
        count == ReadCount(next, seen, f)
    IN  /\ next' = start + count
        /\ taken' = [i \in 1..count |-> start + i - 1]
        /\ UNCHANGED head

Next ==
    \/ \E f \in 0..Frames : Put(f)
    \/ \E f \in Requests : \E seen \in next..head : Take(f, seen)

Spec == Init /\ [][Next]_svars
=============================================================================
