-------------------------- MODULE Inventory_proofs ---------------------------
(***************************************************************************)
(* Proofs about the resumable inventory, for any number of programs and    *)
(* any number of attempts: the variables keep their types, a capture is of *)
(* the program it is named after, a run that reports a complete inventory  *)
(* leaves a capture of every program, and what is in the directory stays.  *)
(***************************************************************************)
EXTENDS Inventory, TLAPS

\* Before the first run nothing is captured and nothing is claimed.
LEMMA InitInvariant == Init => IInv
<1> SUFFICES ASSUME Init PROVE IInv
  OBVIOUS
<1>1. ToolTypes
  BY InventoryAssumption DEF Init, ToolTypes, Programs, None
<1>2. FlagTypes
  BY Zenon, InventoryAssumption DEF Init, FlagTypes
<1>3. DeviceTypes
  BY InventoryAssumption DEF Init, DeviceTypes, Programs, Message
<1>4. Progress /\ CompleteMeansAll
  BY DEF Init, Progress, CompleteMeansAll
<1> QED
  BY <1>1, <1>2, <1>3, <1>4 DEF IInv, TypeOK

-----------------------------------------------------------------------------
(* What the end of a query does to the pipe.                               *)

LEMMA AnsweredTypes ==
    ASSUME DeviceTypes, NEW p, Answered(p)
    PROVE  /\ asked' \in Seq({"program", "edit"})
           /\ replies' \in Seq(Message)
           /\ waiting' = FALSE
  BY DEF DeviceTypes, Answered

LEMMA UnansweredTypes ==
    ASSUME DeviceTypes, Unanswered
    PROVE  /\ asked' \in Seq({"program", "edit"})
           /\ replies' \in Seq(Message)
           /\ waiting' \in {FALSE, waiting}
<1>1. CASE waiting' = FALSE /\ UNCHANGED pipeVars
  BY <1>1 DEF DeviceTypes, pipeVars
<1>2. CASE UNCHANGED <<waiting, pipeVars>>
  BY <1>2 DEF DeviceTypes, pipeVars
<1>3. CASE \E p \in Programs : Answered(p)
  BY <1>3, AnsweredTypes
<1> QED
  BY <1>1, <1>2, <1>3 DEF Unanswered

\* Only the device chooses a program, and only among those it was asked for.
LEMMA DevicePreserved ==
    ASSUME ToolTypes, DeviceTypes, [Next]_vars
    PROVE  DeviceTypes'
<1>1. CASE UNCHANGED <<deviceVars, pipeVars>>
  BY <1>1 DEF DeviceTypes, deviceVars, pipeVars
<1>2. CASE Start
  BY <1>2 DEF Start, deviceVars, DeviceTypes
<1>3. CASE Ask
  BY <1>3 DEF Ask, Wanted, deviceVars, DeviceTypes
<1>4. CASE SkipReply
  BY <1>4 DEF SkipReply, deviceVars, DeviceTypes
<1>5. CASE QueryOriginal
  BY <1>5, AnsweredTypes, UnansweredTypes DEF QueryOriginal, deviceVars, DeviceTypes
<1>6. CASE Verify
  BY <1>6, AnsweredTypes, UnansweredTypes DEF Verify, deviceVars, DeviceTypes
<1>7. CASE QueryEditBuffer
  BY <1>7, AnsweredTypes, UnansweredTypes DEF QueryEditBuffer, deviceVars, DeviceTypes
<1>8. CASE Switch
  BY <1>8 DEF Switch, pipeVars, DeviceTypes, Programs
<1>9. CASE Restore
  BY <1>9 DEF Restore, pipeVars, DeviceTypes, ToolTypes, None
<1>10. CASE Answer
  BY <1>10 DEF Answer, deviceVars, DeviceTypes, Message
<1>11. CASE LoseRequest
  BY <1>11 DEF LoseRequest, deviceVars, DeviceTypes
<1>12. CASE LoadProgram \/ IgnoreChange
  BY <1>12 DEF LoadProgram, IgnoreChange, pipeVars, DeviceTypes
<1>13. CASE Signal \/ Crash \/ PromptnessChanges
  BY <1>13, <1>1 DEF Signal, Crash, PromptnessChanges
<1>14. CASE RecordOriginal \/ WriteOriginal \/ Resume \/ SaveCapture \/ Report
  BY <1>14, <1>1 DEF RecordOriginal, WriteOriginal, Resume, SaveCapture, Report
<1>15. CASE UNCHANGED vars
  BY <1>15, <1>1 DEF vars
<1> QED
  BY <1>2, <1>3, <1>4, <1>5, <1>6, <1>7, <1>8, <1>9, <1>10, <1>11, <1>12, <1>13, <1>14, <1>15
  DEF Next

\* The four flags are set and cleared, never anything else.
LEMMA FlagsPreserved ==
    ASSUME FlagTypes, DeviceTypes, [Next]_vars
    PROVE  FlagTypes'
<1> USE DEF FlagTypes
<1>1. CASE QueryOriginal \/ Verify \/ QueryEditBuffer
  <2>1. waiting' \in BOOLEAN
    BY Zenon, <1>1, AnsweredTypes, UnansweredTypes DEF QueryOriginal, Verify, QueryEditBuffer
  <2> QED
    BY Zenon, <1>1, <2>1 DEF QueryOriginal, Verify, QueryEditBuffer
<1>2. CASE Start \/ Signal \/ Crash \/ Ask \/ SkipReply
  BY Zenon, <1>2 DEF Start, Signal, Crash, Leave, Ask, SkipReply, toolVars
<1>3. CASE RecordOriginal \/ WriteOriginal \/ Resume \/ Report \/ Restore
  BY Zenon, <1>3 DEF RecordOriginal, WriteOriginal, Resume, Report, Restore
<1>4. CASE Switch \/ SaveCapture
  BY Zenon, <1>4 DEF Switch, SaveCapture, Fail, Leave
<1>5. CASE Answer \/ LoseRequest \/ LoadProgram \/ IgnoreChange \/ PromptnessChanges
  BY Zenon, <1>5 DEF Answer, LoseRequest, LoadProgram, IgnoreChange, PromptnessChanges, toolVars
<1>6. CASE UNCHANGED vars
  BY Zenon, <1>6 DEF vars, toolVars
<1> QED
  BY <1>1, <1>2, <1>3, <1>4, <1>5, <1>6 DEF Next

-----------------------------------------------------------------------------
(* The program's own variables and its count.                              *)

Counting == ToolTypes /\ Progress /\ CompleteMeansAll

\* Only Resume and SaveCapture count a program, and each moves on by one.
LEMMA CountingPreserved ==
    ASSUME Counting, DeviceTypes, [Next]_vars
    PROVE  Counting'
<1> USE InventoryAssumption
<1>1. CASE UNCHANGED <<toolVars, files, saved>>
  BY <1>1 DEF Counting, ToolTypes, Progress, CompleteMeansAll, Captured, toolVars
<1>2. CASE Start
  BY <1>2 DEF Start, diskVars, Counting, ToolTypes, Progress, CompleteMeansAll, Captured, Programs, None
<1>3. CASE Signal
  BY <1>3 DEF Signal, diskVars, Counting, ToolTypes, Progress, CompleteMeansAll, Captured
<1>4. CASE Crash
  BY <1>4 DEF Crash, Leave, diskVars, Counting, ToolTypes, Progress, CompleteMeansAll, Captured
<1>5. CASE Ask
  BY <1>5 DEF Ask, diskVars, Counting, ToolTypes, Progress, CompleteMeansAll, Captured
<1>6. CASE SkipReply
  BY <1>6, <1>1 DEF SkipReply, diskVars
<1>7. CASE QueryOriginal
  BY <1>7 DEF QueryOriginal, diskVars, Counting, ToolTypes, Progress, CompleteMeansAll, Captured
<1>8. CASE RecordOriginal
  BY <1>8 DEF RecordOriginal, Counting, ToolTypes, Progress, CompleteMeansAll, Captured
<1>9. CASE WriteOriginal
  BY <1>9 DEF WriteOriginal, Counting, ToolTypes, Progress, CompleteMeansAll, Captured, Programs
<1>10. CASE Resume
  BY <1>10 DEF Resume, diskVars, Counting, ToolTypes, Progress, CompleteMeansAll, Captured, Programs
<1>11. CASE Switch
  BY <1>11 DEF Switch, Fail, Leave, diskVars, Counting, ToolTypes, Progress, CompleteMeansAll, Captured
<1>12. CASE Verify
  BY <1>12 DEF Verify, TryAgain, diskVars, Counting, ToolTypes, Progress, CompleteMeansAll, Captured
<1>13. CASE QueryEditBuffer
  BY <1>13 DEF QueryEditBuffer, TryAgain, diskVars, Counting, ToolTypes, Progress, CompleteMeansAll, Captured
<1>14. CASE SaveCapture
  <2>1. CASE Fail /\ UNCHANGED <<files, completed, rig>>
    BY <1>14, <2>1 DEF SaveCapture, Fail, Leave, Counting, ToolTypes, Progress, CompleteMeansAll, Captured
  <2>2. CASE /\ files' = [files EXCEPT ![rig] = buffer]
             /\ completed' = completed + 1 /\ rig' = rig + 1
             /\ phase' = "next" /\ buffer' = None
             /\ UNCHANGED <<exit, tries>>
    <3>1. rig \in Programs /\ buffer \in Programs /\ completed = rig - 1
      BY <1>14 DEF SaveCapture, Counting, Progress
    <3>2. \A p \in Programs : Captured(p)' <=> (Captured(p) \/ p = rig)
      BY <2>2, <3>1 DEF Counting, ToolTypes, Captured, Programs, None
    <3>3. files' \in [Programs -> Programs \cup {None}]
      BY <2>2, <3>1 DEF Counting, ToolTypes
    <3> QED
      BY <1>14, <2>2, <3>1, <3>2, <3>3
      DEF SaveCapture, Counting, ToolTypes, Progress, CompleteMeansAll, Programs
  <2> QED
    BY <1>14, <2>1, <2>2 DEF SaveCapture
<1>15. CASE Restore
  BY <1>15 DEF Restore, diskVars, Counting, ToolTypes, Progress, CompleteMeansAll, Captured
<1>16. CASE Report
  BY <1>16 DEF Report, diskVars, Counting, ToolTypes, Progress, CompleteMeansAll, Captured, Programs
<1>17. CASE Answer \/ LoseRequest \/ LoadProgram \/ IgnoreChange \/ PromptnessChanges
  BY <1>17, <1>1 DEF Answer, LoseRequest, LoadProgram, IgnoreChange, PromptnessChanges, diskVars
<1>18. CASE UNCHANGED vars
  BY <1>18, <1>1 DEF vars, diskVars
<1> QED
  BY <1>2, <1>3, <1>4, <1>5, <1>6, <1>7, <1>8, <1>9, <1>10, <1>11, <1>12, <1>13, <1>14, <1>15,
     <1>16, <1>17, <1>18
  DEF Next

-----------------------------------------------------------------------------
(* The invariant behind CapturesMatch.  Replies come in the order in which *)
(* the device played the programs, and a program that has been asked for   *)
(* is the next one to capture: once one reply of it is in the pipe, the    *)
(* device has loaded it, and nothing of another program comes after.       *)

\* The program the loops will ask for, in this run or in a later one.
IsNext(r) ==
    /\ r \in Programs /\ ~Captured(r)
    /\ \A p \in Programs : p < r => Captured(p)

\* A change that is still to come is the change to that program.
ChangesToNext == program # target => \A r \in Programs : IsNext(r) => target = r

OnlyOf(r, i) == \A j \in DOMAIN replies : j >= i => replies[j].of = r

RepliesInOrder ==
    \A r \in Programs : IsNext(r) =>
        \A i \in DOMAIN replies : replies[i].of = r => program = r /\ OnlyOf(r, i)

\* From the verification of a program to its capture the device plays it, and
\* the pipe holds nothing else.
Verified ==
    /\ phase \in {"verify", "edit", "save"} => ~Captured(rig)
    /\ phase \in {"edit", "save"} => program = rig /\ target = rig /\ OnlyOf(rig, 1)
    /\ phase = "save" => buffer = rig

Honest == ChangesToNext /\ RepliesInOrder /\ Verified /\ CapturesMatch

LEMMA InitHonest == Init => Honest
  BY DEF Init, Honest, ChangesToNext, RepliesInOrder, OnlyOf, Verified, CapturesMatch, Captured

\* Reading a reply, or none, leaves the order of the others.
LEMMA ReadingKeepsOrder ==
    ASSUME DeviceTypes, UNCHANGED <<files, program>>,
           replies' = replies \/ (replies # <<>> /\ replies' = Tail(replies))
    PROVE  /\ RepliesInOrder => RepliesInOrder'
           /\ \A r : OnlyOf(r, 1) => OnlyOf(r, 1)'
<1>1. CASE replies' = replies
  BY <1>1 DEF RepliesInOrder, OnlyOf, IsNext, Captured
<1>2. CASE replies # <<>> /\ replies' = Tail(replies)
  <2>1. \A k \in DOMAIN replies' :
          k \in Int /\ k >= 1 /\ k + 1 \in DOMAIN replies /\ replies'[k] = replies[k + 1]
    BY <1>2 DEF DeviceTypes
  <2>2. \A r : OnlyOf(r, 1) => OnlyOf(r, 1)'
    BY <2>1 DEF OnlyOf
  <2>3. ASSUME NEW r, NEW k \in DOMAIN replies', OnlyOf(r, k + 1)
        PROVE  OnlyOf(r, k)'
    <3>1. \A j \in DOMAIN replies' : j >= k => j + 1 >= k + 1
      BY <2>1
    <3>2. \A j \in DOMAIN replies' : j >= k => replies'[j].of = r
      BY <2>1, <2>3, <3>1 DEF OnlyOf
    <3> QED
      BY <3>2 DEF OnlyOf
  <2>4. ASSUME RepliesInOrder PROVE RepliesInOrder'
    <3> SUFFICES ASSUME NEW r \in Programs, IsNext(r)', NEW k \in DOMAIN replies',
                        replies'[k].of = r
                 PROVE  program' = r /\ OnlyOf(r, k)'
      BY DEF RepliesInOrder
    <3>1. IsNext(r)
      BY DEF IsNext, Captured
    <3>2. program = r /\ OnlyOf(r, k + 1)
      BY <2>1, <2>4, <3>1 DEF RepliesInOrder
    <3> QED
      BY <2>3, <3>2
  <2> QED
    BY <2>2, <2>4
<1> QED
  BY <1>1, <1>2

\* The steps that neither save, nor ask for a program, nor begin to trust one.
LEMMA ToolMoveHonest ==
    ASSUME IInv, Honest, UNCHANGED <<files, program, target>>,
           replies' = replies \/ (replies # <<>> /\ replies' = Tail(replies)),
           phase' \notin {"verify", "edit", "save"} \/ UNCHANGED <<phase, rig, buffer>>
    PROVE  Honest'
<1>1. RepliesInOrder' /\ \A r : OnlyOf(r, 1) => OnlyOf(r, 1)'
  BY ReadingKeepsOrder DEF IInv, TypeOK, Honest
<1>2. ChangesToNext' /\ CapturesMatch'
  BY DEF Honest, ChangesToNext, CapturesMatch, IsNext, Captured
<1>3. Verified'
  BY <1>1 DEF Honest, Verified, Captured
<1> QED
  BY <1>1, <1>2, <1>3 DEF Honest

\* What a query leaves of the pipe.
LEMMA QueryReads ==
    ASSUME (\E p \in Programs : Answered(p)) \/ Unanswered
    PROVE  replies' = replies \/ (replies # <<>> /\ replies' = Tail(replies))
  BY DEF Answered, Unanswered, pipeVars

\* The reply that names the program the loops are at is the first of its own.
LEMMA VerifyHonest == ASSUME IInv, Honest, Verify PROVE Honest'
<1>1. UNCHANGED <<files, program, target, rig>>
  BY DEF Verify, diskVars, deviceVars
<1>2. CASE /\ Unanswered \/ \E p \in Programs : Answered(p) /\ ~Verifies(p)
           /\ TryAgain(VerifyTries)
  <2>1. phase' \notin {"verify", "edit", "save"} \/ UNCHANGED <<phase, rig, buffer>>
    BY <1>1, <1>2 DEF TryAgain
  <2>2. replies' = replies \/ (replies # <<>> /\ replies' = Tail(replies))
    BY <1>2, QueryReads
  <2> QED
    BY <1>1, <2>1, <2>2, ToolMoveHonest
<1>3. CASE \E p \in Programs : Answered(p) /\ Verifies(p) /\ phase' = "edit"
  <2>1. /\ rig \in Programs /\ replies # <<>> /\ Head(replies).of = rig
        /\ replies' = Tail(replies) /\ phase = "verify" /\ phase' = "edit"
    BY <1>3 DEF Answered, Verifies, Verify
  <2>2. IsNext(rig)
    BY <2>1 DEF IInv, Progress, Honest, Verified, IsNext
  <2>3. 1 \in DOMAIN replies /\ replies[1].of = rig
    BY <2>1 DEF IInv, TypeOK, DeviceTypes
  <2>4. program = rig /\ OnlyOf(rig, 1)
    BY <2>1, <2>2, <2>3 DEF Honest, RepliesInOrder
  <2>5. target = rig
    BY <2>1, <2>2, <2>4 DEF Honest, ChangesToNext
  <2>6. RepliesInOrder' /\ OnlyOf(rig, 1)'
    BY <1>1, <2>1, <2>4, ReadingKeepsOrder DEF IInv, TypeOK, Honest
  <2>7. Verified'
    BY <1>1, <2>1, <2>2, <2>4, <2>5, <2>6 DEF Verified, OnlyOf, IsNext, Captured
  <2>8. ChangesToNext' /\ CapturesMatch'
    BY <1>1 DEF Honest, ChangesToNext, CapturesMatch, IsNext, Captured
  <2> QED
    BY <2>6, <2>7, <2>8 DEF Honest
<1> QED
  BY <1>2, <1>3 DEF Verify

\* So the edit buffer that comes, late or not, is of that program.
LEMMA EditHonest == ASSUME IInv, Honest, QueryEditBuffer PROVE Honest'
<1>1. UNCHANGED <<files, program, target, rig>>
  BY DEF QueryEditBuffer, diskVars, deviceVars
<1>2. CASE Unanswered /\ TryAgain(EditTries)
  <2>1. phase' \notin {"verify", "edit", "save"} \/ UNCHANGED <<phase, rig, buffer>>
    BY <1>1, <1>2 DEF TryAgain
  <2>2. replies' = replies \/ (replies # <<>> /\ replies' = Tail(replies))
    BY <1>2, QueryReads
  <2> QED
    BY <1>1, <2>1, <2>2, ToolMoveHonest
<1>3. CASE \E p \in Programs : Answered(p) /\ buffer' = p /\ phase' = "save"
  <2>1. /\ replies # <<>> /\ Head(replies).of = buffer' /\ replies' = Tail(replies)
        /\ phase = "edit" /\ phase' = "save"
    BY <1>3 DEF Answered, QueryEditBuffer
  <2>2. program = rig /\ target = rig /\ OnlyOf(rig, 1) /\ ~Captured(rig)
    BY <2>1 DEF Honest, Verified
  <2>3. 1 \in DOMAIN replies /\ replies[1].of = buffer'
    BY <2>1 DEF IInv, TypeOK, DeviceTypes
  <2>4. buffer' = rig
    BY <2>2, <2>3 DEF OnlyOf
  <2>5. RepliesInOrder' /\ OnlyOf(rig, 1)'
    BY <1>1, <2>1, <2>2, ReadingKeepsOrder DEF IInv, TypeOK, Honest
  <2>6. Verified'
    BY <1>1, <2>1, <2>2, <2>4, <2>5 DEF Verified, OnlyOf, Captured
  <2>7. ChangesToNext' /\ CapturesMatch'
    BY <1>1 DEF Honest, ChangesToNext, CapturesMatch, IsNext, Captured
  <2> QED
    BY <2>5, <2>6, <2>7 DEF Honest
<1> QED
  BY <1>2, <1>3 DEF QueryEditBuffer

\* Saving makes another program the next one, of which there is no reply yet.
LEMMA SaveHonest == ASSUME IInv, Honest, SaveCapture PROVE Honest'
<1>1. UNCHANGED <<program, target, replies>>
  BY DEF SaveCapture, deviceVars, pipeVars
<1>2. CASE Fail /\ UNCHANGED files
  BY <1>1, <1>2, ToolMoveHonest DEF Fail, Leave
<1>3. CASE files' = [files EXCEPT ![rig] = buffer] /\ phase' = "next"
  <2>1. /\ rig \in Programs /\ buffer = rig /\ program = rig /\ target = rig
        /\ OnlyOf(rig, 1) /\ rig # None
    BY DEF SaveCapture, IInv, Progress, Honest, Verified, Programs, None
  <2>2. files' = [files EXCEPT ![rig] = rig] /\ files \in [Programs -> Programs \cup {None}]
    BY <1>3, <2>1 DEF IInv, TypeOK, ToolTypes
  <2>3. CapturesMatch' /\ files'[rig] # None
    BY <2>1, <2>2 DEF Honest, CapturesMatch
  <2>4. \A i \in DOMAIN replies : replies[i].of = rig
    BY <2>1 DEF OnlyOf, IInv, TypeOK, DeviceTypes
  <2>5. \A r \in Programs : IsNext(r)' => r # rig
    BY <2>3 DEF IsNext, Captured
  <2>6. RepliesInOrder' /\ ChangesToNext'
    BY <1>1, <2>1, <2>4, <2>5 DEF RepliesInOrder, ChangesToNext
  <2>7. Verified'
    BY <1>3 DEF Verified
  <2> QED
    BY <2>3, <2>6, <2>7 DEF Honest
<1> QED
  BY <1>2, <1>3 DEF SaveCapture

\* Asking for a program: the next one, or any when all are captured.
LEMMA ChangeHonest == ASSUME IInv, Honest, Switch \/ Restore PROVE Honest'
<1>1. UNCHANGED <<files, program, replies>>
  BY DEF Switch, Restore, diskVars, pipeVars
<1>2. RepliesInOrder' /\ CapturesMatch'
  BY <1>1 DEF Honest, RepliesInOrder, OnlyOf, CapturesMatch, IsNext, Captured
<1>3. CASE Switch /\ Fail /\ UNCHANGED target
  BY <1>1, <1>3, ToolMoveHonest DEF Fail, Leave
<1>4. CASE Switch /\ target' = rig /\ phase' = "verify"
  <2>1. IsNext(rig) /\ rig' = rig
    BY <1>4 DEF Switch, IInv, Progress, IsNext
  <2>2. \A r \in Programs : IsNext(r) => r = rig
    BY <2>1 DEF IsNext, Programs
  <2>3. ChangesToNext'
    BY <1>1, <1>4, <2>2 DEF ChangesToNext, IsNext, Captured
  <2>4. Verified'
    BY <1>1, <1>4, <2>1 DEF Verified, IsNext, Captured
  <2> QED
    BY <1>2, <2>3, <2>4 DEF Honest
<1>5. CASE Restore
  <2>1. Verified'
    BY <1>5 DEF Restore, Verified
  <2>2. ChangesToNext'
    <3>1. CASE target' = target
      BY <1>1, <3>1 DEF Honest, ChangesToNext, IsNext, Captured
    <3>2. CASE target' # target
      <4>1. phase = "next" /\ rig > Rigs /\ rig \in 1..(Rigs + 1)
        BY <1>5, <3>2 DEF Restore, IInv, TypeOK, ToolTypes
      <4>2. \A p \in Programs : Captured(p)
        BY <4>1, InventoryAssumption DEF IInv, Progress, Programs
      <4> QED
        BY <1>1, <4>2 DEF ChangesToNext, IsNext, Captured
    <3> QED
      BY <3>1, <3>2
  <2> QED
    BY <1>2, <2>1, <2>2 DEF Honest
<1> QED
  BY <1>3, <1>4, <1>5 DEF Switch

\* The device answers for the program it plays.
LEMMA AnswerHonest == ASSUME IInv, Honest, Answer PROVE Honest'
<1>1. UNCHANGED <<files, program, target, phase, rig, buffer>>
  BY DEF Answer, toolVars, diskVars, deviceVars
<1>2. replies \in Seq(Message) /\ replies' = Append(replies, [about |-> Head(asked), of |-> program])
  BY DEF Answer, IInv, TypeOK, DeviceTypes
<1>3. /\ DOMAIN replies' = DOMAIN replies \cup {Len(replies) + 1}
      /\ \A i \in DOMAIN replies : replies'[i] = replies[i] /\ i \in Int
      /\ replies'[Len(replies) + 1].of = program
      /\ Len(replies) + 1 \notin DOMAIN replies
  BY <1>2
<1>4. ASSUME NEW r, NEW i, OnlyOf(r, i), program = r PROVE OnlyOf(r, i)'
  BY <1>3, <1>4 DEF OnlyOf
<1>5. RepliesInOrder'
  <2> SUFFICES ASSUME NEW r \in Programs, IsNext(r)', NEW i \in DOMAIN replies',
                      replies'[i].of = r
               PROVE  program' = r /\ OnlyOf(r, i)'
    BY DEF RepliesInOrder
  <2>1. IsNext(r)
    BY <1>1 DEF IsNext, Captured
  <2>2. CASE i \in DOMAIN replies
    <3>1. program = r /\ OnlyOf(r, i)
      BY <1>3, <2>1, <2>2 DEF Honest, RepliesInOrder
    <3> QED
      BY <1>1, <1>4, <3>1
  <2>3. CASE i = Len(replies) + 1
    <3>1. \A j \in DOMAIN replies' : j >= i => j = i
      BY <1>2, <2>3
    <3> QED
      BY <1>1, <1>3, <2>3, <3>1 DEF OnlyOf
  <2> QED
    BY <1>3, <2>2, <2>3
<1>6. Verified'
  BY <1>1, <1>4 DEF Honest, Verified, Captured
<1>7. ChangesToNext' /\ CapturesMatch'
  BY <1>1 DEF Honest, ChangesToNext, CapturesMatch, IsNext, Captured
<1> QED
  BY <1>5, <1>6, <1>7 DEF Honest

\* The device loads what it was asked for, or forgets that it was.
LEMMA LoadHonest == ASSUME IInv, Honest, LoadProgram \/ IgnoreChange PROVE Honest'
<1>1. /\ UNCHANGED <<files, replies, phase, rig, buffer>>
      /\ program # target /\ target' = program'
      /\ program' \in {program, target}
  BY DEF LoadProgram, IgnoreChange, toolVars, diskVars, pipeVars
<1>2. \A r \in Programs : IsNext(r) => target = r
  BY <1>1 DEF Honest, ChangesToNext
<1>3. RepliesInOrder'
  BY <1>1, <1>2 DEF Honest, RepliesInOrder, OnlyOf, IsNext, Captured
<1>4. Verified'
  BY <1>1 DEF Honest, Verified, OnlyOf, Captured
<1>5. ChangesToNext' /\ CapturesMatch'
  BY <1>1 DEF Honest, ChangesToNext, CapturesMatch
<1> QED
  BY <1>3, <1>4, <1>5 DEF Honest

\* A run starts with an empty pipe.
LEMMA StartHonest == ASSUME IInv, Honest, Start PROVE Honest'
<1>1. UNCHANGED <<files, program, target>> /\ replies' = <<>> /\ phase' = "original"
  BY DEF Start, diskVars, deviceVars
<1>2. ChangesToNext' /\ CapturesMatch'
  BY <1>1 DEF Honest, ChangesToNext, CapturesMatch, IsNext, Captured
<1>3. RepliesInOrder' /\ Verified'
  BY <1>1 DEF RepliesInOrder, Verified
<1> QED
  BY <1>2, <1>3 DEF Honest

LEMMA HonestPreserved == ASSUME IInv, Honest, [Next]_vars PROVE Honest'
<1>1. CASE Signal \/ Crash
  BY <1>1, ToolMoveHonest DEF Signal, Crash, Leave, diskVars, deviceVars, pipeVars
<1>2. CASE Ask \/ SkipReply
  BY <1>2, ToolMoveHonest DEF Ask, SkipReply, toolVars, diskVars, deviceVars
<1>3. CASE QueryOriginal
  <2>1. replies' = replies \/ (replies # <<>> /\ replies' = Tail(replies))
    BY <1>3, QueryReads DEF QueryOriginal
  <2> QED
    BY <1>3, <2>1, ToolMoveHonest DEF QueryOriginal, diskVars, deviceVars
<1>4. CASE RecordOriginal \/ WriteOriginal
  BY <1>4, ToolMoveHonest DEF RecordOriginal, WriteOriginal, deviceVars, pipeVars
<1>5. CASE Resume \/ Report
  BY <1>5, ToolMoveHonest DEF Resume, Report, diskVars, deviceVars, pipeVars
<1>6. CASE LoseRequest \/ PromptnessChanges
  BY <1>6, ToolMoveHonest DEF LoseRequest, PromptnessChanges, toolVars, diskVars,
                              deviceVars, pipeVars
<1>7. CASE UNCHANGED vars
  BY <1>7, ToolMoveHonest DEF vars, toolVars, diskVars, deviceVars, pipeVars
<1> QED
  BY <1>1, <1>2, <1>3, <1>4, <1>5, <1>6, <1>7, StartHonest, VerifyHonest, EditHonest,
     SaveHonest, ChangeHonest, AnswerHonest, LoadHonest
  DEF Next

-----------------------------------------------------------------------------
(* The runs implement CaptureArchive.                                      *)

\* A run that is going on has not ended yet, and original_program.txt is
\* written only by the run that made it.
Underway ==
    /\ phase # "off" => exit = "none"
    /\ phase = "write" => saved = Torn /\ original \in Programs

LEMMA UnderwayPreserved == ASSUME IInv, Underway, [Next]_vars PROVE Underway'
<1>1. CASE Start \/ Signal \/ Crash
  BY <1>1 DEF Start, Signal, Crash, Leave, diskVars, Underway
<1>2. CASE Ask \/ SkipReply \/ QueryOriginal
  BY <1>2 DEF Ask, SkipReply, QueryOriginal, toolVars, diskVars, Underway
<1>3. CASE RecordOriginal
  <2>1. phase = "record" /\ exit' = exit /\ original \in Programs \cup {None}
    BY <1>3 DEF RecordOriginal, IInv, TypeOK, ToolTypes
  <2>2. phase' = "write" => saved' = Torn /\ saved = None /\ original # None
    BY <1>3 DEF RecordOriginal
  <2>3. saved = None => original' = original
    BY <1>3 DEF RecordOriginal, Programs, None
  <2> QED
    BY <2>1, <2>2, <2>3 DEF Underway
<1>4. CASE WriteOriginal \/ Resume
  BY <1>4 DEF WriteOriginal, Resume, Underway
<1>5. CASE Switch \/ SaveCapture
  BY <1>5 DEF Switch, SaveCapture, Fail, Leave, Underway
<1>6. CASE Verify \/ QueryEditBuffer
  BY <1>6 DEF Verify, QueryEditBuffer, TryAgain, Underway
<1>7. CASE Restore \/ Report
  BY <1>7 DEF Restore, Report, Underway
<1>8. CASE Answer \/ LoseRequest \/ LoadProgram \/ IgnoreChange \/ PromptnessChanges
  BY <1>8 DEF Answer, LoseRequest, LoadProgram, IgnoreChange, PromptnessChanges,
              toolVars, diskVars, Underway
<1>9. CASE UNCHANGED vars
  BY <1>9 DEF vars, toolVars, diskVars, Underway
<1> QED
  BY <1>1, <1>2, <1>3, <1>4, <1>5, <1>6, <1>7, <1>8, <1>9 DEF Next

\* A step that touches no file and declares nothing is a stutter of the archive.
LEMMA DirectoryUntouched ==
    ASSUME UNCHANGED <<files, saved>>, exit' = "complete" <=> exit = "complete"
    PROVE  UNCHANGED Archive!archiveVars
  BY Zenon DEF Archive!archiveVars

LEMMA ArchiveInit == Init => Archive!Init
  BY DEF Init, Archive!Init

\* A capture is saved under the first name that is missing.
LEMMA SaveIsAdd ==
    ASSUME IInv, Honest, Underway, SaveCapture
    PROVE  [Archive!Next]_Archive!archiveVars
<1>1. saved' = saved /\ exit # "complete"
  BY DEF SaveCapture, Underway
<1>2. CASE Fail /\ UNCHANGED files
  <2>1. exit' # "complete"
    BY <1>2 DEF Fail, Leave
  <2> QED
    BY <1>1, <1>2, <2>1, DirectoryUntouched
<1>3. CASE files' = [files EXCEPT ![rig] = buffer] /\ exit' = exit
  <2>1. rig \in Programs /\ buffer = rig /\ ~Captured(rig)
        /\ \A p \in Programs : p < rig => Captured(p)
    BY DEF SaveCapture, IInv, Progress, Honest, Verified
  <2>2. files' = [files EXCEPT ![rig] = rig]
    BY <1>3, <2>1
  <2>3. rig \in Archive!Missing /\ \A q \in Archive!Missing : rig <= q
    BY <2>1 DEF Archive!Missing, Captured, Programs
  <2>4. (exit = "complete")' = (exit = "complete")
    BY <1>3
  <2>5. Archive!Add(rig)
    BY <1>1, <2>2, <2>3, <2>4 DEF Archive!Add
  <2> QED
    BY <2>1, <2>5 DEF Archive!Next
<1> QED
  BY <1>2, <1>3 DEF SaveCapture

\* The record of the original program is made once, and written once.
LEMMA RecordIsKept ==
    ASSUME IInv, Underway, RecordOriginal \/ WriteOriginal
    PROVE  [Archive!Next]_Archive!archiveVars
<1>1. files' = files /\ (exit = "complete")' = (exit = "complete")
  BY DEF RecordOriginal, WriteOriginal
<1>2. CASE saved' = saved
  BY <1>1, <1>2, DirectoryUntouched
<1>3. CASE saved' # saved
  <2>1. CASE RecordOriginal
    <3>1. saved = None /\ saved' = Torn
      BY <1>3, <2>1 DEF RecordOriginal
    <3> QED
      BY <1>1, <3>1 DEF Archive!Next, Archive!MakeRecord
  <2>2. CASE WriteOriginal
    <3>1. saved = Torn /\ saved' \in Programs
      BY <1>3, <2>2 DEF WriteOriginal, Underway
    <3> QED
      BY <1>1, <3>1 DEF Archive!Next, Archive!WriteRecord
  <2> QED
    BY <2>1, <2>2
<1> QED
  BY <1>2, <1>3

\* Completeness is declared when nothing is missing.
LEMMA ReportIsDeclare ==
    ASSUME IInv, Underway, Report, CompleteMeansAll'
    PROVE  [Archive!Next]_Archive!archiveVars
<1>1. UNCHANGED <<files, saved>> /\ exit # "complete"
  BY DEF Report, diskVars, Underway
<1>2. CASE exit' = "complete"
  <2>1. \A p \in Programs : Captured(p)
    BY <1>1, <1>2 DEF CompleteMeansAll, Captured
  <2>2. Archive!Missing = {}
    BY <2>1 DEF Archive!Missing, Captured
  <2>3. ~(exit = "complete") /\ (exit = "complete")' = TRUE
    BY <1>1, <1>2
  <2>4. Archive!Declare
    BY <1>1, <2>2, <2>3 DEF Archive!Declare
  <2> QED
    BY <2>4 DEF Archive!Next
<1>3. CASE exit' # "complete"
  BY <1>1, <1>3, DirectoryUntouched
<1> QED
  BY <1>2, <1>3

LEMMA ArchiveNext ==
    ASSUME IInv, IInv', Honest, Underway, [Next]_vars
    PROVE  [Archive!Next]_Archive!archiveVars
<1>1. CASE Start \/ Signal \/ Crash
  BY <1>1, DirectoryUntouched DEF Start, Signal, Crash, Leave, diskVars, Underway
<1>2. CASE Ask \/ SkipReply \/ QueryOriginal \/ Resume \/ Restore
  BY <1>2, DirectoryUntouched DEF Ask, SkipReply, QueryOriginal, Resume, Restore, toolVars, diskVars
<1>3. CASE Switch
  BY <1>3, DirectoryUntouched DEF Switch, Fail, Leave, diskVars, Underway
<1>4. CASE Verify \/ QueryEditBuffer
  BY <1>4, DirectoryUntouched DEF Verify, QueryEditBuffer, TryAgain, diskVars, Underway
<1>5. CASE SaveCapture
  BY <1>5, SaveIsAdd
<1>6. CASE RecordOriginal \/ WriteOriginal
  BY <1>6, RecordIsKept
<1>7. CASE Report
  BY <1>7, ReportIsDeclare DEF IInv
<1>8. CASE Answer \/ LoseRequest \/ LoadProgram \/ IgnoreChange \/ PromptnessChanges
  BY <1>8, DirectoryUntouched DEF Answer, LoseRequest, LoadProgram, IgnoreChange,
                                  PromptnessChanges, toolVars, diskVars
<1>9. CASE UNCHANGED vars
  BY <1>9, DirectoryUntouched DEF vars, toolVars, diskVars
<1> QED
  BY <1>1, <1>2, <1>3, <1>4, <1>5, <1>6, <1>7, <1>8, <1>9 DEF Next

-----------------------------------------------------------------------------
(* Theorems                                                                *)

\* The invariant holds in every reachable state.
THEOREM InventoryInvariance == Spec => []IInv
<1>1. IInv /\ [Next]_vars => IInv'
  BY DevicePreserved, FlagsPreserved, CountingPreserved DEF IInv, TypeOK, Counting
<1> QED
  BY InitInvariant, <1>1, PTL DEF Spec

\* The variables keep their types through signals, crashes and faults.
THEOREM InventoryTypeCorrect == Spec => []TypeOK
  BY InventoryInvariance, PTL DEF IInv

\* Status 0 is only ever reported when every program has a capture.
THEOREM CompletionIsHonest == Spec => []CompleteMeansAll
  BY InventoryInvariance, PTL DEF IInv

\* Every capture is the edit buffer of the program it is named after, whatever
\* answers come late and however the runs end.
THEOREM CapturesAreHonest == Spec => []CapturesMatch
<1>1. Honest => CapturesMatch
  BY DEF Honest
<1>2. IInv /\ Honest /\ [Next]_vars => Honest'
  BY HonestPreserved
<1> QED
  BY InventoryInvariance, InitHonest, <1>1, <1>2, PTL DEF Spec

\* Nothing a run has put into the directory is lost or replaced by a later one,
\* however each of them ends: the directory is a CaptureArchive.
THEOREM InventoryImplementsArchive == Spec => ArchiveSpec
<1>1. Init => Underway
  BY DEF Init, Underway
<1>2. IInv /\ Honest /\ [Next]_vars => Honest'
  BY HonestPreserved
<1>3. IInv /\ Underway /\ [Next]_vars => Underway'
  BY UnderwayPreserved
<1>4. IInv /\ IInv' /\ Honest /\ Underway /\ [Next]_vars => [Archive!Next]_Archive!archiveVars
  BY ArchiveNext
<1> QED
  BY InventoryInvariance, InitHonest, ArchiveInit, <1>1, <1>2, <1>3, <1>4, PTL
  DEF Spec, ArchiveSpec, Archive!Spec
=============================================================================
