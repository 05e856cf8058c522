----------------------------- MODULE SagaProofs -----------------------------
(***************************************************************************)
(* For every number of steps, every choice of compensations and any number *)
(* of faults: the types of Saga, that a journaled step is not run again,   *)
(* that the journal claims no step that is not in place, and that a        *)
(* Compensate that finishes has undone what the journal claimed.           *)
(***************************************************************************)
EXTENDS Saga, TLAPS

Running == {"step", "rename", "sync"}

\* The record being compensated; settled steps above `at` are undone already.
UndoneFromAbove == pc = "undo" => settled \subseteq Before(at + 1)

\* Every record the next Load may return covers the settled steps.
SettledIsDurable ==
  /\ seen \in disk
  /\ \A r \in disk : settled \subseteq Before(r.next)
  /\ pc \in Running => settled \subseteq Before(rec.next)

\* What stands between a Rename and its Sync, and what pc says of rec.
InOrder ==
  /\ pc = "step" => rec.next < NumSteps
  /\ pc = "sync" => seen = rec
  /\ pc = "undo" => undoing
  /\ pc \in Running => rec.found
  /\ \A r \in disk : ~r.found => r.next = 0

\* The records, on disk or under way, are true while nobody compensates.
Truthful ==
  /\ \A r \in disk : r.done => r.next = NumSteps
  /\ pc \in Running => (rec.done => rec.next = NumSteps)
  /\ ~undoing =>
       /\ \A r \in disk : Before(r.next) \subseteq inPlace
       /\ pc \in Running => Before(rec.next) \subseteq inPlace
       /\ pc = "idle" /\ call = "run" /\ result = "nil" => inPlace = Steps

IInv == TypeOK /\ SettledIsDurable /\ UndoneFromAbove /\ InOrder /\ Truthful

-----------------------------------------------------------------------------
LEMMA Counts == NumSteps \in Nat /\ MaxFaults \in Nat /\ HasUndo \subseteq Steps
BY SagaAssumption

LEMMA RecordFields ==
  /\ \A r \in Record : r.found \in BOOLEAN /\ r.next \in 0 .. NumSteps /\ r.done \in BOOLEAN
  /\ Absent \in Record /\ Fresh \in Record
  /\ Absent.next = 0 /\ ~Absent.done /\ ~Absent.found
  /\ Fresh.next = 0 /\ ~Fresh.done /\ Fresh.found
BY Counts DEF Record, Absent, Fresh

LEMMA Advance ==
  ASSUME NEW r \in Record, r.next < NumSteps
  PROVE  /\ [r EXCEPT !.next = r.next + 1] \in Record
         /\ [r EXCEPT !.next = r.next + 1].next = r.next + 1
         /\ [r EXCEPT !.next = r.next + 1].done = r.done
         /\ [r EXCEPT !.next = r.next + 1].found = r.found
BY Counts DEF Record

LEMMA Completed ==
  ASSUME NEW r \in Record
  PROVE  Complete(r) \in Record /\ Complete(r).next = r.next /\ Complete(r).done /\ Complete(r).found = r.found
BY Counts DEF Record, Complete

LEMMA BeforeGrows ==
  ASSUME NEW n \in Int
  PROVE  /\ Before(n) \subseteq Before(n + 1)
         /\ Before(n + 1) \subseteq Before(n) \cup {n}
         /\ Before(n + 1) \ {n} \subseteq Before(n)
         /\ n <= 0 => Before(n) = {}
         /\ n = NumSteps => Before(n) = Steps
         /\ Before(n) \subseteq Steps
         /\ n \notin Before(n)
BY Counts DEF Before, Steps

-----------------------------------------------------------------------------
LEMMA Initially == Init => IInv
<1> SUFFICES ASSUME Init PROVE IInv
  OBVIOUS
<1> USE DEF Init
<1>1. TypeOK
  <2>1. seen \in Record /\ disk \subseteq Record /\ rec \in Record
    BY RecordFields
  <2>2. at \in -1 .. NumSteps - 1 /\ faults \in 0 .. MaxFaults
    BY Counts
  <2> QED
    BY <2>1, <2>2 DEF TypeOK
<1>2. SettledIsDurable /\ UndoneFromAbove /\ InOrder
  BY RecordFields DEF SettledIsDurable, UndoneFromAbove, InOrder, Running
<1>3. Truthful
  BY RecordFields, BeforeGrows DEF Truthful, Running
<1> QED
  BY <1>1, <1>2, <1>3 DEF IInv

\* The loop goes on with a record that covers what is settled.
LEMMA Continuing ==
  ASSUME IInv, NEW r \in Record, Continue(r)
  PROVE  /\ rec' \in Record /\ rec'.next = r.next /\ rec'.found = r.found
         /\ pc' \in {"step", "rename"}
         /\ pc' = "step" => rec'.next < NumSteps
         /\ (r.done => r.next = NumSteps) => (rec'.done => rec'.next = NumSteps)
<1>1. CASE r.next < NumSteps
  BY <1>1 DEF Continue
<1>2. CASE ~(r.next < NumSteps)
  BY <1>2, Completed, RecordFields, Counts DEF Continue
<1> QED
  BY <1>1, <1>2

LEMMA RunCalled == IInv /\ CallRun => IInv'
<1> SUFFICES ASSUME IInv, CallRun PROVE IInv'
  OBVIOUS
<1> USE DEF CallRun, file, hist
<1>0. TypeOK /\ seen \in disk /\ pc = "idle"
  BY DEF IInv, SettledIsDurable
<1>1. CASE seen.found
  <2>1. Continue(seen)
    BY <1>1
  <2>2. /\ rec' \in Record /\ rec'.next = seen.next /\ rec'.found
        /\ pc' \in {"step", "rename"}
        /\ pc' = "step" => rec'.next < NumSteps
        /\ (seen.done => seen.next = NumSteps) => (rec'.done => rec'.next = NumSteps)
    BY <1>0, <1>1, <2>1, Continuing DEF TypeOK
  <2> QED
    BY <1>0, <2>2 DEF IInv, TypeOK, SettledIsDurable, UndoneFromAbove, InOrder, Truthful, Running, Before
<1>2. CASE ~seen.found
  <2>1. pc' = "rename" /\ rec' = Fresh /\ UNCHANGED <<seen, disk>>
    BY <1>2
  <2>2. seen.next = 0 /\ Before(seen.next) = {} /\ Before(0) = {}
    BY <1>0, <1>2, BeforeGrows DEF IInv, InOrder
  <2>3. settled = {}
    BY <1>0, <2>2 DEF IInv, SettledIsDurable
  <2> QED
    BY <1>0, <2>1, <2>2, <2>3, RecordFields
    DEF IInv, TypeOK, SettledIsDurable, UndoneFromAbove, InOrder, Truthful, Running
<1> QED
  BY <1>1, <1>2

\* A call that ends, whatever it comes to short of a Run's success, keeps what
\* it found, unless the disk or the effects lose something.
LEMMA Ending ==
  ASSUME IInv, NEW how \in {"error", "killed", "nil"}, Return(how),
         UNCHANGED <<local, hist>>, inPlace' \subseteq Steps, faults' \in 0 .. MaxFaults,
         seen' \in disk', disk' \subseteq disk,
         undoing \/ inPlace \subseteq inPlace',
         how = "nil" => call # "run"
  PROVE  IInv'
<1> USE DEF Return, local, hist
<1>1. TypeOK'
  BY DEF IInv, TypeOK
<1>2. SettledIsDurable' /\ UndoneFromAbove' /\ InOrder'
  BY DEF IInv, SettledIsDurable, UndoneFromAbove, InOrder, Running
<1>3. Truthful'
  BY DEF IInv, Truthful, Running
<1> QED
  BY <1>1, <1>2, <1>3 DEF IInv

LEMMA StepReturned == IInv /\ StepReturns => IInv'
<1> SUFFICES ASSUME IInv, StepReturns PROVE IInv'
  OBVIOUS
<1> USE DEF StepReturns, file, hist
<1>1. rec \in Record /\ rec.next < NumSteps /\ rec.next \in 0 .. NumSteps
  BY RecordFields DEF IInv, TypeOK, InOrder
<1>2. /\ rec' \in Record /\ rec'.next = rec.next + 1
      /\ rec'.done = rec.done /\ rec'.found = rec.found
  BY <1>1, Advance
<1>3. rec.next \in Steps
  BY <1>1, Counts DEF Steps
<1>4. /\ Before(rec.next) \subseteq Before(rec'.next)
      /\ Before(rec'.next) \subseteq Before(rec.next) \cup {rec.next}
  BY <1>1, <1>2, BeforeGrows
<1>5. TypeOK'
  BY <1>2, <1>3 DEF IInv, TypeOK
<1>6. SettledIsDurable' /\ UndoneFromAbove' /\ InOrder'
  BY <1>2, <1>4 DEF IInv, SettledIsDurable, UndoneFromAbove, InOrder, Running
<1>7. rec.done => FALSE
  BY <1>1, Counts DEF IInv, Truthful, Running
<1>8. Truthful'
  BY <1>2, <1>4, <1>7 DEF IInv, Truthful, Running
<1> QED
  BY <1>5, <1>6, <1>8 DEF IInv

LEMMA StepFailed == IInv /\ StepFails => IInv'
<1> SUFFICES ASSUME IInv, StepFails PROVE IInv'
  OBVIOUS
<1>1. rec.next \in Steps
  BY RecordFields, Counts DEF StepFails, IInv, TypeOK, InOrder, Steps
<1>2. Return("error") /\ UNCHANGED <<local, hist>> /\ faults' \in 0 .. MaxFaults
  BY Counts DEF StepFails, StepError, Fault, local, IInv, TypeOK
<1>3. inPlace' \subseteq Steps /\ inPlace \subseteq inPlace'
  BY <1>1 DEF StepFails, InDoubt, IInv, TypeOK
<1>4. seen' \in disk' /\ disk' \subseteq disk
  BY DEF StepFails, file, IInv, SettledIsDurable
<1> QED
  BY <1>2, <1>3, <1>4, Ending

LEMMA Renamed == IInv /\ Rename => IInv'
<1> SUFFICES ASSUME IInv, Rename PROVE IInv'
  OBVIOUS
<1> USE DEF Rename, local, hist
<1>1. TypeOK'
  BY DEF IInv, TypeOK
<1>2. SettledIsDurable' /\ UndoneFromAbove' /\ InOrder'
  BY DEF IInv, SettledIsDurable, UndoneFromAbove, InOrder, Running
<1>3. Truthful'
  BY DEF IInv, Truthful, Running
<1> QED
  BY <1>1, <1>2, <1>3 DEF IInv

LEMMA SyncDone == IInv /\ Sync => IInv'
<1> SUFFICES ASSUME IInv, Sync PROVE IInv'
  OBVIOUS
<1> USE DEF Sync, Synced
<1>1. rec \in Record /\ seen = rec /\ rec.next \in 0 .. NumSteps
  BY RecordFields DEF IInv, TypeOK, InOrder
<1>2. disk' = {rec} /\ seen' = rec /\ settled' = Before(rec.next) /\ rec \in disk
  BY <1>1 DEF IInv, SettledIsDurable
<1>3. settled' \subseteq Steps /\ Before(0) = {}
  BY <1>1, <1>2, BeforeGrows
<1>4. ~undoing' => Before(rec.next) \subseteq inPlace
  BY <1>3, RecordFields DEF IInv, Truthful, Running
<1>5. (rec.done => rec.next = NumSteps) /\ rec.found
  BY DEF IInv, Truthful, InOrder, Running
<1>6. CASE rec.done
  <2>1. pc' = "idle" /\ result' = "nil" /\ rec' = rec /\ Before(rec.next) = Steps
    BY <1>1, <1>5, <1>6, BeforeGrows DEF Return
  <2>2. inPlace \subseteq Steps
    BY DEF IInv, TypeOK
  <2> QED
    BY <1>1, <1>2, <1>3, <1>4, <1>5, <2>1, <2>2
    DEF IInv, TypeOK, SettledIsDurable, UndoneFromAbove, InOrder, Truthful, Running
<1>7. CASE ~rec.done
  <2>1. Continue(rec) /\ result' = result
    BY <1>7
  <2>2. /\ rec' \in Record /\ rec'.next = rec.next /\ rec'.found
        /\ pc' \in {"step", "rename"}
        /\ pc' = "step" => rec'.next < NumSteps
        /\ rec'.done => rec'.next = NumSteps
    BY <1>1, <1>5, <2>1, Continuing
  <2> QED
    BY <1>1, <1>2, <1>3, <1>4, <1>5, <2>1, <2>2
    DEF IInv, TypeOK, SettledIsDurable, UndoneFromAbove, InOrder, Truthful, Running
<1> QED
  BY <1>6, <1>7

LEMMA SaveFailed == IInv /\ (SaveFails \/ SyncFails \/ UnlinkFails) => IInv'
<1> SUFFICES ASSUME IInv, SaveFails \/ SyncFails \/ UnlinkFails PROVE IInv'
  OBVIOUS
<1>1. Return("error") /\ UNCHANGED <<local, hist, file, inPlace>> /\ faults' \in 0 .. MaxFaults
  BY Counts DEF SaveFails, SyncFails, UnlinkFails, Fault, IInv, TypeOK
<1>2. inPlace' \subseteq Steps /\ seen' \in disk' /\ disk' \subseteq disk
  BY <1>1 DEF file, IInv, TypeOK, SettledIsDurable
<1> QED
  BY <1>1, <1>2, Ending

-----------------------------------------------------------------------------
LEMMA CompensateCalled == IInv /\ CallCompensate => IInv'
<1> SUFFICES ASSUME IInv, CallCompensate PROVE IInv'
  OBVIOUS
<1> USE DEF CallCompensate, file
<1>1. seen \in Record /\ seen \in disk /\ seen.next \in 0 .. NumSteps /\ faults' \in 0 .. MaxFaults
  BY RecordFields, Counts DEF IInv, TypeOK, SettledIsDurable, Fault
<1>2. CASE seen.found
  <2>1. at' = seen.next - 1 /\ at' \in -1 .. NumSteps - 1 /\ at' + 1 = seen.next
    BY <1>1, <1>2, Counts DEF FirstUndo
  <2>2. settled \subseteq Before(at' + 1)
    BY <1>1, <2>1 DEF IInv, SettledIsDurable
  <2> QED
    BY <1>1, <1>2, <2>1, <2>2
    DEF IInv, TypeOK, SettledIsDurable, UndoneFromAbove, InOrder, Truthful, Running
<1>3. CASE ~seen.found
  BY <1>1, <1>3
  DEF Return, IInv, TypeOK, SettledIsDurable, UndoneFromAbove, InOrder, Truthful, Running
<1> QED
  BY <1>2, <1>3

LEMMA UndoneOne == IInv /\ Undo => IInv'
<1> SUFFICES ASSUME IInv, Undo PROVE IInv'
  OBVIOUS
<1> USE DEF Undo, file
<1>1. at \in 0 .. NumSteps - 1 /\ at' \in -1 .. NumSteps - 1 /\ at' + 1 = at
  BY Counts DEF IInv, TypeOK
<1>2. settled' \subseteq Before(at' + 1)
  BY <1>1, BeforeGrows DEF IInv, UndoneFromAbove
<1> QED
  BY <1>1, <1>2
  DEF IInv, TypeOK, SettledIsDurable, UndoneFromAbove, InOrder, Truthful, Running

LEMMA UndoFailed == IInv /\ UndoFails => IInv'
<1> SUFFICES ASSUME IInv, UndoFails PROVE IInv'
  OBVIOUS
<1>1. Return("error") /\ UNCHANGED <<local, hist, file>> /\ faults' \in 0 .. MaxFaults
  BY Counts DEF UndoFails, Fault, IInv, TypeOK
<1>2. inPlace' \subseteq Steps /\ undoing
  BY DEF UndoFails, UndoInDoubt, IInv, TypeOK, InOrder
<1>3. seen' \in disk' /\ disk' \subseteq disk
  BY <1>1 DEF file, IInv, SettledIsDurable
<1> QED
  BY <1>1, <1>2, <1>3, Ending

LEMMA Unlinked == IInv /\ Unlink => IInv'
<1> SUFFICES ASSUME IInv, Unlink PROVE IInv'
  OBVIOUS
<1> USE DEF Unlink, local, Return
<1>1. settled = {} /\ undoing
  <2>1. at + 1 <= 0 /\ at + 1 \in Int
    BY DEF IInv, TypeOK
  <2>2. Before(at + 1) = {}
    BY <2>1, BeforeGrows
  <2> QED
    BY <2>2 DEF IInv, UndoneFromAbove, InOrder
<1> QED
  BY <1>1, RecordFields
  DEF IInv, TypeOK, SettledIsDurable, UndoneFromAbove, InOrder, Truthful, Running

-----------------------------------------------------------------------------
LEMMA Interrupted ==
  ASSUME IInv, Interrupt
  PROVE  inPlace' \subseteq Steps /\ (undoing \/ inPlace \subseteq inPlace')
<1>1. CASE pc = "step"
  <2>1. rec.next \in Steps
    BY <1>1, RecordFields, Counts DEF IInv, TypeOK, InOrder, Steps
  <2> QED
    BY <1>1, <2>1 DEF Interrupt, InDoubt, IInv, TypeOK
<1>2. CASE pc = "undo" /\ at \in HasUndo
  BY <1>2 DEF Interrupt, UndoInDoubt, IInv, TypeOK, InOrder
<1>3. CASE ~(pc = "step") /\ ~(pc = "undo" /\ at \in HasUndo)
  BY <1>3 DEF Interrupt, IInv, TypeOK
<1> QED
  BY <1>1, <1>2, <1>3

LEMMA Crashed == IInv /\ (Kill \/ PowerLoss) => IInv'
<1> SUFFICES ASSUME IInv, Kill \/ PowerLoss PROVE IInv'
  OBVIOUS
<1>1. /\ Return("killed") /\ UNCHANGED <<local, hist>> /\ faults' \in 0 .. MaxFaults
      /\ Interrupt
  BY Counts DEF Kill, PowerLoss, Fault, IInv, TypeOK
<1>2. seen' \in disk' /\ disk' \subseteq disk
  BY DEF Kill, PowerLoss, file, IInv, SettledIsDurable
<1> QED
  BY <1>1, <1>2, Interrupted, Ending

LEMMA Inductive == IInv /\ [Next]_vars => IInv'
<1> SUFFICES ASSUME IInv, [Next]_vars PROVE IInv'
  OBVIOUS
<1>1. CASE UNCHANGED vars
  BY <1>1 DEF vars, file, local, hist, IInv, TypeOK, SettledIsDurable, UndoneFromAbove,
              InOrder, Truthful, Running
<1>2. CASE CallRun
  BY <1>2, RunCalled
<1>3. CASE CallCompensate
  BY <1>3, CompensateCalled
<1>4. CASE Progress
  BY <1>4, StepReturned, Renamed, SyncDone, UndoneOne, Unlinked DEF Progress
<1>5. CASE StepFails \/ UndoFails
  BY <1>5, StepFailed, UndoFailed
<1>6. CASE SaveFails \/ SyncFails \/ UnlinkFails
  BY <1>6, SaveFailed
<1>7. CASE Kill \/ PowerLoss
  BY <1>7, Crashed
<1> QED
  BY <1>1, <1>2, <1>3, <1>4, <1>5, <1>6, <1>7 DEF Next

\* The record on disk, the one in hand and the steps in place hold together
\* through every failure and crash of a saga.
THEOREM Invariance == Spec => []IInv
BY Initially, Inductive, PTL DEF Spec

\* Type correctness, for any number of steps and faults.
THEOREM TypeCorrect == Spec => []TypeOK
<1>1. IInv => TypeOK
  BY DEF IInv
<1> QED
  BY <1>1, Invariance, PTL

\* Whatever fails, is killed or loses power, Run never begins a step whose
\* completion a Save has journaled and no Compensate has undone.
THEOREM NeverTwice == Spec => []JournaledNotRepeated
<1>1. IInv => JournaledNotRepeated
  <2> SUFFICES ASSUME IInv, pc = "step" PROVE rec.next \notin settled
    BY DEF JournaledNotRepeated
  <2>1. rec.next \in Int
    BY RecordFields DEF IInv, TypeOK
  <2>2. rec.next \notin Before(rec.next)
    BY <2>1, BeforeGrows
  <2> QED
    BY <2>2 DEF IInv, SettledIsDurable, Running
<1> QED
  BY <1>1, Invariance, PTL

\* Until somebody compensates it, no record a crash may leave claims a step
\* that is not in place, and a Run that returns nil leaves every step in place.
THEOREM JournalTrue == Spec => []JournalIsTrue
<1>1. IInv => JournalIsTrue
  BY DEF IInv, Truthful, JournalIsTrue
<1> QED
  BY <1>1, Invariance, PTL
-----------------------------------------------------------------------------
(* What compensation leaves.                                               *)

\* The effects that a Compensate would have to undo.
Left == (inPlace \cap HasUndo) \ lost

\* A Compensate of record r reaches all of them but that of the step r was at.
Covers(r) == Left \subseteq Before(r.next + 1)

\* As long as every Run has gone on from a record that was certain, every record a
\* crash may leave is at most one step behind what is in place.
LeftInv ==
  ~unsynced =>
    /\ \A r \in disk : Covers(r)
    /\ pc \in Running => Covers(rec)
    /\ pc = "step" => disk = {rec}
    /\ pc = "undo" => Left \subseteq Before(at + 1) \cup {rec.next}

\* A call that ends and adds no effect.
LEMMA LeftEnding ==
  ASSUME LeftInv, ~unsynced, pc' = "idle", disk' \subseteq disk, Left' \subseteq Left
  PROVE  LeftInv'
BY DEF LeftInv, Covers, Running

\* A step that is cut short: the record it belongs to is the only one there is.
LEMMA LeftInDoubt ==
  ASSUME IInv, LeftInv, ~unsynced, pc = "step", pc' = "idle", disk' \subseteq disk,
         InDoubt(rec.next), UNCHANGED lost
  PROVE  LeftInv'
<1>1. rec.next \in Steps /\ disk = {rec} /\ Left \subseteq Before(rec.next + 1)
  BY RecordFields, Counts DEF IInv, TypeOK, InOrder, Steps, LeftInv, Covers
<1>2. rec.next \in Before(rec.next + 1)
  BY <1>1, Counts DEF Before, Steps
<1>3. Left' \subseteq Before(rec.next + 1)
  BY <1>1, <1>2 DEF InDoubt, Left
<1> QED
  BY <1>1, <1>3 DEF LeftInv, Covers, Running

LEMMA LeftRunCalled == IInv /\ LeftInv /\ CallRun => LeftInv'
<1> SUFFICES ASSUME IInv, LeftInv, CallRun, ~unsynced' PROVE LeftInv'
  BY DEF LeftInv
<1>0. /\ ~unsynced /\ seen \in disk /\ seen \in Record /\ UNCHANGED <<disk, inPlace, lost>>
      /\ seen.found => disk = {seen}
  BY DEF CallRun, file, IInv, TypeOK, SettledIsDurable
<1>1. Left' = Left /\ \A r \in disk : Covers(r)
  BY <1>0 DEF Left, LeftInv
<1>2. CASE seen.found
  <2>1. /\ Continue(seen) /\ rec'.next = seen.next /\ pc' \in {"step", "rename"}
        /\ pc' = "step" => rec' = seen
    BY <1>0, <1>2, Continuing, Completed, RecordFields DEF CallRun, Continue
  <2> QED
    BY <1>0, <1>1, <1>2, <2>1 DEF LeftInv, Covers
<1>3. CASE ~seen.found
  <2>1. rec'.next = seen.next /\ pc' = "rename"
    BY <1>0, <1>3, RecordFields DEF CallRun, IInv, InOrder
  <2> QED
    BY <1>0, <1>1, <2>1 DEF LeftInv, Covers
<1> QED
  BY <1>2, <1>3

LEMMA LeftProgress == IInv /\ LeftInv /\ Progress => LeftInv'
<1> SUFFICES ASSUME IInv, LeftInv, Progress, ~unsynced PROVE LeftInv'
  BY DEF LeftInv, Progress, StepReturns, Rename, Sync, Undo, Unlink, hist
<1>1. CASE StepReturns
  <2>1. /\ rec \in Record /\ rec.next \in Steps /\ rec.next \in Nat /\ rec'.next = rec.next + 1
        /\ disk = {rec} /\ Left \subseteq Before(rec.next + 1)
        /\ pc' = "rename" /\ UNCHANGED <<disk, lost>>
    BY <1>1, Advance, RecordFields, Counts
       DEF StepReturns, file, hist, IInv, TypeOK, InOrder, Steps, LeftInv, Covers
  <2>2. Before(rec.next + 1) \subseteq Before(rec'.next + 1) /\ rec.next \in Before(rec.next + 1)
    BY <2>1, Counts DEF Before, Steps
  <2>3. Left' \subseteq Before(rec.next + 1)
    BY <1>1, <2>1, <2>2 DEF StepReturns, Left
  <2> QED
    BY <2>1, <2>2, <2>3 DEF LeftInv, Covers
<1>2. CASE Rename
  BY <1>2 DEF Rename, local, hist, LeftInv, Covers, Left, Running
<1>3. CASE Sync
  <2>1. /\ pc = "sync" /\ seen = rec /\ disk' = {rec} /\ UNCHANGED <<inPlace, lost>> /\ rec \in Record
    BY <1>3 DEF Sync, Synced, IInv, InOrder, TypeOK
  <2>2. Left' = Left /\ Left \subseteq Before(rec.next + 1)
    BY <2>1 DEF Left, LeftInv, Covers, Running
  <2>3. \/ pc' = "idle"
        \/ rec'.next = rec.next /\ pc' \in {"step", "rename"} /\ (pc' = "step" => rec' = rec)
    BY <1>3, <2>1, Continuing, Completed DEF Sync, Return, Continue
  <2>4. \A r \in disk' : Covers(r)'
    BY <2>1, <2>2 DEF Covers
  <2>5. pc' # "undo" /\ (pc' \in Running => Covers(rec)')
    BY <2>2, <2>3 DEF Covers, Running
  <2>6. pc' = "step" => disk' = {rec'}
    BY <2>1, <2>3
  <2> QED
    BY <2>4, <2>5, <2>6 DEF LeftInv
<1>4. CASE Undo
  <2>1. /\ pc' = "undo" /\ at' = at - 1 /\ at \in Int /\ UNCHANGED <<disk, lost, rec>>
        /\ inPlace' = inPlace \ ({at} \cap HasUndo)
        /\ Left \subseteq Before(at + 1) \cup {rec.next}
    BY <1>4 DEF Undo, file, LeftInv, IInv, TypeOK, hist
  <2>2. Left' \subseteq Left \ {at}
    BY <2>1 DEF Left
  <2>3. Before(at + 1) \ {at} \subseteq Before(at' + 1)
    BY <2>1 DEF Before, Steps
  <2> QED
    BY <2>1, <2>2, <2>3, <1>4 DEF LeftInv, Covers, Running
<1>5. CASE Unlink
  <2>1. Left' = {} /\ pc' = "idle"
    BY <1>5 DEF Unlink, Return, Left
  <2> QED
    BY <2>1 DEF LeftInv, Covers, Running
<1> QED
  BY <1>1, <1>2, <1>3, <1>4, <1>5 DEF Progress

LEMMA LeftCompensateCalled == IInv /\ LeftInv /\ CallCompensate => LeftInv'
<1> SUFFICES ASSUME IInv, LeftInv, CallCompensate PROVE LeftInv'
  OBVIOUS
<1>0. unsynced' = unsynced
  BY DEF CallCompensate
<1> SUFFICES ASSUME ~unsynced PROVE LeftInv'
  BY <1>0 DEF LeftInv
<1>1. /\ seen \in disk /\ rec' = seen /\ UNCHANGED <<disk, inPlace, lost>> /\ seen.next \in Nat
  BY RecordFields, Counts DEF CallCompensate, file, IInv, SettledIsDurable, TypeOK
<1>2. Left' = Left /\ \A r \in disk : Covers(r)
  BY <1>1 DEF Left, LeftInv
<1>3. CASE pc' = "undo" /\ at' = seen.next - 1
  <2>1. Before(seen.next + 1) \subseteq Before(at' + 1) \cup {rec'.next}
    BY <1>1, <1>3 DEF Before, Steps
  <2> QED
    BY <1>1, <1>2, <1>3, <2>1 DEF LeftInv, Covers, Running
<1>4. CASE pc' = "idle"
  BY <1>1, <1>2, <1>4 DEF LeftInv, Covers, Running
<1>5. (pc' = "undo" /\ at' = seen.next - 1) \/ pc' = "idle"
  BY DEF CallCompensate, FirstUndo, Return
<1> QED
  BY <1>3, <1>4, <1>5

LEMMA LeftStep == IInv /\ LeftInv /\ [Next]_vars => LeftInv'
<1> SUFFICES ASSUME IInv, LeftInv, [Next]_vars PROVE LeftInv'
  OBVIOUS
<1>1. CASE UNCHANGED vars
  BY <1>1 DEF vars, file, local, hist, LeftInv, Covers, Left
<1>2. CASE StepFails \/ UndoFails \/ SaveFails \/ SyncFails \/ UnlinkFails \/ Kill \/ PowerLoss
  <2> SUFFICES ASSUME ~unsynced PROVE LeftInv'
    BY <1>2 DEF LeftInv, StepFails, UndoFails, SaveFails, SyncFails, UnlinkFails, Kill, PowerLoss, hist
  <2>1. pc' = "idle" /\ disk' \subseteq disk /\ UNCHANGED lost
    BY <1>2 DEF StepFails, UndoFails, SaveFails, SyncFails, UnlinkFails, Kill, PowerLoss,
                StepError, Return, file, hist, IInv, SettledIsDurable
  <2>2. CASE pc = "step" /\ InDoubt(rec.next)
    BY <2>1, <2>2, LeftInDoubt
  <2>3. CASE inPlace' \subseteq inPlace
    BY <2>1, <2>3, LeftEnding DEF Left
  <2> QED
    BY <1>2, <2>2, <2>3 DEF StepFails, UndoFails, SaveFails, SyncFails, UnlinkFails, Kill, PowerLoss,
                            Interrupt, UndoInDoubt
<1> QED
  BY <1>1, <1>2, LeftRunCalled, LeftProgress, LeftCompensateCalled DEF Next

\* A Compensate that comes to deleting the record has undone every effect that can be
\* undone but that of the step under way when the saga stopped, for any number of
\* steps, failures, kills and power losses (Compensate's loop and Run's order of
\* step and Save), as long as every Run went on from a record that was synced.
THEOREM CompensatesAll == Spec => []OnlyTheStepInFlightIsLeft
<1>1. Init => IInv /\ LeftInv
  BY Initially DEF Init, LeftInv, Covers, Left, Running
<1>2. IInv /\ LeftInv /\ [Next]_vars => IInv' /\ LeftInv'
  BY Inductive, LeftStep
<1>3. IInv /\ LeftInv => OnlyTheStepInFlightIsLeft
  <2> SUFFICES ASSUME IInv, LeftInv, pc = "undo", at < 0, ~unsynced PROVE Left \subseteq {rec.next}
    BY DEF OnlyTheStepInFlightIsLeft, Left
  <2>1. Before(at + 1) = {}
    BY Counts DEF IInv, TypeOK, Before, Steps
  <2> QED
    BY <2>1 DEF LeftInv
<1> QED
  BY <1>1, <1>2, <1>3, PTL DEF Spec
=============================================================================
