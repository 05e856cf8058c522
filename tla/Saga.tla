-------------------------------- MODULE Saga --------------------------------
(***************************************************************************)
(* std/workflow over its FileJournal and std/fsatomic: one saga whose      *)
(* caller runs, resumes and compensates it, while steps fail, saves fail,  *)
(* the process is killed and the machine loses power.                      *)
(*                                                                         *)
(* The record's file is modelled by what a reader sees and by what a power *)
(* loss may leave: a rename or an unlink is seen at once and is certain    *)
(* only after the directory is synced.                                     *)
(***************************************************************************)
EXTENDS Integers

CONSTANTS NumSteps,     \* len(saga.Steps)
          HasUndo,      \* the steps with a Compensate function
          MaxFaults     \* bound: failures, kills, power losses and compensations

Steps == 0 .. NumSteps - 1

ASSUME SagaAssumption ==
  /\ NumSteps \in Nat
  /\ HasUndo \subseteq Steps
  /\ MaxFaults \in Nat

\* Record, without the ID and Kind that never change.
Record == [found : BOOLEAN, next : 0 .. NumSteps, done : BOOLEAN]
Absent == [found |-> FALSE, next |-> 0, done |-> FALSE]
Fresh  == [found |-> TRUE, next |-> 0, done |-> FALSE]

VARIABLES
  seen,      \* the record as Load would read it
  disk,      \* the records a power loss may leave
  pc,        \* where the call under way stands
  call,      \* the function called last
  rec,       \* its `record`
  at,        \* Compensate's i
  result,    \* what the last call came to
  inPlace,   \* the steps whose external effect is in place
  settled,   \* history: steps journaled by a Save that succeeded, not undone since
  undoing,   \* history: has a Compensate begun on the record there is?
  lost,      \* history: effects that were in place when a record was deleted
  unsynced,  \* history: has a Run gone on from a rename that was not synced?
  faults     \* faults and compensations so far

file  == <<seen, disk>>
local == <<call, rec, at>>
hist  == <<settled, undoing, lost, unsynced>>
vars  == <<file, pc, local, result, inPlace, hist, faults>>

Before(n) == {i \in Steps : i < n}

-----------------------------------------------------------------------------
(* Defects of the code, for the mutation runs.                              *)

\* The directory is not synced: Save returns as soon as the rename is done.
SyncedNot == disk

\* Compensation starts below the last completed step.
FirstUndoOffByOne(r) == r.next - 2

\* A failed step is counted as completed.
StepFailsCounted ==
  /\ rec' = [rec EXCEPT !.next = rec.next + 1]
  /\ pc' = "rename"
  /\ UNCHANGED result

\* record.Done is never set.
CompleteNever(r) == r

-----------------------------------------------------------------------------
Init ==
  /\ seen = Absent
  /\ disk = {Absent}
  /\ pc = "idle"
  /\ call = "run"
  /\ rec = Absent
  /\ at = -1
  /\ result = "none"
  /\ inPlace = {}
  /\ settled = {}
  /\ undoing = FALSE
  /\ lost = {}
  /\ unsynced = FALSE
  /\ faults = 0

Return(how) == pc' = "idle" /\ result' = how

Fault == faults < MaxFaults /\ faults' = faults + 1

\* The external effect of step i may have happened or not.
InDoubt(i) == inPlace' \in {inPlace, inPlace \cup {i}}
UndoInDoubt(i) == inPlace' \in {inPlace, inPlace \ {i}}

(* Run. *)

\* The next turn of Run's loop for record r: a step, or the save of Done.
Complete(r) == [r EXCEPT !.done = TRUE]
Continue(r) ==
  IF r.next < NumSteps
  THEN pc' = "step" /\ rec' = r
  ELSE pc' = "rename" /\ rec' = Complete(r)

CallRun ==
  /\ pc = "idle"
  /\ call' = "run"
  /\ IF seen.found THEN Continue(seen) ELSE pc' = "rename" /\ rec' = Fresh
  /\ unsynced' = (unsynced \/ (seen.found /\ disk # {seen}))
  /\ UNCHANGED <<file, at, result, inPlace, settled, undoing, lost, faults>>

StepReturns ==
  /\ pc = "step"
  /\ inPlace' = inPlace \cup {rec.next}
  /\ rec' = [rec EXCEPT !.next = rec.next + 1]
  /\ pc' = "rename"
  /\ UNCHANGED <<file, call, at, result, hist, faults>>

StepError == Return("error") /\ UNCHANGED rec

StepFails ==
  /\ pc = "step"
  /\ Fault
  /\ InDoubt(rec.next)
  /\ StepError
  /\ UNCHANGED <<file, call, at, hist>>

(* FileJournal.Save: fsatomic.WriteFile. *)

\* The temporary file is written, synced and renamed over the record.
Rename ==
  /\ pc = "rename"
  /\ seen' = rec
  /\ disk' = disk \cup {rec}
  /\ pc' = "sync"
  /\ UNCHANGED <<local, result, inPlace, hist, faults>>

\* Anything before the rename fails: the record is what it was.
SaveFails ==
  /\ pc = "rename"
  /\ Fault
  /\ Return("error")
  /\ UNCHANGED <<file, local, inPlace, hist>>

\* The records that may survive once the directory is synced.
Synced == {seen}

\* The directory is synced and Save returns nil to Run.
Sync ==
  /\ pc = "sync"
  /\ disk' = Synced
  /\ settled' = Before(rec.next)
  /\ undoing' = (undoing /\ rec # Fresh)
  /\ IF rec.done THEN Return("nil") /\ UNCHANGED rec ELSE Continue(rec) /\ UNCHANGED result
  /\ UNCHANGED <<seen, call, at, inPlace, lost, unsynced, faults>>

SyncFails ==
  /\ pc = "sync"
  /\ Fault
  /\ Return("error")
  /\ UNCHANGED <<file, local, inPlace, hist>>

(* Compensate. *)

\* The step compensation starts with.
FirstUndo(r) == r.next - 1

CallCompensate ==
  /\ pc = "idle"
  /\ Fault
  /\ call' = "compensate"
  /\ rec' = seen
  /\ IF seen.found
     THEN /\ pc' = "undo" /\ at' = FirstUndo(seen)
          /\ undoing' = TRUE
          /\ UNCHANGED result
     ELSE /\ Return("nil")
          /\ UNCHANGED <<at, undoing>>
  /\ UNCHANGED <<file, inPlace, settled, lost, unsynced>>

Undo ==
  /\ pc = "undo"
  /\ at >= 0
  /\ inPlace' = inPlace \ ({at} \cap HasUndo)
  /\ settled' = settled \ {at}
  /\ at' = at - 1
  /\ UNCHANGED <<file, pc, call, rec, result, undoing, lost, unsynced, faults>>

UndoFails ==
  /\ pc = "undo"
  /\ at \in HasUndo
  /\ Fault
  /\ UndoInDoubt(at)
  /\ Return("error")
  /\ UNCHANGED <<file, local, hist>>

\* FileJournal.Delete: os.Remove, with no sync.
Unlink ==
  /\ pc = "undo"
  /\ at < 0
  /\ seen' = Absent
  /\ disk' = disk \cup {Absent}
  /\ lost' = inPlace
  /\ Return("nil")
  /\ UNCHANGED <<local, inPlace, settled, undoing, unsynced, faults>>

UnlinkFails ==
  /\ pc = "undo"
  /\ at < 0
  /\ Fault
  /\ Return("error")
  /\ UNCHANGED <<file, local, inPlace, hist>>

(* Crashes. *)

\* What was under way outside may have taken effect or not.
Interrupt ==
  CASE pc = "step" -> InDoubt(rec.next)
    [] pc = "undo" /\ at \in HasUndo -> UndoInDoubt(at)
    [] OTHER -> UNCHANGED inPlace

Kill ==
  /\ pc # "idle"
  /\ Fault
  /\ Interrupt
  /\ Return("killed")
  /\ UNCHANGED <<file, local, hist>>

PowerLoss ==
  /\ Fault
  /\ Interrupt
  /\ seen' \in disk
  /\ disk' = {seen'}
  /\ Return("killed")
  /\ UNCHANGED <<local, hist>>

Progress == StepReturns \/ Rename \/ Sync \/ Undo \/ Unlink

Next ==
  \/ CallRun \/ CallCompensate
  \/ Progress
  \/ StepFails \/ SaveFails \/ SyncFails \/ UndoFails \/ UnlinkFails
  \/ Kill \/ PowerLoss

\* Calls that have begun go on, and the caller resumes the saga again and again.
Fairness == WF_vars(Progress) /\ WF_vars(CallRun)

Spec == Init /\ [][Next]_vars /\ Fairness

-----------------------------------------------------------------------------
\* The record stays within the saga: Next never passes len(saga.Steps).
TypeOK ==
  /\ seen \in Record
  /\ disk \subseteq Record
  /\ pc \in {"idle", "step", "rename", "sync", "undo"}
  /\ call \in {"run", "compensate"}
  /\ rec \in Record
  /\ at \in -1 .. NumSteps - 1
  /\ result \in {"none", "nil", "error", "killed"}
  /\ inPlace \subseteq Steps /\ settled \subseteq Steps /\ lost \subseteq Steps
  /\ undoing \in BOOLEAN /\ unsynced \in BOOLEAN
  /\ faults \in 0 .. MaxFaults

\* A step whose completion was journaled is not run again, whatever fails or
\* is lost in between, until it has been compensated ("executes durable,
\* resumable sagas").
JournaledNotRepeated == pc = "step" => rec.next \notin settled

\* Whatever a crash leaves, the record claims no step that is not in place,
\* and a Run that succeeds has every step in place, as long as nobody has
\* begun to compensate the record ("Each completed step is journaled").
JournalIsTrue ==
  ~undoing =>
    /\ \A r \in disk : Before(r.next) \subseteq inPlace
    /\ pc = "idle" /\ call = "run" /\ result = "nil" => inPlace = Steps

\* A Compensate that is about to delete the record has undone every effect
\* that can be undone, save the one of the step that was under way when the
\* saga stopped.
OnlyTheStepInFlightIsLeft ==
  pc = "undo" /\ at < 0 /\ ~unsynced => (inPlace \cap HasUndo) \ lost \subseteq {rec.next}

\* Once failures cease, resuming the saga completes it, whatever it went
\* through ("failures retain the journal for Resume").
ResumeCompletes == <>[](seen.found /\ seen.done)

\* "FileJournal stores one crash-safe JSON record": a record that Compensate
\* deleted does not come back.
DeletedStaysDeleted ==
  [][seen = Absent /\ seen' # Absent => pc = "rename"]_vars
=============================================================================
