--------------------------- MODULE LspDiagnostics ---------------------------
(***************************************************************************)
(* internal/lsp: from the editor's keystrokes to the diagnostics it shows. *)
(*                                                                         *)
(* The editor and the main loop (Serve) share a FIFO pipe.  The main loop  *)
(* records the buffers under s.mu and arms a debounce timer; a timer that  *)
(* fires is a goroutine of its own, running runDiagnostics.  Those         *)
(* goroutines take genMu one at a time, snapshot the buffers under s.mu,   *)
(* generate, and publish file by file.  Whatever runs under s.mu is one    *)
(* step here; everything else interleaves.                                 *)
(*                                                                         *)
(* A text is what generation makes of it: it passes, it holds a typed      *)
(* hole, or it does not parse.                                             *)
(***************************************************************************)
EXTENDS Integers, Sequences, FiniteSets

CONSTANTS
  Files,           \* the source files of the workspace
  Timers,          \* the time.AfterFunc timers alive at once, and their goroutines
  MaxEdits         \* bound on the editor's actions

NoTimer == "none"
Closed  == "closed"

ASSUME LspAssumption ==
  /\ NoTimer \notin Timers
  /\ MaxEdits \in Nat

Texts    == {"clean", "hole", "broken"}
Verdicts == {"clean", "hole", "error"}    \* what a file's diagnostics amount to
Buffers  == [Files -> Texts \cup {Closed}]

\* A timer is free (stopped, or its goroutine returned), armed, or a goroutine
\* on its way through runDiagnostics.
Phases == {"free", "armed", "waiting", "locked", "copied", "diagnosed", "publishing"}

Notifications ==
  [kind : {"open", "change"}, file : Files, text : Texts]
    \cup [kind : {"save", "close"}, file : Files]

VARIABLES
  disk,       \* the texts on disk
  buf,        \* the editor's buffers, Closed where there is none
  edits,      \* editor actions so far
  inbox,      \* notifications on their way to the server
  shown,      \* the diagnostics the editor shows, per file
  pc,         \* main loop: "read", or "schedule" once the overlay is set
  overlays,   \* s.overlays, Closed where there is none
  debounce,   \* s.debounce
  holes,      \* s.holes: files with open typed holes
  genMu,      \* the goroutine that holds s.genMu
  phase,      \* where each timer stands
  snap,       \* local to each goroutine: its copy of s.overlays
  snapRev,    \* history: the rev it was copied at
  verdict,    \* local: what generation found
  pending,    \* local: the files of byFile still to publish
  rev,        \* history: how often s.overlays was written
  seen,       \* history: the snapRev of what was published last
  stale       \* history: has a buffer been dropped, or a generation failed, since
              \* a timer was last armed?

vars == <<disk, buf, edits, inbox, shown, pc, overlays, debounce, holes, genMu,
          phase, snap, snapRev, verdict, pending, rev, seen, stale>>

editor == <<disk, buf, edits>>
locals == <<snap, snapRev, verdict, pending>>

NoBuffers == [f \in Files |-> Closed]
AllClean  == [f \in Files |-> "clean"]

\* What goml.Run reads for a file: its overlay if it has one, else the disk.
Effective(over, dsk) == [f \in Files |-> IF over[f] = Closed THEN dsk[f] ELSE over[f]]

-----------------------------------------------------------------------------
(* Defects of the code, for the mutation runs.                             *)

\* s.holes grows and is never replaced.
AccumulatedHoles(v) == holes \cup {f \in Files : v[f] = "hole"}

\* ScheduleDiagnostics leaves the work to a generation that is under way.
RearmUnlessRunning(t) ==
  IF genMu # NoTimer THEN phase
  ELSE [u \in Timers |-> IF u = t THEN "armed"
                         ELSE IF u = debounce /\ phase[u] = "armed" THEN "free"
                         ELSE phase[u]]

\* genMu dropped: generations overlap.
AcquireAnyway(t) ==
  /\ phase[t] = "waiting"
  /\ genMu' = t
  /\ phase' = [phase EXCEPT ![t] = "locked"]
  /\ UNCHANGED <<editor, inbox, shown, pc, overlays, debounce, holes, locals, rev, seen, stale>>

-----------------------------------------------------------------------------
\* gen.Run stops after pass 1 when a file does not parse; the holes, which only
\* resolution reports, are then missing from its result.
Diagnose(ws) ==
  [f \in Files |->
     IF \E g \in Files : ws[g] = "broken"
     THEN IF ws[f] = "broken" THEN "error" ELSE "clean"
     ELSE ws[f]]

\* byFile: every open file, so that its stale diagnostics are cleared, and
\* every file with a diagnostic.
ByFile(over, v) == {f \in Files : over[f] # Closed \/ v[f] # "clean"}

\* The map built from res.Holes, which replaces s.holes.
NewHoles(v) == {f \in Files : v[f] = "hole"}

\* debounce.Stop() and time.AfterFunc: a timer that has fired cannot be stopped.
Rearm(t) ==
  [u \in Timers |-> IF u = t THEN "armed"
                    ELSE IF u = debounce /\ phase[u] = "armed" THEN "free"
                    ELSE phase[u]]

Init ==
  /\ disk \in [Files -> Texts]
  /\ buf = NoBuffers
  /\ edits = 0
  /\ inbox = <<>>
  /\ shown = AllClean
  /\ pc = "read"
  /\ overlays = NoBuffers
  /\ debounce = NoTimer
  /\ holes = {}
  /\ genMu = NoTimer
  /\ phase = [t \in Timers |-> "free"]
  /\ snap = [t \in Timers |-> NoBuffers]
  /\ snapRev = [t \in Timers |-> 0]
  /\ verdict = [t \in Timers |-> AllClean]
  /\ pending = [t \in Timers |-> {}]
  /\ rev = 0
  /\ seen = 0
  /\ stale = FALSE

\* The editor --------------------------------------------------------------

Send(n) ==
  /\ edits < MaxEdits
  /\ edits' = edits + 1
  /\ inbox' = Append(inbox, n)
  /\ UNCHANGED <<shown, pc, overlays, debounce, holes, genMu, phase, locals, rev, seen, stale>>

Open(f) ==
  /\ buf[f] = Closed
  /\ buf' = [buf EXCEPT ![f] = disk[f]]
  /\ Send([kind |-> "open", file |-> f, text |-> disk[f]])
  /\ UNCHANGED disk

Edit(f, x) ==
  /\ buf[f] \notin {Closed, x}
  /\ buf' = [buf EXCEPT ![f] = x]
  /\ Send([kind |-> "change", file |-> f, text |-> x])
  /\ UNCHANGED disk

Save(f) ==
  /\ buf[f] \notin {Closed, disk[f]}
  /\ disk' = [disk EXCEPT ![f] = buf[f]]
  /\ Send([kind |-> "save", file |-> f])
  /\ UNCHANGED buf

\* Saved or not.
Close(f) ==
  /\ buf[f] # Closed
  /\ buf' = [buf EXCEPT ![f] = Closed]
  /\ Send([kind |-> "close", file |-> f])
  /\ UNCHANGED disk

Editor == \E f \in Files : Open(f) \/ Save(f) \/ Close(f) \/ \E x \in Texts : Edit(f, x)

\* The main loop: Serve, handle, Dispatch ----------------------------------

SetOverlay ==
  /\ Head(inbox).kind \in {"open", "change"}
  /\ overlays' = [overlays EXCEPT ![Head(inbox).file] = Head(inbox).text]
  /\ rev' = rev + 1
  /\ pc' = "schedule"
  /\ UNCHANGED stale

DropOverlay ==
  /\ Head(inbox).kind = "close"
  /\ overlays' = [overlays EXCEPT ![Head(inbox).file] = Closed]
  /\ rev' = rev + 1
  /\ stale' = TRUE
  /\ UNCHANGED pc

Saved ==
  /\ Head(inbox).kind = "save"
  /\ pc' = "schedule"
  /\ UNCHANGED <<overlays, rev, stale>>

Dispatch ==
  /\ pc = "read"
  /\ inbox # <<>>
  /\ SetOverlay \/ DropOverlay \/ Saved
  /\ inbox' = Tail(inbox)
  /\ UNCHANGED <<editor, shown, debounce, holes, genMu, phase, locals, seen>>

ScheduleDiagnostics ==
  /\ pc = "schedule"
  /\ pc' = "read"
  /\ \E t \in Timers :
       /\ phase[t] = "free"
       /\ phase' = Rearm(t)
       /\ debounce' = t
  /\ stale' = FALSE
  /\ UNCHANGED <<editor, inbox, shown, overlays, holes, genMu, locals, rev, seen>>

\* The goroutines of the timers: runDiagnostics ----------------------------

Fire(t) ==
  /\ phase[t] = "armed"
  /\ phase' = [phase EXCEPT ![t] = "waiting"]
  /\ UNCHANGED <<editor, inbox, shown, pc, overlays, debounce, holes, genMu, locals, rev, seen, stale>>

Acquire(t) ==
  /\ phase[t] = "waiting"
  /\ genMu = NoTimer
  /\ genMu' = t
  /\ phase' = [phase EXCEPT ![t] = "locked"]
  /\ UNCHANGED <<editor, inbox, shown, pc, overlays, debounce, holes, locals, rev, seen, stale>>

Snapshot(t) ==
  /\ phase[t] = "locked"
  /\ phase' = [phase EXCEPT ![t] = "copied"]
  /\ snap' = [snap EXCEPT ![t] = overlays]
  /\ snapRev' = [snapRev EXCEPT ![t] = rev]
  /\ UNCHANGED <<editor, inbox, shown, pc, overlays, debounce, holes, genMu, verdict,
                 pending, rev, seen, stale>>

\* genMu.Unlock; the goroutine returns and its locals are gone.
Return(t) ==
  /\ genMu' = NoTimer
  /\ phase' = [phase EXCEPT ![t] = "free"]
  /\ snap' = [snap EXCEPT ![t] = NoBuffers]
  /\ snapRev' = [snapRev EXCEPT ![t] = 0]
  /\ verdict' = [verdict EXCEPT ![t] = AllClean]
  /\ pending' = [pending EXCEPT ![t] = {}]

\* goml.Run on the copy and on the disk as it now is.
Generate(t) ==
  /\ phase[t] = "copied"
  /\ phase' = [phase EXCEPT ![t] = "diagnosed"]
  /\ verdict' = [verdict EXCEPT ![t] = Diagnose(Effective(snap[t], disk))]
  /\ UNCHANGED <<editor, inbox, shown, pc, overlays, debounce, holes, genMu, snap,
                 snapRev, pending, rev, seen, stale>>

\* goml.Run returned an error: runDiagnostics returns and says nothing.
GenerateFails(t) ==
  /\ phase[t] = "copied"
  /\ Return(t)
  /\ stale' = TRUE
  /\ UNCHANGED <<editor, inbox, shown, pc, overlays, debounce, holes, rev, seen>>

ReplaceHoles(t) ==
  /\ phase[t] = "diagnosed"
  /\ phase' = [phase EXCEPT ![t] = "publishing"]
  /\ holes' = NewHoles(verdict[t])
  /\ pending' = [pending EXCEPT ![t] = ByFile(snap[t], verdict[t])]
  /\ UNCHANGED <<editor, inbox, shown, pc, overlays, debounce, genMu, snap, snapRev,
                 verdict, rev, seen, stale>>

\* One publishDiagnostics notification; the map is ranged over in any order.
Publish(t, f) ==
  /\ phase[t] = "publishing"
  /\ f \in pending[t]
  /\ shown' = [shown EXCEPT ![f] = verdict[t][f]]
  /\ pending' = [pending EXCEPT ![t] = @ \ {f}]
  /\ seen' = snapRev[t]
  /\ UNCHANGED <<editor, inbox, pc, overlays, debounce, holes, genMu, phase, snap,
                 snapRev, verdict, rev, stale>>

Finish(t) ==
  /\ phase[t] = "publishing"
  /\ pending[t] = {}
  /\ Return(t)
  /\ UNCHANGED <<editor, inbox, shown, pc, overlays, debounce, holes, rev, seen, stale>>

RunDiagnostics(t) ==
  \/ Acquire(t) \/ Snapshot(t) \/ Generate(t) \/ GenerateFails(t)
  \/ ReplaceHoles(t) \/ Finish(t)
  \/ \E f \in Files : Publish(t, f)

MainLoop == Dispatch \/ ScheduleDiagnostics

Next ==
  \/ Editor
  \/ MainLoop
  \/ \E t \in Timers : Fire(t) \/ RunDiagnostics(t)

Spec == Init /\ [][Next]_vars

\* The server's own goroutines are scheduled and its timers expire; the
\* editor need not do anything.  genMu is granted to whoever waits for it.
Fairness ==
  /\ WF_vars(MainLoop)
  /\ \A t \in Timers : WF_vars(Fire(t)) /\ WF_vars(RunDiagnostics(t))

FairSpec == Spec /\ Fairness

-----------------------------------------------------------------------------
\* Every buffer, verdict and lock of the diagnostics pipeline has its type.
TypeOK ==
  /\ disk \in [Files -> Texts]
  /\ buf \in Buffers
  /\ edits \in 0..MaxEdits
  /\ inbox \in Seq(Notifications)
  /\ shown \in [Files -> Verdicts]
  /\ pc \in {"read", "schedule"}
  /\ overlays \in Buffers
  /\ debounce \in Timers \cup {NoTimer}
  /\ holes \in SUBSET Files
  /\ genMu \in Timers \cup {NoTimer}
  /\ phase \in [Timers -> Phases]
  /\ snap \in [Timers -> Buffers]
  /\ snapRev \in [Timers -> Nat]
  /\ verdict \in [Timers -> [Files -> Verdicts]]
  /\ pending \in [Timers -> SUBSET Files]
  /\ rev \in Nat
  /\ seen \in Nat
  /\ stale \in BOOLEAN

\* What the editor would type: the buffers it has, and the disk for the rest.
Workspace == Effective(buf, disk)

\* The editor's view: the writing of s.overlays its diagnostics go back to.
View == INSTANCE FreshView WITH current <- rev, view <- seen

\* What the editor shows is a view of the server's buffers that never goes
\* back to an older state of them: the copy is made after genMu is taken
\* (server.gp, runDiagnostics), so a goroutine that waited long publishes what
\* is there when its turn comes.
ShownIsFreshView == View!Spec

\* At most one debounce timer is pending: ScheduleDiagnostics stops the one
\* before (server.gp), so a burst of edits costs one generation.
OneArmed == \A t, u \in Timers : phase[t] = "armed" /\ phase[u] = "armed" => t = u

\* Between generations every hole that hover answers from s.holes is also a
\* hole the editor shows: runDiagnostics replaces the map and publishes the
\* same result under one genMu.
HolesAreShown == genMu = NoTimer => \A f \in holes : shown[f] = "hole"

\* Once the editor stops, every open file comes to show the diagnostics of
\* the buffers as they are: no edit is lost to the debounce, to a generation
\* already under way, or to a late one ("diagnostics as you type"), and a
\* generation that failed is made up for by the next notification that
\* schedules one.
OpenFilesConverge ==
  <>[](stale \/ \A f \in Files : buf[f] # Closed => shown[f] = Diagnose(Workspace)[f])

\* Closing a buffer forgets it ("DropOverlay forgets a closed buffer"): what
\* is shown comes to follow from the buffers that are open and from the disk.
ClosedBuffersForgotten ==
  <>[](\A f \in Files : shown[f] = Diagnose(Workspace)[f])

=============================================================================
