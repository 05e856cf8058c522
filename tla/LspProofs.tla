------------------------------ MODULE LspProofs ------------------------------
(***************************************************************************)
(* The safety of internal/lsp, in two parts over disjoint state.           *)
(*                                                                         *)
(* The diagnostics pipeline, for any set of files, any number of timers    *)
(* and any number of edits.  The argument rests on genMu: only the         *)
(* goroutine that holds it is past the lock, so the copy it made is no     *)
(* older than anything published, and s.holes and the published verdicts   *)
(* come from one generation.                                               *)
(*                                                                         *)
(* The conversations, for any outputs and any number of generations and    *)
(* queries.  The argument rests on goplsClient.mu: a request is written    *)
(* and awaited, and all the texts of a generation are pushed, without      *)
(* letting it go, so gopls reads whole messages and finds the outputs of   *)
(* one generation whenever it answers.                                     *)
(***************************************************************************)
EXTENDS LspDiagnostics, LspDelegate, FiniteSetTheorems, TLAPS

Inside == {"locked", "copied", "diagnosed", "publishing"}

\* The goroutine that holds genMu is the one that is past the lock.
LockInv == \A t \in Timers : phase[t] \in Inside <=> genMu = t

\* Nothing published is newer than the buffers, nor than the holder's copy.
FreshInv ==
  /\ seen <= rev
  /\ \A t \in Timers :
       phase[t] \in {"copied", "diagnosed", "publishing"} =>
         snapRev[t] <= rev /\ seen <= snapRev[t]

\* Only the timer s.debounce names may be armed.
ArmedInv == \A t \in Timers : phase[t] = "armed" => t = debounce

\* A hole is shown, or is about to be by the goroutine that found it.
HolesInv ==
  \A f \in holes :
    \/ shown[f] = "hole"
    \/ \E t \in Timers : phase[t] = "publishing" /\ f \in pending[t]

\* The publishing goroutine has installed the holes it is publishing.
SameInv ==
  \A t \in Timers : phase[t] = "publishing" => holes = NewHoles(verdict[t])

Inv == TypeOK /\ LockInv /\ FreshInv /\ ArmedInv /\ HolesInv /\ SameInv

-----------------------------------------------------------------------------
LEMMA DiagnoseType ==
  ASSUME NEW ws \in [Files -> Texts]
  PROVE  Diagnose(ws) \in [Files -> Verdicts]
<1>1. ASSUME NEW f \in Files
      PROVE  (IF \E g \in Files : ws[g] = "broken"
              THEN IF ws[f] = "broken" THEN "error" ELSE "clean"
              ELSE ws[f]) \in Verdicts
  BY DEF Texts, Verdicts
<1> QED BY <1>1 DEF Diagnose

LEMMA EffectiveType ==
  ASSUME NEW over \in Buffers, NEW dsk \in [Files -> Texts]
  PROVE  Effective(over, dsk) \in [Files -> Texts]
BY DEF Effective, Buffers, Texts, Closed

LEMMA InitInv == Init => Inv
<1> SUFFICES ASSUME Init PROVE Inv OBVIOUS
<1>1. NoBuffers \in Buffers /\ AllClean \in [Files -> Verdicts]
  BY DEF NoBuffers, Buffers, AllClean, Verdicts
<1>2. TypeOK
  <2>1. inbox \in Seq(Notifications) BY DEF Init
  <2>2. phase \in [Timers -> Phases] BY DEF Init, Phases
  <2>3. edits \in 0..MaxEdits BY LspAssumption DEF Init
  <2> QED BY <1>1, <2>1, <2>2, <2>3 DEF Init, TypeOK
<1>3. LockInv BY LspAssumption DEF Init, LockInv, Inside
<1>4. FreshInv /\ ArmedInv /\ HolesInv /\ SameInv
  BY DEF Init, FreshInv, ArmedInv, HolesInv, SameInv
<1> QED BY <1>2, <1>3, <1>4 DEF Inv

(***************************************************************************)
(* Type correctness, by groups of variables: the editor's steps, the main  *)
(* loop's, and each step of runDiagnostics.                                *)
(***************************************************************************)
LEMMA TypeStep == TypeOK /\ [Next]_vars => TypeOK'
<1> SUFFICES ASSUME TypeOK, [Next]_vars PROVE TypeOK' OBVIOUS
<1> USE DEF TypeOK
<1>1. ASSUME NEW n \in Notifications, Send(n),
             disk' \in [Files -> Texts], buf' \in Buffers
      PROVE  TypeOK'
  <2>1. edits' \in 0..MaxEdits BY <1>1, LspAssumption DEF Send
  <2>2. inbox' \in Seq(Notifications) BY <1>1 DEF Send
  <2> QED BY <1>1, <2>1, <2>2 DEF Send, locals
<1>2. ASSUME NEW f \in Files, Open(f) PROVE TypeOK'
  <2>1. buf' \in Buffers BY <1>2 DEF Open, Buffers
  <2>2. [kind |-> "open", file |-> f, text |-> disk[f]] \in Notifications
    BY DEF Notifications
  <2> QED BY <1>1, <1>2, <2>1, <2>2 DEF Open
<1>3. ASSUME NEW f \in Files, NEW x \in Texts, Edit(f, x) PROVE TypeOK'
  <2>1. buf' \in Buffers BY <1>3 DEF Edit, Buffers
  <2>2. [kind |-> "change", file |-> f, text |-> x] \in Notifications
    BY DEF Notifications
  <2> QED BY <1>1, <1>3, <2>1, <2>2 DEF Edit
<1>4. ASSUME NEW f \in Files, Save(f) PROVE TypeOK'
  <2>1. disk' \in [Files -> Texts] BY <1>4 DEF Save, Buffers
  <2>2. [kind |-> "save", file |-> f] \in Notifications BY DEF Notifications
  <2> QED BY <1>1, <1>4, <2>1, <2>2 DEF Save
<1>5. ASSUME NEW f \in Files, Close(f) PROVE TypeOK'
  <2>1. buf' \in Buffers BY <1>5 DEF Close, Buffers
  <2>2. [kind |-> "close", file |-> f] \in Notifications BY DEF Notifications
  <2> QED BY <1>1, <1>5, <2>1, <2>2 DEF Close
<1>6. CASE Dispatch
  <2>1. Head(inbox) \in Notifications /\ inbox' \in Seq(Notifications)
    BY <1>6 DEF Dispatch
  <2>2. Head(inbox).file \in Files BY <2>1 DEF Notifications
  <2>3. CASE SetOverlay
    <3>1. Head(inbox).text \in Texts BY <2>1, <2>3 DEF Notifications, SetOverlay
    <3>2. overlays' \in Buffers BY <2>2, <2>3, <3>1 DEF SetOverlay, Buffers
    <3> QED BY <1>6, <2>1, <2>3, <3>2 DEF Dispatch, SetOverlay, editor, locals
  <2>4. CASE DropOverlay
    <3>1. overlays' \in Buffers BY <2>2, <2>4 DEF DropOverlay, Buffers
    <3> QED BY <1>6, <2>1, <2>4, <3>1 DEF Dispatch, DropOverlay, editor, locals
  <2>5. CASE Saved
    BY <1>6, <2>1, <2>5 DEF Dispatch, Saved, editor, locals
  <2> QED BY <1>6, <2>3, <2>4, <2>5 DEF Dispatch
<1>7. CASE ScheduleDiagnostics
  <2>1. PICK t \in Timers : phase' = Rearm(t) /\ debounce' = t
    BY <1>7 DEF ScheduleDiagnostics
  <2>2. phase' \in [Timers -> Phases] BY <2>1 DEF Rearm, Phases
  <2> QED BY <1>7, <2>1, <2>2 DEF ScheduleDiagnostics, editor, locals
<1>8. ASSUME NEW t \in Timers, Fire(t) PROVE TypeOK'
  <2>1. phase' \in [Timers -> Phases] BY <1>8 DEF Fire, Phases
  <2> QED BY <1>8, <2>1 DEF Fire, editor, locals
<1>9. ASSUME NEW t \in Timers, Acquire(t) PROVE TypeOK'
  <2>1. phase' \in [Timers -> Phases] BY <1>9 DEF Acquire, Phases
  <2> QED BY <1>9, <2>1 DEF Acquire, editor, locals
<1>10. ASSUME NEW t \in Timers, Snapshot(t) PROVE TypeOK'
  <2>1. phase' \in [Timers -> Phases] BY <1>10 DEF Snapshot, Phases
  <2> QED BY <1>10, <2>1 DEF Snapshot, editor
<1>11. ASSUME NEW t \in Timers, Generate(t) PROVE TypeOK'
  <2>1. phase' \in [Timers -> Phases] BY <1>11 DEF Generate, Phases
  <2>2. Diagnose(Effective(snap[t], disk)) \in [Files -> Verdicts]
    BY DiagnoseType, EffectiveType
  <2> QED BY <1>11, <2>1, <2>2 DEF Generate, editor
<1>12. ASSUME NEW t \in Timers, Return(t),
              UNCHANGED <<editor, inbox, shown, pc, overlays, debounce, holes, rev, seen>>,
              stale' \in BOOLEAN
       PROVE  TypeOK'
  <2>1. phase' \in [Timers -> Phases] BY <1>12 DEF Return, Phases
  <2>2. NoBuffers \in Buffers /\ AllClean \in [Files -> Verdicts]
    BY DEF NoBuffers, Buffers, AllClean, Verdicts
  <2> QED BY <1>12, <2>1, <2>2 DEF Return, editor
<1>13. ASSUME NEW t \in Timers, ReplaceHoles(t) PROVE TypeOK'
  <2>1. phase' \in [Timers -> Phases] BY <1>13 DEF ReplaceHoles, Phases
  <2> QED BY <1>13, <2>1 DEF ReplaceHoles, editor, NewHoles, ByFile
<1>14. ASSUME NEW t \in Timers, NEW f \in Files, Publish(t, f) PROVE TypeOK'
  BY <1>14 DEF Publish, editor
<1>15. CASE UNCHANGED vars
  BY <1>15 DEF vars
<1> QED
  BY <1>2, <1>3, <1>4, <1>5, <1>6, <1>7, <1>8, <1>9, <1>10, <1>11, <1>12,
     <1>13, <1>14, <1>15
     DEF Next, Editor, MainLoop, RunDiagnostics, GenerateFails, Finish

(***************************************************************************)
(* The editor writes nothing of the server's but its inbox.                *)
(***************************************************************************)
LEMMA EditorKeeps ==
  Editor => UNCHANGED <<shown, overlays, debounce, holes, genMu, phase, snap,
                        snapRev, verdict, pending, rev, seen>>
BY DEF Editor, Open, Edit, Save, Close, Send, locals

LEMMA LockStep == TypeOK /\ LockInv /\ [Next]_vars => LockInv'
<1> SUFFICES ASSUME TypeOK, LockInv, [Next]_vars PROVE LockInv' OBVIOUS
<1> USE LspAssumption DEF TypeOK, LockInv, Inside
<1>1. CASE Editor
  BY <1>1, EditorKeeps
<1>2. CASE Dispatch
  BY <1>2 DEF Dispatch
<1>3. CASE ScheduleDiagnostics
  BY <1>3 DEF ScheduleDiagnostics, Rearm
<1>4. ASSUME NEW t \in Timers, Fire(t) PROVE LockInv'
  BY <1>4 DEF Fire
<1>5. ASSUME NEW t \in Timers, Acquire(t) PROVE LockInv'
  BY <1>5 DEF Acquire
<1>6. ASSUME NEW t \in Timers, Snapshot(t) PROVE LockInv'
  BY <1>6 DEF Snapshot
<1>7. ASSUME NEW t \in Timers, Generate(t) PROVE LockInv'
  BY <1>7 DEF Generate
<1>8. ASSUME NEW t \in Timers, GenerateFails(t) \/ Finish(t) PROVE LockInv'
  BY <1>8 DEF GenerateFails, Finish, Return
<1>9. ASSUME NEW t \in Timers, ReplaceHoles(t) PROVE LockInv'
  BY <1>9 DEF ReplaceHoles
<1>10. ASSUME NEW t \in Timers, NEW f \in Files, Publish(t, f) PROVE LockInv'
  BY <1>10 DEF Publish
<1>11. CASE UNCHANGED vars
  BY <1>11 DEF vars
<1> QED
  BY <1>1, <1>2, <1>3, <1>4, <1>5, <1>6, <1>7, <1>8, <1>9, <1>10, <1>11
     DEF Next, MainLoop, RunDiagnostics

LEMMA FreshStep == TypeOK /\ LockInv /\ FreshInv /\ [Next]_vars => FreshInv'
<1> SUFFICES ASSUME TypeOK, LockInv, FreshInv, [Next]_vars PROVE FreshInv'
  OBVIOUS
<1> USE DEF TypeOK, FreshInv
<1>1. CASE Editor
  BY <1>1, EditorKeeps
<1>2. CASE Dispatch
  <2>1. rev' \in Nat /\ rev <= rev'
    BY <1>2 DEF Dispatch, SetOverlay, DropOverlay, Saved
  <2>2. UNCHANGED <<seen, phase, snapRev>>
    BY <1>2 DEF Dispatch, locals
  <2> QED BY <2>1, <2>2
<1>3. CASE ScheduleDiagnostics
  BY <1>3 DEF ScheduleDiagnostics, Rearm, locals
<1>4. ASSUME NEW t \in Timers, Fire(t) PROVE FreshInv'
  BY <1>4 DEF Fire, locals
<1>5. ASSUME NEW t \in Timers, Acquire(t) PROVE FreshInv'
  BY <1>5 DEF Acquire, locals
<1>6. ASSUME NEW t \in Timers, Snapshot(t) PROVE FreshInv'
  BY <1>6 DEF Snapshot
<1>7. ASSUME NEW t \in Timers, Generate(t) PROVE FreshInv'
  BY <1>7 DEF Generate
<1>8. ASSUME NEW t \in Timers, GenerateFails(t) \/ Finish(t) PROVE FreshInv'
  <2>1. Return(t) /\ UNCHANGED <<rev, seen>>
    BY <1>8 DEF GenerateFails, Finish
  <2>2. ASSUME NEW u \in Timers, phase'[u] \in {"copied", "diagnosed", "publishing"}
        PROVE  phase'[u] = phase[u] /\ snapRev'[u] = snapRev[u]
    BY <2>1, <2>2 DEF Return
  <2> QED BY <2>1, <2>2
<1>9. ASSUME NEW t \in Timers, ReplaceHoles(t) PROVE FreshInv'
  BY <1>9 DEF ReplaceHoles
<1>10. ASSUME NEW t \in Timers, NEW f \in Files, Publish(t, f) PROVE FreshInv'
  \* t holds genMu, so the only copy that matters is its own
  <2>1. \A u \in Timers : phase[u] \in Inside => u = t
    BY <1>10 DEF Publish, LockInv, Inside
  <2> QED BY <1>10, <2>1 DEF Publish, Inside
<1>11. CASE UNCHANGED vars
  BY <1>11 DEF vars
<1> QED
  BY <1>1, <1>2, <1>3, <1>4, <1>5, <1>6, <1>7, <1>8, <1>9, <1>10, <1>11
     DEF Next, MainLoop, RunDiagnostics

LEMMA ArmedStep == TypeOK /\ ArmedInv /\ [Next]_vars => ArmedInv'
<1> SUFFICES ASSUME TypeOK, ArmedInv, [Next]_vars PROVE ArmedInv' OBVIOUS
<1> USE DEF TypeOK, ArmedInv
<1>1. CASE Editor \/ Dispatch
  BY <1>1, EditorKeeps DEF Dispatch
<1>2. CASE ScheduleDiagnostics
  \* whatever else was armed was s.debounce, and is stopped
  BY <1>2 DEF ScheduleDiagnostics, Rearm
<1>3. ASSUME NEW t \in Timers, Fire(t) \/ RunDiagnostics(t) PROVE ArmedInv'
  BY <1>3 DEF Fire, RunDiagnostics, Acquire, Snapshot, Generate, GenerateFails,
              ReplaceHoles, Finish, Return, Publish
<1>4. CASE UNCHANGED vars
  BY <1>4 DEF vars
<1> QED BY <1>1, <1>2, <1>3, <1>4 DEF Next, MainLoop

LEMMA HolesStep ==
  TypeOK /\ LockInv /\ HolesInv /\ SameInv /\ [Next]_vars => HolesInv' /\ SameInv'
<1> SUFFICES ASSUME TypeOK, LockInv, HolesInv, SameInv, [Next]_vars
             PROVE  HolesInv' /\ SameInv'
  OBVIOUS
<1> USE DEF TypeOK, HolesInv, SameInv
<1>1. CASE Editor \/ Dispatch
  <2>1. UNCHANGED <<shown, holes, phase, verdict, pending>>
    BY <1>1, EditorKeeps DEF Dispatch, locals
  <2> QED BY <2>1 DEF NewHoles
<1>2. ASSUME NEW t \in Timers,
             phase[t] # "publishing", phase'[t] # "publishing",
             \A u \in Timers \ {t} : phase'[u] = "publishing" <=> phase[u] = "publishing",
             UNCHANGED <<shown, holes>>,
             \A u \in Timers \ {t} : pending'[u] = pending[u] /\ verdict'[u] = verdict[u]
      PROVE  HolesInv' /\ SameInv'
  <2>1. ASSUME NEW u \in Timers, phase'[u] = "publishing"
        PROVE  u # t /\ phase[u] = "publishing" /\ verdict'[u] = verdict[u]
    BY <1>2, <2>1
  <2>2. SameInv'
    BY <1>2, <2>1 DEF NewHoles
  <2>3. ASSUME NEW f \in holes, shown[f] # "hole"
        PROVE  \E u \in Timers : phase'[u] = "publishing" /\ f \in pending'[u]
    <3>1. PICK u \in Timers : phase[u] = "publishing" /\ f \in pending[u]
      BY <2>3
    <3> QED BY <1>2, <3>1
  <2> QED BY <1>2, <2>2, <2>3
<1>3. CASE ScheduleDiagnostics
  <2>1. UNCHANGED <<shown, holes, verdict, pending>>
        /\ \A u \in Timers : phase'[u] = "publishing" <=> phase[u] = "publishing"
    BY <1>3 DEF ScheduleDiagnostics, Rearm, locals
  <2> QED BY <2>1 DEF NewHoles
<1>4. ASSUME NEW t \in Timers,
             Fire(t) \/ Acquire(t) \/ Snapshot(t) \/ Generate(t) \/ GenerateFails(t)
      PROVE  HolesInv' /\ SameInv'
  BY <1>2, <1>4 DEF Fire, Acquire, Snapshot, Generate, GenerateFails, Return, locals
<1>5. ASSUME NEW t \in Timers, ReplaceHoles(t) PROVE HolesInv' /\ SameInv'
  \* every new hole has a diagnostic, so byFile holds it
  <2>1. \A u \in Timers : phase'[u] = "publishing" => u = t
    BY <1>5 DEF ReplaceHoles, LockInv, Inside
  <2>2. phase'[t] = "publishing" /\ pending'[t] = ByFile(snap[t], verdict[t])
        /\ holes' = NewHoles(verdict[t]) /\ verdict' = verdict
    BY <1>5 DEF ReplaceHoles
  <2>3. \A f \in holes' : f \in pending'[t]
    BY <2>2 DEF NewHoles, ByFile
  <2> QED BY <2>1, <2>2, <2>3 DEF NewHoles
<1>6. ASSUME NEW t \in Timers, NEW f \in Files, Publish(t, f)
      PROVE  HolesInv' /\ SameInv'
  <2>1. holes = NewHoles(verdict[t]) /\ shown'[f] = verdict[t][f]
    BY <1>6 DEF Publish
  <2>2. f \in holes => shown'[f] = "hole"
    BY <2>1 DEF NewHoles
  <2>3. \A g \in Files \ {f} : shown'[g] = shown[g]
    BY <1>6 DEF Publish
  <2>4. \A u \in Timers, g \in Files \ {f} : g \in pending[u] => g \in pending'[u]
    BY <1>6 DEF Publish
  <2>5. holes' = holes /\ phase' = phase /\ verdict' = verdict
    BY <1>6 DEF Publish
  <2> QED BY <2>2, <2>3, <2>4, <2>5 DEF NewHoles
<1>7. ASSUME NEW t \in Timers, Finish(t) PROVE HolesInv' /\ SameInv'
  \* nobody else is publishing and nothing is pending: all holes are shown
  <2>1. \A u \in Timers : phase[u] = "publishing" => u = t
    BY <1>7 DEF Finish, LockInv, Inside
  <2>2. \A f \in holes : shown[f] = "hole"
    BY <1>7, <2>1 DEF Finish
  <2>3. \A u \in Timers : phase'[u] # "publishing"
    BY <1>7, <2>1 DEF Finish, Return
  <2> QED BY <1>7, <2>2, <2>3 DEF Finish
<1>8. CASE UNCHANGED vars
  BY <1>8 DEF vars, NewHoles
<1> QED
  BY <1>1, <1>3, <1>4, <1>5, <1>6, <1>7, <1>8 DEF Next, MainLoop, RunDiagnostics

-----------------------------------------------------------------------------
\* genMu, the copies made under it and what they are published as hold together
\* in every state of the server.
THEOREM Inductive == Spec => []Inv
<1>1. Inv /\ [Next]_vars => Inv'
  BY TypeStep, LockStep, FreshStep, ArmedStep, HolesStep DEF Inv
<1> QED BY InitInv, <1>1, PTL DEF Spec

\* Every variable of the server and the editor keeps its type.
THEOREM TypeCorrect == Spec => []TypeOK
<1>1. Inv => TypeOK BY DEF Inv
<1> QED BY Inductive, <1>1, PTL

\* ScheduleDiagnostics never leaves two debounce timers armed.
THEOREM DebounceIsSingle == Spec => []OneArmed
<1>1. Inv => OneArmed BY DEF Inv, ArmedInv, OneArmed
<1> QED BY Inductive, <1>1, PTL

\* Between generations, what hover answers for holes is what is shown.
THEOREM HoverAgreesWithDiagnostics == Spec => []HolesAreShown
<1>1. ASSUME Inv PROVE HolesAreShown
  <2> SUFFICES ASSUME genMu = NoTimer, NEW f \in holes PROVE shown[f] = "hole"
    BY DEF HolesAreShown
  <2>1. \A t \in Timers : phase[t] # "publishing"
    BY <1>1, LspAssumption DEF Inv, LockInv, Inside
  <2> QED BY <1>1, <2>1 DEF Inv, HolesInv
<1> QED BY Inductive, <1>1, PTL

(***************************************************************************)
(* The refinement: a write of s.overlays is a change of the truth, a       *)
(* publication is a refresh of the view, every other step stutters.        *)
(***************************************************************************)
LEMMA StepRefines == Inv /\ [Next]_vars => [View!Next]_<<rev, seen>>
<1> SUFFICES ASSUME Inv, [Next]_vars PROVE [View!Next]_<<rev, seen>> OBVIOUS
<1>1. CASE Editor
  BY <1>1, EditorKeeps
<1>2. CASE Dispatch
  BY <1>2 DEF Dispatch, SetOverlay, DropOverlay, Saved, View!Next, View!Change
<1>3. CASE ScheduleDiagnostics
  BY <1>3 DEF ScheduleDiagnostics
<1>4. ASSUME NEW t \in Timers, NEW f \in Files, Publish(t, f)
      PROVE  View!Refresh
  BY <1>4 DEF Publish, Inv, TypeOK, FreshInv, View!Refresh
<1>5. ASSUME NEW t \in Timers, Fire(t) \/ RunDiagnostics(t),
             ~\E f \in Files : Publish(t, f)
      PROVE  UNCHANGED <<rev, seen>>
  BY <1>5 DEF Fire, RunDiagnostics, Acquire, Snapshot, Generate, GenerateFails,
              ReplaceHoles, Finish
<1>6. CASE UNCHANGED vars
  BY <1>6 DEF vars
<1> QED BY <1>1, <1>2, <1>3, <1>4, <1>5, <1>6 DEF Next, MainLoop, View!Next

\* The diagnostics shown are a fresh view of the buffers, for any workspace.
THEOREM ShowsFreshView == Spec => ShownIsFreshView
<1>1. Init => View!Init BY DEF Init, View!Init
<1> QED
  BY Inductive, StepRefines, <1>1, PTL DEF Spec, ShownIsFreshView, View!Spec

-----------------------------------------------------------------------------
(***************************************************************************)
(* The conversations of the server (LspDelegate).                          *)
(***************************************************************************)

\* goplsClient.mu and who is in the middle of a message to gopls.
ClientMuInv ==
  /\ mainPc = "exited" <=> gen = "over"
  /\ cmu = "main" <=> mainPc \in {"header", "body", "await"}
  /\ gen # "over" => (cmu = "gen" <=> gen \in {"header", "body"})
  /\ ~stdin.torn
  /\ gen # "over" => stdin.due = IF mainPc = "body" THEN "main"
                                 ELSE IF gen = "body" THEN "gen" ELSE Nobody

\* Message i of queue q replaces the text of output o.
IsText(q, i, o) == q[i].kind = "text" /\ q[i].file = o

\* Documents d, and then the first i messages of q: output o is as of generation g.
TextAfter(q, d, i, o, g) ==
  \/ d[o] = g /\ \A k \in 1 .. i : ~IsText(q, k, o)
  \/ \E j \in 1 .. i : /\ IsText(q, j, o) /\ q[j].gen = g
                       /\ \A k \in j + 1 .. i : ~IsText(q, k, o)

\* ... and all of them as of the same generation.
OneGeneration(q, d, i) == \E g \in Nat : \A o \in Outputs : TextAfter(q, d, i, o, g)

Single(s) == \A x, y \in s : x = y

\* Every request finds the outputs of one generation, whatever is still in the
\* pipe before it; only while syncOutputs runs are they of two.
TextsInv ==
  /\ mainPc = "start" => gopls = "nil"
  /\ gen = "lock" => toSync = Outputs
  /\ gopls = "nil" => gen \notin {"lock", "header", "body"}
  /\ \A i \in DOMAIN toGopls : toGopls[i].kind = "request" => OneGeneration(toGopls, docs, i)
  /\ gopls # "dead" =>
       IF cmu = "gen"
       THEN \A o \in Outputs \ toSync : TextAfter(toGopls, docs, Len(toGopls), o, gens)
       ELSE OneGeneration(toGopls, docs, Len(toGopls))
  /\ \A i \in DOMAIN fromGopls : fromGopls[i].kind = "response" => Single(fromGopls[i].on)
  /\ Single(query.on)

UpTo(s, n) == \A g \in s : g <= n

\* Neither gopls nor anything on its way from it is newer than s.maps.
MapsInv ==
  /\ maps <= gens
  /\ gen \in {"lock", "header", "body"} => maps = gens
  /\ \A o \in Outputs : docs[o] <= maps
  /\ \A i \in DOMAIN toGopls : toGopls[i].kind = "text" => toGopls[i].gen <= maps
  /\ \A i \in DOMAIN fromGopls : fromGopls[i].kind = "response" => UpTo(fromGopls[i].on, maps)
  /\ UpTo(query.on, maps)
  /\ mainPc \notin {"back", "reply", "replyBody"} => query.taken = "nothing"
  /\ mainPc = "reply" /\ query.taken = "response" => UpTo(query.on, query.back)

DelegateInv == DelegateTypeOK /\ ClientMuInv /\ TextsInv /\ MapsInv

Queries ==
  [id : Nat, fwd : Nat, taken : {"nothing", "response", "ask"}, on : SUBSET Nat, back : Nat]

\* A query whose fields are replaced by ones of their types is a query.
LEMMA QueryFields ==
  ASSUME NEW q \in Queries
  PROVE  /\ \A n \in Nat : /\ [q EXCEPT !.id = n] \in Queries
                          /\ [q EXCEPT !.fwd = n] \in Queries
                          /\ [q EXCEPT !.back = n] \in Queries
         /\ \A k \in {"response", "ask"}, s \in SUBSET Nat :
              [q EXCEPT !.taken = k, !.on = s] \in Queries
BY DEF Queries

\* Every step of the two conversations keeps their types.
LEMMA DelegateTypeStep ==
  ASSUME DelegateTypeOK, [DelegateNext]_delegateVars
  PROVE  DelegateTypeOK'
<1>0. query \in Queries
  BY DEF DelegateTypeOK, Queries
<1> USE DEF DelegateTypeOK, MainStages, GenStages, Writers, Nobody, Pipes, mainVars, genVars,
    goplsVars
<1>1. CASE Initialize
  BY <1>1 DEF Initialize
<1>2. CASE Edited
  BY <1>2 DEF Edited
<1>3. CASE Other
  BY <1>3 DEF Other, Receive
<1>4. CASE HoverHole
  BY <1>4 DEF HoverHole, Receive
<1>5. CASE Forward
  BY <1>5 DEF Forward, Receive
<1>6. CASE ReadMap
  BY <1>6 DEF ReadMap
<1>7. CASE RequestLock
  <2>1. query' \in Queries
    <3>1. query' = [query EXCEPT !.id = next] /\ next \in Nat
      BY <1>7 DEF RequestLock
    <3> QED BY <1>0, <3>1, QueryFields
  <2>2. /\ cmu' = "main" /\ next' = next + 1 /\ mainPc' = "header"
        /\ UNCHANGED <<stdout, stdin, dirty, queries, goplsVars, genVars>>
    BY <1>7 DEF RequestLock
  <2> QED BY <2>1, <2>2 DEF Queries
<1>8. CASE RequestHeader
  BY <1>8 DEF RequestHeader, Header
<1>9. CASE RequestBody
  BY <1>9 DEF RequestBody, Body, ToGoplsMessages
<1>10. CASE RequestRead
  <2> DEFINE m == Head(fromGopls)
  <2>1. m \in FromGoplsMessages /\ fromGopls' \in Seq(FromGoplsMessages)
    BY <1>10 DEF RequestRead
  <2>2. CASE IsResponse(m)
    <3>1. m.kind \in {"ask", "response"} /\ (m.kind = "response" => m.on \in SUBSET Nat)
      BY <2>1, <2>2 DEF IsResponse, FromGoplsMessages
    <3>2. query' = [query EXCEPT !.taken = m.kind, !.on = IF m.kind = "response" THEN m.on ELSE {}]
      BY <1>10, <2>2 DEF RequestRead
    <3> HIDE DEF m
    <3>3. query' \in Queries
      BY <3>1, <3>2, <1>0, QueryFields
    <3> QED BY <1>10, <2>1, <2>2, <3>3 DEF RequestRead, RequestReturn, Queries, m
  <2>3. CASE ~IsResponse(m)
    BY <1>10, <2>1, <2>3 DEF RequestRead
  <2> QED BY <2>2, <2>3
<1>11. CASE RequestFails
  BY <1>11 DEF RequestFails, RequestReturn, NoQuery, Intact
<1>12. CASE MapBack
  <2>1. query' \in Queries
    <3>1. query' = [query EXCEPT !.back = maps] /\ maps \in Nat
      BY <1>12 DEF MapBack
    <3> QED BY <1>0, <3>1, QueryFields
  <2>2. /\ mainPc' = "reply"
        /\ UNCHANGED <<stdout, stdin, dirty, queries, next, cmu, goplsVars, genVars>>
    BY <1>12 DEF MapBack
  <2> QED BY <2>1, <2>2 DEF Queries
<1>13. CASE ReplyHeader
  BY <1>13 DEF ReplyHeader, Header
<1>14. CASE ReplyBody
  BY <1>14 DEF ReplyBody, Body, NoQuery
<1>15. CASE Exit
  BY <1>15 DEF Exit
<1>16. CASE Generated
  <2>1. gens' \in Nat /\ gen' \in GenStages
    BY <1>16 DEF Generated
  <2>2. dirty' \in BOOLEAN /\ holed' \in BOOLEAN
    BY <1>16, Zenon DEF Generated
  <2> QED BY <1>16, <2>1, <2>2 DEF Generated
<1>17. CASE PublishHeader
  BY <1>17 DEF PublishHeader, Header
<1>18. CASE PublishBody
  BY <1>18 DEF PublishBody, Body
<1>19. CASE InstallMaps
  BY <1>19 DEF InstallMaps
<1>20. CASE SyncLock
  BY <1>20 DEF SyncLock
<1>21. CASE SyncHeader
  BY <1>21 DEF SyncHeader, Header
<1>22. CASE SyncBody
  BY <1>22 DEF SyncBody, Body, ToGoplsMessages
<1>23. CASE SyncReturn
  BY <1>23 DEF SyncReturn
<1>24. CASE GoplsProcess
  <2> DEFINE m == Head(toGopls)
  <2>1. m \in ToGoplsMessages /\ toGopls' \in Seq(ToGoplsMessages)
    BY <1>24 DEF GoplsProcess
  <2>2. CASE m.kind = "text"
    <3>1. m.file \in Outputs /\ m.gen \in Nat
      BY <2>1, <2>2 DEF ToGoplsMessages
    <3>2. docs' = [docs EXCEPT ![m.file] = m.gen] /\ UNCHANGED fromGopls
      BY <1>24, <2>2 DEF GoplsProcess
    <3> HIDE DEF m
    <3>3. docs' \in [Outputs -> Nat]
      BY <3>1, <3>2
    <3> QED BY <1>24, <2>1, <3>2, <3>3 DEF GoplsProcess
  <2>3. CASE m.kind # "text"
    <3> DEFINE r == [kind |-> "response", id |-> m.id, on |-> {docs[o] : o \in Outputs}]
    <3>1. m.id \in Nat
      BY <2>1, <2>3 DEF ToGoplsMessages
    <3>2. fromGopls' = Append(fromGopls, r) /\ UNCHANGED docs
      BY <1>24, <2>3 DEF GoplsProcess
    <3>3. {docs[o] : o \in Outputs} \in SUBSET Nat
      OBVIOUS
    <3> HIDE DEF m
    <3>4. r \in FromGoplsMessages
      BY <3>1, <3>3 DEF FromGoplsMessages
    <3> HIDE DEF r
    <3>5. fromGopls' \in Seq(FromGoplsMessages)
      BY <3>2, <3>4
    <3> QED BY <1>24, <2>1, <3>2, <3>5 DEF GoplsProcess
  <2> QED BY <2>2, <2>3
<1>25. CASE GoplsNotifies
  BY <1>25 DEF GoplsNotifies, FromGoplsMessages
<1>26. CASE GoplsRequests
  BY <1>26 DEF GoplsRequests, FromGoplsMessages
<1>27. CASE GoplsDies
  BY <1>27 DEF GoplsDies
<1>28. CASE UNCHANGED delegateVars
  BY <1>28 DEF delegateVars
<1> QED BY <1>1, <1>2, <1>3, <1>4, <1>5, <1>6, <1>7, <1>8, <1>9, <1>10, <1>11, <1>12, <1>13,
      <1>14, <1>15, <1>16, <1>17, <1>18, <1>19, <1>20, <1>21, <1>22, <1>23, <1>24, <1>25,
      <1>26, <1>27, <1>28
  DEF DelegateNext, Main, Answering, Request, Generation, Publication, Sync, Gopls

\* goplsClient.mu is held by whoever is inside a message to gopls.
LEMMA ClientMuStep ==
  ASSUME DelegateTypeOK, ClientMuInv, [DelegateNext]_delegateVars
  PROVE  ClientMuInv'
<1> USE DEF DelegateTypeOK, ClientMuInv, MainStages, GenStages, Writers, Nobody, Pipes, mainVars,
    genVars, goplsVars
<1>1. CASE Initialize
  BY <1>1 DEF Initialize
<1>2. CASE Edited
  BY <1>2 DEF Edited
<1>3. CASE Other
  BY <1>3 DEF Other, Receive
<1>4. CASE HoverHole
  BY <1>4 DEF HoverHole, Receive
<1>5. CASE Forward
  BY <1>5 DEF Forward, Receive
<1>6. CASE ReadMap
  BY <1>6 DEF ReadMap
<1>7. CASE RequestLock
  BY <1>7 DEF RequestLock
<1>8. CASE RequestHeader
  BY <1>8 DEF RequestHeader, Header
<1>9. CASE RequestBody
  BY <1>9 DEF RequestBody, Body
<1>10. CASE RequestRead
  BY <1>10 DEF RequestRead, RequestReturn, IsResponse
<1>11. CASE RequestFails
  BY <1>11 DEF RequestFails, RequestReturn, NoQuery, Intact
<1>12. CASE MapBack
  BY <1>12 DEF MapBack
<1>13. CASE ReplyHeader
  BY <1>13 DEF ReplyHeader, Header
<1>14. CASE ReplyBody
  BY <1>14 DEF ReplyBody, Body, NoQuery
<1>15. CASE Exit
  BY <1>15 DEF Exit
<1>16. CASE Generated
  BY <1>16 DEF Generated
<1>17. CASE PublishHeader
  BY <1>17 DEF PublishHeader, Header
<1>18. CASE PublishBody
  BY <1>18 DEF PublishBody, Body
<1>19. CASE InstallMaps
  BY <1>19 DEF InstallMaps
<1>20. CASE SyncLock
  BY <1>20 DEF SyncLock
<1>21. CASE SyncHeader
  BY <1>21 DEF SyncHeader, Header
<1>22. CASE SyncBody
  BY <1>22 DEF SyncBody, Body
<1>23. CASE SyncReturn
  BY <1>23 DEF SyncReturn
<1>24. CASE GoplsProcess
  BY <1>24 DEF GoplsProcess
<1>25. CASE GoplsNotifies
  BY <1>25 DEF GoplsNotifies
<1>26. CASE GoplsRequests
  BY <1>26 DEF GoplsRequests
<1>27. CASE GoplsDies
  BY <1>27 DEF GoplsDies
<1>28. CASE UNCHANGED delegateVars
  BY <1>28 DEF delegateVars
<1> QED BY <1>1, <1>2, <1>3, <1>4, <1>5, <1>6, <1>7, <1>8, <1>9, <1>10, <1>11, <1>12, <1>13,
      <1>14, <1>15, <1>16, <1>17, <1>18, <1>19, <1>20, <1>21, <1>22, <1>23, <1>24, <1>25,
      <1>26, <1>27, <1>28
  DEF DelegateNext, Main, Answering, Request, Generation, Publication, Sync, Gopls

\* The maps are installed before the outputs are pushed, and only replaced by
\* newer ones.
LEMMA MapsStep ==
  ASSUME DelegateTypeOK, ClientMuInv, MapsInv, [DelegateNext]_delegateVars
  PROVE  MapsInv'
<1> USE DEF DelegateTypeOK, MapsInv, UpTo, mainVars, genVars, goplsVars
<1>1. CASE Initialize
  BY <1>1 DEF Initialize
<1>2. CASE Edited
  BY <1>2 DEF Edited
<1>3. CASE Other
  BY <1>3 DEF Other, Receive
<1>4. CASE HoverHole
  BY <1>4 DEF HoverHole, Receive
<1>5. CASE Forward
  BY <1>5 DEF Forward, Receive
<1>6. CASE ReadMap
  BY <1>6 DEF ReadMap
<1>7. CASE RequestLock
  BY <1>7 DEF RequestLock
<1>8. CASE RequestHeader
  BY <1>8 DEF RequestHeader
<1>9. CASE RequestBody
  BY <1>9 DEF RequestBody, ToGoplsMessages
<1>10. CASE RequestRead
  <2>1. /\ fromGopls[1] = Head(fromGopls) /\ 1 \in DOMAIN fromGopls
        /\ fromGopls' = Tail(fromGopls)
        /\ \A i \in DOMAIN fromGopls' : /\ i + 1 \in DOMAIN fromGopls
                                        /\ fromGopls'[i] = fromGopls[i + 1]
    BY <1>10 DEF RequestRead
  <2>2. UNCHANGED <<gens, maps, gen, docs, toGopls>>
    BY <1>10 DEF RequestRead
  <2>3. \A i \in DOMAIN fromGopls' : fromGopls'[i].kind = "response" => UpTo(fromGopls'[i].on, maps)
    BY <2>1
  <2>4. UpTo(query'.on, maps) /\ (mainPc' # "back" => query'.taken = "nothing") /\ mainPc' # "reply"
    <3>1. CASE IsResponse(Head(fromGopls))
      <4> DEFINE m == Head(fromGopls)
      <4>1. /\ query' = [query EXCEPT !.taken = m.kind,
                                    !.on = IF m.kind = "response" THEN m.on ELSE {}]
            /\ mainPc' = "back"
        BY <1>10, <3>1 DEF RequestRead, RequestReturn
      <4>2. m.kind = "response" => UpTo(m.on, maps)
        BY <2>1
      <4> HIDE DEF m
      <4>3. query'.on = IF m.kind = "response" THEN m.on ELSE {}
        BY <4>1
      <4> QED BY <4>1, <4>2, <4>3
    <3>2. CASE ~IsResponse(Head(fromGopls))
      BY <1>10, <3>2 DEF RequestRead
    <3> QED BY <3>1, <3>2
  <2> QED BY <2>2, <2>3, <2>4
<1>11. CASE RequestFails
  BY <1>11 DEF RequestFails, RequestReturn, NoQuery
<1>12. CASE MapBack
  BY <1>12 DEF MapBack
<1>13. CASE ReplyHeader
  BY <1>13 DEF ReplyHeader
<1>14. CASE ReplyBody
  BY <1>14 DEF ReplyBody, NoQuery
<1>15. CASE Exit
  BY <1>15 DEF Exit
<1>16. CASE Generated
  BY <1>16 DEF Generated
<1>17. CASE PublishHeader
  BY <1>17 DEF PublishHeader
<1>18. CASE PublishBody
  BY <1>18 DEF PublishBody
<1>19. CASE InstallMaps
  <2>1. /\ maps' = gens /\ maps <= gens /\ gens \in Nat /\ maps \in Nat
        /\ UNCHANGED <<gens, docs, toGopls, fromGopls, query, mainPc>>
    BY <1>19 DEF InstallMaps
  <2>2. \A o \in Outputs : docs[o] <= gens
    BY <2>1
  <2>3. ASSUME NEW i \in DOMAIN toGopls, toGopls[i].kind = "text" PROVE toGopls[i].gen <= gens
    <3>1. toGopls[i] \in ToGoplsMessages
      OBVIOUS
    <3>2. toGopls[i].gen \in Nat /\ toGopls[i].gen <= maps
      BY <2>3, <3>1 DEF ToGoplsMessages
    <3> QED BY <2>1, <3>2
  <2>4. ASSUME NEW t \in SUBSET Nat, UpTo(t, maps) PROVE UpTo(t, gens)
    <3>1. SUFFICES ASSUME NEW g \in t PROVE g <= gens
      OBVIOUS
    <3>2. g \in Nat /\ g <= maps
      BY <2>4
    <3> QED BY <2>1, <3>2
  <2>5. ASSUME NEW i \in DOMAIN fromGopls, fromGopls[i].kind = "response"
        PROVE  UpTo(fromGopls[i].on, gens)
    <3>1. fromGopls[i] \in FromGoplsMessages
      OBVIOUS
    <3>2. fromGopls[i].on \in SUBSET Nat /\ UpTo(fromGopls[i].on, maps)
      BY <2>5, <3>1 DEF FromGoplsMessages
    <3> QED BY <2>4, <3>2
  <2>6. UpTo(query.on, gens)
    BY <2>4
  <2>7. mainPc' = "reply" /\ query'.taken = "response" => UpTo(query'.on, query'.back)
    BY <2>1
  <2>8. mainPc' \notin {"back", "reply", "replyBody"} => query'.taken = "nothing"
    BY <2>1
  <2> HIDE DEF UpTo
  <2> QED BY <2>1, <2>2, <2>3, <2>5, <2>6, <2>7, <2>8
<1>20. CASE SyncLock
  BY <1>20 DEF SyncLock
<1>21. CASE SyncHeader
  BY <1>21 DEF SyncHeader
<1>22. CASE SyncBody
  BY <1>22 DEF SyncBody, ToGoplsMessages
<1>23. CASE SyncReturn
  BY <1>23 DEF SyncReturn
<1>24. CASE GoplsProcess
  <2> DEFINE m == Head(toGopls)
  <2>1. /\ m = toGopls[1] /\ 1 \in DOMAIN toGopls /\ m \in ToGoplsMessages
        /\ toGopls' = Tail(toGopls)
        /\ \A i \in DOMAIN toGopls' : i + 1 \in DOMAIN toGopls /\ toGopls'[i] = toGopls[i + 1]
    BY <1>24 DEF GoplsProcess
  <2>2. UNCHANGED <<gens, maps, gen, query, mainPc>>
    BY <1>24 DEF GoplsProcess
  <2>3. \A i \in DOMAIN toGopls' : toGopls'[i].kind = "text" => toGopls'[i].gen <= maps
    BY <2>1
  <2>4. CASE m.kind = "text"
    <3>1. docs' = [docs EXCEPT ![m.file] = m.gen] /\ UNCHANGED fromGopls
      BY <1>24, <2>4 DEF GoplsProcess
    <3>2. m.gen <= maps
      BY <2>1, <2>4
    <3> HIDE DEF m
    <3>3. \A o \in Outputs : docs'[o] <= maps
      BY <3>1, <3>2
    <3> QED BY <2>2, <2>3, <3>1, <3>3
  <2>5. CASE m.kind # "text"
    <3> DEFINE r == [kind |-> "response", id |-> m.id, on |-> {docs[o] : o \in Outputs}]
    <3>1. fromGopls' = Append(fromGopls, r) /\ UNCHANGED docs
      BY <1>24, <2>5 DEF GoplsProcess
    <3>2. UpTo(r.on, maps)
      OBVIOUS
    <3> HIDE DEF r, m
    <3>3. \A i \in DOMAIN fromGopls' : \/ i \in DOMAIN fromGopls /\ fromGopls'[i] = fromGopls[i]
                                       \/ fromGopls'[i] = r
      BY <3>1
    <3> QED BY <2>2, <2>3, <3>1, <3>2, <3>3
  <2> QED BY <2>4, <2>5
<1>25. CASE GoplsNotifies
  BY <1>25 DEF GoplsNotifies, FromGoplsMessages
<1>26. CASE GoplsRequests
  BY <1>26 DEF GoplsRequests, FromGoplsMessages
<1>27. CASE GoplsDies
  BY <1>27 DEF GoplsDies
<1>28. CASE UNCHANGED delegateVars
  BY <1>28 DEF delegateVars
<1> QED BY <1>1, <1>2, <1>3, <1>4, <1>5, <1>6, <1>7, <1>8, <1>9, <1>10, <1>11, <1>12, <1>13,
      <1>14, <1>15, <1>16, <1>17, <1>18, <1>19, <1>20, <1>21, <1>22, <1>23, <1>24, <1>25,
      <1>26, <1>27, <1>28
  DEF DelegateNext, Main, Answering, Request, Generation, Publication, Sync, Gopls

\* A message added at the end leaves what gopls knows before it.
LEMMA AppendKeeps ==
  ASSUME NEW q \in Seq(ToGoplsMessages), NEW m \in ToGoplsMessages, NEW d,
         NEW i \in 0 .. Len(q), NEW o \in Outputs, NEW g
  PROVE  TextAfter(q, d, i, o, g) => TextAfter(Append(q, m), d, i, o, g)
<1>1. PICK n \in Nat : n = Len(q)
  OBVIOUS
<1> DEFINE a == Append(q, m)
<1>2. \A k \in 1 .. n : a[k] = q[k]
  BY <1>1
<1> HIDE DEF a
<1>3. \A k \in 1 .. n : IsText(a, k, o) <=> IsText(q, k, o)
  BY <1>2 DEF IsText
<1>4. i \in Nat /\ i <= n
  BY <1>1
<1>5. \A k \in 1 .. i : k \in 1 .. n
  BY <1>4
<1>6. \A j \in 1 .. i : \A k \in j + 1 .. i : k \in 1 .. n
  BY <1>4
<1>7. TextAfter(q, d, i, o, g) => TextAfter(a, d, i, o, g)
  BY <1>2, <1>3, <1>5, <1>6 DEF TextAfter
<1> QED BY <1>7 DEF a

\* A text added at the end decides its output; any other message decides none.
LEMMA AppendAdds ==
  ASSUME NEW q \in Seq(ToGoplsMessages), NEW m \in ToGoplsMessages, NEW d,
         NEW o \in Outputs, NEW g,
         IF m.kind = "text" /\ m.file = o THEN m.gen = g ELSE TextAfter(q, d, Len(q), o, g)
  PROVE  TextAfter(Append(q, m), d, Len(Append(q, m)), o, g)
<1>1. PICK n \in Nat : n = Len(q)
  OBVIOUS
<1> DEFINE a == Append(q, m)
<1>2. /\ \A k \in 1 .. n : a[k] = q[k]
      /\ a[n + 1] = m /\ Len(a) = n + 1
  BY <1>1
<1> HIDE DEF a
<1>3. \A k \in 1 .. n : IsText(a, k, o) <=> IsText(q, k, o)
  BY <1>2 DEF IsText
<1>4. CASE m.kind = "text" /\ m.file = o
  <2>1. n + 1 \in 1 .. n + 1 /\ IsText(a, n + 1, o) /\ a[n + 1].gen = g
    BY <1>2, <1>4 DEF IsText
  <2>2. \A k \in (n + 1) + 1 .. n + 1 : ~IsText(a, k, o)
    OBVIOUS
  <2>3. TextAfter(a, d, n + 1, o, g)
    BY <2>1, <2>2 DEF TextAfter
  <2> QED BY <1>2, <2>3 DEF a
<1>5. CASE ~(m.kind = "text" /\ m.file = o)
  <2>1. ~IsText(a, n + 1, o)
    BY <1>2, <1>5 DEF IsText
  <2>2. \A k \in 1 .. n + 1 : k \in 1 .. n \/ k = n + 1
    OBVIOUS
  <2>3. TextAfter(q, d, n, o, g)
    BY <1>1, <1>5
  <2>4. CASE d[o] = g /\ \A k \in 1 .. n : ~IsText(q, k, o)
    <3>1. \A k \in 1 .. n + 1 : ~IsText(a, k, o)
      BY <1>3, <2>1, <2>2, <2>4
    <3>2. TextAfter(a, d, n + 1, o, g)
      BY <2>4, <3>1 DEF TextAfter
    <3> QED BY <1>2, <3>2 DEF a
  <2>5. CASE \E j \in 1 .. n : /\ IsText(q, j, o) /\ q[j].gen = g
                               /\ \A k \in j + 1 .. n : ~IsText(q, k, o)
    <3>1. PICK j \in 1 .. n : /\ IsText(q, j, o) /\ q[j].gen = g
                              /\ \A k \in j + 1 .. n : ~IsText(q, k, o)
      BY <2>5
    <3>2. j \in 1 .. n + 1 /\ IsText(a, j, o) /\ a[j].gen = g
      BY <1>2, <1>3, <3>1
    <3>3. \A k \in j + 1 .. n + 1 : (k \in 1 .. n /\ k \in j + 1 .. n) \/ k = n + 1
      OBVIOUS
    <3>4. \A k \in j + 1 .. n + 1 : ~IsText(a, k, o)
      BY <1>3, <2>1, <3>1, <3>3
    <3>5. TextAfter(a, d, n + 1, o, g)
      BY <3>2, <3>4 DEF TextAfter
    <3> QED BY <1>2, <3>5 DEF a
  <2> QED BY <2>3, <2>4, <2>5 DEF TextAfter
<1> QED BY <1>4, <1>5

\* What gopls knows after a message is not changed by processing the first one.
LEMMA TailShifts ==
  ASSUME NEW q \in Seq(ToGoplsMessages), q # <<>>, NEW d \in [Outputs -> Nat],
         NEW e \in [Outputs -> Nat],
         e = IF Head(q).kind = "text" THEN [d EXCEPT ![Head(q).file] = Head(q).gen] ELSE d,
         NEW i \in Nat, i < Len(q), NEW o \in Outputs, NEW g,
         TextAfter(q, d, i + 1, o, g)
  PROVE  TextAfter(Tail(q), e, i, o, g)
<1>1. PICK n \in Nat : n = Len(q)
  OBVIOUS
<1> DEFINE t == Tail(q)
<1>2. /\ \A k \in 1 .. n - 1 : t[k] = q[k + 1]
      /\ Head(q) = q[1] /\ q[1] \in ToGoplsMessages
  BY <1>1
<1> HIDE DEF t
<1>3. \A k \in 1 .. i : IsText(t, k, o) <=> IsText(q, k + 1, o)
  BY <1>1, <1>2 DEF IsText
<1>4. IF IsText(q, 1, o) THEN e[o] = q[1].gen ELSE e[o] = d[o]
  BY <1>2 DEF IsText, ToGoplsMessages
<1>5. CASE d[o] = g /\ \A k \in 1 .. i + 1 : ~IsText(q, k, o)
  <2>1. e[o] = g
    BY <1>4, <1>5
  <2>2. \A k \in 1 .. i : k + 1 \in 1 .. i + 1
    OBVIOUS
  <2>3. \A k \in 1 .. i : ~IsText(t, k, o)
    BY <1>3, <1>5, <2>2
  <2>4. TextAfter(t, e, i, o, g)
    BY <2>1, <2>3 DEF TextAfter
  <2> QED BY <2>4 DEF t
<1>6. CASE \E j \in 1 .. i + 1 : /\ IsText(q, j, o) /\ q[j].gen = g
                                 /\ \A k \in j + 1 .. i + 1 : ~IsText(q, k, o)
  <2>1. PICK j \in 1 .. i + 1 : /\ IsText(q, j, o) /\ q[j].gen = g
                                /\ \A k \in j + 1 .. i + 1 : ~IsText(q, k, o)
    BY <1>6
  <2>2. CASE j = 1
    <3>1. e[o] = g
      BY <1>4, <2>1, <2>2
    <3>2. \A k \in 1 .. i : k + 1 \in j + 1 .. i + 1
      BY <2>2
    <3>3. \A k \in 1 .. i : ~IsText(t, k, o)
      BY <1>3, <2>1, <3>2
    <3>4. TextAfter(t, e, i, o, g)
      BY <3>1, <3>3 DEF TextAfter
    <3> QED BY <3>4 DEF t
  <2>3. CASE j # 1
    <3>1. PICK h \in 1 .. i : h + 1 = j
      BY <2>3
    <3>2. IsText(t, h, o) /\ t[h].gen = g
      BY <1>1, <1>2, <1>3, <2>1, <3>1
    <3>3. \A k \in h + 1 .. i : k \in 1 .. i /\ k + 1 \in j + 1 .. i + 1
      BY <3>1
    <3>4. \A k \in h + 1 .. i : ~IsText(t, k, o)
      BY <1>3, <2>1, <3>3
    <3>5. TextAfter(t, e, i, o, g)
      BY <3>2, <3>4 DEF TextAfter
    <3> QED BY <3>5 DEF t
  <2> QED BY <2>2, <2>3
<1> QED BY <1>5, <1>6 DEF TextAfter

\* The request at the head is answered on the outputs as they are.
LEMMA HeadAnswers ==
  ASSUME NEW q \in Seq(ToGoplsMessages), q # <<>>, Head(q).kind # "text", NEW d,
         OneGeneration(q, d, 1)
  PROVE  Single({d[o] : o \in Outputs})
<1>1. PICK g \in Nat : \A o \in Outputs : TextAfter(q, d, 1, o, g)
  BY DEF OneGeneration
<1>2. \A o \in Outputs : ~IsText(q, 1, o)
  BY DEF IsText
<1>3. \A j \in 1 .. 1 : j = 1
  OBVIOUS
<1>4. \A o \in Outputs : d[o] = g
  BY <1>1, <1>2, <1>3 DEF TextAfter
<1> QED BY <1>4 DEF Single

\* Under goplsClient.mu no request gets between two texts of a generation.
LEMMA TextsStep ==
  ASSUME DelegateTypeOK, ClientMuInv, TextsInv, [DelegateNext]_delegateVars
  PROVE  TextsInv'
<1> USE DEF DelegateTypeOK, ClientMuInv, TextsInv, Nobody, mainVars, genVars, goplsVars
<1>1. CASE Initialize
  BY <1>1 DEF Initialize
<1>2. CASE Edited
  BY <1>2 DEF Edited
<1>3. CASE Other
  BY <1>3 DEF Other, Receive
<1>4. CASE HoverHole
  BY <1>4 DEF HoverHole, Receive
<1>5. CASE Forward
  BY <1>5 DEF Forward, Receive
<1>6. CASE ReadMap
  BY <1>6 DEF ReadMap
<1>7. CASE RequestLock
  BY <1>7 DEF RequestLock
<1>8. CASE RequestHeader
  BY <1>8 DEF RequestHeader
<1>9. CASE RequestBody
  <2>1. /\ cmu = "main" /\ gopls \in {"nil", "up", "dead"}
        /\ UNCHANGED <<gen, toSync, gopls, docs, gens, cmu, fromGopls, query>> /\ mainPc' = "await"
    BY <1>9 DEF RequestBody
  <2>2. CASE gopls # "up"
    <3>1. UNCHANGED toGopls
      BY <1>9, <2>2 DEF RequestBody
    <3> QED BY <2>1, <3>1
  <2>3. CASE gopls = "up"
    <3> DEFINE m == [kind |-> "request", id |-> query.id]
    <3>1. toGopls' = Append(toGopls, m) /\ m \in ToGoplsMessages /\ m.kind = "request"
      BY <1>9, <2>3 DEF RequestBody, ToGoplsMessages
    <3> HIDE DEF m
    <3>2. OneGeneration(toGopls, docs, Len(toGopls))
      BY <2>1, <2>3
    <3>3. OneGeneration(toGopls', docs, Len(toGopls'))
      BY <3>1, <3>2, AppendAdds DEF OneGeneration
    <3>4. PICK n \in Nat : n = Len(toGopls)
      OBVIOUS
    <3>5. \A i \in DOMAIN toGopls' :
            \/ i \in DOMAIN toGopls /\ i \in 0 .. Len(toGopls) /\ toGopls'[i] = toGopls[i]
            \/ i = Len(toGopls')
      BY <3>1, <3>4
    <3>6. \A i \in DOMAIN toGopls' :
            toGopls'[i].kind = "request" => OneGeneration(toGopls', docs, i)
      <4> SUFFICES ASSUME NEW i \in DOMAIN toGopls', toGopls'[i].kind = "request"
                   PROVE  OneGeneration(toGopls', docs, i)
        OBVIOUS
      <4>1. CASE i \in DOMAIN toGopls /\ i \in 0 .. Len(toGopls) /\ toGopls'[i] = toGopls[i]
        BY <3>1, <4>1, AppendKeeps DEF OneGeneration
      <4> QED BY <3>3, <3>5, <4>1
    <3> QED BY <2>1, <3>3, <3>6
  <2> QED BY <2>1, <2>2, <2>3
<1>10. CASE RequestRead
  <2>1. /\ fromGopls[1] = Head(fromGopls) /\ 1 \in DOMAIN fromGopls
        /\ fromGopls' = Tail(fromGopls)
        /\ \A i \in DOMAIN fromGopls' : /\ i + 1 \in DOMAIN fromGopls
                                        /\ fromGopls'[i] = fromGopls[i + 1]
    BY <1>10 DEF RequestRead
  <2>2. /\ UNCHANGED <<gens, gen, docs, toGopls, toSync, gopls>>
        /\ cmu # "gen" /\ cmu' # "gen" /\ mainPc' # "start"
    BY <1>10 DEF RequestRead, RequestReturn
  <2>3. \A i \in DOMAIN fromGopls' : fromGopls'[i].kind = "response" => Single(fromGopls'[i].on)
    BY <2>1
  <2>4. Single(query'.on)
    <3>1. CASE IsResponse(Head(fromGopls))
      <4> DEFINE m == Head(fromGopls)
      <4>1. query' = [query EXCEPT !.taken = m.kind,
                                 !.on = IF m.kind = "response" THEN m.on ELSE {}]
        BY <1>10, <3>1 DEF RequestRead
      <4>2. m.kind = "response" => Single(m.on)
        BY <2>1
      <4> HIDE DEF m
      <4>3. query'.on = IF m.kind = "response" THEN m.on ELSE {}
        BY <4>1
      <4> QED BY <4>2, <4>3 DEF Single
    <3>2. CASE ~IsResponse(Head(fromGopls))
      BY <1>10, <3>2 DEF RequestRead
    <3> QED BY <3>1, <3>2
  <2> QED BY <2>2, <2>3, <2>4
<1>11. CASE RequestFails
  BY <1>11 DEF RequestFails, RequestReturn, NoQuery, Single
<1>12. CASE MapBack
  BY <1>12 DEF MapBack
<1>13. CASE ReplyHeader
  BY <1>13 DEF ReplyHeader
<1>14. CASE ReplyBody
  BY <1>14 DEF ReplyBody, NoQuery, Single
<1>15. CASE Exit
  BY <1>15 DEF Exit
<1>16. CASE Generated
  BY <1>16 DEF Generated
<1>17. CASE PublishHeader
  BY <1>17 DEF PublishHeader
<1>18. CASE PublishBody
  BY <1>18 DEF PublishBody
<1>19. CASE InstallMaps
  BY <1>19 DEF InstallMaps
<1>20. CASE SyncLock
  BY <1>20 DEF SyncLock
<1>21. CASE SyncHeader
  BY <1>21 DEF SyncHeader
<1>22. CASE SyncBody
  <2>1. /\ cmu = "gen" /\ gopls \in {"up", "dead"} /\ gen' = "header" /\ gen = "body"
        /\ UNCHANGED <<gopls, docs, gens, cmu, fromGopls, query, mainPc>>
    BY <1>22 DEF SyncBody
  <2>2. CASE gopls # "up"
    <3>1. UNCHANGED toGopls
      BY <1>22, <2>2 DEF SyncBody
    <3> QED BY <2>1, <2>2, <3>1
  <2>3. CASE gopls = "up"
    <3>1. PICK o \in toSync : /\ toSync' = toSync \ {o}
                             /\ toGopls' = Append(toGopls,
                                  [kind |-> "text", file |-> o, gen |-> gens])
      BY <1>22, <2>3 DEF SyncBody
    <3> DEFINE m == [kind |-> "text", file |-> o, gen |-> gens]
    <3>2. /\ m \in ToGoplsMessages /\ m.kind = "text" /\ m.file = o /\ m.gen = gens
          /\ toGopls' = Append(toGopls, m)
      BY <3>1 DEF ToGoplsMessages
    <3> HIDE DEF m
    <3>3. \A p \in Outputs \ toSync' : TextAfter(toGopls', docs, Len(toGopls'), p, gens)
      <4> SUFFICES ASSUME NEW p \in Outputs \ toSync'
                   PROVE  TextAfter(toGopls', docs, Len(toGopls'), p, gens)
        OBVIOUS
      <4>1. p = o \/ (p # o /\ TextAfter(toGopls, docs, Len(toGopls), p, gens))
        BY <2>1, <2>3, <3>1
      <4> QED BY <3>2, <4>1, AppendAdds
    <3>4. PICK n \in Nat : n = Len(toGopls)
      OBVIOUS
    <3>5. \A i \in DOMAIN toGopls' :
            \/ i \in DOMAIN toGopls /\ i \in 0 .. Len(toGopls) /\ toGopls'[i] = toGopls[i]
            \/ toGopls'[i].kind = "text"
      BY <3>2, <3>4
    <3>6. \A i \in DOMAIN toGopls' :
            toGopls'[i].kind = "request" => OneGeneration(toGopls', docs, i)
      <4> SUFFICES ASSUME NEW i \in DOMAIN toGopls', toGopls'[i].kind = "request"
                   PROVE  OneGeneration(toGopls', docs, i)
        OBVIOUS
      <4>1. i \in DOMAIN toGopls /\ i \in 0 .. Len(toGopls) /\ toGopls'[i] = toGopls[i]
        BY <3>5
      <4> QED BY <3>2, <4>1, AppendKeeps DEF OneGeneration
    <3> QED BY <2>1, <3>3, <3>6
  <2> QED BY <2>1, <2>2, <2>3
<1>23. CASE SyncReturn
  <2>1. /\ cmu = "gen" /\ toSync = {} /\ cmu' = "nobody" /\ gen' = "idle"
        /\ UNCHANGED <<gopls, toGopls, fromGopls, docs, gens, toSync, query, mainPc>>
    BY <1>23 DEF SyncReturn
  <2>2. gopls # "dead" => OneGeneration(toGopls, docs, Len(toGopls))
    BY <2>1 DEF OneGeneration
  <2> QED BY <2>1, <2>2
<1>24. CASE GoplsProcess
  <2> DEFINE m == Head(toGopls)
  <2>1. /\ m = toGopls[1] /\ 1 \in DOMAIN toGopls /\ m \in ToGoplsMessages
        /\ toGopls # <<>> /\ toGopls' = Tail(toGopls)
    BY <1>24 DEF GoplsProcess
  <2>2. UNCHANGED <<gens, gen, query, cmu, gopls, toSync, mainPc>> /\ gopls = "up"
    BY <1>24 DEF GoplsProcess
  <2>3. /\ docs' \in [Outputs -> Nat]
        /\ docs' = IF m.kind = "text" THEN [docs EXCEPT ![m.file] = m.gen] ELSE docs
    <3>1. DelegateTypeOK'
      BY DelegateTypeStep
    <3>2. docs' \in [Outputs -> Nat]
      BY <3>1
    <3>3. CASE m.kind = "text"
      BY <1>24, <3>2, <3>3 DEF GoplsProcess
    <3>4. CASE m.kind # "text"
      BY <1>24, <3>2, <3>4 DEF GoplsProcess
    <3> QED BY <3>2, <3>3, <3>4
  <2>4. PICK n \in Nat : n + 1 = Len(toGopls)
    <3> HIDE DEF m, TextsInv, ClientMuInv
    <3>1. PICK k \in Nat : k = Len(toGopls) /\ k # 0
      BY <2>1
    <3>2. k - 1 \in Nat /\ (k - 1) + 1 = k
      BY <3>1
    <3> QED BY <3>1, <3>2
  <2>5. /\ Len(toGopls') = n
        /\ \A i \in DOMAIN toGopls' : /\ i \in Nat /\ i < Len(toGopls) /\ i + 1 \in DOMAIN toGopls
                                      /\ toGopls'[i] = toGopls[i + 1]
    BY <2>1, <2>4
  <2>6. \A i \in Nat, o \in Outputs, g \in Nat :
          i < Len(toGopls) /\ TextAfter(toGopls, docs, i + 1, o, g) =>
            TextAfter(toGopls', docs', i, o, g)
    BY <2>1, <2>3, TailShifts
  <2>7. \A i \in DOMAIN toGopls' : toGopls'[i].kind = "request" => OneGeneration(toGopls', docs', i)
    <3> SUFFICES ASSUME NEW i \in DOMAIN toGopls', toGopls'[i].kind = "request"
                 PROVE  OneGeneration(toGopls', docs', i)
      OBVIOUS
    <3>1. OneGeneration(toGopls, docs, i + 1)
      BY <2>5
    <3> QED BY <2>5, <2>6, <3>1 DEF OneGeneration
  <2>8. n < Len(toGopls)
    BY <2>4
  <2>9. IF cmu = "gen"
        THEN \A o \in Outputs \ toSync : TextAfter(toGopls', docs', Len(toGopls'), o, gens)
        ELSE OneGeneration(toGopls', docs', Len(toGopls'))
    <3>1. CASE cmu = "gen"
      <4>1. \A o \in Outputs \ toSync : TextAfter(toGopls, docs, n + 1, o, gens)
        BY <2>2, <2>4, <3>1
      <4>2. \A o \in Outputs \ toSync : TextAfter(toGopls', docs', n, o, gens)
        <5> HIDE DEF TextsInv
        <5> QED BY <2>6, <2>8, <4>1
      <4> QED BY <2>5, <3>1, <4>2
    <3>2. CASE cmu # "gen"
      <4>1. OneGeneration(toGopls, docs, n + 1)
        BY <2>2, <2>4, <3>2
      <4>2. OneGeneration(toGopls', docs', n)
        <5> HIDE DEF TextsInv
        <5> QED BY <2>6, <2>8, <4>1 DEF OneGeneration
      <4> QED BY <2>5, <3>2, <4>2
    <3> QED BY <3>1, <3>2
  <2>10. \A i \in DOMAIN fromGopls' : fromGopls'[i].kind = "response" => Single(fromGopls'[i].on)
    <3>1. CASE m.kind = "text"
      BY <1>24, <3>1 DEF GoplsProcess
    <3>2. CASE m.kind # "text"
      <4> DEFINE r == [kind |-> "response", id |-> m.id, on |-> {docs[o] : o \in Outputs}]
      <4>1. fromGopls' = Append(fromGopls, r)
        BY <1>24, <3>2 DEF GoplsProcess
      <4>2. m.kind = "request"
        BY <2>1, <3>2 DEF ToGoplsMessages
      <4>3. OneGeneration(toGopls, docs, 1)
        BY <2>1, <4>2
      <4>4. Single(r.on)
        BY <2>1, <3>2, <4>3, HeadAnswers
      <4> HIDE DEF r, m
      <4>5. \A i \in DOMAIN fromGopls' : \/ i \in DOMAIN fromGopls /\ fromGopls'[i] = fromGopls[i]
                                         \/ fromGopls'[i] = r
        BY <4>1
      <4> QED BY <4>4, <4>5
    <3> QED BY <3>1, <3>2
  <2> QED BY <2>2, <2>7, <2>9, <2>10
<1>25. CASE GoplsNotifies
  BY <1>25 DEF GoplsNotifies, FromGoplsMessages
<1>26. CASE GoplsRequests
  BY <1>26 DEF GoplsRequests, FromGoplsMessages
<1>27. CASE GoplsDies
  BY <1>27 DEF GoplsDies
<1>28. CASE UNCHANGED delegateVars
  BY <1>28 DEF delegateVars
<1> QED BY <1>1, <1>2, <1>3, <1>4, <1>5, <1>6, <1>7, <1>8, <1>9, <1>10, <1>11, <1>12, <1>13,
      <1>14, <1>15, <1>16, <1>17, <1>18, <1>19, <1>20, <1>21, <1>22, <1>23, <1>24, <1>25,
      <1>26, <1>27, <1>28
  DEF DelegateNext, Main, Answering, Request, Generation, Publication, Sync, Gopls

\* Nothing has been said yet.
LEMMA DelegateInitInv == DelegateInit => DelegateInv
<1> SUFFICES ASSUME DelegateInit PROVE DelegateInv OBVIOUS
<1> USE DEF DelegateInit
<1>1. DelegateTypeOK
  <2>1. stdout \in Pipes /\ stdin \in Pipes
    BY DEF Pipes, Intact
  <2>2. query \in Queries
    BY DEF NoQuery, Queries
  <2>3. toGopls \in Seq(ToGoplsMessages) /\ fromGopls \in Seq(FromGoplsMessages)
    OBVIOUS
  <2>4. docs \in [Outputs -> Nat]
    OBVIOUS
  <2> QED
    BY <2>1, <2>2, <2>3, <2>4
    DEF DelegateTypeOK, MainStages, GenStages, Writers, Nobody, Queries
<1>2. ClientMuInv
  BY DEF ClientMuInv, Intact, Nobody
<1>3. TextsInv
  <2>1. \A o \in Outputs : TextAfter(toGopls, docs, Len(toGopls), o, 0)
    BY DEF TextAfter
  <2> QED BY <2>1 DEF TextsInv, OneGeneration, Single, NoQuery, Nobody
<1>4. MapsInv
  BY DEF MapsInv, UpTo, NoQuery
<1> QED BY <1>1, <1>2, <1>3, <1>4 DEF DelegateInv

-----------------------------------------------------------------------------
\* Who holds goplsClient.mu, what gopls will know after each message in the pipe
\* and which generation the maps are from hold together in every state.
THEOREM DelegateInductive == DelegateSpec => []DelegateInv
<1>1. DelegateInv /\ [DelegateNext]_delegateVars => DelegateInv'
  BY DelegateTypeStep, ClientMuStep, TextsStep, MapsStep DEF DelegateInv
<1> QED BY DelegateInitInv, <1>1, PTL DEF DelegateSpec

\* Both conversations carry only messages of their protocols.
THEOREM ConversationsTyped == DelegateSpec => []DelegateTypeOK
<1>1. DelegateInv => DelegateTypeOK BY DEF DelegateInv
<1> QED BY DelegateInductive, <1>1, PTL

\* request and syncOutputs never mix their messages on the pipe to gopls.
THEOREM GoplsReadsWholeMessages == DelegateSpec => []FramesToGoplsWhole
<1>1. DelegateInv => FramesToGoplsWhole BY DEF DelegateInv, ClientMuInv, FramesToGoplsWhole
<1> QED BY DelegateInductive, <1>1, PTL

\* The answer Forward has taken is about the outputs of one generation.
THEOREM AnswersKnowOneGeneration == DelegateSpec => []AnswersOnOneGeneration
<1>1. ASSUME DelegateInv PROVE AnswersOnOneGeneration
  <2>1. Single(query.on)
    BY <1>1 DEF DelegateInv, TextsInv
  <2>2. CASE query.on = {}
    BY <2>2, FS_EmptySet DEF AnswersOnOneGeneration
  <2>3. CASE query.on # {}
    <3>1. PICK g : query.on = {g}
      BY <2>1, <2>3 DEF Single
    <3>2. Cardinality({g}) = 1
      BY FS_Singleton
    <3> QED BY <3>1, <3>2 DEF AnswersOnOneGeneration
  <2> QED BY <2>2, <2>3
<1> QED BY DelegateInductive, <1>1, PTL

\* mapBackLocation finds maps at least as new as what gopls answered on.
THEOREM MapsNotBehindAnswers == DelegateSpec => []MapsCoverAnswers
<1>1. DelegateInv => MapsCoverAnswers
  BY DEF DelegateInv, MapsInv, UpTo, MapsCoverAnswers
<1> QED BY DelegateInductive, <1>1, PTL

=============================================================================
