--------------------------- MODULE CompilerProofs ---------------------------
(***************************************************************************)
(* gen.Run for any number of sources, any texts and any sequence of runs,  *)
(* crashes and moves of the user.  The argument is what a run in progress  *)
(* has already settled: an output it has passed is as generated, or it is  *)
(* refused and the run knows it, or the run is a check and knows it is     *)
(* stale; and what it has touched it will not truncate again.              *)
(*                                                                         *)
(* And match for any signature, any arms, however deep and however many,   *)
(* and any budget.  The argument has three parts.  The recursions are well *)
(* defined: over patterns by their depth, over searches by the calls they  *)
(* have left.  A search that ends within its budget decides whether the    *)
(* rows cover the query, one head of the first column at a time.  And the  *)
(* steps of the analysis keep the matrix to what the arms so far match, so *)
(* that what is emitted goes to an arm that matches.                       *)
(***************************************************************************)
EXTENDS GenRun, Match, FiniteSetTheorems, WellFoundedInduction, TLAPS

-----------------------------------------------------------------------------
(* gen.Run.                                                                *)

Running == pc # "idle"

\* Its outputs are decided.
InPass3 == pc \in {"outputs", "writing"}

\* What the run is about to do is safe to do.
AheadInv ==
  /\ mode # "check" => ~stale
  /\ Running => ~moved
  /\ pc = "loaded" => touched = {}
  /\ InPass3 =>
       /\ \A s \in todo : view[s] # "none" /\ s \notin touched
       /\ \A s \in orphans : /\ view[s] = "none" \/ s \in raced
                             /\ Generated(out[s]) \/ (pc = "writing" /\ s \in First(todo))
  /\ pc = "writing" => mode # "check" /\ \A s \in First(todo) : out[s].kind = "cut"

SettledOutput(s) ==
  \/ out[s] = Gen(view, authored)
  \/ diags /\ Refused(out[s])
  \/ mode = "check" /\ stale
  \/ s \in raced /\ s \notin orphans /\ out[s].kind = "none"

SettledOrphan(s) == ~Generated(out[s]) \/ (mode = "check" /\ stale) \/ s \in raced

\* What the run has passed is settled.
BehindInv ==
  InPass3 => \A s \in Sources :
    /\ view[s] # "none" /\ s \notin todo => SettledOutput(s)
    /\ view[s] = "none" /\ s \notin orphans => SettledOrphan(s)

TouchedInv == InPass3 => \A s \in touched : out[s].kind \in {"gen", "none"}

IInv == TypeOK /\ AheadInv /\ BehindInv /\ TouchedInv /\ StagedIsComplete /\ EndsCurrent

-----------------------------------------------------------------------------
LEMMA PlainType == \A kind \in {"none", "hand", "cut", "torn"} : Plain(kind) \in File
<1>1. Blank \in Views
  BY DEF Blank, Views
<1> QED
  BY <1>1 DEF Plain, File

LEMMA GenType == \A v \in Views, h \in SUBSET Sources : Gen(v, h) \in File
BY DEF Gen, File

LEMMA Kinds ==
  /\ \A v, h : Gen(v, h).kind = "gen" /\ Generated(Gen(v, h)) /\ ~Refused(Gen(v, h))
  /\ \A kind : Plain(kind).kind = kind
BY DEF Gen, Plain, Generated, Refused

LEMMA BlankType == Blank \in Views
BY DEF Blank, Views

LEMMA FirstIn == \A S, s : s \in First(S) => s \in S
BY DEF First

LEMMA FirstIsOne == \A S \in SUBSET Sources : \A r, s \in First(S) : r = s
BY DEF First, Sources

-----------------------------------------------------------------------------
(* Type correctness.                                                       *)

LEMMA TypeStep == TypeOK /\ [Next]_vars => TypeOK'
<1> SUFFICES ASSUME TypeOK, [Next]_vars PROVE TypeOK'
  OBVIOUS
<1> USE DEF TypeOK, Results
<1>1. ASSUME NEW s \in Sources, NEW text \in Texts \cup {"none", "bad"}, EditSource(s, text)
      PROVE  TypeOK'
  <2>1. src' \in Views
    BY <1>1 DEF EditSource, Views
  <2>2. moves' \in 0 .. MaxMoves
    BY <1>1, GenAssumption DEF EditSource, Move
  <2> QED
    BY <1>1, <2>1, <2>2 DEF EditSource, run
<1>2. ASSUME NEW s \in Sources, NEW kind \in {"hand", "none"}, ReplaceOutput(s, kind)
      PROVE  TypeOK'
  <2>1. out' \in [Sources -> File]
    BY <1>2, PlainType DEF ReplaceOutput
  <2>2. moves' \in 0 .. MaxMoves
    BY <1>2, GenAssumption DEF ReplaceOutput, Move
  <2> QED
    BY <1>2, <2>1, <2>2 DEF ReplaceOutput, run
<1>3. ASSUME NEW m \in {"write", "check", "stage"}, Load(m) PROVE TypeOK'
  <2>1. authored' \subseteq Sources /\ diags' \in BOOLEAN
    BY <1>3 DEF Load, Authored, Broken
  <2> QED
    BY <1>3, <2>1 DEF Load, files
<1>10. ASSUME ListOrphans PROVE TypeOK'
  BY <1>10 DEF ListOrphans, FindOrphans, files
<1>11. ASSUME EndInDiagnostics PROVE TypeOK'
  BY <1>11 DEF EndInDiagnostics, files, run, hist
<1>4. ASSUME VisitOutput PROVE TypeOK'
  <2>1. PICK s \in First(todo) : Refuse(s) \/ CheckOutput(s) \/ Truncate(s)
    BY <1>4 DEF VisitOutput
  <2>2. s \in Sources
    BY <2>1, FirstIn
  <2>3. CASE Refuse(s)
    BY <1>4, <2>3 DEF VisitOutput, Refuse, files, hist
  <2>4. CASE CheckOutput(s)
    BY <1>4, <2>4 DEF VisitOutput, CheckOutput, files, hist
  <2>5. CASE Truncate(s)
    <3>1. out' \in [Sources -> File]
      BY <2>5, PlainType DEF Truncate
    <3> QED
      BY <1>4, <2>2, <2>5, <3>1 DEF VisitOutput, Truncate, run, hist
  <2> QED
    BY <2>1, <2>3, <2>4, <2>5
<1>5. ASSUME Write PROVE TypeOK'
  <2>1. PICK s \in First(todo) : /\ out' = [out EXCEPT ![s] = Gen(view, authored)]
                                /\ touched' = touched \cup {s} /\ todo' = todo \ {s}
    BY <1>5 DEF Write
  <2>2. s \in Sources /\ out' \in [Sources -> File]
    BY <2>1, FirstIn, GenType
  <2> QED
    BY <1>5, <2>1, <2>2 DEF Write, hist
<1>6. ASSUME RemoveOrphans PROVE TypeOK'
  <2>1. PICK s \in First(orphans) : VisitOrphan(s)
    BY <1>6 DEF RemoveOrphans
  <2>2. s \in Sources
    BY <2>1, FirstIn
  <2>3. out' \in [Sources -> File] /\ touched' \subseteq Sources /\ unstaged' \subseteq Sources
    BY <2>1, <2>2, PlainType DEF VisitOrphan, files
  <2> QED
    BY <1>6, <2>1, <2>2, <2>3 DEF RemoveOrphans, VisitOrphan, files, hist
<1>7. ASSUME Finish PROVE TypeOK'
  <2>1. index' \in [Sources -> File] /\ unstaged' \subseteq Sources /\ result' \in Results
    BY <1>7 DEF Finish, GitAdd
  <2> QED
    BY <1>7, <2>1 DEF Finish, run, hist
<1>8. ASSUME NEW how \in {"error", "killed"}, Fail(how) PROVE TypeOK'
  <2>1. out' \in [Sources -> File]
    BY <1>8, PlainType, FirstIn DEF Fail
  <2> QED
    BY <1>8, <2>1 DEF Fail, EndOnError, run, hist
<1>9. CASE UNCHANGED vars
  BY <1>9 DEF vars, files, run, hist
<1> QED
  BY <1>1, <1>2, <1>3, <1>4, <1>5, <1>6, <1>7, <1>8, <1>9, <1>10, <1>11 DEF Next, User, Run
-----------------------------------------------------------------------------
(* The invariant, one lemma for each action of the run.                    *)

LEMMA InitInv == Init => IInv
<1> SUFFICES ASSUME Init PROVE IInv
  OBVIOUS
<1>1. out \in [Sources -> File] /\ src \in Views
  BY PlainType DEF Init, Views
<1>2. TypeOK
  <2>1. src \in Views /\ out \in [Sources -> File] /\ index \in [Sources -> File] /\ view \in Views
    BY <1>1, BlankType DEF Init
  <2>2. moves \in 0 .. MaxMoves /\ result \in Results
    BY GenAssumption DEF Init, Results
  <2>3. /\ pc \in {"idle", "loaded", "outputs", "writing"} /\ mode \in {"write", "check", "stage"}
        /\ todo \subseteq Sources /\ orphans \subseteq Sources /\ touched \subseteq Sources
        /\ diags \in BOOLEAN /\ stale \in BOOLEAN /\ moved \in BOOLEAN /\ unstaged \subseteq Sources
        /\ authored \subseteq Sources /\ raced \subseteq Sources
    BY DEF Init
  <2> QED
    BY <2>1, <2>2, <2>3, Zenon DEF TypeOK
<1>3. StagedIsComplete
  BY Kinds DEF Init, StagedIsComplete
<1> QED
  BY <1>2, <1>3 DEF Init, IInv, AheadInv, BehindInv, TouchedInv, EndsCurrent, Running, InPass3

\* The user's moves do not touch what a run under way relies on.
LEMMA UserKeeps ==
  ASSUME IInv, User
  PROVE  (AheadInv /\ BehindInv /\ TouchedInv /\ StagedIsComplete /\ EndsCurrent)'
<1> USE DEF IInv
<1>1. ASSUME NEW s \in Sources, NEW text \in Texts \cup {"none", "bad"}, EditSource(s, text)
      PROVE  (AheadInv /\ BehindInv /\ TouchedInv /\ StagedIsComplete /\ EndsCurrent)'
  <2>1. UNCHANGED <<out, index, pc, run, result, moved, raced, unstaged>>
    BY <1>1 DEF EditSource
  <2> QED
    BY <2>1 DEF run, AheadInv, BehindInv, TouchedInv, StagedIsComplete, EndsCurrent, Running,
                InPass3, SettledOutput, SettledOrphan, AsGenerated, Overtaken
<1>2. ASSUME NEW s \in Sources, NEW kind \in {"hand", "none"}, ReplaceOutput(s, kind)
      PROVE  (AheadInv /\ BehindInv /\ TouchedInv /\ StagedIsComplete /\ EndsCurrent)'
  <2>1. UNCHANGED <<index, run>> /\ pc' = "idle" /\ moved'
    BY <1>2 DEF ReplaceOutput
  <2> QED
    BY <2>1 DEF run, AheadInv, BehindInv, TouchedInv, StagedIsComplete, EndsCurrent, Running, InPass3
<1> QED
  BY <1>1, <1>2 DEF User

LEMMA LoadKeeps ==
  ASSUME IInv, NEW m \in {"write", "check", "stage"}, Load(m)
  PROVE  (AheadInv /\ BehindInv /\ TouchedInv /\ StagedIsComplete /\ EndsCurrent)'
<1>1. /\ pc' = "loaded" /\ ~moved' /\ ~stale' /\ touched' = {} /\ index' = index
  BY DEF Load, files
<1> QED
  BY <1>1 DEF IInv, AheadInv, BehindInv, TouchedInv, StagedIsComplete, EndsCurrent, InPass3

LEMMA ListKeeps ==
  ASSUME IInv, ListOrphans
  PROVE  (AheadInv /\ BehindInv /\ TouchedInv /\ StagedIsComplete /\ EndsCurrent)'
<1>1. /\ pc = "loaded" /\ pc' = "outputs" /\ orphans' = FindOrphans
      /\ todo' = {s \in Sources : view[s] # "none"}
      /\ raced' = {s \in Sources : (view[s] = "none") # (src[s] = "none")}
      /\ UNCHANGED <<out, index, mode, view, authored, touched, diags, stale, moved>>
  BY DEF ListOrphans, files
<1>2. /\ AheadInv /\ ~moved /\ touched = {}
  BY <1>1 DEF IInv, AheadInv, Running
<1>3. \A s \in FindOrphans : /\ s \in Sources /\ Generated(out[s])
                             /\ view[s] = "none" \/ s \in raced'
  BY <1>1 DEF FindOrphans
<1>4. AheadInv'
  BY <1>1, <1>2, <1>3 DEF AheadInv, InPass3, Generated
<1>5. ASSUME NEW s \in Sources, view[s] = "none", s \notin FindOrphans
      PROVE  ~Generated(out[s]) \/ s \in raced'
  BY <1>1, <1>5 DEF FindOrphans
<1>6. BehindInv'
  <2>1. \A s \in Sources : view'[s] # "none" => s \in todo'
    BY <1>1
  <2>2. \A s \in Sources : view'[s] = "none" /\ s \notin orphans' => SettledOrphan(s)'
    BY <1>1, <1>5 DEF SettledOrphan, Generated
  <2> QED
    BY <2>1, <2>2 DEF BehindInv
<1>7. TouchedInv' /\ StagedIsComplete' /\ EndsCurrent'
  BY <1>1, <1>2 DEF IInv, TouchedInv, StagedIsComplete, EndsCurrent
<1> QED
  BY <1>4, <1>6, <1>7

LEMMA DiagnosticsKeep ==
  ASSUME IInv, EndInDiagnostics
  PROVE  (AheadInv /\ BehindInv /\ TouchedInv /\ StagedIsComplete /\ EndsCurrent)'
<1>1. pc' = "idle" /\ result' = "diags" /\ index' = index /\ UNCHANGED run
  BY DEF EndInDiagnostics, files
<1> QED
  BY <1>1 DEF IInv, run, AheadInv, BehindInv, TouchedInv, StagedIsComplete, EndsCurrent, Running, InPass3

LEMMA VisitKeeps ==
  ASSUME IInv, VisitOutput
  PROVE  (AheadInv /\ BehindInv /\ TouchedInv /\ StagedIsComplete /\ EndsCurrent)'
<1>0. /\ TypeOK /\ AheadInv /\ BehindInv /\ TouchedInv /\ StagedIsComplete
      /\ pc = "outputs" /\ UNCHANGED <<result, hist>>
  BY DEF IInv, VisitOutput
<1>1. PICK s \in First(todo) : Refuse(s) \/ CheckOutput(s) \/ Truncate(s)
  BY DEF VisitOutput
<1>2. s \in todo /\ s \in Sources /\ view[s] # "none" /\ s \notin touched
  BY <1>0, <1>1, FirstIn DEF TypeOK, AheadInv, InPass3
<1>3. CASE Refuse(s)
  <2>1. /\ UNCHANGED <<out, index, pc, mode, view, authored, orphans, touched, stale, moved, raced>>
        /\ diags' /\ todo' = todo \ {s} /\ Refused(out[s])
    BY <1>0, <1>3 DEF Refuse, files, hist
  <2>2. AheadInv' /\ TouchedInv' /\ StagedIsComplete' /\ EndsCurrent'
    BY <1>0, <2>1 DEF AheadInv, TouchedInv, StagedIsComplete, EndsCurrent, Running, InPass3
  <2>3. BehindInv'
    BY <1>0, <2>1 DEF BehindInv, InPass3, SettledOutput, SettledOrphan
  <2> QED
    BY <2>2, <2>3
<1>4. CASE CheckOutput(s)
  <2>1. /\ UNCHANGED <<out, index, pc, mode, view, authored, orphans, touched, diags, moved, raced>>
        /\ todo' = todo \ {s} /\ stale' = (stale \/ ~Current(s))
        /\ mode = "check" \/ Current(s)
    BY <1>0, <1>4 DEF CheckOutput, files, hist
  <2>2. stale => stale'
    BY <2>1
  <2>3. SettledOutput(s)'
    BY <2>1 DEF SettledOutput, Current
  <2>4. AheadInv' /\ TouchedInv' /\ StagedIsComplete' /\ EndsCurrent'
    BY <1>0, <2>1 DEF AheadInv, TouchedInv, StagedIsComplete, EndsCurrent, Running, InPass3, Current
  <2>5. BehindInv'
    BY <1>0, <2>1, <2>2, <2>3 DEF BehindInv, InPass3, SettledOutput, SettledOrphan
  <2> QED
    BY <2>4, <2>5
<1>5. CASE Truncate(s)
  <2>1. /\ UNCHANGED <<index, mode, view, authored, todo, orphans, touched, diags, stale, moved, raced>>
        /\ out' = [out EXCEPT ![s] = Plain("cut")] /\ pc' = "writing" /\ mode # "check"
    BY <1>5, <1>0 DEF Truncate, run, hist
  <2>2. /\ \A r \in Sources : r # s => out'[r] = out[r]
        /\ out'[s].kind = "cut"
    BY <2>1, <1>0, Kinds, <1>2 DEF TypeOK
  <2>3. \A r \in First(todo) : r = s
    BY <1>1, <1>0, FirstIsOne DEF TypeOK
  <2>4. AheadInv'
    BY <1>0, <1>1, <1>2, <2>1, <2>2, <2>3 DEF AheadInv, Running, InPass3, Generated, TypeOK
  <2>5. BehindInv'
    BY <1>0, <1>2, <2>1, <2>2 DEF BehindInv, InPass3, SettledOutput, SettledOrphan, Refused, Generated
  <2>6. TouchedInv' /\ StagedIsComplete' /\ EndsCurrent'
    BY <1>0, <1>2, <2>1, <2>2 DEF TouchedInv, StagedIsComplete, EndsCurrent, InPass3, TypeOK
  <2> QED
    BY <2>4, <2>5, <2>6
<1> QED
  BY <1>1, <1>3, <1>4, <1>5
LEMMA WriteKeeps ==
  ASSUME IInv, Write
  PROVE  (AheadInv /\ BehindInv /\ TouchedInv /\ StagedIsComplete /\ EndsCurrent)'
<1>0. TypeOK /\ AheadInv /\ BehindInv /\ TouchedInv /\ StagedIsComplete
  BY DEF IInv
<1>1. PICK s \in First(todo) : /\ out' = [out EXCEPT ![s] = Gen(view, authored)]
                              /\ touched' = touched \cup {s} /\ todo' = todo \ {s}
  BY DEF Write
<1>2. /\ UNCHANGED <<index, mode, view, authored, orphans, diags, stale, result, moved, raced>>
      /\ pc = "writing" /\ pc' = "outputs"
  BY DEF Write, hist
<1>3. /\ s \in todo /\ s \in Sources /\ view[s] # "none" /\ s \notin touched
      /\ \A r \in First(todo) : r = s
  BY <1>0, <1>1, <1>2, FirstIn, FirstIsOne DEF TypeOK, AheadInv, InPass3
<1>4. /\ \A r \in Sources : r # s => out'[r] = out[r]
      /\ out'[s] = Gen(view, authored) /\ out'[s].kind = "gen"
  BY <1>0, <1>1, <1>3, Kinds DEF TypeOK
<1>5. AheadInv'
  BY <1>0, <1>1, <1>2, <1>3, <1>4 DEF AheadInv, Running, InPass3, Generated, TypeOK
<1>6. BehindInv'
  BY <1>0, <1>1, <1>2, <1>3, <1>4 DEF BehindInv, InPass3, SettledOutput, SettledOrphan, Refused, Generated
<1>7. TouchedInv' /\ StagedIsComplete' /\ EndsCurrent'
  BY <1>0, <1>1, <1>2, <1>3, <1>4 DEF TouchedInv, StagedIsComplete, EndsCurrent, InPass3, TypeOK
<1> QED
  BY <1>5, <1>6, <1>7

LEMMA RemoveKeeps ==
  ASSUME IInv, RemoveOrphans
  PROVE  (AheadInv /\ BehindInv /\ TouchedInv /\ StagedIsComplete /\ EndsCurrent)'
<1>0. /\ TypeOK /\ AheadInv /\ BehindInv /\ TouchedInv /\ StagedIsComplete
      /\ pc = "outputs" /\ todo = {} /\ UNCHANGED <<result, moved, raced>>
  BY DEF IInv, RemoveOrphans, hist
<1>1. PICK s \in First(orphans) : VisitOrphan(s)
  BY DEF RemoveOrphans
<1>2. s \in orphans /\ s \in Sources /\ (view[s] = "none" \/ s \in raced)
  BY <1>0, <1>1, FirstIn DEF TypeOK, AheadInv, InPass3
<1>3. CASE mode = "check" /\ stale'
  <2>1. /\ UNCHANGED <<out, index, pc, mode, view, authored, todo, touched, diags>>
        /\ orphans' = orphans \ {s}
    BY <1>1, <1>3 DEF VisitOrphan, files
  <2>2. AheadInv' /\ TouchedInv' /\ StagedIsComplete' /\ EndsCurrent'
    BY <1>0, <1>3, <2>1 DEF AheadInv, TouchedInv, StagedIsComplete, EndsCurrent, Running, InPass3
  <2>3. BehindInv'
    BY <1>0, <1>3, <2>1 DEF BehindInv, InPass3, SettledOutput, SettledOrphan
  <2> QED
    BY <2>2, <2>3
<1>4. CASE mode # "check"
  <2>1. /\ UNCHANGED <<index, pc, mode, view, authored, todo, diags, stale>>
        /\ out' = [out EXCEPT ![s] = Plain("none")]
        /\ orphans' = orphans \ {s} /\ touched' = touched \cup {s}
    BY <1>1, <1>4 DEF VisitOrphan, files
  <2>2. /\ \A r \in Sources : r # s => out'[r] = out[r]
        /\ out'[s].kind = "none"
    BY <1>0, <1>2, <2>1, Kinds DEF TypeOK
  <2>3. AheadInv'
    BY <1>0, <1>2, <2>1, <2>2 DEF AheadInv, Running, InPass3, Generated, TypeOK
  <2>4. BehindInv'
    BY <1>0, <1>2, <2>1, <2>2 DEF BehindInv, InPass3, SettledOutput, SettledOrphan, Refused, Generated
  <2>5. TouchedInv' /\ StagedIsComplete' /\ EndsCurrent'
    BY <1>0, <1>2, <2>1, <2>2 DEF TouchedInv, StagedIsComplete, EndsCurrent, InPass3, TypeOK
  <2> QED
    BY <2>3, <2>4, <2>5
<1> QED
  BY <1>1, <1>3, <1>4 DEF VisitOrphan

LEMMA FinishKeeps ==
  ASSUME IInv, Finish
  PROVE  (AheadInv /\ BehindInv /\ TouchedInv /\ StagedIsComplete /\ EndsCurrent)'
<1>0. TypeOK /\ AheadInv /\ BehindInv /\ TouchedInv /\ StagedIsComplete
  BY DEF IInv
<1>1. /\ UNCHANGED <<out, mode, view, authored, todo, touched, diags, stale, raced>>
      /\ todo = {} /\ orphans = {}
      /\ pc = "outputs" /\ pc' = "idle" /\ (mode # "check" => ~stale)
  BY <1>0 DEF Finish, run, hist, AheadInv
<1>2. AheadInv' /\ BehindInv' /\ TouchedInv'
  BY <1>1 DEF AheadInv, BehindInv, TouchedInv, Running, InPass3
<1>3. \A s \in Sources : index'[s] = index[s] \/ index'[s].kind \in {"gen", "none"}
  BY <1>0, <1>1 DEF Finish, GitAdd, TouchedInv, InPass3, TypeOK
<1>4. StagedIsComplete'
  BY <1>0, <1>3 DEF StagedIsComplete
<1>5. /\ result' = "ok" => ~diags /\ ~stale
      /\ result' = "refused" => mode = "check" \/ ~stale
  <2>1. CASE mode = "stage" /\ touched # {} /\ ~diags
    BY <1>1, <2>1 DEF Finish, GitAdd
  <2>2. CASE ~(mode = "stage" /\ touched # {} /\ ~diags)
    <3>1. result' = IF diags THEN "refused" ELSE IF stale THEN "stale" ELSE "ok"
      BY <2>2 DEF Finish
    <3> QED
      BY <3>1, <1>1
  <2> QED
    BY <2>1, <2>2
<1>6. EndsCurrent'
  <2>1. \A s \in Sources : \/ AsGenerated(s) \/ Overtaken(s)
                           \/ diags /\ Refused(out[s])
                           \/ mode = "check" /\ stale
    BY <1>0, <1>1 DEF BehindInv, InPass3, SettledOutput, SettledOrphan, AsGenerated, Overtaken
  <2>2. \A s \in Sources : /\ AsGenerated(s)' = AsGenerated(s) /\ Overtaken(s)' = Overtaken(s)
                           /\ Refused(out'[s]) = Refused(out[s])
    BY <1>1 DEF AsGenerated, Overtaken
  <2>3. result' = "ok" => \A s \in Sources : AsGenerated(s)' \/ Overtaken(s)'
    BY <1>5, <2>1, <2>2
  <2>4. result' = "refused" /\ mode' # "check" =>
          \A s \in Sources : AsGenerated(s)' \/ Overtaken(s)' \/ Refused(out'[s])
    BY <1>1, <1>5, <2>1, <2>2
  <2> QED
    BY <2>3, <2>4 DEF EndsCurrent
<1> QED
  BY <1>2, <1>4, <1>6

LEMMA FailKeeps ==
  ASSUME IInv, NEW how \in {"error", "killed"}, Fail(how)
  PROVE  (AheadInv /\ BehindInv /\ TouchedInv /\ StagedIsComplete /\ EndsCurrent)'
<1>1. pc' = "idle" /\ result' \in {"error", "killed"} /\ index' = index /\ UNCHANGED run
  BY DEF Fail, EndOnError
<1> QED
  BY <1>1 DEF IInv, run, AheadInv, BehindInv, TouchedInv, StagedIsComplete, EndsCurrent, Running, InPass3

LEMMA StepInv == IInv /\ [Next]_vars => IInv'
<1> SUFFICES ASSUME IInv, [Next]_vars PROVE IInv'
  OBVIOUS
<1>1. TypeOK'
  BY TypeStep DEF IInv
<1>2. CASE UNCHANGED vars
  BY <1>2, <1>1 DEF vars, files, run, hist, IInv, AheadInv, BehindInv, TouchedInv, StagedIsComplete,
                    EndsCurrent, Running, InPass3, SettledOutput, SettledOrphan, AsGenerated, Overtaken
<1>3. CASE User
  BY <1>1, <1>3, UserKeeps DEF IInv
<1>4. CASE Run
  BY <1>1, <1>4, LoadKeeps, ListKeeps, DiagnosticsKeep, VisitKeeps, WriteKeeps,
     RemoveKeeps, FinishKeeps, FailKeeps DEF Run, IInv
<1> QED
  BY <1>2, <1>3, <1>4 DEF Next

-----------------------------------------------------------------------------
LEMMA Inductive == Spec => []IInv
BY InitInv, StepInv, PTL DEF Spec

\* Type correctness, for any number of sources.
THEOREM TypeCorrect == Spec => []TypeOK
<1>1. IInv => TypeOK
  BY DEF IInv
<1> QED
  BY <1>1, Inductive, PTL

\* A run that succeeds, in any mode and after any crashes, has every output as
\* generated from what loadDir read and no orphan, and one that refuses a file has
\* done its work on all the others; only what came or went before findOrphans
\* looked may be gone after it was written, or stay (gen.Run).
THEOREM SuccessMeansCurrent == Spec => []EndsCurrent
<1>1. IInv => EndsCurrent
  BY DEF IInv
<1> QED
  BY <1>1, Inductive, PTL

\* What -stage puts in the index is never half-written (gen.Run, Stage).
THEOREM NothingHalfStaged == Spec => []StagedIsComplete
<1>1. IInv => StagedIsComplete
  BY DEF IInv
<1> QED
  BY <1>1, Inductive, PTL
\* What a step of a run changes at an output path was not written by hand.
LEMMA HandStep ==
  ASSUME IInv, [Next]_vars, NEW s \in Sources, pc # "idle", out[s].kind = "hand"
  PROVE  out'[s] = out[s]
<1>0. TypeOK /\ AheadInv
  BY DEF IInv
<1>1. ASSUME NEW t \in Sources, NEW f, out' = [out EXCEPT ![t] = f], t # s
      PROVE  out'[s] = out[s]
  BY <1>1, <1>0 DEF TypeOK
<1>2. CASE User \/ UNCHANGED vars
  BY <1>2 DEF User, EditSource, ReplaceOutput, vars, files
<1>3. CASE (\E m \in {"write", "check", "stage"} : Load(m)) \/ ListOrphans \/ EndInDiagnostics
  BY <1>3 DEF Load, ListOrphans, EndInDiagnostics, files
<1>4. CASE VisitOutput
  BY <1>0, <1>1, <1>4, FirstIn DEF VisitOutput, Refuse, CheckOutput, Truncate, files, Refused, TypeOK
<1>5. ASSUME NEW t \in First(todo), pc = "writing"
      PROVE  t \in Sources /\ t # s
  BY <1>0, <1>5, FirstIn DEF AheadInv, TypeOK
<1>6. CASE Write
  BY <1>1, <1>5, <1>6 DEF Write
<1>7. CASE RemoveOrphans
  <2>1. PICK t \in First(orphans) : VisitOrphan(t)
    BY <1>7 DEF RemoveOrphans
  <2>2. t \in Sources /\ t # s
    BY <1>0, <2>1, <1>7, FirstIn DEF AheadInv, InPass3, TypeOK, Generated, RemoveOrphans
  <2> QED
    BY <1>1, <2>1, <2>2 DEF VisitOrphan, files
<1>8. CASE Finish
  BY <1>8 DEF Finish
<1>9. CASE \E how \in {"error", "killed"} : Fail(how)
  BY <1>1, <1>5, <1>9 DEF Fail
<1> QED
  BY <1>2, <1>3, <1>4, <1>6, <1>7, <1>8, <1>9 DEF Next, Run

\* No run changes or deletes a file that was written by hand, whatever it finds
\* orphaned and whenever it is interrupted (emit.CheckOverwrite, findOrphans).
THEOREM HandWrittenSurvives == Spec => HandWrittenKept
<1>1. IInv /\ [Next]_vars =>
        [\A s \in Sources : pc # "idle" /\ out[s].kind = "hand" => out'[s] = out[s]]_vars
  BY HandStep
<1> QED
  BY <1>1, Inductive, PTL DEF Spec, HandWrittenKept
\* No step of a checking run writes: it never comes to a write, and the orphans it
\* lists and the index it leaves alone.
LEMMA CheckStep ==
  ASSUME IInv, [Next]_vars, pc # "idle", mode = "check"
  PROVE  UNCHANGED <<out, index>>
<1>0. pc # "writing"
  BY DEF IInv, AheadInv
<1>1. CASE User
  BY <1>1 DEF User, EditSource, ReplaceOutput
<1>2. CASE VisitOutput
  BY <1>2 DEF VisitOutput, Refuse, CheckOutput, Truncate, files
<1>3. CASE RemoveOrphans
  BY <1>3 DEF RemoveOrphans, VisitOrphan, files
<1>4. CASE Finish
  BY <1>4 DEF Finish
<1>5. ASSUME NEW how, Fail(how) PROVE UNCHANGED <<out, index>>
  BY <1>0, <1>5 DEF Fail, EndOnError
<1>6. CASE UNCHANGED vars
  BY <1>6 DEF vars, files
<1> QED
  BY <1>0, <1>1, <1>2, <1>3, <1>4, <1>5, <1>6 DEF Next, Run, Load, ListOrphans, EndInDiagnostics, Write, files

\* -check changes neither the outputs nor the index, whatever it finds and however it
\* ends (gen.Run, Check).
THEOREM CheckNeverWrites == Spec => CheckOnlyReads
<1>1. IInv /\ [Next]_vars =>
        [pc # "idle" /\ mode = "check" => UNCHANGED <<out, index>>]_vars
  BY CheckStep
<1> QED
  BY <1>1, Inductive, PTL DEF Spec, CheckOnlyReads

-----------------------------------------------------------------------------
(* Recursion.                                                              *)

\* No sequence of natural numbers descends for ever.
LEMMA LessIsWellFounded == IsWellFoundedOn({ss \in Nat \X Nat : ss[1] < ss[2]}, Nat)
BY NatLessThanWellFounded DEF OpToRel

\* A set of natural numbers that is not empty has a least element.
LEMMA HasLeast ==
  ASSUME NEW S \in SUBSET Nat, S # {}
  PROVE  Least(S) \in S /\ \A k \in S : Least(S) <= k
<1> DEFINE R == {ss \in Nat \X Nat : ss[1] < ss[2]}
<1>1. PICK m \in S : \A k \in S : <<k, m>> \notin R
  <2>1. IsWellFoundedOn(R, Nat)
    BY LessIsWellFounded
  <2> HIDE DEF R
  <2> QED BY <2>1, WFMin, Zenon
<1>2. ASSUME NEW k \in S PROVE m <= k
  <2>1. <<k, m>> \in Nat \X Nat /\ <<k, m>> \notin R
    BY <1>1
  <2>2. ~(k < m)
    BY <2>1
  <2> QED BY <2>2
<1> QED BY <1>2 DEF Least

\* Whatever holds of x when it holds of all of smaller rank holds everywhere:
\* an element of the least rank it fails at would be a contradiction.
LEMMA ByRank ==
  ASSUME NEW D, NEW rank \in [D -> Nat], NEW Good \in SUBSET D,
         \A x \in D : (\A y \in D : rank[y] < rank[x] => y \in Good) => x \in Good
  PROVE  D \subseteq Good
<1> SUFFICES ASSUME D \ Good # {} PROVE FALSE
  OBVIOUS
<1> DEFINE S == {rank[x] : x \in D \ Good}
           m == Least(S)
<1>1. S \in SUBSET Nat /\ S # {}
  OBVIOUS
<1>2. m \in S /\ \A k \in S : m <= k
  <2> HIDE DEF S
  <2> QED BY <1>1, HasLeast
<1> HIDE DEF m
<1>3. PICK x \in D \ Good : rank[x] = m
  BY <1>2
<1>4. ASSUME NEW y \in D, rank[y] < rank[x] PROVE y \in Good
  <2>1. rank[y] \in Nat /\ m \in Nat /\ ~(m <= rank[y])
    BY <1>1, <1>2, <1>3, <1>4
  <2>2. rank[y] \notin S
    BY <1>2, <2>1
  <2> QED BY <2>2
<1>5. x \in Good
  BY <1>3, <1>4
<1> QED BY <1>3, <1>5

\* Whatever holds of 0, and of each number when it holds of the one before, holds
\* of all of them.
LEMMA UpFromZero ==
  ASSUME NEW Good \in SUBSET Nat, 0 \in Good,
         \A k \in Nat \ {0} : k - 1 \in Good => k \in Good
  PROVE  \A k \in Nat : k \in Good
<1> DEFINE id == [k \in Nat |-> k]
<1>1. ASSUME NEW k \in Nat, \A m \in Nat : id[m] < id[k] => m \in Good
      PROVE  k \in Good
  <2>1. CASE k = 0
    BY <2>1
  <2>2. CASE k # 0
    <3>1. k - 1 \in Nat /\ k - 1 < k
      BY <2>2
    <3> QED BY <1>1, <2>2, <3>1
  <2> QED BY <2>1, <2>2
<1>2. id \in [Nat -> Nat] /\ Good \in SUBSET Nat
      /\ \A k \in Nat : (\A m \in Nat : id[m] < id[k] => m \in Good) => k \in Good
  BY <1>1
<1>3. Nat \subseteq Good
  <2> HIDE DEF id
  <2> QED BY <1>2, ByRank
<1> QED BY <1>3

\* The functions on D whose value at x is in V[x].
Product(D, V) == {f \in [D -> UNION {V[x] : x \in D}] : \A x \in D : f[x] \in V[x]}

\* G computes a value at x from a function on D, and looks only at those of smaller rank.
Descends(D, V, rank, G) ==
  /\ rank \in [D -> Nat]
  /\ Product(D, V) # {}
  /\ \A x \in D : \A f \in Product(D, V) : G[<<x, f>>] \in V[x]
  /\ \A x \in D : \A f, g \in Product(D, V) :
       (\A y \in D : rank[y] < rank[x] => f[y] = g[y]) => G[<<x, f>>] = G[<<x, g>>]

\* Such a recursion defines a function.
LEMMA Recursion ==
  ASSUME NEW D, NEW V, NEW rank, NEW G, Descends(D, V, rank, G)
  PROVE  \E f \in Product(D, V) : \A x \in D : f[x] = G[<<x, f>>]
<1> DEFINE P == Product(D, V)
           Solves(f, n) == f \in P /\ \A x \in D : rank[x] < n => f[x] = G[<<x, f>>]
<1>1. \A f \in P : \A x \in D : f[x] \in V[x]
  BY DEF Product
<1>2. ASSUME NEW f, f = [x \in D |-> f[x]], \A x \in D : f[x] \in V[x] PROVE f \in P
  BY <1>2 DEF Product
<1>3. /\ rank \in [D -> Nat] /\ P # {}
      /\ \A x \in D : \A f \in P : G[<<x, f>>] \in V[x]
      /\ \A x \in D : \A f, g \in P :
           (\A y \in D : rank[y] < rank[x] => f[y] = g[y]) => G[<<x, f>>] = G[<<x, g>>]
  BY DEF Descends
<1> HIDE DEF P
<1>4. ASSUME NEW n \in Nat, NEW f, Solves(f, n), NEW m \in Nat, NEW g, Solves(g, m)
      PROVE  \A x \in D : rank[x] < n /\ rank[x] < m => f[x] = g[x]
  <2> DEFINE Good == {x \in D : rank[x] < n /\ rank[x] < m => f[x] = g[x]}
  <2>1. ASSUME NEW x \in D, \A y \in D : rank[y] < rank[x] => y \in Good,
               rank[x] < n, rank[x] < m
        PROVE  f[x] = g[x]
    <3>1. ASSUME NEW y \in D, rank[y] < rank[x] PROVE f[y] = g[y]
      <4>1. rank[y] \in Nat /\ rank[x] \in Nat
        BY <1>3
      <4>2. rank[y] < n /\ rank[y] < m
        BY <2>1, <3>1, <4>1
      <4> QED BY <2>1, <3>1, <4>2
    <3>2. G[<<x, f>>] = G[<<x, g>>]
      BY <1>3, <1>4, <3>1
    <3> QED BY <1>4, <2>1, <3>2
  <2>2. \A x \in D : (\A y \in D : rank[y] < rank[x] => y \in Good) => x \in Good
    BY <2>1
  <2>3. Good \in SUBSET D
    OBVIOUS
  <2>4. D \subseteq Good
    <3> HIDE DEF Good
    <3> QED BY <1>3, <2>2, <2>3, ByRank
  <2> QED BY <2>4
<1>5. \A n \in Nat : \E f : Solves(f, n)
  <2> DEFINE Good == {n \in Nat : \E f : Solves(f, n)}
  <2>1. 0 \in Good
    <3>1. PICK f : f \in P
      BY <1>3
    <3>2. \A x \in D : ~(rank[x] < 0)
      BY <1>3
    <3> QED BY <3>1, <3>2
  <2>2. ASSUME NEW n \in Nat \ {0}, NEW f, Solves(f, n - 1) PROVE \E g : Solves(g, n)
    <3> DEFINE g == [x \in D |-> G[<<x, f>>]]
    <3>1. g \in P
      <4>1. \A x \in D : g[x] \in V[x]
        BY <1>3, <2>2
      <4> QED BY <1>2, <4>1
    <3>2. ASSUME NEW x \in D, rank[x] < n PROVE g[x] = G[<<x, g>>]
      <4>1. ASSUME NEW y \in D, rank[y] < rank[x] PROVE f[y] = g[y]
        <5>1. rank[y] \in Nat /\ rank[x] \in Nat
          BY <1>3
        <5>2. rank[y] < n - 1
          BY <3>2, <4>1, <5>1
        <5> QED BY <2>2, <5>2
      <4>2. G[<<x, f>>] = G[<<x, g>>]
        <5> HIDE DEF g
        <5> QED BY <1>3, <2>2, <3>1, <4>1
      <4>3. g[x] = G[<<x, f>>]
        OBVIOUS
      <4> QED BY <4>2, <4>3
    <3> HIDE DEF g
    <3> QED BY <3>1, <3>2
  <2>3. \A n \in Nat \ {0} : n - 1 \in Good => n \in Good
    <3> HIDE DEF Solves
    <3> QED BY <2>2
  <2>4. Good \in SUBSET Nat
    OBVIOUS
  <2>5. \A n \in Nat : n \in Good
    <3> HIDE DEF Good
    <3> QED BY <2>1, <2>3, <2>4, UpFromZero
  <2> QED BY <2>5
<1> DEFINE part == [n \in Nat |-> CHOOSE f : Solves(f, n)]
           F == [x \in D |-> part[rank[x] + 1][x]]
<1>6. \A n \in Nat : Solves(part[n], n)
  <2> HIDE DEF Solves
  <2> QED BY <1>5
<1> HIDE DEF part
<1>7. \A x \in D : rank[x] \in Nat /\ rank[x] + 1 \in Nat /\ rank[x] < rank[x] + 1
  BY <1>3
<1>8. F \in P
  <2>1. ASSUME NEW x \in D PROVE F[x] \in V[x]
    <3>1. part[rank[x] + 1] \in P
      BY <1>6, <1>7
    <3> QED BY <1>1, <3>1
  <2> QED BY <1>2, <2>1
<1>9. ASSUME NEW x \in D PROVE F[x] = G[<<x, F>>]
  <2> DEFINE f == part[rank[x] + 1]
  <2>1. Solves(f, rank[x] + 1)
    BY <1>6, <1>7
  <2>2. ASSUME NEW y \in D, rank[y] < rank[x] PROVE f[y] = F[y]
    <3>1. Solves(part[rank[y] + 1], rank[y] + 1)
      BY <1>6, <1>7
    <3>2. rank[y] < rank[x] + 1 /\ rank[y] < rank[y] + 1
      BY <1>7, <2>2
    <3>3. f[y] = part[rank[y] + 1][y]
      <4> HIDE DEF Solves, f
      <4> QED BY <1>4, <1>7, <2>1, <3>1, <3>2
    <3> QED BY <3>3
  <2>3. f[x] = G[<<x, f>>]
    <3> HIDE DEF f
    <3> QED BY <1>7, <2>1
  <2>4. F[x] = f[x]
    OBVIOUS
  <2>5. f \in P
    <3> HIDE DEF f
    <3> QED BY <2>1
  <2> HIDE DEF f, F
  <2>6. G[<<x, f>>] = G[<<x, F>>]
    BY <1>3, <1>8, <2>2, <2>5
  <2> QED BY <2>3, <2>4, <2>6
<1> HIDE DEF F
<1> QED BY <1>8, <1>9 DEF P

-----------------------------------------------------------------------------
(* Terms.                                                                  *)

Leaves == [con : STRING \ Constructors, args : {<<>>}]
Over(terms) == [con : STRING, args : Seq(terms)]

\* The sets of the levels are no elements of a set that is there before them, so that
\* Recursion does not apply: each is the last of a list of its own.
LEMMA TermsUnfold ==
  /\ Terms[0] = Leaves
  /\ \A d \in Nat \ {0} : Terms[d] = Over(Terms[d - 1])
<1> DEFINE Solves(f, n) == f[0] = Leaves /\ \A d \in 1 .. n : f[d] = Over(f[d - 1])
<1>1. ASSUME NEW n \in Nat, NEW f, Solves(f, n), NEW m \in Nat, NEW g, Solves(g, m)
      PROVE  \A d \in Nat : d <= n /\ d <= m => f[d] = g[d]
  <2> DEFINE Good == {d \in Nat : d <= n /\ d <= m => f[d] = g[d]}
  <2>1. 0 \in Good
    BY <1>1
  <2>2. ASSUME NEW d \in Nat \ {0}, d - 1 \in Good, d <= n, d <= m PROVE f[d] = g[d]
    <3>1. d \in 1 .. n /\ d \in 1 .. m /\ d - 1 \in Nat /\ d - 1 <= n /\ d - 1 <= m
      BY <2>2
    <3>2. f[d - 1] = g[d - 1]
      BY <2>2, <3>1
    <3>3. f[d] = Over(f[d - 1]) /\ g[d] = Over(g[d - 1])
      BY <1>1, <3>1
    <3> QED BY <3>2, <3>3
  <2>3. \A d \in Nat \ {0} : d - 1 \in Good => d \in Good
    BY <2>2
  <2>4. Good \in SUBSET Nat
    OBVIOUS
  <2>5. \A d \in Nat : d \in Good
    <3> HIDE DEF Good
    <3> QED BY <2>1, <2>3, <2>4, UpFromZero
  <2> QED BY <2>5
<1>2. \A n \in Nat : \E f : Solves(f, n)
  <2> DEFINE Good == {n \in Nat : \E f : Solves(f, n)}
  <2>1. 0 \in Good
    <3>1. Solves([d \in {0} |-> Leaves], 0)
      OBVIOUS
    <3> QED BY <3>1
  <2>2. ASSUME NEW n \in Nat \ {0}, NEW f, Solves(f, n - 1) PROVE \E g : Solves(g, n)
    <3> DEFINE g == [d \in Nat |-> IF d = n THEN Over(f[d - 1]) ELSE f[d]]
    <3>1. g[0] = Leaves
      BY <2>2
    <3>2. ASSUME NEW d \in 1 .. n PROVE g[d] = Over(g[d - 1])
      <4>1. d \in Nat /\ d - 1 \in Nat /\ d - 1 # n /\ (d # n => d \in 1 .. n - 1)
        OBVIOUS
      <4>2. g[d - 1] = f[d - 1] /\ g[d] = IF d = n THEN Over(f[d - 1]) ELSE f[d]
        BY <4>1
      <4>3. d # n => f[d] = Over(f[d - 1])
        BY <2>2, <4>1
      <4> QED BY <4>2, <4>3
    <3>3. Solves(g, n)
      <4> HIDE DEF g
      <4> QED BY <3>1, <3>2
    <3> HIDE DEF Solves
    <3> QED BY <3>3
  <2>3. \A n \in Nat \ {0} : n - 1 \in Good => n \in Good
    <3> HIDE DEF Solves
    <3> QED BY <2>2
  <2>4. Good \in SUBSET Nat
    OBVIOUS
  <2>5. \A n \in Nat : n \in Good
    <3> HIDE DEF Good
    <3> QED BY <2>1, <2>3, <2>4, UpFromZero
  <2> QED BY <2>5
<1> DEFINE part == [n \in Nat |-> CHOOSE f : Solves(f, n)]
           T == [d \in Nat |-> part[d][d]]
<1>3. \A n \in Nat : Solves(part[n], n)
  <2> HIDE DEF Solves
  <2> QED BY <1>2
<1> HIDE DEF part
<1>4. T[0] = Leaves
  BY <1>3
<1>5. ASSUME NEW d \in Nat \ {0} PROVE T[d] = Over(T[d - 1])
  <2>1. d \in Nat /\ d - 1 \in Nat /\ d \in 1 .. d /\ d - 1 <= d /\ d - 1 <= d - 1
    OBVIOUS
  <2>2. part[d][d] = Over(part[d][d - 1])
    BY <1>3, <2>1
  <2>3. part[d][d - 1] = part[d - 1][d - 1]
    <3> HIDE DEF Solves
    <3> QED BY <1>1, <1>3, <2>1
  <2> QED BY <2>1, <2>2, <2>3
<1>6. T = [d \in Nat |-> IF d = 0 THEN [con : STRING \ Constructors, args : {<<>>}]
                         ELSE [con : STRING, args : Seq(T[d - 1])]]
  <2>1. ASSUME NEW d \in Nat
        PROVE  T[d] = IF d = 0 THEN [con : STRING \ Constructors, args : {<<>>}]
                      ELSE [con : STRING, args : Seq(T[d - 1])]
    <3> HIDE DEF T
    <3> QED BY <1>4, <1>5 DEF Leaves, Over
  <2>2. T = [d \in Nat |-> T[d]]
    OBVIOUS
  <2> HIDE DEF T
  <2> QED BY <2>1, <2>2
<1>7. Terms = [d \in Nat |-> IF d = 0 THEN [con : STRING \ Constructors, args : {<<>>}]
                             ELSE [con : STRING, args : Seq(Terms[d - 1])]]
  <2> HIDE DEF T
  <2> QED BY <1>6 DEF Terms
<1>8. ASSUME NEW d \in Nat
      PROVE  Terms[d] = IF d = 0 THEN [con : STRING \ Constructors, args : {<<>>}]
                        ELSE [con : STRING, args : Seq(Terms[d - 1])]
  BY <1>7
<1> QED BY <1>8 DEF Leaves, Over

\* A term is no worse a term of more levels.
LEMMA TermsGrow == \A d, e \in Nat : d <= e => Terms[d] \subseteq Terms[e]
<1> DEFINE Good == {d \in Nat : Terms[d] \subseteq Terms[d + 1]}
<1>1. 0 \in Good
  <2>1. Terms[0 + 1] = Over(Terms[0]) /\ Terms[0] = Leaves
    BY TermsUnfold
  <2>2. ASSUME NEW t \in Leaves PROVE t \in Over(Terms[0])
    <3>1. t = [con |-> t.con, args |-> t.args] /\ t.con \in STRING /\ t.args = <<>>
      BY DEF Leaves
    <3>2. <<>> \in Seq(Terms[0])
      OBVIOUS
    <3> QED BY <3>1, <3>2 DEF Over
  <2> QED BY <2>1, <2>2
<1>2. ASSUME NEW d \in Nat \ {0}, d - 1 \in Good PROVE d \in Good
  <2>1. Terms[d] = Over(Terms[d - 1]) /\ Terms[d + 1] = Over(Terms[d])
    BY TermsUnfold
  <2>2. Terms[d - 1] \subseteq Terms[d]
    BY <1>2
  <2>3. Seq(Terms[d - 1]) \subseteq Seq(Terms[d])
    BY <2>2
  <2>4. Over(Terms[d - 1]) \subseteq Over(Terms[d])
    BY <2>3 DEF Over
  <2> QED BY <2>1, <2>4
<1>3. \A d \in Nat : d \in Good
  <2>1. Good \in SUBSET Nat
    OBVIOUS
  <2> HIDE DEF Good
  <2> QED BY <1>1, <1>2, <2>1, UpFromZero
<1> SUFFICES ASSUME NEW d \in Nat PROVE \A e \in Nat : d <= e => Terms[d] \subseteq Terms[e]
  OBVIOUS
<1> DEFINE Up == {e \in Nat : d <= e => Terms[d] \subseteq Terms[e]}
<1>4. 0 \in Up
  OBVIOUS
<1>5. ASSUME NEW e \in Nat \ {0}, e - 1 \in Up PROVE e \in Up
  <2>1. Terms[e - 1] \subseteq Terms[(e - 1) + 1] /\ e - 1 \in Nat
    BY <1>3
  <2>2. (e - 1) + 1 = e
    OBVIOUS
  <2>3. d <= e => d = e \/ d <= e - 1
    OBVIOUS
  <2> QED BY <1>5, <2>1, <2>2, <2>3
<1>6. \A e \in Nat : e \in Up
  <2>1. Up \in SUBSET Nat
    OBVIOUS
  <2> HIDE DEF Up
  <2> QED BY <1>4, <1>5, <2>1, UpFromZero
<1> QED BY <1>6

\* What is assumed of the bounds and of the names that are no constructors.
LEMMA BoundsTyped == Budget \in Nat /\ Depth \in Nat /\ Depth # 0
BY MatchAssumption

\* `_` and the names of what is no constructor stay apart from the constructors.
LEMMA NamesFree == \A name \in {"_", "any", "nil"} : name \in STRING /\ name \notin Constructors
<1>1. {"_", "any", "nil"} \subseteq STRING \ Constructors
  BY MatchAssumption
<1> QED BY <1>1

\* How deep a term is, and what that says of its parts.
Rank == [p \in Patterns |-> Least({d \in Nat : p \in Terms[d]})]

\* Patterns are finite: each has a least depth.
LEMMA RankIs ==
  ASSUME NEW p \in Patterns
  PROVE  /\ Rank[p] \in Nat /\ Rank[p] <= Depth + 1
         /\ p \in Terms[Rank[p]]
         /\ \A d \in Nat : p \in Terms[d] => Rank[p] <= d
<1> DEFINE S == {d \in Nat : p \in Terms[d]}
<1>1. Depth + 1 \in S
  BY BoundsTyped DEF Patterns
<1>2. Rank[p] = Least(S)
  BY DEF Rank
<1>3. S \in SUBSET Nat /\ S # {}
  BY <1>1
<1>4. Least(S) \in S /\ \A k \in S : Least(S) <= k
  <2> HIDE DEF S
  <2> QED BY <1>3, HasLeast
<1> QED BY <1>1, <1>2, <1>4

\* So recursion over patterns is by rank.
LEMMA RankTyped == Rank \in [Patterns -> Nat]
<1>1. \A p \in Patterns : Rank[p] \in Nat
  BY RankIs
<1>2. Rank = [p \in Patterns |-> Rank[p]]
  BY DEF Rank
<1> QED BY <1>1, <1>2

\* A term is a constructor and terms of one level less.
LEMMA TermIs ==
  ASSUME NEW d \in Nat, NEW p \in Terms[d]
  PROVE  /\ p = [con |-> p.con, args |-> p.args]
         /\ p.con \in STRING
         /\ p.con \in Constructors => d # 0
         /\ d = 0 => p.args = <<>>
         /\ d # 0 => d - 1 \in Nat /\ p.args \in Seq(Terms[d - 1])
         /\ p.args \in Seq(Terms[d])
<1>1. CASE d = 0
  <2>1. p \in Leaves
    BY <1>1, TermsUnfold
  <2>2. p = [con |-> p.con, args |-> p.args] /\ p.con \in STRING \ Constructors /\ p.args = <<>>
    BY <2>1 DEF Leaves
  <2> QED BY <1>1, <2>2
<1>2. CASE d # 0
  <2>1. p \in Over(Terms[d - 1]) /\ d - 1 \in Nat
    BY <1>2, TermsUnfold
  <2>2. p = [con |-> p.con, args |-> p.args] /\ p.con \in STRING /\ p.args \in Seq(Terms[d - 1])
    BY <2>1 DEF Over
  <2>3. Terms[d - 1] \subseteq Terms[d]
    BY <2>1, TermsGrow
  <2>4. p.args \in Seq(Terms[d])
    BY <2>2, <2>3
  <2> QED BY <1>2, <2>1, <2>2, <2>4
<1> QED BY <1>1, <1>2

\* What makes a term.
LEMMA TermMade ==
  ASSUME NEW d \in Nat, NEW con \in STRING, NEW args \in Seq(Terms[d])
  PROVE  [con |-> con, args |-> args] \in Terms[d + 1]
<1>1. Terms[d + 1] = Over(Terms[d])
  BY TermsUnfold
<1> QED BY <1>1 DEF Over

\* A name that is no constructor is a term of any depth.
LEMMA LeafMade ==
  ASSUME NEW d \in Nat, NEW con \in STRING \ Constructors
  PROVE  [con |-> con, args |-> <<>>] \in Terms[d]
<1>1. [con |-> con, args |-> <<>>] \in Terms[0]
  BY TermsUnfold DEF Leaves
<1>2. Terms[0] \subseteq Terms[d]
  BY TermsGrow
<1> QED BY <1>1, <1>2

\* So is `_`.
LEMMA WildIsTerm == \A d \in Nat : Wild \in Terms[d]
<1> TAKE d \in Nat
<1>1. "_" \in STRING \ Constructors
  BY NamesFree
<1> QED BY <1>1, LeafMade DEF Wild

\* The parts of a pattern are patterns of a lower rank.
LEMMA PartsAreLess ==
  ASSUME NEW p \in Patterns
  PROVE  /\ p = [con |-> p.con, args |-> p.args] /\ p.con \in STRING
         /\ p.args \in Seq(Patterns)
         /\ Rank[p] = 0 => p.args = <<>> /\ p.con \notin Constructors
         /\ \A i \in DOMAIN p.args :
              /\ p.args[i] \in Patterns /\ Rank[p.args[i]] < Rank[p]
              /\ Rank[p] - 1 \in Nat /\ p.args[i] \in Terms[Rank[p] - 1]
<1> DEFINE d == Rank[p]
<1>1. d \in Nat /\ d <= Depth + 1 /\ p \in Terms[d]
  BY RankIs
<1> HIDE DEF d
<1>2. /\ p = [con |-> p.con, args |-> p.args] /\ p.con \in STRING
      /\ d = 0 => p.args = <<>> /\ p.con \notin Constructors
      /\ d # 0 => d - 1 \in Nat /\ p.args \in Seq(Terms[d - 1])
      /\ p.args \in Seq(Terms[d])
  BY <1>1, TermIs
<1>3. Terms[d] \subseteq Patterns
  BY <1>1, TermsGrow, BoundsTyped DEF Patterns
<1>4. p.args \in Seq(Patterns)
  BY <1>2, <1>3
<1>5. ASSUME NEW i \in DOMAIN p.args
      PROVE  p.args[i] \in Patterns /\ Rank[p.args[i]] < d /\ d - 1 \in Nat /\ p.args[i] \in Terms[d - 1]
  <2>1. d # 0
    BY <1>2, <1>5
  <2>2. p.args[i] \in Terms[d - 1] /\ d - 1 \in Nat /\ p.args[i] \in Patterns
    BY <1>2, <1>4, <1>5, <2>1
  <2>3. Rank[p.args[i]] <= d - 1 /\ Rank[p.args[i]] \in Nat
    BY <2>2, RankIs
  <2> QED BY <1>1, <2>2, <2>3
<1> QED BY <1>2, <1>4, <1>5 DEF d

-----------------------------------------------------------------------------
(* The signature.                                                          *)

\* What is in a sequence, and where.
LEMMA MembersOfSeq ==
  ASSUME NEW R, NEW s \in Seq(R), NEW i \in DOMAIN s
  PROVE  s[i] \in R /\ i \in Nat /\ i # 0 /\ i <= Len(s)
OBVIOUS

\* What the assumption says of a constructor.
LEMMA SignatureIs ==
  ASSUME NEW col \in Columns, NEW i \in Variants(col)
  PROVE  /\ col # Opaque /\ col \in DOMAIN Signature /\ i \in DOMAIN Signature[col]
         /\ i \in Nat /\ i # 0
         /\ Signature[col][i].con \in STRING /\ Signature[col][i].con \in Constructors
         /\ Signature[col][i].fields \in Seq(Columns)
         /\ Signature[col][i].possible \in BOOLEAN
<1>1. col # Opaque /\ i \in DOMAIN Signature[col] /\ col \in DOMAIN Signature
  BY DEF Variants, Columns
<1>2. Signature[col] \in Seq([con : STRING, fields : Seq(Columns), possible : BOOLEAN])
  BY <1>1, MatchAssumption
<1>3. Signature[col][i] \in [con : STRING, fields : Seq(Columns), possible : BOOLEAN]
      /\ i \in Nat /\ i # 0
  BY <1>1, <1>2, MembersOfSeq
<1>4. Signature[col][i].con \in Constructors
  BY <1>1 DEF Constructors
<1>5. /\ Signature[col][i].con \in STRING
      /\ Signature[col][i].fields \in Seq(Columns)
      /\ Signature[col][i].possible \in BOOLEAN
  BY <1>3
<1> QED BY <1>1, <1>3, <1>4, <1>5

\* A constructor of a column is known by its name.
LEMMA NamingIs ==
  ASSUME NEW col \in Columns, NEW i \in Variants(col)
  PROVE  /\ Naming(col, Signature[col][i].con) = {i}
         /\ IsVariant(col, Signature[col][i].con)
         /\ VariantOf(col, Signature[col][i].con) = Signature[col][i]
<1> DEFINE con == Signature[col][i].con
<1>1. ASSUME NEW j \in Variants(col), Signature[col][j].con = con PROVE j = i
  <2>1. col \in DOMAIN Signature /\ i \in DOMAIN Signature[col] /\ j \in DOMAIN Signature[col]
    BY SignatureIs
  <2> QED BY <1>1, <2>1, MatchAssumption
<1>2. Naming(col, con) = {i}
  BY <1>1 DEF Naming
<1> HIDE DEF con
<1> QED BY <1>2 DEF IsVariant, VariantOf, con

\* A name stands for one constructor of a column.
LEMMA VariantIs ==
  ASSUME NEW col \in Columns, NEW con, IsVariant(col, con)
  PROVE  \E i \in Variants(col) :
           /\ Signature[col][i].con = con /\ VariantOf(col, con) = Signature[col][i]
           /\ Naming(col, con) = {i}
<1>1. PICK i \in Variants(col) : Signature[col][i].con = con
  BY DEF IsVariant, Naming
<1> QED BY <1>1, NamingIs

\* It has fields, and its name is no binder's.
LEMMA VariantTyped ==
  ASSUME NEW col \in Columns, NEW con, IsVariant(col, con)
  PROVE  con \in Constructors /\ VariantOf(col, con).fields \in Seq(Columns)
BY VariantIs, SignatureIs

\* The scrutinee is of an enum.
LEMMA RootIsColumn == Root \in Columns /\ Root # Opaque
BY MatchAssumption DEF Columns

-----------------------------------------------------------------------------
(* What the recursive functions of the model compute.                      *)

\* The checks of a pattern are those of its constructor and of its fields.
LEMMA MatchedUnfolds ==
  \A p \in Patterns :
    Matched[p] = {x \in Patterns :
                    \/ p = Wild
                    \/ /\ p.con = x.con
                       /\ \A i \in DOMAIN p.args :
                            i \in DOMAIN x.args /\ x.args[i] \in Matched[p.args[i]]}
<1> DEFINE of(f, p) == {x \in Patterns :
                          \/ p = Wild
                          \/ /\ p.con = x.con
                             /\ \A i \in DOMAIN p.args :
                                  i \in DOMAIN x.args /\ x.args[i] \in f[p.args[i]]}
           V == [p \in Patterns |-> SUBSET Patterns]
           F == Product(Patterns, V)
           G == [z \in Patterns \X F |-> of(z[2], z[1])]
<1>1. F # {}
  <2>1. [p \in Patterns |-> {}] \in F
    BY DEF Product
  <2> QED BY <2>1
<1>2. ASSUME NEW p \in Patterns, NEW f \in F PROVE G[<<p, f>>] = of(f, p)
  <2> HIDE DEF F, of
  <2> QED OBVIOUS
<1>3. ASSUME NEW p \in Patterns, NEW f \in F, NEW g \in F,
             \A q \in Patterns : Rank[q] < Rank[p] => f[q] = g[q]
      PROVE  of(f, p) = of(g, p)
  <2>1. \A i \in DOMAIN p.args : f[p.args[i]] = g[p.args[i]]
    BY <1>3, PartsAreLess
  <2> QED BY <2>1
<1>4. Descends(Patterns, V, Rank, G)
  <2>1. \A p \in Patterns : \A f \in F : G[<<p, f>>] \in V[p]
    BY <1>2
  <2>2. \A p \in Patterns : \A f, g \in F :
          (\A q \in Patterns : Rank[q] < Rank[p] => f[q] = g[q]) => G[<<p, f>>] = G[<<p, g>>]
    <3> HIDE DEF F, G, of
    <3> QED BY <1>2, <1>3
  <2> HIDE DEF G
  <2> QED BY <1>1, <2>1, <2>2, RankTyped DEF Descends
<1>5. PICK f \in F : \A p \in Patterns : f[p] = of(f, p)
  <2>1. \E f \in Product(Patterns, V) : \A p \in Patterns : f[p] = G[<<p, f>>]
    <3> HIDE DEF V, G
    <3> QED BY <1>4, Recursion
  <2> HIDE DEF G, of
  <2> QED BY <1>2, <2>1
<1>6. f = [p \in Patterns |-> of(f, p)]
  <2>1. f = [p \in Patterns |-> f[p]]
    BY DEF Product
  <2> HIDE DEF of
  <2> QED BY <1>5, <2>1
<1>7. Matched = [p \in Patterns |-> of(Matched, p)]
  BY <1>6 DEF Matched
<1> QED BY <1>7

\* Below the head of an arm: what resolves.
LEMMA ResolvingUnfolds ==
  \A p \in Patterns :
    Resolving[p] = {col \in Columns :
                      \/ p = Wild
                      \/ ~IsVariant(col, p.con) /\ p.args = <<>>
                      \/ /\ IsVariant(col, p.con)
                         /\ Len(p.args) = Len(VariantOf(col, p.con).fields)
                         /\ \A i \in DOMAIN VariantOf(col, p.con).fields :
                              VariantOf(col, p.con).fields[i] \in Resolving[p.args[i]]}
<1> DEFINE Fields(col, p) == VariantOf(col, p.con).fields
           of(f, p) == {col \in Columns :
                      \/ p = Wild
                      \/ ~IsVariant(col, p.con) /\ p.args = <<>>
                      \/ /\ IsVariant(col, p.con)
                         /\ Len(p.args) = Len(Fields(col, p))
                         /\ \A i \in DOMAIN Fields(col, p) : Fields(col, p)[i] \in f[p.args[i]]}
           V == [p \in Patterns |-> SUBSET Columns]
           F == Product(Patterns, V)
           G == [z \in Patterns \X F |-> of(z[2], z[1])]
<1>1. F # {}
  <2>1. [p \in Patterns |-> {}] \in F
    BY DEF Product
  <2> QED BY <2>1
<1>2. ASSUME NEW p \in Patterns, NEW f \in F PROVE G[<<p, f>>] = of(f, p)
  <2> HIDE DEF F, of
  <2> QED OBVIOUS
<1>3. ASSUME NEW p \in Patterns, NEW f \in F, NEW g \in F,
             \A q \in Patterns : Rank[q] < Rank[p] => f[q] = g[q]
      PROVE  of(f, p) = of(g, p)
  <2>1. \A i \in DOMAIN p.args : f[p.args[i]] = g[p.args[i]]
    BY <1>3, PartsAreLess
  <2>2. ASSUME NEW col \in Columns, IsVariant(col, p.con), Len(p.args) = Len(Fields(col, p)),
               NEW i \in DOMAIN Fields(col, p)
        PROVE  f[p.args[i]] = g[p.args[i]]
    <3>1. p.args \in Seq(Patterns) /\ Fields(col, p) \in Seq(Columns)
      BY PartsAreLess, VariantTyped, <2>2
    <3> HIDE DEF Fields
    <3>2. i \in DOMAIN p.args
      BY <3>1, <2>2
    <3> QED BY <3>2, <2>1
  <2> HIDE DEF Fields
  <2> QED BY <2>2
<1>4. Descends(Patterns, V, Rank, G)
  <2>1. \A p \in Patterns : \A f \in F : G[<<p, f>>] \in V[p]
    BY <1>2
  <2>2. \A p \in Patterns : \A f, g \in F :
          (\A q \in Patterns : Rank[q] < Rank[p] => f[q] = g[q]) => G[<<p, f>>] = G[<<p, g>>]
    <3> HIDE DEF F, G, of
    <3> QED BY <1>2, <1>3
  <2> HIDE DEF G
  <2> QED BY <1>1, <2>1, <2>2, RankTyped DEF Descends
<1>5. PICK f \in F : \A p \in Patterns : f[p] = of(f, p)
  <2>1. \E f \in Product(Patterns, V) : \A p \in Patterns : f[p] = G[<<p, f>>]
    <3> HIDE DEF V, G
    <3> QED BY <1>4, Recursion
  <2> HIDE DEF G, of
  <2> QED BY <1>2, <2>1
<1>6. f = [p \in Patterns |-> of(f, p)]
  <2>1. f = [p \in Patterns |-> f[p]]
    BY DEF Product
  <2> HIDE DEF of
  <2> QED BY <1>5, <2>1
<1>7. Resolving = [p \in Patterns |-> of(Resolving, p)]
  BY <1>6 DEF Resolving
<1> QED BY <1>7

\* Norm gives a pattern no levels it did not have.
NormOf(f, p) ==
  [col \in Columns |->
     IF ~IsVariant(col, p.con) THEN Wild
     ELSE [con |-> p.con,
           args |-> [i \in DOMAIN p.args \cap DOMAIN VariantOf(col, p.con).fields |->
                       f[p.args[i]][VariantOf(col, p.con).fields[i]]]]]

\* normPat goes to the fields, and a pattern does not get deeper.
LEMMA NormUnfolds ==
  \A p \in Patterns : Norm[p] \in [Columns -> Terms[Rank[p]]] /\ Norm[p] = NormOf(Norm, p)
<1> DEFINE V == [p \in Patterns |-> [Columns -> Terms[Rank[p]]]]
           F == Product(Patterns, V)
           G == [z \in Patterns \X F |-> NormOf(z[2], z[1])]
<1>1. F # {}
  <2>1. \A p \in Patterns : [col \in Columns |-> Wild] \in V[p]
    BY WildIsTerm, RankIs
  <2>2. [p \in Patterns |-> [col \in Columns |-> Wild]] \in F
    <3> HIDE DEF V
    <3> QED BY <2>1 DEF Product
  <2> QED BY <2>2
<1>2. ASSUME NEW p \in Patterns, NEW f \in F PROVE G[<<p, f>>] = NormOf(f, p)
  <2> HIDE DEF F
  <2> QED OBVIOUS
<1>3. ASSUME NEW p \in Patterns, NEW f, NEW g,
             \A q \in Patterns : Rank[q] < Rank[p] => f[q] = g[q]
      PROVE  NormOf(f, p) = NormOf(g, p)
  <2>1. \A i \in DOMAIN p.args : f[p.args[i]] = g[p.args[i]]
    BY <1>3, PartsAreLess
  <2>2. ASSUME NEW col \in Columns PROVE NormOf(f, p)[col] = NormOf(g, p)[col]
    BY <2>1 DEF NormOf
  <2> QED BY <2>2 DEF NormOf
<1>4. ASSUME NEW p \in Patterns, NEW f \in F PROVE NormOf(f, p) \in V[p]
  <2>1. ASSUME NEW col \in Columns PROVE NormOf(f, p)[col] \in Terms[Rank[p]]
    <3>1. CASE ~IsVariant(col, p.con)
      <4>1. NormOf(f, p)[col] = Wild
        BY <3>1 DEF NormOf
      <4> QED BY <4>1, WildIsTerm, RankIs
    <3>2. CASE IsVariant(col, p.con)
      <4> DEFINE d == Rank[p] - 1
                 fields == VariantOf(col, p.con).fields
                 args == [i \in DOMAIN p.args \cap DOMAIN fields |-> f[p.args[i]][fields[i]]]
      <4>1. NormOf(f, p)[col] = [con |-> p.con, args |-> args]
        BY <3>2 DEF NormOf
      <4>2. Rank[p] \in Nat /\ p.con \in STRING /\ p.args \in Seq(Patterns)
        BY PartsAreLess, RankIs
      <4>3. d \in Nat /\ d + 1 = Rank[p]
        <5>1. Rank[p] # 0
          BY PartsAreLess, <3>2, VariantTyped
        <5> QED BY <5>1, <4>2
      <4>4. fields \in Seq(Columns)
        BY <3>2, VariantTyped
      <4> HIDE DEF d, fields
      <4>5. ASSUME NEW i \in DOMAIN p.args, i \in DOMAIN fields
            PROVE  f[p.args[i]][fields[i]] \in Terms[d]
        <5>1. /\ p.args[i] \in Patterns /\ Rank[p.args[i]] < Rank[p]
              /\ Rank[p.args[i]] \in Nat
          BY PartsAreLess, RankIs
        <5>2. f[p.args[i]] \in [Columns -> Terms[Rank[p.args[i]]]]
          BY <5>1 DEF Product
        <5>3. fields[i] \in Columns
          BY <4>4, <4>5
        <5>4. Rank[p.args[i]] <= d
          BY <4>3, <5>1
        <5>5. Terms[Rank[p.args[i]]] \subseteq Terms[d]
          BY <4>3, <5>1, <5>4, TermsGrow
        <5> HIDE DEF F
        <5> QED BY <5>2, <5>3, <5>5
      <4>6. PICK n \in Nat : DOMAIN p.args \cap DOMAIN fields = 1 .. n
        <5>1. PICK k \in Nat, m \in Nat : DOMAIN p.args = 1 .. k /\ DOMAIN fields = 1 .. m
          BY <4>2, <4>4
        <5>2. CASE k <= m
          BY <5>1, <5>2
        <5>3. CASE m <= k
          BY <5>1, <5>3
        <5> QED BY <5>2, <5>3
      <4>7. args \in [1 .. n -> Terms[d]]
        BY <4>5, <4>6
      <4>8. args \in Seq(Terms[d])
        <5> HIDE DEF args
        <5> QED BY <4>7
      <4> HIDE DEF args
      <4> QED BY <4>1, <4>2, <4>3, <4>8, TermMade
    <3> QED BY <3>1, <3>2
  <2>2. NormOf(f, p) = [col \in Columns |-> NormOf(f, p)[col]]
    BY DEF NormOf
  <2> QED BY <2>1, <2>2
<1>5. Descends(Patterns, V, Rank, G)
  <2>1. \A p \in Patterns : \A f \in F : G[<<p, f>>] \in V[p]
    <3> HIDE DEF F, G, V
    <3> QED BY <1>2, <1>4
  <2>2. \A p \in Patterns : \A f, g \in F :
          (\A q \in Patterns : Rank[q] < Rank[p] => f[q] = g[q]) => G[<<p, f>>] = G[<<p, g>>]
    <3> HIDE DEF F, G, V
    <3> QED BY <1>2, <1>3
  <2> HIDE DEF G, V
  <2> QED BY <1>1, <2>1, <2>2, RankTyped DEF Descends
<1>6. PICK f \in F : \A p \in Patterns : f[p] = NormOf(f, p)
  <2>1. \E f \in Product(Patterns, V) : \A p \in Patterns : f[p] = G[<<p, f>>]
    <3> HIDE DEF V, G
    <3> QED BY <1>5, Recursion
  <2> HIDE DEF G
  <2> QED BY <1>2, <2>1
<1>7. f = [p \in Patterns |-> NormOf(f, p)]
  <2>1. f = [p \in Patterns |-> f[p]]
    BY DEF Product
  <2> QED BY <1>6, <2>1
<1>8. Norm = [p \in Patterns |-> NormOf(Norm, p)]
  BY <1>7 DEF Norm, NormOf
<1>9. Patterns \subseteq {p \in Patterns : Norm[p] = f[p]}
  <2> DEFINE Good == {p \in Patterns : Norm[p] = f[p]}
  <2>1. ASSUME NEW p \in Patterns, \A q \in Patterns : Rank[q] < Rank[p] => q \in Good
        PROVE  p \in Good
    <3>1. Norm[p] = NormOf(Norm, p) /\ f[p] = NormOf(f, p)
      BY <1>6, <1>8
    <3>2. NormOf(Norm, p) = NormOf(f, p)
      BY <1>3, <2>1
    <3> QED BY <3>1, <3>2
  <2>2. Good \in SUBSET Patterns
    OBVIOUS
  <2> HIDE DEF Good
  <2>3. Patterns \subseteq Good
    BY <2>1, <2>2, RankTyped, ByRank
  <2> QED BY <2>3 DEF Good
<1>10. ASSUME NEW p \in Patterns PROVE Norm[p] \in [Columns -> Terms[Rank[p]]]
  <2>1. Norm[p] = f[p]
    BY <1>9
  <2>2. f[p] \in V[p]
    BY DEF Product
  <2> QED BY <2>1, <2>2
<1>11. \A p \in Patterns : Norm[p] = NormOf(Norm, p)
  BY <1>8
<1> QED BY <1>10, <1>11

\* What is built of values is as deep as they are, and one level more.
LEMMA BuiltIs ==
  ASSUME NEW v, v.con \in STRING, v.fields \in Seq(Columns),
         NEW d \in Nat, NEW values \in [Columns -> SUBSET Terms[d]]
  PROVE  /\ Built(v, values) \subseteq Terms[d + 1]
         /\ \A x \in Built(v, values) :
              /\ x.con = v.con
              /\ x.args \in Seq(Terms[d]) /\ DOMAIN x.args = DOMAIN v.fields
              /\ \A k \in DOMAIN v.fields : x.args[k] \in values[v.fields[k]]
<1> DEFINE parts == [k \in DOMAIN v.fields |-> values[v.fields[k]]]
           vectors == {s \in [DOMAIN parts -> UNION {parts[k] : k \in DOMAIN parts}] :
                         \A k \in DOMAIN parts : s[k] \in parts[k]}
<1>1. Built(v, values) = {[con |-> v.con, args |-> s] : s \in vectors}
  BY DEF Built
<1>2. PICK n \in Nat : DOMAIN v.fields = 1 .. n /\ \A k \in 1 .. n : v.fields[k] \in Columns
  OBVIOUS
<1>3. ASSUME NEW s \in vectors
      PROVE  /\ s \in Seq(Terms[d]) /\ DOMAIN s = DOMAIN v.fields
             /\ \A k \in DOMAIN v.fields : s[k] \in values[v.fields[k]]
  <2>1. DOMAIN s = 1 .. n /\ s = [k \in 1 .. n |-> s[k]]
    BY <1>2
  <2>2. \A k \in 1 .. n : s[k] \in values[v.fields[k]]
    BY <1>2
  <2>3. \A k \in 1 .. n : s[k] \in Terms[d]
    BY <1>2, <2>2
  <2>4. s \in [1 .. n -> Terms[d]]
    BY <2>1, <2>3
  <2> HIDE DEF vectors
  <2> QED BY <1>2, <2>1, <2>2, <2>4
<1> HIDE DEF vectors
<1>4. ASSUME NEW x \in Built(v, values)
      PROVE  /\ x \in Terms[d + 1] /\ x.con = v.con
             /\ x.args \in Seq(Terms[d]) /\ DOMAIN x.args = DOMAIN v.fields
             /\ \A k \in DOMAIN v.fields : x.args[k] \in values[v.fields[k]]
  <2>1. PICK s \in vectors : x = [con |-> v.con, args |-> s]
    BY <1>1
  <2>2. x.con = v.con /\ x.args = s
    BY <2>1
  <2>3. x \in Terms[d + 1]
    BY <1>3, <2>1, TermMade
  <2> QED BY <1>3, <2>2, <2>3
<1> QED BY <1>4

ValuesOf(f, d) ==
  [col \in Columns |->
     IF col = Opaque \/ d = 0 THEN {[con |-> "any", args |-> <<>>]}
     ELSE UNION {Built(Signature[col][i], f[d - 1]) : i \in PossibleVariants(col)}]

\* The values of a column are built of those of its fields, one level less deep.
LEMMA ValuesUnfold ==
  \A d \in Nat : Values[d] \in [Columns -> SUBSET Terms[d]] /\ Values[d] = ValuesOf(Values, d)
<1> DEFINE V == [d \in Nat |-> [Columns -> SUBSET Terms[d]]]
           F == Product(Nat, V)
           G == [z \in Nat \X F |-> ValuesOf(z[2], z[1])]
           id == [d \in Nat |-> d]
<1>1. F # {}
  <2>1. \A d \in Nat : [col \in Columns |-> {}] \in V[d]
    OBVIOUS
  <2>2. [d \in Nat |-> [col \in Columns |-> {}]] \in F
    <3> HIDE DEF V
    <3> QED BY <2>1 DEF Product
  <2> QED BY <2>2
<1>2. ASSUME NEW d \in Nat, NEW f \in F PROVE G[<<d, f>>] = ValuesOf(f, d)
  <2> HIDE DEF F
  <2> QED OBVIOUS
<1>3. ASSUME NEW d \in Nat, NEW f, NEW g, \A e \in Nat : e < d => f[e] = g[e]
      PROVE  ValuesOf(f, d) = ValuesOf(g, d)
  <2>1. d # 0 => f[d - 1] = g[d - 1]
    BY <1>3
  <2>2. ASSUME NEW col \in Columns PROVE ValuesOf(f, d)[col] = ValuesOf(g, d)[col]
    BY <2>1 DEF ValuesOf
  <2> QED BY <2>2 DEF ValuesOf
<1>4. ASSUME NEW d \in Nat, NEW f \in F PROVE ValuesOf(f, d) \in V[d]
  <2>1. ASSUME NEW col \in Columns PROVE ValuesOf(f, d)[col] \in SUBSET Terms[d]
    <3>1. CASE col = Opaque \/ d = 0
      <4>1. [con |-> "any", args |-> <<>>] \in Terms[d]
        BY LeafMade, NamesFree
      <4> QED BY <3>1, <4>1 DEF ValuesOf
    <3>2. CASE ~(col = Opaque \/ d = 0)
      <4>1. d - 1 \in Nat /\ (d - 1) + 1 = d
        BY <3>2
      <4>2. f[d - 1] \in [Columns -> SUBSET Terms[d - 1]]
        BY <4>1 DEF Product
      <4>3. ASSUME NEW i \in PossibleVariants(col)
            PROVE  Built(Signature[col][i], f[d - 1]) \subseteq Terms[d]
        <5>1. i \in Variants(col)
          BY DEF PossibleVariants
        <5>2. Signature[col][i].con \in STRING /\ Signature[col][i].fields \in Seq(Columns)
          BY <5>1, SignatureIs
        <5> HIDE DEF F
        <5>3. Built(Signature[col][i], f[d - 1]) \subseteq Terms[(d - 1) + 1]
          BY <4>1, <4>2, <5>2, BuiltIs
        <5> QED BY <4>1, <5>3
      <4>4. ValuesOf(f, d)[col] = UNION {Built(Signature[col][i], f[d - 1]) : i \in PossibleVariants(col)}
        BY <3>2 DEF ValuesOf
      <4> HIDE DEF F
      <4> QED BY <4>3, <4>4
    <3> QED BY <3>1, <3>2
  <2>2. ValuesOf(f, d) = [col \in Columns |-> ValuesOf(f, d)[col]]
    BY DEF ValuesOf
  <2>3. ValuesOf(f, d) \in [Columns -> SUBSET Terms[d]]
    BY <2>1, <2>2
  <2> QED BY <2>3
<1>5. Descends(Nat, V, id, G)
  <2>1. \A d \in Nat : \A f \in F : G[<<d, f>>] \in V[d]
    <3> HIDE DEF F, G, V
    <3> QED BY <1>2, <1>4
  <2>2. \A d \in Nat : \A f, g \in F :
          (\A e \in Nat : id[e] < id[d] => f[e] = g[e]) => G[<<d, f>>] = G[<<d, g>>]
    <3> SUFFICES ASSUME NEW d \in Nat, NEW f \in F, NEW g \in F,
                        \A e \in Nat : id[e] < id[d] => f[e] = g[e]
                 PROVE  G[<<d, f>>] = G[<<d, g>>]
      OBVIOUS
    <3>1. \A e \in Nat : e < d => f[e] = g[e]
      OBVIOUS
    <3>2. ValuesOf(f, d) = ValuesOf(g, d)
      BY <1>3, <3>1
    <3> HIDE DEF F, G, V, id
    <3> QED BY <1>2, <3>2
  <2>3. id \in [Nat -> Nat]
    OBVIOUS
  <2> HIDE DEF G, V, id
  <2> QED BY <1>1, <2>1, <2>2, <2>3 DEF Descends
<1>6. PICK f \in F : \A d \in Nat : f[d] = ValuesOf(f, d)
  <2>1. PICK D : D = Nat
    OBVIOUS
  <2>2. Descends(D, V, id, G)
    BY <1>5, <2>1
  <2>3. \E f \in Product(D, V) : \A d \in D : f[d] = G[<<d, f>>]
    <3> HIDE DEF V, G, id
    <3> QED BY <2>2, Recursion
  <2> HIDE DEF G, V
  <2> QED BY <1>2, <2>1, <2>3
<1>7. f = [d \in Nat |-> ValuesOf(f, d)]
  <2>1. f = [d \in Nat |-> f[d]]
    BY DEF Product
  <2> QED BY <1>6, <2>1
<1>8. Values = [d \in Nat |-> ValuesOf(Values, d)]
  BY <1>7 DEF Values, ValuesOf
<1>9. \A d \in Nat : d \in {e \in Nat : Values[e] = f[e]}
  <2> DEFINE Good == {e \in Nat : Values[e] = f[e]}
  <2>1. 0 \in Good
    <3>1. ValuesOf(Values, 0) = ValuesOf(f, 0)
      BY <1>3
    <3> QED BY <1>6, <1>8, <3>1
  <2>2. ASSUME NEW d \in Nat \ {0}, d - 1 \in Good PROVE d \in Good
    <3>1. ValuesOf(Values, d) = ValuesOf(f, d)
      BY <2>2 DEF ValuesOf
    <3> QED BY <1>6, <1>8, <3>1
  <2>3. Good \in SUBSET Nat
    OBVIOUS
  <2> HIDE DEF Good
  <2>4. \A d \in Nat : d \in Good
    BY <2>1, <2>2, <2>3, UpFromZero
  <2> QED BY <2>4 DEF Good
<1>10. ASSUME NEW d \in Nat PROVE Values[d] \in [Columns -> SUBSET Terms[d]]
  <2>1. Values[d] = f[d]
    BY <1>9
  <2>2. f[d] \in V[d]
    BY DEF Product
  <2> QED BY <2>1, <2>2
<1>11. \A d \in Nat : Values[d] = ValuesOf(Values, d)
  BY <1>8
<1> QED BY <1>10, <1>11

-----------------------------------------------------------------------------
(* The search.                                                             *)

\* Where what is concatenated comes to stand.
LEMMA ConcatIs ==
  ASSUME NEW T, NEW a \in Seq(T), NEW t \in Seq(T)
  PROVE  /\ a \o t \in Seq(T) /\ Len(a \o t) = Len(a) + Len(t)
         /\ \A k \in 1 .. Len(a) : (a \o t)[k] = a[k]
         /\ \A k \in 1 .. Len(t) : (a \o t)[Len(a) + k] = t[k]
<1>1. a \o t \in Seq(T)
  OBVIOUS
<1>2. Len(a \o t) = Len(a) + Len(t)
  OBVIOUS
<1>3. \A k \in 1 .. Len(a) : (a \o t)[k] = a[k]
  OBVIOUS
<1>4. \A k \in 1 .. Len(t) : (a \o t)[Len(a) + k] = t[k]
  OBVIOUS
<1> QED BY <1>1, <1>2, <1>3, <1>4, Zenon

\* A sequence with its head replaced by another sequence.
Splices(a, s, r) ==
  /\ Len(r) = Len(a) + (Len(s) - 1)
  /\ \A k \in 1 .. Len(a) : r[k] = a[k]
  /\ \A k \in 1 .. Len(s) - 1 : r[Len(a) + k] = s[k + 1]

\* Concatenation with a tail splices.
LEMMA SplicedIs ==
  ASSUME NEW T, NEW a \in Seq(T), NEW s \in Seq(T), s # <<>>
  PROVE  a \o Tail(s) \in Seq(T) /\ Splices(a, s, a \o Tail(s))
<1> DEFINE t == Tail(s)
<1>1. t \in Seq(T)
  OBVIOUS
<1>2. Len(t) = Len(s) - 1 /\ \A k \in 1 .. Len(s) - 1 : t[k] = s[k + 1]
  OBVIOUS
<1> HIDE DEF t
<1>3. a \o t \in Seq(T) /\ Len(a \o t) = Len(a) + Len(t)
  BY ONLY <1>1, a \in Seq(T), ConcatIs
<1>4. \A k \in 1 .. Len(a) : (a \o t)[k] = a[k]
  BY ONLY <1>1, a \in Seq(T), ConcatIs
<1>5. \A k \in 1 .. Len(t) : (a \o t)[Len(a) + k] = t[k]
  BY ONLY <1>1, a \in Seq(T), ConcatIs
<1> QED BY <1>1, <1>2, <1>3, <1>4, <1>5 DEF t, Splices

\* `_` is a pattern.
LEMMA PatternsWild == Wild \in Patterns
BY WildIsTerm, BoundsTyped DEF Patterns

Expands(row, v, r) ==
  /\ Len(r) = Len(v.fields) + (Len(row) - 1)
  /\ \A k \in 1 .. Len(v.fields) : r[k] = IF k \in DOMAIN row[1].args THEN row[1].args[k] ELSE Wild
  /\ \A k \in 1 .. Len(row) - 1 : r[Len(v.fields) + k] = row[k + 1]

\* Expand returns a row: the fields of the head, then the rest.
LEMMA ExpandIs ==
  ASSUME NEW v, v.fields \in Seq(Columns), NEW row \in Seq(Patterns), row # <<>>
  PROVE  Expand(row, v) \in Seq(Patterns) /\ Expands(row, v, Expand(row, v))
<1> DEFINE args == row[1].args
           a == [i \in DOMAIN v.fields |-> IF i \in DOMAIN args THEN args[i] ELSE Wild]
<1>1. Head(row) = row[1] /\ row[1] \in Patterns
  OBVIOUS
<1>2. Expand(row, v) = a \o Tail(row)
  BY <1>1 DEF Expand
<1>3. DOMAIN v.fields = 1 .. Len(v.fields) /\ Len(v.fields) \in Nat
  OBVIOUS
<1>4. \A i \in DOMAIN args : args[i] \in Patterns
  BY <1>1, PartsAreLess
<1>5. \A i \in DOMAIN v.fields : a[i] = (IF i \in DOMAIN args THEN args[i] ELSE Wild) /\ a[i] \in Patterns
  BY <1>4, PatternsWild
<1>6. a \in Seq(Patterns) /\ Len(a) = Len(v.fields)
  <2>1. a \in [1 .. Len(v.fields) -> Patterns]
    <3>1. a = [i \in 1 .. Len(v.fields) |-> a[i]]
      BY <1>3
    <3> HIDE DEF a
    <3> QED BY <1>3, <1>5, <3>1
  <2> HIDE DEF a
  <2> QED BY <1>3, <2>1
<1> HIDE DEF a
<1>7. /\ a \o Tail(row) \in Seq(Patterns)
      /\ Len(a \o Tail(row)) = Len(a) + (Len(row) - 1)
      /\ \A k \in 1 .. Len(a) : (a \o Tail(row))[k] = a[k]
      /\ \A k \in 1 .. Len(row) - 1 : (a \o Tail(row))[Len(a) + k] = row[k + 1]
  <2>1. a \o Tail(row) \in Seq(Patterns) /\ Splices(a, row, a \o Tail(row))
    BY <1>6, SplicedIs, Zenon
  <2> QED BY <2>1 DEF Splices
<1> QED BY <1>2, <1>3, <1>5, <1>6, <1>7 DEF Expands

\* Problems, those without a column included.
Matrices ==
  {x \in [cols : Seq(Columns), rows : SUBSET Seq(Patterns), query : Seq(Patterns)] :
     Len(x.query) = Len(x.cols) /\ \A row \in x.rows : Len(row) = Len(x.cols)}

\* A problem is a matrix that has a column.
LEMMA ProblemsAre == \A x : x \in Problems <=> x \in Matrices /\ x.cols # <<>>
BY DEF Problems, Matrices

\* The query and the rows of a matrix are as wide as its columns.
LEMMA MatrixIs ==
  ASSUME NEW x \in Matrices
  PROVE  /\ x.cols \in Seq(Columns) /\ x.query \in Seq(Patterns) /\ Len(x.query) = Len(x.cols)
         /\ \A row \in x.rows : row \in Seq(Patterns) /\ Len(row) = Len(x.cols)
<1>1. x \in [cols : Seq(Columns), rows : SUBSET Seq(Patterns), query : Seq(Patterns)]
      /\ Len(x.query) = Len(x.cols) /\ \A row \in x.rows : Len(row) = Len(x.cols)
  BY DEF Matrices
<1>2. x.cols \in Seq(Columns) /\ x.query \in Seq(Patterns) /\ x.rows \in SUBSET Seq(Patterns)
  BY <1>1
<1> QED BY <1>1, <1>2

\* So those of a problem have a head.
LEMMA ProblemIs ==
  ASSUME NEW x \in Problems
  PROVE  /\ x.cols \in Seq(Columns) /\ x.query \in Seq(Patterns) /\ Len(x.query) = Len(x.cols)
         /\ x.cols # <<>> /\ x.query # <<>> /\ Len(x.cols) \in Nat /\ Len(x.cols) >= 1
         /\ x.cols[1] \in Columns /\ Head(x.query) = x.query[1] /\ x.query[1] \in Patterns
         /\ \A row \in x.rows :
              row \in Seq(Patterns) /\ Len(row) = Len(x.cols) /\ row # <<>>
              /\ Head(row) = row[1] /\ row[1] \in Patterns
<1>1. x.cols \in Seq(Columns) /\ x.query \in Seq(Patterns) /\ Len(x.query) = Len(x.cols) /\ x.cols # <<>>
      /\ \A row \in x.rows : row \in Seq(Patterns) /\ Len(row) = Len(x.cols)
  BY ProblemsAre, MatrixIs
<1>2. Len(x.cols) \in Nat /\ Len(x.cols) >= 1 /\ x.cols[1] \in Columns
  BY <1>1
<1>3. ASSUME NEW s \in Seq(Patterns), Len(s) = Len(x.cols)
      PROVE  s # <<>> /\ Head(s) = s[1] /\ s[1] \in Patterns
  BY <1>2, <1>3
<1> QED BY <1>1, <1>2, <1>3

\* A place is a constructor of the column, or stands for anything.
LEMMA HeadAtIs ==
  ASSUME NEW col \in Columns, NEW i
  PROVE  /\ HeadAt(col, i).con \in STRING /\ HeadAt(col, i).fields \in Seq(Columns)
         /\ i \in Variants(col) => HeadAt(col, i) = Signature[col][i] /\ HeadAt(col, i) # Anything
         /\ i \notin Variants(col) => HeadAt(col, i) = Anything
<1>1. CASE i \in Variants(col)
  <2>1. HeadAt(col, i) = Signature[col][i]
    BY <1>1 DEF HeadAt
  <2>2. Signature[col][i].con # Anything.con
    <3>1. Anything.con = "_"
      BY DEF Anything
    <3> QED BY <1>1, <3>1, SignatureIs, NamesFree
  <2> QED BY <1>1, <2>1, <2>2, SignatureIs
<1>2. CASE i \notin Variants(col)
  <2>1. HeadAt(col, i) = Anything
    BY <1>2 DEF HeadAt
  <2>2. Anything.con = "_" /\ Anything.fields = <<>>
    BY DEF Anything
  <2>3. "_" \in STRING
    BY NamesFree
  <2>4. <<>> \in Seq(Columns)
    OBVIOUS
  <2> QED BY <1>2, <2>1, <2>2, <2>3, <2>4
<1> QED BY <1>1, <1>2

\* The rows for values that are built by v.
RowsFor(x, v) == {Expand(row, v) : row \in {r \in x.rows : Head(r).con \in {"_", v.con}}}

\* The fields of a specialization.
LEMMA SpecializeIs ==
  ASSUME NEW x, NEW v
  PROVE  /\ Specialize(x, v).cols = v.fields \o Tail(x.cols)
         /\ Specialize(x, v).rows = RowsFor(x, v)
         /\ Specialize(x, v).query = Expand(x.query, v)
         /\ Specialize(x, v) = [cols |-> v.fields \o Tail(x.cols), rows |-> RowsFor(x, v),
                                query |-> Expand(x.query, v)]
<1>1. Specialize(x, v) = [cols |-> v.fields \o Tail(x.cols), rows |-> RowsFor(x, v),
                          query |-> Expand(x.query, v)]
  BY DEF Specialize, RowsFor
<1>2. PICK c, r, q : c = v.fields \o Tail(x.cols) /\ r = RowsFor(x, v) /\ q = Expand(x.query, v)
  OBVIOUS
<1>3. Specialize(x, v) = [cols |-> c, rows |-> r, query |-> q]
  BY <1>1, <1>2, Zenon
<1>4. Specialize(x, v).cols = c /\ Specialize(x, v).rows = r /\ Specialize(x, v).query = q
  BY <1>3
<1> QED BY <1>1, <1>2, <1>4, Zenon

\* A specialization is a matrix, with the fields in the place of the first column.
LEMMA SpecializeTyped ==
  ASSUME NEW x \in Problems, NEW v, v.fields \in Seq(Columns)
  PROVE  /\ Specialize(x, v) \in Matrices
         /\ Len(Specialize(x, v).cols) = Len(v.fields) + (Len(x.cols) - 1)
<1> DEFINE y == Specialize(x, v)
           n == Len(v.fields) + (Len(x.cols) - 1)
           c == v.fields \o Tail(x.cols)
           R == RowsFor(x, v)
           q == Expand(x.query, v)
<1>1. y.cols = c /\ y.rows = R /\ y.query = q /\ y = [cols |-> c, rows |-> R, query |-> q]
  BY SpecializeIs
<1>2. c \in Seq(Columns) /\ Len(c) = n
  <2>1. x.cols \in Seq(Columns) /\ x.cols # <<>>
    BY ProblemIs, Zenon
  <2>2. c \in Seq(Columns) /\ Splices(v.fields, x.cols, c)
    BY <2>1, SplicedIs, Zenon
  <2> QED BY <2>2 DEF Splices
<1>3. q \in Seq(Patterns) /\ Len(q) = n
  <2>1. x.query \in Seq(Patterns) /\ x.query # <<>> /\ Len(x.query) = Len(x.cols)
    BY ProblemIs
  <2>2. q \in Seq(Patterns) /\ Expands(x.query, v, q)
    BY <2>1, ExpandIs, Zenon
  <2> HIDE DEF q
  <2> QED BY <2>1, <2>2 DEF Expands
<1>4. ASSUME NEW row \in x.rows PROVE Expand(row, v) \in Seq(Patterns) /\ Len(Expand(row, v)) = n
  <2>1. row \in Seq(Patterns) /\ row # <<>> /\ Len(row) = Len(x.cols)
    BY ProblemIs, Zenon
  <2>2. Expand(row, v) \in Seq(Patterns) /\ Expands(row, v, Expand(row, v))
    BY <2>1, ExpandIs, Zenon
  <2> QED BY <2>1, <2>2 DEF Expands
<1>5. R \in SUBSET Seq(Patterns) /\ \A row \in R : Len(row) = n
  BY <1>4 DEF RowsFor
<1> HIDE DEF y, n, c, R, q
<1>6. y \in [cols : Seq(Columns), rows : SUBSET Seq(Patterns), query : Seq(Patterns)]
  BY <1>1, <1>2, <1>3, <1>5
<1>7. y \in Matrices
  BY <1>1, <1>2, <1>3, <1>5, <1>6 DEF Matrices
<1> QED BY <1>1, <1>2, <1>7 DEF y, n

\* A sequence of `_`s.
LEMMA WildsAre ==
  ASSUME NEW n \in Nat, NEW d \in Nat
  PROVE  Wilds(n) \in Seq(Terms[d]) /\ Len(Wilds(n)) = n /\ \A k \in 1 .. n : Wilds(n)[k] = Wild
<1>1. Wilds(n) \in [1 .. n -> Terms[d]]
  BY WildIsTerm DEF Wilds
<1>2. \A k \in 1 .. n : Wilds(n)[k] = Wild
  BY DEF Wilds
<1> QED BY <1>1, <1>2

\* What Missing names: nothing, or a constructor that can occur and heads no row.
LEMMA MissingIs ==
  ASSUME NEW x \in Problems
  PROVE  \/ /\ Missing(x) = Wild
            /\ \A i \in PossibleVariants(x.cols[1]) : Signature[x.cols[1]][i].con \in Rooted(x)
         \/ \E i \in PossibleVariants(x.cols[1]) :
              /\ Signature[x.cols[1]][i].con \notin Rooted(x)
              /\ Missing(x) = [con |-> Signature[x.cols[1]][i].con,
                               args |-> Wilds(Len(Signature[x.cols[1]][i].fields))]
<1> DEFINE missing == {i \in PossibleVariants(x.cols[1]) : Signature[x.cols[1]][i].con \notin Rooted(x)}
           v == Signature[x.cols[1]][Least(missing)]
<1>1. Missing(x) = IF missing = {} THEN Wild ELSE [con |-> v.con, args |-> Wilds(Len(v.fields))]
  BY DEF Missing
<1>2. CASE missing = {}
  BY <1>1, <1>2
<1>3. CASE missing # {}
  <2>1. missing \in SUBSET Nat
    BY ProblemIs, SignatureIs DEF PossibleVariants
  <2>2. Least(missing) \in missing
    <3> HIDE DEF missing
    <3> QED BY <1>3, <2>1, HasLeast
  <2> QED BY <1>1, <1>3, <2>2
<1> QED BY <1>2, <1>3

\* The head that is missing is a pattern, one level deeper.
LEMMA MissingTyped ==
  ASSUME NEW x \in Problems, NEW d \in Nat
  PROVE  Missing(x) \in Terms[d + 1]
<1>1. CASE Missing(x) = Wild
  BY <1>1, WildIsTerm
<1>2. CASE Missing(x) # Wild
  <2>1. PICK i \in PossibleVariants(x.cols[1]) :
          Missing(x) = [con |-> Signature[x.cols[1]][i].con,
                        args |-> Wilds(Len(Signature[x.cols[1]][i].fields))]
    BY <1>2, MissingIs
  <2>2. x.cols[1] \in Columns /\ i \in Variants(x.cols[1])
    BY ProblemIs DEF PossibleVariants
  <2>3. PICK con, fields : con = Signature[x.cols[1]][i].con /\ fields = Signature[x.cols[1]][i].fields
    OBVIOUS
  <2>4. con \in STRING /\ fields \in Seq(Columns)
    BY <2>2, <2>3, SignatureIs
  <2>5. Len(fields) \in Nat
    BY <2>4
  <2>6. Wilds(Len(fields)) \in Seq(Terms[d])
    BY <2>5, WildsAre
  <2> QED BY <2>1, <2>3, <2>4, <2>6, TermMade
<1> QED BY <1>1, <1>2

\* A witness r of x that comes of one, w, of x as specialized to v.
Rebuilds(x, v, w, r) ==
  /\ Len(r) = Len(x.cols)
  /\ \A k \in 1 .. Len(x.cols) - 1 : r[k + 1] = w[Len(v.fields) + k]
  /\ v = Anything => r[1] = Missing(x)
  /\ v # Anything => /\ r[1].con = v.con
                     /\ DOMAIN r[1].args = 1 .. Len(v.fields)
                     /\ \A k \in 1 .. Len(v.fields) : r[1].args[k] = w[k]

Prepends(t, s, r) ==
  Len(r) = Len(s) + 1 /\ r[1] = t /\ \A k \in 1 .. Len(s) : r[k + 1] = s[k]

\* A witness gets a head.
LEMMA PrependIs ==
  ASSUME NEW T, NEW t \in T, NEW s \in Seq(T)
  PROVE  <<t>> \o s \in Seq(T) /\ Prepends(t, s, <<t>> \o s)
BY DEF Prepends

Splits(s, m, left, right) ==
  /\ Len(left) = m /\ \A k \in 1 .. m : left[k] = s[k]
  /\ Len(right) = Len(s) - m /\ \A k \in 1 .. Len(s) - m : right[k] = s[m + k]

\* A witness is split where the fields end.
LEMMA SplitIs ==
  ASSUME NEW T, NEW s \in Seq(T), NEW m \in Nat, m <= Len(s)
  PROVE  /\ SubSeq(s, 1, m) \in Seq(T) /\ SubSeq(s, m + 1, Len(s)) \in Seq(T)
         /\ Splits(s, m, SubSeq(s, 1, m), SubSeq(s, m + 1, Len(s)))
BY DEF Splits

\* Rebuild returns a witness one level deeper.
LEMMA RebuildIs ==
  ASSUME NEW x \in Problems, NEW v, v.con \in STRING, v.fields \in Seq(Columns),
         NEW d \in Nat, NEW w \in Seq(Terms[d]),
         Len(w) = Len(v.fields) + (Len(x.cols) - 1)
  PROVE  Rebuild(x, v, w) \in Seq(Terms[d + 1]) /\ Rebuilds(x, v, w, Rebuild(x, v, w))
<1>1. PICK m \in Nat, n \in Nat : m = Len(v.fields) /\ n = Len(x.cols) - 1 /\ Len(x.cols) = n + 1
  <2>1. Len(x.cols) \in Nat /\ Len(x.cols) >= 1
    BY ProblemIs
  <2>2. PICK l : l = Len(x.cols)
    OBVIOUS
  <2>3. l - 1 \in Nat /\ l = (l - 1) + 1
    BY <2>1, <2>2
  <2>4. Len(v.fields) \in Nat
    OBVIOUS
  <2> QED BY <2>2, <2>3, <2>4, Zenon
<1>2. Len(w) = m + n
  BY <1>1
<1>3. Terms[d] \subseteq Terms[d + 1]
  BY TermsGrow
<1>4. CASE v = Anything
  <2>1. m = 0
    BY <1>1, <1>4 DEF Anything
  <2>2. Rebuild(x, v, w) = <<Missing(x)>> \o w
    BY <1>4 DEF Rebuild
  <2>3. PICK t : t = Missing(x)
    OBVIOUS
  <2>4. t \in Terms[d + 1] /\ w \in Seq(Terms[d + 1])
    BY <1>3, <2>3, MissingTyped
  <2>5. <<t>> \o w \in Seq(Terms[d + 1]) /\ Prepends(t, w, <<t>> \o w)
    BY <2>4, PrependIs, Zenon
  <2>6. PICK r : r = <<t>> \o w
    OBVIOUS
  <2>7. Len(r) = n + 1 /\ r[1] = t /\ \A k \in 1 .. n : r[k + 1] = w[k]
    BY <1>2, <2>1, <2>5, <2>6 DEF Prepends
  <2>8. Rebuild(x, v, w) = r /\ r \in Seq(Terms[d + 1])
    BY <2>2, <2>3, <2>5, <2>6, Zenon
  <2>9. Rebuilds(x, v, w, r)
    BY <1>1, <1>4, <2>1, <2>3, <2>7 DEF Rebuilds
  <2> QED BY <2>8, <2>9
<1>5. CASE v # Anything
  <2> DEFINE args == SubSeq(w, 1, m)
             rest == SubSeq(w, m + 1, Len(w))
             t == [con |-> v.con, args |-> args]
  <2>1. Rebuild(x, v, w) = <<t>> \o rest
    BY <1>1, <1>5 DEF Rebuild
  <2>2. args \in Seq(Terms[d]) /\ rest \in Seq(Terms[d]) /\ Splits(w, m, args, rest)
    <3>1. m <= Len(w)
      BY <1>1, <1>2
    <3> QED BY <3>1, SplitIs, Zenon
  <2> HIDE DEF args, rest
  <2>3. t \in Terms[d + 1] /\ t.con = v.con /\ t.args = args
    BY <2>2, TermMade
  <2> HIDE DEF t
  <2>4. rest \in Seq(Terms[d + 1])
    BY <1>3, <2>2
  <2>5. <<t>> \o rest \in Seq(Terms[d + 1]) /\ Prepends(t, rest, <<t>> \o rest)
    BY <2>3, <2>4, PrependIs, Zenon
  <2>6. PICK r : r = <<t>> \o rest
    OBVIOUS
  <2>7. /\ Len(rest) = n /\ \A k \in 1 .. n : rest[k] = w[m + k]
        /\ DOMAIN args = 1 .. m /\ \A k \in 1 .. m : args[k] = w[k]
    <3>1. Len(w) - m = n
      BY <1>1, <1>2
    <3>2. DOMAIN args = 1 .. Len(args)
      BY <2>2
    <3> QED BY <2>2, <3>1, <3>2, Zenon DEF Splits
  <2>8. Len(r) = n + 1 /\ r[1] = t /\ \A k \in 1 .. n : r[k + 1] = w[m + k]
    BY <2>5, <2>6, <2>7 DEF Prepends
  <2>9. Rebuild(x, v, w) = r /\ r \in Seq(Terms[d + 1])
    BY <2>1, <2>5, <2>6, Zenon
  <2>10. Rebuilds(x, v, w, r)
    BY <1>1, <1>5, <2>3, <2>7, <2>8 DEF Rebuilds
  <2> QED BY <2>9, <2>10
<1> QED BY <1>4, <1>5

-----------------------------------------------------------------------------
(* What UsefulFor computes.                                                *)

\* What can come of a search.
ResultsOf(s) ==
  {r \in [useful : BOOLEAN, witness : Seq(Terms[Budget + 2 - s.calls]), steps : s.calls .. Budget + 1] :
     r.useful => Len(r.witness) = Len(s.problem.cols)}

\* What the first of the heads gives, and the search for it.
FirstHead(s) == HeadAt(s.problem.cols[1], Least(s.heads))
Below(s) == Specialize(s.problem, FirstHead(s))
Deeper(s) == Search(Heads(Below(s)), Below(s), s.calls + 1)
Answer(f, s) ==
  IF Below(s).cols # <<>> THEN f[Deeper(s)]
  ELSE IF Below(s).rows = {} /\ s.calls < Budget THEN Found(<<>>, s.calls + 1)
  ELSE NotFound(s.calls + 1)
Others(f, s) == Search(s.heads \ {Least(s.heads)}, s.problem, Answer(f, s).steps)

SearchOf(f, s) ==
  IF s.heads = {} \/ s.calls > Budget THEN NotFound(s.calls)
  ELSE IF Answer(f, s).useful
       THEN Found(Rebuild(s.problem, FirstHead(s), Answer(f, s).witness), Answer(f, s).steps)
       ELSE f[Others(f, s)]

Left == [s \in Searches |-> Budget + 1 - s.calls]

\* What a search is, and how many calls it has left.
LEMMA SearchIs ==
  ASSUME NEW s \in Searches
  PROVE  /\ s.heads \in SUBSET Nat /\ s.problem \in Problems
         /\ s.calls \in Nat /\ s.calls <= Budget + 1
         /\ Left[s] \in Nat /\ Left[s] = Budget + 1 - s.calls
<1>1. s \in [heads : SUBSET Nat, problem : Problems, calls : 0 .. Budget + 1]
  BY DEF Searches
<1>2. s.heads \in SUBSET Nat /\ s.problem \in Problems /\ s.calls \in 0 .. Budget + 1
  BY <1>1
<1> QED BY <1>2, BoundsTyped DEF Left

\* A search is made of its heads, problem and calls.
LEMMA SearchMade ==
  ASSUME NEW heads \in SUBSET Nat, NEW x \in Problems, NEW n \in Nat, n <= Budget + 1
  PROVE  /\ Search(heads, x, n) \in Searches
         /\ Search(heads, x, n).heads = heads /\ Search(heads, x, n).problem = x
         /\ Search(heads, x, n).calls = n
<1>1. n \in 0 .. Budget + 1
  BY BoundsTyped
<1>2. Search(heads, x, n) = [heads |-> heads, problem |-> x, calls |-> n]
  BY DEF Search
<1> QED BY <1>1, <1>2 DEF Searches

\* Heads are places of constructors, or 0.
LEMMA HeadsTyped ==
  ASSUME NEW x \in Problems
  PROVE  /\ Heads(x) \in SUBSET Nat
         /\ \A i \in Heads(x) : i \in Variants(x.cols[1]) \/ i = 0
<1>1. x.cols[1] \in Columns
  BY ProblemIs
<1>2. Variants(x.cols[1]) \subseteq Nat
  BY <1>1, SignatureIs
<1>3. \A i \in Heads(x) : i \in Variants(x.cols[1]) \/ i = 0
  BY DEF Heads, Naming, PossibleVariants
<1> QED BY <1>2, <1>3

\* What every result of a search is.
LEMMA ResultIs ==
  ASSUME NEW s \in Searches, NEW r \in ResultsOf(s)
  PROVE  /\ r.useful \in BOOLEAN /\ r.witness \in Seq(Terms[Budget + 2 - s.calls])
         /\ r.steps \in Nat /\ s.calls <= r.steps /\ r.steps <= Budget + 1
         /\ r.useful => Len(r.witness) = Len(s.problem.cols)
<1>1. /\ r \in [useful : BOOLEAN, witness : Seq(Terms[Budget + 2 - s.calls]),
                steps : s.calls .. Budget + 1]
      /\ r.useful => Len(r.witness) = Len(s.problem.cols)
  BY DEF ResultsOf
<1>2. /\ r.useful \in BOOLEAN /\ r.witness \in Seq(Terms[Budget + 2 - s.calls])
      /\ r.steps \in s.calls .. Budget + 1
  BY <1>1
<1>3. s.calls \in Nat
  BY SearchIs
<1> QED BY <1>1, <1>2, <1>3, BoundsTyped

\* Not to find anything is one.
LEMMA NotFoundIs ==
  ASSUME NEW s \in Searches, NEW n \in Nat, s.calls <= n, n <= Budget + 1
  PROVE  /\ NotFound(n) \in ResultsOf(s)
         /\ ~NotFound(n).useful /\ NotFound(n).steps = n
<1>1. NotFound(n) = [useful |-> FALSE, witness |-> <<>>, steps |-> n]
  BY DEF NotFound
<1>2. <<>> \in Seq(Terms[Budget + 2 - s.calls])
  OBVIOUS
<1>3. n \in s.calls .. Budget + 1
  BY SearchIs, BoundsTyped
<1>4. NotFound(n) \in [useful : BOOLEAN, witness : Seq(Terms[Budget + 2 - s.calls]),
                       steps : s.calls .. Budget + 1]
  BY <1>1, <1>2, <1>3
<1> QED BY <1>1, <1>4 DEF ResultsOf

\* A witness as wide as the problem is one.
LEMMA FoundIs ==
  ASSUME NEW s \in Searches, NEW n \in Nat, s.calls <= n, n <= Budget + 1,
         NEW w \in Seq(Terms[Budget + 2 - s.calls]), Len(w) = Len(s.problem.cols)
  PROVE  /\ Found(w, n) \in ResultsOf(s)
         /\ Found(w, n).useful /\ Found(w, n).steps = n /\ Found(w, n).witness = w
<1>1. Found(w, n) = [useful |-> TRUE, witness |-> w, steps |-> n]
  BY DEF Found
<1>2. n \in s.calls .. Budget + 1
  BY SearchIs, BoundsTyped
<1>3. Found(w, n) \in [useful : BOOLEAN, witness : Seq(Terms[Budget + 2 - s.calls]),
                       steps : s.calls .. Budget + 1]
  BY <1>1, <1>2
<1>4. Found(w, n).witness = w /\ Found(w, n).useful = TRUE /\ Found(w, n).steps = n
  BY <1>1
<1> QED BY <1>3, <1>4 DEF ResultsOf

\* The first of the heads, and the matrix it leads to.
LEMMA FirstIs ==
  ASSUME NEW s \in Searches, s.heads # {}
  PROVE  /\ Least(s.heads) \in s.heads
         /\ FirstHead(s) = HeadAt(s.problem.cols[1], Least(s.heads))
         /\ FirstHead(s).con \in STRING /\ FirstHead(s).fields \in Seq(Columns)
         /\ Below(s) \in Matrices
         /\ Len(Below(s).cols) = Len(FirstHead(s).fields) + (Len(s.problem.cols) - 1)
<1>1. s.heads \in SUBSET Nat /\ s.problem \in Problems
  BY SearchIs
<1>2. Least(s.heads) \in s.heads
  BY <1>1, HasLeast
<1>3. s.problem.cols[1] \in Columns
  BY <1>1, ProblemIs
<1>4. FirstHead(s).con \in STRING /\ FirstHead(s).fields \in Seq(Columns)
  BY <1>3, HeadAtIs DEF FirstHead
<1>5. Below(s) \in Matrices
      /\ Len(Below(s).cols) = Len(FirstHead(s).fields) + (Len(s.problem.cols) - 1)
  BY <1>1, <1>4, SpecializeTyped, Zenon DEF Below
<1> QED BY <1>2, <1>4, <1>5 DEF FirstHead

\* The search of that matrix has one call less left.
LEMMA DeeperIs ==
  ASSUME NEW s \in Searches, s.heads # {}, s.calls <= Budget, Below(s).cols # <<>>
  PROVE  /\ Below(s) \in Problems
         /\ Deeper(s) \in Searches
         /\ Deeper(s).heads = Heads(Below(s)) /\ Deeper(s).problem = Below(s)
         /\ Deeper(s).calls = s.calls + 1
         /\ Left[Deeper(s)] < Left[s]
<1>1. Below(s) \in Problems
  BY FirstIs, ProblemsAre
<1>2. Heads(Below(s)) \in SUBSET Nat
  BY <1>1, HeadsTyped
<1>3. s.calls + 1 \in Nat /\ s.calls + 1 <= Budget + 1 /\ s.calls \in Nat
  BY SearchIs, BoundsTyped
<1>4. /\ Deeper(s) \in Searches
      /\ Deeper(s).heads = Heads(Below(s)) /\ Deeper(s).problem = Below(s)
      /\ Deeper(s).calls = s.calls + 1
  BY <1>1, <1>2, <1>3, SearchMade DEF Deeper
<1>5. Left[Deeper(s)] = Budget + 1 - Deeper(s).calls /\ Left[s] = Budget + 1 - s.calls
  BY <1>4, SearchIs
<1> QED BY <1>1, <1>3, <1>4, <1>5, BoundsTyped

\* What the first head gives, in whatever f answers searches.
LEMMA AnswerIs ==
  ASSUME NEW s \in Searches, s.heads # {}, s.calls <= Budget,
         NEW f, \A t \in Searches : f[t] \in ResultsOf(t)
  PROVE  /\ Answer(f, s).useful \in BOOLEAN
         /\ Answer(f, s).steps \in Nat
         /\ s.calls + 1 <= Answer(f, s).steps /\ Answer(f, s).steps <= Budget + 1
         /\ Budget + 1 - s.calls \in Nat
         /\ Answer(f, s).witness \in Seq(Terms[Budget + 1 - s.calls])
         /\ Answer(f, s).useful => Len(Answer(f, s).witness) = Len(Below(s).cols)
<1>1. s.calls \in Nat /\ Budget \in Nat /\ Budget + 1 - s.calls \in Nat
      /\ Budget + 1 - s.calls = Budget + 2 - (s.calls + 1)
  BY SearchIs, BoundsTyped
<1>2. CASE Below(s).cols # <<>>
  <2>1. Deeper(s) \in Searches /\ Deeper(s).calls = s.calls + 1 /\ Deeper(s).problem = Below(s)
    BY <1>2, DeeperIs
  <2>2. Answer(f, s) = f[Deeper(s)] /\ f[Deeper(s)] \in ResultsOf(Deeper(s))
    BY <1>2, <2>1 DEF Answer
  <2> QED BY <1>1, <2>1, <2>2, ResultIs
<1>3. CASE Below(s).cols = <<>>
  <2>1. PICK n : n = s.calls + 1
    OBVIOUS
  <2>2. Answer(f, s) = Found(<<>>, n) \/ Answer(f, s) = NotFound(n)
    BY <1>3, <2>1 DEF Answer
  <2>3. /\ Found(<<>>, n) = [useful |-> TRUE, witness |-> <<>>, steps |-> n]
        /\ NotFound(n) = [useful |-> FALSE, witness |-> <<>>, steps |-> n]
    BY DEF Found, NotFound
  <2>4. PICK a : a = Answer(f, s)
    OBVIOUS
  <2>5. CASE a = Found(<<>>, n)
    <3>1. a.steps = n /\ a.witness = <<>> /\ a.useful = TRUE
      BY <2>3, <2>5
    <3>2. <<>> \in Seq(Terms[Budget + 1 - s.calls]) /\ Len(a.witness) = Len(Below(s).cols)
      BY <1>3, <3>1
    <3>3. a.useful \in BOOLEAN /\ a.witness \in Seq(Terms[Budget + 1 - s.calls])
      BY <3>1, <3>2
    <3>4. a.steps \in Nat /\ s.calls + 1 <= a.steps /\ a.steps <= Budget + 1
      BY <1>1, <2>1, <3>1
    <3> QED BY <1>1, <2>4, <3>2, <3>3, <3>4
  <2>6. CASE a = NotFound(n)
    <3>1. a.steps = n /\ a.witness = <<>> /\ a.useful = FALSE
      BY <2>3, <2>6
    <3>2. <<>> \in Seq(Terms[Budget + 1 - s.calls]) /\ Len(a.witness) = Len(Below(s).cols)
      BY <1>3, <3>1
    <3>3. a.useful \in BOOLEAN /\ a.witness \in Seq(Terms[Budget + 1 - s.calls])
      BY <3>1, <3>2
    <3>4. a.steps \in Nat /\ s.calls + 1 <= a.steps /\ a.steps <= Budget + 1
      BY <1>1, <2>1, <3>1
    <3> QED BY <1>1, <2>4, <3>2, <3>3, <3>4
  <2> QED BY <2>2, <2>4, <2>5, <2>6
<1> QED BY <1>2, <1>3

\* The search of the other heads has fewer calls left too.
LEMMA OthersIs ==
  ASSUME NEW s \in Searches, s.heads # {}, s.calls <= Budget,
         NEW f, \A t \in Searches : f[t] \in ResultsOf(t)
  PROVE  /\ Others(f, s) \in Searches
         /\ Others(f, s).heads = s.heads \ {Least(s.heads)}
         /\ Others(f, s).problem = s.problem
         /\ Others(f, s).calls = Answer(f, s).steps
         /\ Left[Others(f, s)] < Left[s]
<1>1. s.heads \ {Least(s.heads)} \in SUBSET Nat /\ s.problem \in Problems /\ s.calls \in Nat
  BY SearchIs
<1>2. Answer(f, s).steps \in Nat /\ Answer(f, s).steps <= Budget + 1 /\ s.calls + 1 <= Answer(f, s).steps
  BY AnswerIs
<1>3. /\ Others(f, s) \in Searches
      /\ Others(f, s).heads = s.heads \ {Least(s.heads)}
      /\ Others(f, s).problem = s.problem
      /\ Others(f, s).calls = Answer(f, s).steps
  BY <1>1, <1>2, SearchMade DEF Others
<1>4. Left[Others(f, s)] = Budget + 1 - Others(f, s).calls /\ Left[s] = Budget + 1 - s.calls
  BY <1>3, SearchIs
<1> QED BY <1>1, <1>2, <1>3, <1>4, BoundsTyped

\* One step of a search returns a result,
LEMMA SearchOfTyped ==
  ASSUME NEW s \in Searches, NEW f, \A t \in Searches : f[t] \in ResultsOf(t)
  PROVE  SearchOf(f, s) \in ResultsOf(s)
<1>1. s.problem \in Problems /\ s.calls \in Nat /\ s.calls <= Budget + 1 /\ Budget \in Nat
  BY SearchIs, BoundsTyped
<1>2. CASE s.heads = {} \/ s.calls > Budget
  <2>1. NotFound(s.calls) \in ResultsOf(s)
    BY <1>1, NotFoundIs
  <2> QED BY <1>2, <2>1 DEF SearchOf
<1>3. CASE ~(s.heads = {} \/ s.calls > Budget)
  <2> DEFINE a == Answer(f, s)
             d == Budget + 1 - s.calls
  <2>0. s.heads # {} /\ s.calls <= Budget
    BY <1>1, <1>3
  <2>1. /\ a.useful \in BOOLEAN /\ a.steps \in Nat
        /\ s.calls + 1 <= a.steps /\ a.steps <= Budget + 1
        /\ d \in Nat /\ a.witness \in Seq(Terms[d])
        /\ a.useful => Len(a.witness) = Len(Below(s).cols)
    BY <2>0, AnswerIs
  <2>2. CASE a.useful
    <3> DEFINE w == Rebuild(s.problem, FirstHead(s), a.witness)
    <3>1. SearchOf(f, s) = Found(w, a.steps)
      BY <1>3, <2>2 DEF SearchOf
    <3>2. /\ FirstHead(s).con \in STRING /\ FirstHead(s).fields \in Seq(Columns)
          /\ Len(a.witness) = Len(FirstHead(s).fields) + (Len(s.problem.cols) - 1)
      BY <2>0, <2>1, <2>2, FirstIs
    <3> HIDE DEF a, d
    <3>3. w \in Seq(Terms[d + 1]) /\ Rebuilds(s.problem, FirstHead(s), a.witness, w)
      BY <1>1, <2>1, <3>2, RebuildIs, Zenon
    <3>4. d + 1 = Budget + 2 - s.calls
      BY <1>1 DEF d
    <3>5. w \in Seq(Terms[Budget + 2 - s.calls]) /\ Len(w) = Len(s.problem.cols)
      BY <3>3, <3>4, Zenon DEF Rebuilds
    <3>6. s.calls <= a.steps
      BY <1>1, <2>1
    <3> HIDE DEF w
    <3>7. Found(w, a.steps) \in ResultsOf(s)
      BY <2>1, <3>5, <3>6, FoundIs, Zenon
    <3> QED BY <3>1, <3>7
  <2>3. CASE ~a.useful
    <3>1. SearchOf(f, s) = f[Others(f, s)]
      BY <1>3, <2>3 DEF SearchOf
    <3>2. Others(f, s) \in Searches /\ Others(f, s).problem = s.problem /\ Others(f, s).calls = a.steps
      BY <2>0, OthersIs
    <3> DEFINE r == f[Others(f, s)]
               e == Budget + 2 - a.steps
    <3>3. r \in ResultsOf(Others(f, s))
      BY <3>2
    <3>0. e = Budget + 2 - Others(f, s).calls
      BY <3>2
    <3> HIDE DEF a, d, r, e
    <3>4. /\ r.useful \in BOOLEAN /\ r.witness \in Seq(Terms[e])
          /\ r.steps \in Nat /\ a.steps <= r.steps /\ r.steps <= Budget + 1
          /\ r.useful => Len(r.witness) = Len(s.problem.cols)
      BY <3>0, <3>2, <3>3, ResultIs
    <3>5. e \in Nat /\ Budget + 2 - s.calls \in Nat /\ e <= Budget + 2 - s.calls
          /\ s.calls <= r.steps
      <4>1. PICK k \in Nat : k = a.steps
        BY <2>1
      <4>2. e = Budget + 2 - k /\ k <= Budget + 1 /\ s.calls + 1 <= k /\ k <= r.steps /\ r.steps \in Nat
        BY <2>1, <3>4, <4>1 DEF e
      <4> QED BY <1>1, <4>1, <4>2
    <3>6. Terms[e] \subseteq Terms[Budget + 2 - s.calls]
      BY <3>5, TermsGrow
    <3>7. r.witness \in Seq(Terms[Budget + 2 - s.calls])
      BY <3>4, <3>6
    <3>8. r = [useful |-> r.useful, witness |-> r.witness, steps |-> r.steps]
      BY <3>3 DEF ResultsOf
    <3>9. r.steps \in s.calls .. Budget + 1
      BY <1>1, <3>4, <3>5
    <3>10. r \in [useful : BOOLEAN, witness : Seq(Terms[Budget + 2 - s.calls]), steps : s.calls .. Budget + 1]
      BY <3>4, <3>7, <3>8, <3>9
    <3>11. r \in ResultsOf(s)
      BY <3>4, <3>10 DEF ResultsOf
    <3> QED BY <3>1, <3>11 DEF r
  <2> QED BY <2>1, <2>2, <2>3
<1> QED BY <1>2, <1>3

\* and asks only for searches that have fewer calls left.
LEMMA SearchOfLooksBelow ==
  ASSUME NEW s \in Searches,
         NEW f, \A t \in Searches : f[t] \in ResultsOf(t),
         NEW g, \A t \in Searches : Left[t] < Left[s] => f[t] = g[t]
  PROVE  SearchOf(f, s) = SearchOf(g, s)
<1>1. s.calls \in Nat /\ Budget \in Nat
  BY SearchIs, BoundsTyped
<1>2. CASE s.heads = {} \/ s.calls > Budget
  BY <1>2 DEF SearchOf
<1>3. CASE ~(s.heads = {} \/ s.calls > Budget)
  <2>1. s.heads # {} /\ s.calls <= Budget
    BY <1>1, <1>3
  <2>2. Answer(f, s) = Answer(g, s)
    <3>1. CASE Below(s).cols # <<>>
      <4>1. f[Deeper(s)] = g[Deeper(s)]
        BY <2>1, <3>1, DeeperIs
      <4> QED BY <3>1, <4>1 DEF Answer
    <3>2. CASE Below(s).cols = <<>>
      BY <3>2 DEF Answer
    <3> QED BY <3>1, <3>2
  <2>3. Others(f, s) = Others(g, s)
    BY <2>2 DEF Others
  <2>4. f[Others(f, s)] = g[Others(f, s)]
    BY <2>1, OthersIs
  <2> QED BY <2>2, <2>3, <2>4 DEF SearchOf
<1> QED BY <1>2, <1>3

\* So the recursion is well defined for any budget: what it returns is a result.
LEMMA UsefulForUnfolds ==
  \A s \in Searches : UsefulFor[s] \in ResultsOf(s) /\ UsefulFor[s] = SearchOf(UsefulFor, s)
<1> DEFINE V == [s \in Searches |-> ResultsOf(s)]
           F == Product(Searches, V)
           G == [z \in Searches \X F |-> SearchOf(z[2], z[1])]
<1>1. F # {}
  <2>1. \A s \in Searches : NotFound(s.calls) \in V[s]
    <3> SUFFICES ASSUME NEW s \in Searches PROVE NotFound(s.calls) \in ResultsOf(s)
      OBVIOUS
    <3>1. s.calls \in Nat /\ s.calls <= s.calls /\ s.calls <= Budget + 1
      BY SearchIs
    <3> QED BY <3>1, NotFoundIs
  <2>2. [s \in Searches |-> NotFound(s.calls)] \in F
    <3> HIDE DEF V
    <3> QED BY <2>1 DEF Product
  <2> QED BY <2>2
<1>2. ASSUME NEW s \in Searches, NEW f \in F PROVE G[<<s, f>>] = SearchOf(f, s)
  <2> HIDE DEF F
  <2> QED OBVIOUS
<1>3. ASSUME NEW f \in F PROVE \A t \in Searches : f[t] \in ResultsOf(t)
  BY DEF Product
<1>4. Descends(Searches, V, Left, G)
  <2>1. ASSUME NEW s \in Searches, NEW f \in F PROVE G[<<s, f>>] \in V[s]
    <3>1. SearchOf(f, s) \in ResultsOf(s)
      BY <1>3, SearchOfTyped
    <3> QED BY <1>2, <3>1
  <2>2. ASSUME NEW s \in Searches, NEW f \in F, NEW g \in F,
               \A t \in Searches : Left[t] < Left[s] => f[t] = g[t]
        PROVE  G[<<s, f>>] = G[<<s, g>>]
    <3>1. SearchOf(f, s) = SearchOf(g, s)
      BY <1>3, <2>2, SearchOfLooksBelow
    <3> QED BY <1>2, <3>1
  <2>3. Left \in [Searches -> Nat]
    <3>1. \A s \in Searches : Left[s] \in Nat
      BY SearchIs
    <3>2. Left = [s \in Searches |-> Left[s]]
      BY DEF Left
    <3> QED BY <3>1, <3>2
  <2> HIDE DEF G, V
  <2> QED BY <1>1, <2>1, <2>2, <2>3 DEF Descends
<1>5. PICK f \in F : \A s \in Searches : f[s] = SearchOf(f, s)
  <2>1. \E f \in Product(Searches, V) : \A s \in Searches : f[s] = G[<<s, f>>]
    <3> HIDE DEF V, G
    <3> QED BY <1>4, Recursion
  <2> HIDE DEF G, V
  <2> QED BY <1>2, <2>1
<1>6. f = [s \in Searches |-> SearchOf(f, s)]
  <2>1. f = [s \in Searches |-> f[s]]
    BY DEF Product
  <2> QED BY <1>5, <2>1
<1>7. UsefulFor = [s \in Searches |-> SearchOf(UsefulFor, s)]
  BY <1>6, Zenon DEF UsefulFor, SearchOf, Others, Answer, Deeper, Below, FirstHead
<1>8. Left \in [Searches -> Nat]
  <2>1. \A s \in Searches : Left[s] \in Nat
    BY SearchIs
  <2>2. Left = [s \in Searches |-> Left[s]]
    BY DEF Left
  <2> QED BY <2>1, <2>2
<1>9. Searches \subseteq {s \in Searches : UsefulFor[s] = f[s]}
  <2> DEFINE Good == {s \in Searches : UsefulFor[s] = f[s]}
  <2>1. ASSUME NEW s \in Searches, \A t \in Searches : Left[t] < Left[s] => t \in Good
        PROVE  s \in Good
    <3>1. UsefulFor[s] = SearchOf(UsefulFor, s)
      BY <1>7
    <3>2. SearchOf(f, s) = SearchOf(UsefulFor, s)
      <4>1. \A t \in Searches : Left[t] < Left[s] => f[t] = UsefulFor[t]
        BY <2>1
      <4>2. \A t \in Searches : f[t] \in ResultsOf(t)
        BY <1>3
      <4>3. PICK g : g = UsefulFor
        OBVIOUS
      <4>4. \A t \in Searches : Left[t] < Left[s] => f[t] = g[t]
        BY <4>1, <4>3
      <4>5. SearchOf(f, s) = SearchOf(g, s)
        BY <4>2, <4>4, SearchOfLooksBelow
      <4> QED BY <4>3, <4>5
    <3> QED BY <1>5, <3>1, <3>2
  <2>2. Good \in SUBSET Searches
    OBVIOUS
  <2> HIDE DEF Good
  <2>3. Searches \subseteq Good
    BY <1>8, <2>1, <2>2, ByRank
  <2> QED BY <2>3 DEF Good
<1>10. ASSUME NEW s \in Searches PROVE UsefulFor[s] \in ResultsOf(s)
  BY <1>3, <1>9
<1>11. \A s \in Searches : UsefulFor[s] = SearchOf(UsefulFor, s)
  BY <1>7
<1> QED BY <1>10, <1>11


-----------------------------------------------------------------------------
(* What the search says of values.                                         *)

\* p is what normPat makes of a pattern that resolves in the column.
Fits(p, col) == \E raw \in Patterns : col \in Resolving[raw] /\ p = Norm[raw][col]

Fields(col, con) == VariantOf(col, con).fields

\* `_` is not a constructor.
LEMMA WildIs ==
  /\ Wild.con = "_" /\ Wild.args = <<>> /\ Wild.con \notin Constructors
  /\ \A p : p.con \in Constructors => p # Wild
<1>1. Wild.con = "_" /\ Wild.args = <<>>
  BY DEF Wild
<1>2. "_" \notin Constructors
  BY NamesFree
<1>3. \A p : p.con \in Constructors => p # Wild
  BY <1>1, <1>2, Zenon
<1> QED BY <1>1, <1>2, <1>3

\* It fits any column.
LEMMA WildFits == \A col \in Columns : Fits(Wild, col)
<1> TAKE col \in Columns
<1>1. Wild \in Patterns /\ col \in Resolving[Wild]
  BY PatternsWild, ResolvingUnfolds
<1>2. ~IsVariant(col, Wild.con)
  BY WildIs, VariantTyped
<1>3. Norm[Wild] = NormOf(Norm, Wild)
  BY <1>1, NormUnfolds
<1>4. Norm[Wild][col] = Wild
  BY <1>2, <1>3 DEF NormOf
<1> QED BY <1>1, <1>4 DEF Fits

\* It is `_` or a constructor of the column whose fields it has.
FitsAs(p, col) ==
  \/ p = Wild
  \/ /\ IsVariant(col, p.con) /\ p.con \in Constructors /\ p # Wild
     /\ Fields(col, p.con) \in Seq(Columns)
     /\ DOMAIN p.args = 1 .. Len(Fields(col, p.con))
     /\ \A k \in 1 .. Len(Fields(col, p.con)) : Fits(p.args[k], Fields(col, p.con)[k])

\* What fits a column is as the column says.
LEMMA FitsIs ==
  ASSUME NEW col \in Columns, NEW p, Fits(p, col)
  PROVE  p \in Patterns /\ FitsAs(p, col)
<1>1. PICK raw \in Patterns : col \in Resolving[raw] /\ p = Norm[raw][col]
  BY DEF Fits
<1>2. Norm[raw] \in [Columns -> Terms[Rank[raw]]] /\ Norm[raw] = NormOf(Norm, raw)
  BY NormUnfolds
<1>3. p \in Patterns
  <2>1. Terms[Rank[raw]] \subseteq Patterns
    BY RankIs, TermsGrow, BoundsTyped DEF Patterns
  <2> QED BY <1>1, <1>2, <2>1
<1>4. CASE ~IsVariant(col, raw.con)
  <2>1. p = Wild
    BY <1>1, <1>2, <1>4 DEF NormOf
  <2> QED BY <1>3, <2>1 DEF FitsAs
<1>5. CASE IsVariant(col, raw.con)
  <2> DEFINE fields == Fields(col, raw.con)
  <2>1. raw.con \in Constructors /\ fields \in Seq(Columns)
    BY <1>5, VariantTyped DEF Fields
  <2>2. raw # Wild
    BY <2>1, WildIs
  <2>3. /\ Len(raw.args) = Len(fields)
        /\ \A i \in DOMAIN fields : fields[i] \in Resolving[raw.args[i]]
    BY <1>1, <1>5, <2>2, ResolvingUnfolds DEF Fields
  <2>4. p = [con |-> raw.con,
             args |-> [i \in DOMAIN raw.args \cap DOMAIN fields |-> Norm[raw.args[i]][fields[i]]]]
    BY <1>1, <1>2, <1>5 DEF NormOf, Fields
  <2> HIDE DEF fields
  <2>5. p.con = raw.con /\ DOMAIN p.args = DOMAIN raw.args \cap DOMAIN fields
        /\ \A i \in DOMAIN p.args : p.args[i] = Norm[raw.args[i]][fields[i]]
    BY <2>4
  <2>6. DOMAIN raw.args = 1 .. Len(fields) /\ DOMAIN fields = 1 .. Len(fields)
    <3>1. raw.args \in Seq(Patterns)
      BY PartsAreLess
    <3>2. PICK n \in Nat : n = Len(fields)
      BY <2>1
    <3> QED BY <2>1, <2>3, <3>1, <3>2
  <2>7. ASSUME NEW k \in 1 .. Len(fields) PROVE Fits(p.args[k], fields[k])
    <3>1. raw.args[k] \in Patterns /\ fields[k] \in Resolving[raw.args[k]]
      BY <2>3, <2>6, PartsAreLess
    <3> QED BY <2>5, <2>6, <3>1 DEF Fits
  <2>8. fields = Fields(col, p.con)
    BY <2>5 DEF fields
  <2>9. p # Wild
    BY <2>1, <2>5, WildIs
  <2>10. DOMAIN p.args = 1 .. Len(fields)
    BY <2>5, <2>6
  <2>11. IsVariant(col, p.con) /\ p.con \in Constructors
    BY <1>5, <2>1, <2>5
  <2>12. /\ Fields(col, p.con) \in Seq(Columns)
         /\ DOMAIN p.args = 1 .. Len(Fields(col, p.con))
         /\ \A k \in 1 .. Len(Fields(col, p.con)) : Fits(p.args[k], Fields(col, p.con)[k])
    BY <2>1, <2>7, <2>8, <2>10, Zenon
  <2> QED BY <1>3, <2>9, <2>11, <2>12, Zenon DEF FitsAs
<1> QED BY <1>4, <1>5

\* `_` matches everything; a constructor what is built by it of what its parts match.
LEMMA MatchesWild == \A x \in Patterns : Matches(Wild, x)
BY MatchedUnfolds, PatternsWild DEF Matches

\* A constructor matches what it heads, if its fields match.
LEMMA MatchesCon ==
  ASSUME NEW p \in Patterns, NEW x \in Patterns, p # Wild
  PROVE  Matches(p, x) <=> /\ p.con = x.con
                           /\ \A i \in DOMAIN p.args :
                                i \in DOMAIN x.args /\ Matches(p.args[i], x.args[i])
BY MatchedUnfolds DEF Matches

MatchesAll(row, xs) == \A k \in 1 .. Len(xs) : Matches(row[k], xs[k])

\* A row matches a vector when, specialized to what builds the head of the vector, it
\* matches the vector so specialized.
LEMMA Expanding ==
  ASSUME NEW v, v.fields \in Seq(Columns),
         NEW row \in Seq(Patterns), NEW xs \in Seq(Patterns), Len(row) = Len(xs), row # <<>>,
         \/ row[1] = Wild
         \/ /\ row[1] # Wild /\ row[1].con = xs[1].con
            /\ DOMAIN row[1].args = 1 .. Len(v.fields) /\ DOMAIN xs[1].args = 1 .. Len(v.fields)
  PROVE  MatchesAll(row, xs) <=> MatchesAll(Expand(row, v), Expand(xs, v))
<1> DEFINE m == Len(v.fields)
           n == Len(xs) - 1
           r == Expand(row, v)
           z == Expand(xs, v)
<1>1. m \in Nat /\ Len(xs) \in Nat /\ n \in Nat /\ Len(xs) = n + 1 /\ xs # <<>>
  <2>1. Len(row) \in Nat /\ Len(row) # 0
    OBVIOUS
  <2> QED BY <2>1
<1>2. r \in Seq(Patterns) /\ Expands(row, v, r) /\ z \in Seq(Patterns) /\ Expands(xs, v, z)
  BY <1>1, ExpandIs, Zenon
<1>3. row[1] \in Patterns /\ xs[1] \in Patterns
  BY <1>1
<1> HIDE DEF r, z, m, n
<1>4. Len(z) = m + n /\ \A k \in 1 .. n : r[m + k] = row[k + 1] /\ z[m + k] = xs[k + 1]
  BY <1>2 DEF Expands, m, n
<1>5. \A k \in 1 .. m : /\ r[k] = IF k \in DOMAIN row[1].args THEN row[1].args[k] ELSE Wild
                        /\ z[k] = IF k \in DOMAIN xs[1].args THEN xs[1].args[k] ELSE Wild
  BY <1>2 DEF Expands, m
<1>6. Matches(row[1], xs[1]) <=> \A k \in 1 .. m : Matches(r[k], z[k])
  <2>1. CASE row[1] = Wild
    <3>1. Matches(row[1], xs[1])
      BY <1>3, <2>1, MatchesWild
    <3>2. ASSUME NEW k \in 1 .. m PROVE Matches(r[k], z[k])
      <4>1. row[1].args = <<>>
        <5> QED BY <2>1, WildIs, Zenon
      <4>2. r[k] = Wild
        BY <1>5, <4>1
      <4>3. z[k] \in Patterns
        BY <1>1, <1>2, <1>4
      <4> QED BY <4>2, <4>3, MatchesWild
    <3> QED BY <3>1, <3>2
  <2>2. CASE row[1] # Wild
    <3>1. DOMAIN row[1].args = 1 .. m /\ DOMAIN xs[1].args = 1 .. m /\ row[1].con = xs[1].con
      BY <2>2 DEF m
    <3>2. \A k \in 1 .. m : r[k] = row[1].args[k] /\ z[k] = xs[1].args[k]
      BY <1>5, <3>1
    <3>3. Matches(row[1], xs[1]) <=> \A k \in 1 .. m : Matches(row[1].args[k], xs[1].args[k])
      BY <1>3, <2>2, <3>1, MatchesCon
    <3> QED BY <3>2, <3>3
  <2> QED BY <2>1, <2>2
<1>7. ASSUME MatchesAll(row, xs) PROVE MatchesAll(r, z)
  <2>1. \A k \in 1 .. m : Matches(r[k], z[k])
    BY <1>1, <1>6, <1>7 DEF MatchesAll
  <2>2. \A k \in 1 .. n : Matches(r[m + k], z[m + k])
    BY <1>1, <1>4, <1>7 DEF MatchesAll
  <2>3. ASSUME NEW k \in 1 .. m + n, ~(k \in 1 .. m) PROVE Matches(r[k], z[k])
    <3>1. k - m \in 1 .. n /\ m + (k - m) = k
      BY <1>1, <2>3
    <3> QED BY <2>2, <3>1
  <2> QED BY <1>4, <2>1, <2>3 DEF MatchesAll
<1>8. ASSUME MatchesAll(r, z) PROVE MatchesAll(row, xs)
  <2>1. \A k \in 1 .. m + n : Matches(r[k], z[k])
    BY <1>4, <1>8 DEF MatchesAll
  <2>2. Matches(row[1], xs[1])
    BY <1>1, <1>6, <2>1
  <2>3. ASSUME NEW k \in 1 .. n PROVE Matches(row[k + 1], xs[k + 1])
    <3>1. m + k \in 1 .. m + n
      BY <1>1
    <3> QED BY <1>4, <2>1, <3>1
  <2>4. ASSUME NEW k \in 1 .. n + 1, k # 1 PROVE Matches(row[k], xs[k])
    <3>1. k - 1 \in 1 .. n /\ (k - 1) + 1 = k
      BY <1>1, <2>4
    <3> QED BY <2>3, <3>1
  <2> QED BY <1>1, <2>2, <2>4 DEF MatchesAll
<1> QED BY <1>7, <1>8 DEF r, z

-----------------------------------------------------------------------------
(* What specialization keeps.                                              *)

\* A place of a concatenation is in the one part or in the other.
LEMMA EitherPart ==
  ASSUME NEW m \in Nat, NEW n \in Nat, NEW k \in 1 .. m + n
  PROVE  k \in 1 .. m \/ \E j \in 1 .. n : k = m + j
<1>1. CASE k <= m
  BY <1>1
<1>2. CASE ~(k <= m)
  <2>1. k - m \in 1 .. n /\ k = m + (k - m)
    BY <1>2
  <2> QED BY <2>1
<1> QED BY <1>1, <1>2

\* How deep the columns are that come of the first one.
DepthsBelow(ds, v) == [k \in DOMAIN v.fields |-> ds[1] - 1] \o Tail(ds)

Depths(ds, cols) == ds \in Seq(0 .. Depth) /\ cols \in Seq(Columns) /\ Len(ds) = Len(cols)

\* Depths go with columns.
LEMMA DepthsAre ==
  ASSUME NEW ds, NEW cols, Depths(ds, cols), cols # <<>>
  PROVE  /\ ds \in Seq(0 .. Depth) /\ cols \in Seq(Columns) /\ Len(ds) = Len(cols) /\ ds # <<>>
         /\ ds[1] \in 0 .. Depth /\ ds[1] \in Nat /\ cols[1] \in Columns
<1>1. PICK D : D = 0 .. Depth
  OBVIOUS
<1>2. ds \in Seq(D) /\ cols \in Seq(Columns) /\ Len(ds) = Len(cols)
  BY <1>1 DEF Depths
<1>3. Len(cols) # 0 /\ cols[1] \in Columns
  BY <1>2
<1>4. ds # <<>> /\ ds[1] \in D
  BY <1>2, <1>3
<1> QED BY <1>1, <1>2, <1>3, <1>4, BoundsTyped

Lowers(ds, cols, v, e, c) ==
  /\ Depths(e, c) /\ Len(c) = Len(v.fields) + (Len(cols) - 1)
  /\ \A k \in 1 .. Len(v.fields) : e[k] = ds[1] - 1 /\ c[k] = v.fields[k]
  /\ \A k \in 1 .. Len(cols) - 1 : e[Len(v.fields) + k] = ds[k + 1] /\ c[Len(v.fields) + k] = cols[k + 1]

\* Specializing a column lowers its depth by one.
LEMMA DepthsBelowIs ==
  ASSUME NEW ds, NEW cols, Depths(ds, cols), cols # <<>>,
         NEW v, v.fields \in Seq(Columns), v = Anything \/ ds[1] # 0
  PROVE  Lowers(ds, cols, v, DepthsBelow(ds, v), v.fields \o Tail(cols))
<1> DEFINE m == Len(v.fields)
           a == [k \in DOMAIN v.fields |-> ds[1] - 1]
<1>1. ds \in Seq(0 .. Depth) /\ cols \in Seq(Columns) /\ Len(ds) = Len(cols) /\ ds # <<>>
      /\ ds[1] \in 0 .. Depth
  BY DepthsAre
<1>2. m \in Nat /\ DOMAIN v.fields = 1 .. m
  OBVIOUS
<1>3. a \in Seq(0 .. Depth) /\ Len(a) = m /\ \A k \in 1 .. m : a[k] = ds[1] - 1
  <2>1. CASE v = Anything
    <3>1. v.fields = <<>>
      BY <2>1 DEF Anything
    <3>2. a = <<>> /\ m = 0
      BY <3>1
    <3> QED BY <3>2
  <2>2. CASE ds[1] # 0
    <3>1. ds[1] - 1 \in 0 .. Depth
      BY <1>1, <2>2, BoundsTyped
    <3>2. a \in [1 .. m -> 0 .. Depth]
      BY <1>2, <3>1
    <3> QED BY <1>2, <3>2
  <2> QED BY <2>1, <2>2
<1> HIDE DEF a
<1>4. a \o Tail(ds) \in Seq(0 .. Depth) /\ Splices(a, ds, a \o Tail(ds))
  BY <1>1, <1>3, SplicedIs, Zenon
<1>5. v.fields \o Tail(cols) \in Seq(Columns) /\ Splices(v.fields, cols, v.fields \o Tail(cols))
  BY <1>1, SplicedIs, Zenon
<1>6. DepthsBelow(ds, v) = a \o Tail(ds)
  BY DEF DepthsBelow, a
<1>7. PICK e, c : e = a \o Tail(ds) /\ c = v.fields \o Tail(cols)
  OBVIOUS
<1>8. e \in Seq(0 .. Depth) /\ Splices(a, ds, e) /\ c \in Seq(Columns) /\ Splices(v.fields, cols, c)
  BY <1>4, <1>5, <1>7
<1>9. Len(e) = Len(c) /\ Len(c) = m + (Len(cols) - 1)
  BY <1>1, <1>3, <1>8 DEF Splices
<1>10. \A k \in 1 .. m : e[k] = ds[1] - 1 /\ c[k] = v.fields[k]
  BY <1>3, <1>8 DEF Splices
<1>11. \A k \in 1 .. Len(cols) - 1 : e[m + k] = ds[k + 1] /\ c[m + k] = cols[k + 1]
  BY <1>1, <1>3, <1>8 DEF Splices
<1>12. Lowers(ds, cols, v, e, c)
  BY <1>8, <1>9, <1>10, <1>11 DEF Lowers, Depths
<1> QED BY <1>6, <1>7, <1>12, Zenon

\* A constructor's name names it.
LEMMA HeadNamed ==
  ASSUME NEW col \in Columns, NEW i, HeadAt(col, i).con \in Constructors
  PROVE  /\ i \in Variants(col) /\ HeadAt(col, i) = Signature[col][i] /\ HeadAt(col, i) # Anything
         /\ IsVariant(col, HeadAt(col, i).con)
         /\ Naming(col, HeadAt(col, i).con) = {i}
         /\ Fields(col, HeadAt(col, i).con) = HeadAt(col, i).fields
<1>1. i \in Variants(col)
  <2>1. HeadAt(col, i) # Anything
    <3>1. Anything.con = "_"
      BY DEF Anything
    <3> QED BY <3>1, NamesFree
  <2> QED BY <2>1, HeadAtIs
<1>2. HeadAt(col, i) = Signature[col][i] /\ HeadAt(col, i) # Anything
  BY <1>1, HeadAtIs
<1> QED BY <1>1, <1>2, NamingIs DEF Fields

FitsRow(row, cols, ds) ==
  /\ row \in Seq(Patterns) /\ Len(row) = Len(cols)
  /\ \A k \in 1 .. Len(cols) : Fits(row[k], cols[k]) /\ row[k] \in Terms[ds[k]]

\* A row that fits is expanded to one that fits.
LEMMA ExpandFits ==
  ASSUME NEW ds, NEW cols, Depths(ds, cols), cols # <<>>,
         NEW row, FitsRow(row, cols, ds), NEW i, NEW v, v = HeadAt(cols[1], i),
         v = Anything \/ ds[1] # 0, row[1] = Wild \/ row[1].con = v.con
  PROVE  FitsRow(Expand(row, v), v.fields \o Tail(cols), DepthsBelow(ds, v))
<1> DEFINE r == Expand(row, v)
           m == Len(v.fields)
<1>1. PICK n \in Nat : Len(cols) = n + 1 /\ Len(cols) - 1 = n
  <2>1. PICK l \in Nat : l = Len(cols) /\ l # 0
    BY DEF Depths
  <2>2. l - 1 \in Nat /\ l = (l - 1) + 1
    BY <2>1
  <2> QED BY <2>1, <2>2
<1>2. cols[1] \in Columns /\ ds[1] \in 0 .. Depth
  BY DepthsAre
<1>3. v.fields \in Seq(Columns) /\ m \in Nat /\ v.con \in STRING
  BY <1>2, HeadAtIs
<1>4. PICK e, c : e = DepthsBelow(ds, v) /\ c = v.fields \o Tail(cols)
  OBVIOUS
<1>5. Lowers(ds, cols, v, e, c)
  BY <1>3, <1>4, DepthsBelowIs
<1>6. row \in Seq(Patterns) /\ Len(row) = n + 1 /\ row # <<>>
  BY <1>1 DEF FitsRow
<1>7. r \in Seq(Patterns) /\ Expands(row, v, r)
  BY <1>3, <1>6, ExpandIs, Zenon
<1>8. row[1] \in Terms[ds[1]] /\ Fits(row[1], cols[1])
  BY <1>1 DEF FitsRow
<1> HIDE DEF r
<1>9. ASSUME NEW k \in 1 .. m PROVE Fits(r[k], c[k]) /\ r[k] \in Terms[e[k]]
  <2>1. r[k] = (IF k \in DOMAIN row[1].args THEN row[1].args[k] ELSE Wild)
        /\ c[k] = v.fields[k] /\ e[k] = ds[1] - 1
    BY <1>5, <1>7 DEF Expands, Lowers
  <2>2. v # Anything
    <3>1. Anything.fields = <<>>
      BY DEF Anything
    <3> QED BY <1>3, <3>1
  <2>3. v.fields[k] \in Columns /\ ds[1] - 1 \in Nat
    BY <1>2, <1>3, <2>2
  <2>4. CASE row[1] = Wild
    <3>1. row[1].args = <<>>
      BY <2>4, WildIs, Zenon
    <3>2. r[k] = Wild
      BY <2>1, <3>1
    <3> QED BY <2>1, <2>3, <3>2, WildFits, WildIsTerm
  <2>5. CASE row[1] # Wild
    <3>1. FitsAs(row[1], cols[1]) /\ row[1].con = v.con
      BY <1>2, <1>8, <2>5, FitsIs
    <3>2. /\ v.con \in Constructors
          /\ DOMAIN row[1].args = 1 .. Len(Fields(cols[1], v.con))
          /\ \A j \in 1 .. Len(Fields(cols[1], v.con)) : Fits(row[1].args[j], Fields(cols[1], v.con)[j])
      BY <2>5, <3>1 DEF FitsAs
    <3>3. Fields(cols[1], v.con) = v.fields
      BY <1>2, <3>2, HeadNamed
    <3>4. r[k] = row[1].args[k] /\ k \in DOMAIN row[1].args /\ Fits(row[1].args[k], v.fields[k])
      BY <2>1, <3>2, <3>3
    <3>5. row[1].args \in Seq(Terms[ds[1] - 1])
      <4>1. PICK d \in Nat : d = ds[1] /\ d # 0
        BY <1>2, <2>2
      <4>2. row[1].args \in Seq(Terms[d - 1])
        BY <1>8, <4>1, TermIs
      <4> QED BY <4>1, <4>2
    <3>6. row[1].args[k] \in Terms[ds[1] - 1]
      BY <3>4, <3>5
    <3> QED BY <2>1, <3>4, <3>6
  <2> QED BY <2>4, <2>5
<1>10. ASSUME NEW j \in 1 .. n PROVE Fits(r[m + j], c[m + j]) /\ r[m + j] \in Terms[e[m + j]]
  <2>1. r[m + j] = row[j + 1]
    BY <1>1, <1>6, <1>7 DEF Expands
  <2>2. c[m + j] = cols[j + 1] /\ e[m + j] = ds[j + 1]
    BY <1>1, <1>5 DEF Lowers
  <2>3. j + 1 \in 1 .. Len(cols)
    BY <1>1
  <2> QED BY <2>1, <2>2, <2>3 DEF FitsRow
<1>11. ASSUME NEW k \in 1 .. Len(c) PROVE Fits(r[k], c[k]) /\ r[k] \in Terms[e[k]]
  <2>1. k \in 1 .. m + n
    BY <1>1, <1>5 DEF Lowers
  <2>2. k \in 1 .. m \/ \E j \in 1 .. n : k = m + j
    BY <1>3, <2>1, EitherPart
  <2> QED BY <1>9, <1>10, <2>2
<1>12. Len(r) = Len(c)
  BY <1>1, <1>5, <1>6, <1>7 DEF Expands, Lowers
<1>13. FitsRow(r, c, e)
  BY <1>7, <1>11, <1>12 DEF FitsRow
<1> QED BY <1>4, <1>13 DEF r

-----------------------------------------------------------------------------
(* Values.                                                                 *)

BuiltBy(x, v, d) ==
  /\ x.con = v.con /\ DOMAIN x.args = 1 .. Len(v.fields)
  /\ \A k \in 1 .. Len(v.fields) : x.args[k] \in Values[d - 1][v.fields[k]]

\* A value is opaque to the patterns, or built by a constructor that can build one.
LEMMA ValueIs ==
  ASSUME NEW d \in 0 .. Depth, NEW col \in Columns, NEW x \in Values[d][col]
  PROVE  /\ x \in Terms[d] /\ x \in Patterns
         /\ \/ x.con \notin Constructors /\ (col = Opaque \/ d = 0)
            \/ d # 0 /\ \E i \in PossibleVariants(col) :
                 /\ i \in Variants(col) /\ Signature[col][i].fields \in Seq(Columns)
                 /\ Signature[col][i].con \in Constructors
                 /\ BuiltBy(x, Signature[col][i], d)
<1>0. d \in Nat /\ d <= Depth
  BY BoundsTyped
<1>1. Values[d] \in [Columns -> SUBSET Terms[d]] /\ Values[d] = ValuesOf(Values, d)
  BY <1>0, ValuesUnfold
<1>2. x \in Terms[d] /\ x \in Patterns
  <2>1. Terms[d] \subseteq Patterns
    BY <1>0, BoundsTyped, TermsGrow DEF Patterns
  <2> QED BY <1>1, <2>1
<1>3. CASE col = Opaque \/ d = 0
  <2>0. ValuesOf(Values, d)[col] = {[con |-> "any", args |-> <<>>]}
    BY <1>3 DEF ValuesOf
  <2>1. x = [con |-> "any", args |-> <<>>]
    BY <1>1, <2>0
  <2>2. x.con \notin Constructors
    BY <2>1, NamesFree
  <2> QED BY <1>2, <1>3, <2>2
<1>4. CASE ~(col = Opaque \/ d = 0)
  <2>0. ValuesOf(Values, d)[col] = UNION {Built(Signature[col][i], Values[d - 1]) : i \in PossibleVariants(col)}
    BY <1>4 DEF ValuesOf
  <2>1. PICK i \in PossibleVariants(col) : x \in Built(Signature[col][i], Values[d - 1])
    BY <1>1, <2>0
  <2>2. i \in Variants(col) /\ d - 1 \in Nat /\ d # 0
    BY <1>0, <1>4 DEF PossibleVariants
  <2>3. PICK v : v = Signature[col][i]
    OBVIOUS
  <2>4. v.con \in STRING /\ v.con \in Constructors /\ v.fields \in Seq(Columns)
    BY <2>2, <2>3, SignatureIs
  <2>5. Values[d - 1] \in [Columns -> SUBSET Terms[d - 1]]
    BY <2>2, ValuesUnfold
  <2>6. /\ x.con = v.con /\ DOMAIN x.args = DOMAIN v.fields
        /\ \A k \in DOMAIN v.fields : x.args[k] \in Values[d - 1][v.fields[k]]
    BY <2>1, <2>2, <2>3, <2>4, <2>5, BuiltIs
  <2>7. DOMAIN v.fields = 1 .. Len(v.fields)
    BY <2>4
  <2>8. BuiltBy(x, v, d)
    BY <2>6, <2>7 DEF BuiltBy
  <2> QED BY <1>2, <2>2, <2>3, <2>4, <2>8
<1> QED BY <1>3, <1>4

Vector(xs, cols, ds) ==
  /\ xs \in Seq(Patterns) /\ Len(xs) = Len(cols)
  /\ \A k \in 1 .. Len(cols) : xs[k] \in Values[ds[k]][cols[k]]

\* A vector of values is expanded to one.
LEMMA VectorBelow ==
  ASSUME NEW ds, NEW cols, Depths(ds, cols), cols # <<>>,
         NEW xs, Vector(xs, cols, ds), NEW v, v.fields \in Seq(Columns),
         v = Anything \/ (ds[1] # 0 /\ BuiltBy(xs[1], v, ds[1]))
  PROVE  Vector(Expand(xs, v), v.fields \o Tail(cols), DepthsBelow(ds, v))
<1> DEFINE r == Expand(xs, v)
           m == Len(v.fields)
<1>1. PICK n \in Nat : Len(cols) = n + 1 /\ Len(cols) - 1 = n
  <2>1. PICK l \in Nat : l = Len(cols) /\ l # 0
    BY DEF Depths
  <2>2. l - 1 \in Nat /\ l = (l - 1) + 1
    BY <2>1
  <2> QED BY <2>1, <2>2
<1>2. m \in Nat
  OBVIOUS
<1>4. PICK e, c : e = DepthsBelow(ds, v) /\ c = v.fields \o Tail(cols)
  OBVIOUS
<1>5. Lowers(ds, cols, v, e, c)
  BY <1>4, DepthsBelowIs
<1>6. xs \in Seq(Patterns) /\ Len(xs) = n + 1 /\ xs # <<>>
  BY <1>1 DEF Vector
<1>7. r \in Seq(Patterns) /\ Expands(xs, v, r)
  BY <1>6, ExpandIs, Zenon
<1> HIDE DEF r
<1>9. ASSUME NEW k \in 1 .. m PROVE r[k] \in Values[e[k]][c[k]]
  <2>1. r[k] = (IF k \in DOMAIN xs[1].args THEN xs[1].args[k] ELSE Wild)
        /\ c[k] = v.fields[k] /\ e[k] = ds[1] - 1
    BY <1>5, <1>7 DEF Expands, Lowers
  <2>2. v # Anything
    <3>1. Anything.fields = <<>>
      BY DEF Anything
    <3> QED BY <3>1
  <2>3. k \in DOMAIN xs[1].args /\ xs[1].args[k] \in Values[ds[1] - 1][v.fields[k]]
    BY <2>2 DEF BuiltBy
  <2> QED BY <2>1, <2>3
<1>10. ASSUME NEW j \in 1 .. n PROVE r[m + j] \in Values[e[m + j]][c[m + j]]
  <2>1. r[m + j] = xs[j + 1]
    BY <1>1, <1>6, <1>7 DEF Expands
  <2>2. c[m + j] = cols[j + 1] /\ e[m + j] = ds[j + 1]
    BY <1>1, <1>5 DEF Lowers
  <2>3. j + 1 \in 1 .. Len(cols)
    BY <1>1
  <2> QED BY <2>1, <2>2, <2>3 DEF Vector
<1>11. ASSUME NEW k \in 1 .. Len(c) PROVE r[k] \in Values[e[k]][c[k]]
  <2>1. k \in 1 .. m + n
    BY <1>1, <1>5 DEF Lowers
  <2>2. k \in 1 .. m \/ \E j \in 1 .. n : k = m + j
    BY <1>2, <2>1, EitherPart
  <2> QED BY <1>9, <1>10, <2>2
<1>12. Len(r) = Len(c)
  BY <1>1, <1>5, <1>6, <1>7 DEF Expands, Lowers
<1>13. Vector(r, c, e)
  BY <1>7, <1>11, <1>12 DEF Vector
<1> QED BY <1>4, <1>13 DEF r

-----------------------------------------------------------------------------
(* Problems in which everything fits.                                      *)

Inside(x, ds) ==
  /\ x \in Matrices /\ Depths(ds, x.cols)
  /\ FitsRow(x.query, x.cols, ds)
  /\ \A row \in x.rows : FitsRow(row, x.cols, ds)

\* The head of a row that fits.
LEMMA FirstOfRow ==
  ASSUME NEW cols, cols # <<>>, NEW ds, Depths(ds, cols), NEW row, FitsRow(row, cols, ds)
  PROVE  /\ Fits(row[1], cols[1]) /\ FitsAs(row[1], cols[1])
         /\ row[1] \in Patterns /\ row[1] \in Terms[ds[1]]
         /\ row[1].con = "_" <=> row[1] = Wild
         /\ row[1] # Wild => row[1].con \in Constructors /\ ds[1] # 0
         /\ row \in Seq(Patterns) /\ row # <<>> /\ Head(row) = row[1]
<1>1. ds[1] \in Nat /\ cols[1] \in Columns
  BY DepthsAre
<1>2. row \in Seq(Patterns) /\ row # <<>> /\ Head(row) = row[1] /\ 1 \in 1 .. Len(cols)
  BY DepthsAre DEF FitsRow
<1>3. Fits(row[1], cols[1]) /\ row[1] \in Terms[ds[1]]
  BY <1>2 DEF FitsRow
<1>4. FitsAs(row[1], cols[1]) /\ row[1] \in Patterns
  BY <1>1, <1>3, FitsIs
<1>5. CASE row[1] = Wild
  <2>1. row[1].con = "_"
    BY <1>5, WildIs, Zenon
  <2> QED BY <1>2, <1>3, <1>4, <1>5, <2>1
<1>6. CASE row[1] # Wild
  <2>1. row[1].con \in Constructors
    BY <1>4, <1>6 DEF FitsAs
  <2>2. row[1].con # "_"
    BY <2>1, NamesFree
  <2>3. PICK d \in Nat : d = ds[1]
    BY <1>1
  <2>4. d # 0
    BY <1>3, <2>1, <2>3, TermIs
  <2> QED BY <1>2, <1>3, <1>4, <1>6, <2>1, <2>2, <2>3, <2>4
<1> QED BY <1>5, <1>6

\* At depth 0 there is only `_`.
LEMMA NotShallow ==
  ASSUME NEW x, x.cols # <<>>, NEW ds, Depths(ds, x.cols), NEW row, FitsRow(row, x.cols, ds), row[1] # Wild
  PROVE  ds[1] # 0
<1>1. PICK cols : cols = x.cols
  OBVIOUS
<1>2. cols # <<>> /\ Depths(ds, cols) /\ FitsRow(row, cols, ds)
  BY <1>1
<1> QED BY <1>2, FirstOfRow

\* Which heads a problem is specialized to.
LEMMA HeadsAre ==
  ASSUME NEW x \in Problems, NEW ds, Inside(x, ds)
  PROVE  \/ /\ x.query[1] # Wild
            /\ \E i \in Variants(x.cols[1]) :
                 Heads(x) = {i} /\ Signature[x.cols[1]][i].con = x.query[1].con
         \/ /\ x.query[1] = Wild /\ ds[1] # 0 /\ x.cols[1] # Opaque
            /\ Heads(x) = PossibleVariants(x.cols[1])
         \/ /\ x.query[1] = Wild /\ Heads(x) = {0} /\ 0 \notin Variants(x.cols[1])
            /\ \/ PossibleVariants(x.cols[1]) = {}
               \/ \E i \in PossibleVariants(x.cols[1]) : Signature[x.cols[1]][i].con \notin Rooted(x)
<1> DEFINE col == x.cols[1]
           q == x.query[1]
<1>1. col \in Columns /\ Head(x.query) = q /\ x.cols # <<>>
      /\ \A row \in x.rows : Head(row) = row[1]
  BY ProblemIs
<1>2. Depths(ds, x.cols) /\ FitsRow(x.query, x.cols, ds) /\ \A row \in x.rows : FitsRow(row, x.cols, ds)
  BY DEF Inside
<1>3. FitsAs(q, col)
  BY <1>1, <1>2, FirstOfRow
<1>4. CASE q # Wild
  <2>1. IsVariant(col, q.con)
    BY <1>3, <1>4 DEF FitsAs
  <2>2. PICK i \in Variants(col) : Signature[col][i].con = q.con /\ Naming(col, q.con) = {i}
    BY <1>1, <2>1, VariantIs
  <2> QED BY <1>1, <1>4, <2>2 DEF Heads
<1>5. CASE q = Wild /\ Complete(x)
  <2>1. PICK i \in PossibleVariants(col) : Signature[col][i].con \in Rooted(x)
    BY <1>5 DEF Complete
  <2>2. PICK row \in x.rows : Signature[col][i].con = row[1].con /\ row[1].con # "_"
    BY <1>1, <2>1 DEF Rooted
  <2>3. ds[1] # 0
    <3>1. FitsRow(row, x.cols, ds)
      BY <1>2
    <3>2. row[1] # Wild
      BY <2>2, WildIs, Zenon
    <3> QED BY <1>1, <1>2, <3>1, <3>2, NotShallow, Zenon
  <2>4. col # Opaque
    BY <1>1, <2>1, SignatureIs DEF PossibleVariants
  <2> QED BY <1>1, <1>5, <2>3, <2>4 DEF Heads
<1>6. CASE q = Wild /\ ~Complete(x)
  <2>1. 0 \notin Variants(col)
    BY <1>1, SignatureIs
  <2> QED BY <1>1, <1>6, <2>1 DEF Heads, Complete
<1> QED BY <1>4, <1>5, <1>6

\* Whatever head a problem is specialized to, everything still fits.
LEMMA InsideBelow ==
  ASSUME NEW x \in Problems, NEW ds, Inside(x, ds), NEW i \in Heads(x), NEW v, v = HeadAt(x.cols[1], i)
  PROVE  /\ v = Anything \/ ds[1] # 0
         /\ v = Anything \/ (i \in Variants(x.cols[1]) /\ v = Signature[x.cols[1]][i])
         /\ v.fields \in Seq(Columns) /\ v.con \in STRING
         /\ Depths(DepthsBelow(ds, v), v.fields \o Tail(x.cols))
         /\ Inside(Specialize(x, v), DepthsBelow(ds, v))
<1> DEFINE col == x.cols[1]
           y == Specialize(x, v)
           e == DepthsBelow(ds, v)
           c == v.fields \o Tail(x.cols)
<1>1. col \in Columns /\ x.cols # <<>> /\ Head(x.query) = x.query[1]
      /\ \A row \in x.rows : Head(row) = row[1]
  BY ProblemIs
<1>2. Depths(ds, x.cols) /\ FitsRow(x.query, x.cols, ds) /\ \A row \in x.rows : FitsRow(row, x.cols, ds)
  BY DEF Inside
<1>3. v.fields \in Seq(Columns) /\ v.con \in STRING
  BY <1>1, HeadAtIs
<1>4. /\ v = Anything \/ ds[1] # 0
      /\ v = Anything \/ (i \in Variants(col) /\ v = Signature[col][i])
      /\ x.query[1] = Wild \/ x.query[1].con = v.con
  <2>1. CASE x.query[1] # Wild
    <3>1. i \in Variants(col) /\ Signature[col][i].con = x.query[1].con
      BY <2>1, HeadsAre
    <3>2. ds[1] # 0
      BY <1>1, <1>2, <2>1, NotShallow, Zenon
    <3> QED BY <1>1, <3>1, <3>2, HeadAtIs
  <2>2. CASE x.query[1] = Wild
    <3>1. ds[1] # 0 \/ i \notin Variants(col)
      BY <2>2, HeadsAre
    <3> QED BY <1>1, <2>2, <3>1, HeadAtIs
  <2> QED BY <2>1, <2>2
<1>5. Lowers(ds, x.cols, v, e, c)
  BY <1>1, <1>2, <1>3, <1>4, DepthsBelowIs
<1>6. y.cols = c /\ y.rows = RowsFor(x, v) /\ y.query = Expand(x.query, v)
  BY SpecializeIs
<1>7. y \in Matrices
  BY <1>3, SpecializeTyped
<1>8. FitsRow(Expand(x.query, v), c, e)
  <2>1. PICK cols, row : cols = x.cols /\ row = x.query
    OBVIOUS
  <2>2. Depths(ds, cols) /\ FitsRow(row, cols, ds)
    BY <1>2, <2>1
  <2>3. cols # <<>> /\ v = HeadAt(cols[1], i)
    BY <1>1, <2>1
  <2>4. v = Anything \/ ds[1] # 0
    BY <1>4
  <2>5. row[1] = Wild \/ row[1].con = v.con
    BY <1>4, <2>1
  <2>6. FitsRow(Expand(row, v), v.fields \o Tail(cols), DepthsBelow(ds, v))
    BY <2>2, <2>3, <2>4, <2>5, ExpandFits, Zenon
  <2> QED BY <2>1, <2>6
<1>9. ASSUME NEW row \in x.rows, row[1].con \in {"_", v.con} PROVE FitsRow(Expand(row, v), c, e)
  <2>1. FitsRow(row, x.cols, ds)
    BY <1>2
  <2>2. PICK cols, r : cols = x.cols /\ r = row
    OBVIOUS
  <2>3. Depths(ds, cols) /\ FitsRow(r, cols, ds)
    BY <1>2, <2>1, <2>2
  <2>4. cols # <<>> /\ v = HeadAt(cols[1], i)
    BY <1>1, <2>2
  <2>5. r[1].con = "_" <=> r[1] = Wild
    BY <2>3, <2>4, FirstOfRow, Zenon
  <2>6. r[1] = Wild \/ r[1].con = v.con
    BY <1>9, <2>2, <2>5
  <2>7. v = Anything \/ ds[1] # 0
    BY <1>4
  <2>8. FitsRow(Expand(r, v), v.fields \o Tail(cols), DepthsBelow(ds, v))
    BY <2>3, <2>4, <2>6, <2>7, ExpandFits, Zenon
  <2> QED BY <2>2, <2>8
<1>10. \A row \in y.rows : FitsRow(row, c, e)
  BY <1>1, <1>6, <1>9 DEF RowsFor
<1>11. Depths(e, c)
  BY <1>5 DEF Lowers
<1>12. Inside(y, e)
  <2> HIDE DEF y, e, c
  <2> QED BY <1>6, <1>7, <1>8, <1>10, <1>11 DEF Inside
<1> QED BY <1>3, <1>4, <1>11, <1>12

-----------------------------------------------------------------------------
(* What is said of a problem, from what is said of its specializations.    *)

\* Every vector the query matches is matched by a row.
Covered(x, ds) ==
  \A xs : Vector(xs, x.cols, ds) /\ MatchesAll(x.query, xs) => \E row \in x.rows : MatchesAll(row, xs)

\* w is of patterns, and no row matches a vector it matches.
Witnesses(x, ds, w) ==
  /\ w \in Seq(Patterns) /\ Len(w) = Len(x.cols)
  /\ \A k \in 1 .. Len(x.cols) : w[k] \in Terms[ds[k] + 1]
  /\ \A xs : Vector(xs, x.cols, ds) /\ MatchesAll(w, xs) => \A row \in x.rows : ~MatchesAll(row, xs)

\* v can build the head of the vector.
Suits(xs, v, d) == v = Anything \/ (d # 0 /\ BuiltBy(xs[1], v, d))

\* Specializing is sound: a row matches a vector of the head exactly if it does when both are expanded.
LEMMA RowExpanding ==
  ASSUME NEW cols, cols # <<>>, NEW ds, Depths(ds, cols), NEW row, FitsRow(row, cols, ds),
         NEW xs, Vector(xs, cols, ds), NEW i, NEW v, v = HeadAt(cols[1], i),
         Suits(xs, v, ds[1]), row[1].con \in {"_", v.con}
  PROVE  MatchesAll(row, xs) <=> MatchesAll(Expand(row, v), Expand(xs, v))
<1>1. cols[1] \in Columns
  BY DepthsAre
<1>2. v.fields \in Seq(Columns)
  BY <1>1, HeadAtIs
<1>3. row \in Seq(Patterns) /\ xs \in Seq(Patterns) /\ Len(row) = Len(xs) /\ row # <<>>
  <2>1. row # <<>>
    BY FirstOfRow
  <2> QED BY <2>1 DEF FitsRow, Vector
<1>4. CASE row[1] = Wild
  BY <1>2, <1>3, <1>4, Expanding
<1>5. CASE row[1] # Wild
  <2>1. FitsAs(row[1], cols[1]) /\ row[1].con \in Constructors /\ row[1].con # "_"
    BY <1>5, FirstOfRow
  <2>2. row[1].con = v.con
    BY <2>1
  <2>3. v # Anything /\ Fields(cols[1], v.con) = v.fields
    BY <1>1, <2>1, <2>2, HeadNamed
  <2>4. DOMAIN row[1].args = 1 .. Len(v.fields)
    BY <1>5, <2>1, <2>2, <2>3 DEF FitsAs
  <2>5. xs[1].con = v.con /\ DOMAIN xs[1].args = 1 .. Len(v.fields)
    BY <2>3 DEF Suits, BuiltBy
  <2> QED BY <1>2, <1>3, <1>5, <2>2, <2>4, <2>5, Expanding
<1> QED BY <1>4, <1>5

\* The head of a vector of values.
LEMMA FirstOfVector ==
  ASSUME NEW cols, cols # <<>>, NEW ds, Depths(ds, cols), NEW xs, Vector(xs, cols, ds)
  PROVE  /\ xs \in Seq(Patterns) /\ Len(xs) = Len(cols) /\ xs # <<>>
         /\ ds[1] \in 0 .. Depth /\ cols[1] \in Columns /\ xs[1] \in Values[ds[1]][cols[1]]
         /\ xs[1] \in Patterns
<1>1. ds[1] \in 0 .. Depth /\ cols[1] \in Columns /\ cols \in Seq(Columns)
  BY DepthsAre
<1>2. 1 \in 1 .. Len(cols)
  BY <1>1
<1> QED BY <1>1, <1>2 DEF Vector

\* A query that is covered under each of the heads is covered: what the heads leave out has no values, or is the default matrix's.
LEMMA CoveredByHeads ==
  ASSUME NEW x \in Problems, NEW ds, Inside(x, ds),
         \A i \in Heads(x) : Covered(Specialize(x, HeadAt(x.cols[1], i)), DepthsBelow(ds, HeadAt(x.cols[1], i)))
  PROVE  Covered(x, ds)
<1> SUFFICES ASSUME NEW xs, Vector(xs, x.cols, ds), MatchesAll(x.query, xs)
             PROVE  \E row \in x.rows : MatchesAll(row, xs)
  BY DEF Covered
<1> DEFINE col == x.cols[1]
           q == x.query[1]
           h == xs[1]
<1>1. col \in Columns /\ x.cols # <<>> /\ \A row \in x.rows : Head(row) = row[1]
  BY ProblemIs
<1>2. Depths(ds, x.cols) /\ FitsRow(x.query, x.cols, ds) /\ \A row \in x.rows : FitsRow(row, x.cols, ds)
  BY DEF Inside
<1>3. /\ xs \in Seq(Patterns) /\ Len(xs) = Len(x.cols) /\ xs # <<>>
      /\ ds[1] \in 0 .. Depth /\ h \in Values[ds[1]][col] /\ h \in Patterns
  <2>1. PICK cols : cols = x.cols
    OBVIOUS
  <2> QED BY <1>1, <1>2, <2>1, FirstOfVector
<1>4. \/ h.con \notin Constructors /\ (col = Opaque \/ ds[1] = 0)
      \/ ds[1] # 0 /\ \E i \in PossibleVariants(col) :
           /\ i \in Variants(col) /\ Signature[col][i].fields \in Seq(Columns)
           /\ Signature[col][i].con \in Constructors
           /\ BuiltBy(h, Signature[col][i], ds[1])
  <2>1. PICK d, c : d = ds[1] /\ c = col
    OBVIOUS
  <2> QED BY <1>1, <1>3, <2>1, ValueIs
<1>5. Matches(q, h) /\ q \in Patterns
  <2>1. 1 \in 1 .. Len(xs)
    BY <1>3
  <2> QED BY <2>1, ProblemIs DEF MatchesAll
<1>6. PICK i \in Heads(x) : Suits(xs, HeadAt(col, i), ds[1]) /\ q.con \in {"_", HeadAt(col, i).con}
  <2>1. CASE q # Wild
    <3>1. PICK i \in Variants(col) : Heads(x) = {i} /\ Signature[col][i].con = q.con
      BY <2>1, HeadsAre
    <3>2. q.con = h.con /\ q.con \in Constructors
      BY <1>1, <1>3, <1>5, <2>1, <3>1, MatchesCon, SignatureIs
    <3>3. PICK j \in PossibleVariants(col) :
            j \in Variants(col) /\ BuiltBy(h, Signature[col][j], ds[1]) /\ ds[1] # 0
      BY <1>4, <3>2
    <3>4. Signature[col][j].con = Signature[col][i].con
      BY <3>1, <3>2, <3>3 DEF BuiltBy
    <3>5. j = i
      <4>1. Naming(col, Signature[col][i].con) = {i} /\ Naming(col, Signature[col][j].con) = {j}
        BY <1>1, <3>1, <3>3, NamingIs
      <4> QED BY <3>4, <4>1
    <3>6. HeadAt(col, i) = Signature[col][i]
      BY <1>1, <3>1, HeadAtIs
    <3> QED BY <3>1, <3>3, <3>5, <3>6 DEF Suits
  <2>2. CASE q = Wild /\ ds[1] # 0 /\ col # Opaque /\ Heads(x) = PossibleVariants(col)
    <3>1. PICK j \in PossibleVariants(col) :
            j \in Variants(col) /\ BuiltBy(h, Signature[col][j], ds[1]) /\ ds[1] # 0
      BY <1>4, <2>2
    <3>2. HeadAt(col, j) = Signature[col][j]
      BY <1>1, <3>1, HeadAtIs
    <3>3. q.con = "_"
      BY <2>2, WildIs, Zenon
    <3> QED BY <2>2, <3>1, <3>2, <3>3 DEF Suits
  <2>3. CASE q = Wild /\ Heads(x) = {0} /\ 0 \notin Variants(col)
    <3>1. HeadAt(col, 0) = Anything
      BY <1>1, <2>3, HeadAtIs
    <3>2. q.con = "_"
      BY <2>3, WildIs, Zenon
    <3> QED BY <2>3, <3>1, <3>2 DEF Suits
  <2>4. \/ q # Wild
        \/ q = Wild /\ ds[1] # 0 /\ col # Opaque /\ Heads(x) = PossibleVariants(col)
        \/ q = Wild /\ Heads(x) = {0} /\ 0 \notin Variants(col)
    BY HeadsAre
  <2> QED BY <2>1, <2>2, <2>3, <2>4
<1>7. PICK v, e, y : v = HeadAt(col, i) /\ e = DepthsBelow(ds, v) /\ y = Specialize(x, v)
  OBVIOUS
<1>8. Suits(xs, v, ds[1]) /\ q.con \in {"_", v.con} /\ v.fields \in Seq(Columns)
  BY <1>1, <1>6, <1>7, HeadAtIs
<1>9. y.cols = v.fields \o Tail(x.cols) /\ y.rows = RowsFor(x, v) /\ y.query = Expand(x.query, v)
  BY <1>7, SpecializeIs
<1>10. Vector(Expand(xs, v), y.cols, e)
  BY <1>1, <1>2, <1>7, <1>8, <1>9, VectorBelow DEF Suits
<1>0. ASSUME NEW row, FitsRow(row, x.cols, ds), row[1].con \in {"_", v.con}
      PROVE  MatchesAll(row, xs) <=> MatchesAll(Expand(row, v), Expand(xs, v))
  <2>1. PICK cols : cols = x.cols
    OBVIOUS
  <2>2. cols # <<>> /\ Depths(ds, cols) /\ FitsRow(row, cols, ds) /\ Vector(xs, cols, ds)
        /\ v = HeadAt(cols[1], i)
    BY <1>0, <1>1, <1>2, <1>7, <2>1
  <2> QED BY <1>0, <1>8, <2>2, RowExpanding
<1>11. MatchesAll(y.query, Expand(xs, v))
  <2>1. MatchesAll(x.query, xs) <=> MatchesAll(Expand(x.query, v), Expand(xs, v))
    <3>1. PICK row : row = x.query
      OBVIOUS
    <3> QED BY <1>0, <1>2, <1>8, <3>1
  <2> QED BY <1>9, <2>1
<1>12. PICK r \in y.rows : MatchesAll(r, Expand(xs, v))
  <2>1. Covered(y, e)
    BY <1>6, <1>7
  <2> QED BY <1>10, <1>11, <2>1 DEF Covered
<1>13. PICK row \in x.rows : r = Expand(row, v) /\ row[1].con \in {"_", v.con}
  BY <1>1, <1>9 DEF RowsFor
<1>14. MatchesAll(row, xs)
  BY <1>0, <1>2, <1>12, <1>13
<1> QED BY <1>14

\* The depth of the terms of a witness.
LEMMA WitnessTyped ==
  ASSUME NEW x \in Problems, NEW ds, Inside(x, ds), NEW i \in Heads(x), NEW v, v = HeadAt(x.cols[1], i),
         NEW w, w \in Seq(Patterns), Len(w) = Len(v.fields) + (Len(x.cols) - 1),
         \A k \in 1 .. Len(w) : w[k] \in Terms[DepthsBelow(ds, v)[k] + 1],
         NEW r, r = Rebuild(x, v, w)
  PROVE  /\ r \in Seq(Patterns) /\ Len(r) = Len(x.cols) /\ Rebuilds(x, v, w, r)
         /\ \A k \in 1 .. Len(x.cols) : r[k] \in Terms[ds[k] + 1]
<1>1. x.cols # <<>> /\ x.cols \in Seq(Columns)
  BY ProblemIs
<1>2. Depths(ds, x.cols)
  BY DEF Inside
<1>3. ds[1] \in Nat /\ ds \in Seq(0 .. Depth) /\ Len(ds) = Len(x.cols)
  <2>1. PICK cols : cols = x.cols
    OBVIOUS
  <2> QED BY <1>1, <1>2, <2>1, DepthsAre
<1>4. v = Anything \/ ds[1] # 0
  BY InsideBelow
<1>5. v.fields \in Seq(Columns) /\ v.con \in STRING
  BY InsideBelow
<1>6. PICK m \in Nat, n \in Nat : Len(v.fields) = m /\ Len(x.cols) = n + 1 /\ Len(x.cols) - 1 = n
  <2>1. PICK l \in Nat : l = Len(x.cols) /\ l # 0
    BY <1>1
  <2>2. l - 1 \in Nat /\ l = (l - 1) + 1
    BY <2>1
  <2>3. Len(v.fields) \in Nat
    BY <1>5
  <2> QED BY <2>1, <2>2, <2>3
<1>7. PICK e, c : e = DepthsBelow(ds, v) /\ c = v.fields \o Tail(x.cols)
  OBVIOUS
<1>8. Lowers(ds, x.cols, v, e, c)
  <2>1. PICK cols : cols = x.cols
    OBVIOUS
  <2> QED BY <1>1, <1>2, <1>4, <1>5, <1>7, <2>1, DepthsBelowIs
<1>9. r \in Seq(Terms[(Depth + 1) + 1]) /\ Rebuilds(x, v, w, r)
  <2>1. PICK d \in Nat : d = Depth + 1
    BY BoundsTyped
  <2>2. w \in Seq(Terms[d])
    BY <2>1 DEF Patterns
  <2>3. r \in Seq(Terms[d + 1]) /\ Rebuilds(x, v, w, r)
    BY <1>5, <2>2, RebuildIs
  <2> QED BY <2>1, <2>3
<1>10. Len(r) = n + 1
  BY <1>6, <1>9 DEF Rebuilds
<1>11. r[1] \in Terms[ds[1] + 1]
  <2>1. CASE v = Anything
    <3>1. r[1] = Missing(x)
      BY <1>9, <2>1 DEF Rebuilds
    <3> QED BY <1>3, <3>1, MissingTyped
  <2>2. CASE v # Anything
    <3>1. /\ r[1].con = v.con /\ DOMAIN r[1].args = 1 .. m
          /\ \A k \in 1 .. m : r[1].args[k] = w[k]
      BY <1>6, <1>9, <2>2 DEF Rebuilds
    <3>2. r[1] = [con |-> r[1].con, args |-> r[1].args] /\ r[1].args \in Seq(Terms[(Depth + 1) + 1])
      <4>1. r[1] \in Terms[(Depth + 1) + 1] /\ (Depth + 1) + 1 \in Nat
        BY <1>9, <1>10, BoundsTyped
      <4> QED BY <4>1, TermIs
    <3>3. \A k \in 1 .. m : w[k] \in Terms[ds[1]]
      <4>1. ASSUME NEW k \in 1 .. m PROVE w[k] \in Terms[ds[1]]
        <5>1. e[k] = ds[1] - 1
          BY <1>6, <1>8 DEF Lowers
        <5>2. (ds[1] - 1) + 1 = ds[1]
          BY <1>3
        <5>3. k \in 1 .. Len(w)
          BY <1>6
        <5>4. w[k] \in Terms[e[k] + 1]
          BY <1>7, <5>3
        <5> QED BY <5>1, <5>2, <5>4
      <4> QED BY <4>1
    <3>4. r[1].args \in Seq(Terms[ds[1]])
      <4>1. PICK a : a = r[1].args
        OBVIOUS
      <4>2. a \in Seq(Terms[(Depth + 1) + 1]) /\ DOMAIN a = 1 .. m /\ \A k \in 1 .. m : a[k] \in Terms[ds[1]]
        BY <3>1, <3>2, <3>3, <4>1
      <4>3. a = [k \in 1 .. m |-> a[k]]
        BY <4>2
      <4>4. a \in [1 .. m -> Terms[ds[1]]]
        BY <4>2, <4>3
      <4> QED BY <4>1, <4>4
    <3> QED BY <1>3, <1>5, <3>1, <3>2, <3>4, TermMade
  <2> QED BY <2>1, <2>2
<1>12. ASSUME NEW k \in 1 .. n PROVE r[k + 1] \in Terms[ds[k + 1] + 1]
  <2>1. r[k + 1] = w[m + k]
    BY <1>6, <1>9 DEF Rebuilds
  <2>2. e[m + k] = ds[k + 1]
    BY <1>6, <1>8 DEF Lowers
  <2>3. m + k \in 1 .. Len(w)
    BY <1>6
  <2>4. w[m + k] \in Terms[e[m + k] + 1]
    BY <1>7, <2>3
  <2> QED BY <2>1, <2>2, <2>4
<1>13. ASSUME NEW k \in 1 .. n + 1 PROVE r[k] \in Terms[ds[k] + 1] /\ ds[k] \in 0 .. Depth
  <2>1. k # 1 => k - 1 \in 1 .. n /\ (k - 1) + 1 = k
    OBVIOUS
  <2>2. ds[k] \in 0 .. Depth
    <3>1. PICK D : D = 0 .. Depth
      OBVIOUS
    <3>2. ds \in Seq(D) /\ Len(ds) = n + 1
      BY <1>3, <1>6, <3>1
    <3>3. k \in DOMAIN ds
      BY <3>2
    <3>4. ds[k] \in D
      BY <3>2, <3>3, MembersOfSeq, Zenon
    <3> QED BY <3>1, <3>4
  <2> QED BY <1>11, <1>12, <2>1, <2>2
<1>14. r \in Seq(Patterns)
  <2>1. ASSUME NEW k \in 1 .. n + 1 PROVE r[k] \in Patterns
    <3>1. ds[k] + 1 \in Nat /\ ds[k] + 1 <= Depth + 1
      BY <1>13, BoundsTyped
    <3>2. Terms[ds[k] + 1] \subseteq Terms[Depth + 1]
      BY <3>1, BoundsTyped, TermsGrow
    <3> QED BY <1>13, <3>2 DEF Patterns
  <2>2. r \in [1 .. n + 1 -> Patterns]
    <3>1. r = [k \in 1 .. n + 1 |-> r[k]]
      BY <1>9, <1>10
    <3> QED BY <2>1, <3>1
  <2>3. n + 1 \in Nat
    OBVIOUS
  <2> QED BY <2>2, <2>3
<1> QED BY <1>6, <1>9, <1>10, <1>13, <1>14

\* A witness of a specialization is rebuilt to one of the problem.
LEMMA WitnessesAbove ==
  ASSUME NEW x \in Problems, NEW ds, Inside(x, ds), NEW i \in Heads(x), NEW v, v = HeadAt(x.cols[1], i),
         NEW w, Witnesses(Specialize(x, v), DepthsBelow(ds, v), w)
  PROVE  Witnesses(x, ds, Rebuild(x, v, w))
<1> DEFINE col == x.cols[1]
<1>1. col \in Columns /\ x.cols # <<>> /\ \A row \in x.rows : Head(row) = row[1]
  BY ProblemIs
<1>2. Depths(ds, x.cols) /\ FitsRow(x.query, x.cols, ds) /\ \A row \in x.rows : FitsRow(row, x.cols, ds)
  BY DEF Inside
<1>3. /\ v = Anything \/ (i \in Variants(col) /\ v = Signature[col][i] /\ ds[1] # 0)
      /\ v.fields \in Seq(Columns)
  BY InsideBelow
<1>4. PICK y, e, r : y = Specialize(x, v) /\ e = DepthsBelow(ds, v) /\ r = Rebuild(x, v, w)
  OBVIOUS
<1>5. /\ y.cols = v.fields \o Tail(x.cols) /\ y.rows = RowsFor(x, v)
      /\ Len(y.cols) = Len(v.fields) + (Len(x.cols) - 1)
  BY <1>3, <1>4, SpecializeIs, SpecializeTyped
<1>6. /\ w \in Seq(Patterns) /\ Len(w) = Len(y.cols)
      /\ \A k \in 1 .. Len(y.cols) : w[k] \in Terms[e[k] + 1]
      /\ \A xs : Vector(xs, y.cols, e) /\ MatchesAll(w, xs) => \A row \in y.rows : ~MatchesAll(row, xs)
  BY <1>4 DEF Witnesses
<1>7. /\ r \in Seq(Patterns) /\ Len(r) = Len(x.cols) /\ Rebuilds(x, v, w, r)
      /\ \A k \in 1 .. Len(x.cols) : r[k] \in Terms[ds[k] + 1]
  <2>1. w \in Seq(Patterns) /\ Len(w) = Len(v.fields) + (Len(x.cols) - 1)
    BY <1>5, <1>6
  <2>2. \A k \in 1 .. Len(w) : w[k] \in Terms[DepthsBelow(ds, v)[k] + 1]
    BY <1>4, <1>6
  <2> QED BY <1>4, <2>1, <2>2, WitnessTyped, Zenon
<1>8. ASSUME NEW xs, Vector(xs, x.cols, ds), MatchesAll(r, xs), NEW row \in x.rows, MatchesAll(row, xs)
      PROVE  FALSE
  <2> DEFINE h == xs[1]
             z == Expand(xs, v)
  <2>1. /\ xs \in Seq(Patterns) /\ Len(xs) = Len(x.cols) /\ xs # <<>>
        /\ ds[1] \in 0 .. Depth /\ h \in Values[ds[1]][col] /\ h \in Patterns
    <3>1. PICK cols : cols = x.cols
      OBVIOUS
    <3> QED BY <1>1, <1>2, <1>8, <3>1, FirstOfVector
  <2>2. \/ h.con \notin Constructors /\ (col = Opaque \/ ds[1] = 0)
        \/ ds[1] # 0 /\ \E j \in PossibleVariants(col) :
             /\ j \in Variants(col) /\ Signature[col][j].fields \in Seq(Columns)
             /\ Signature[col][j].con \in Constructors
             /\ BuiltBy(h, Signature[col][j], ds[1])
    <3>1. PICK d, c : d = ds[1] /\ c = col
      OBVIOUS
    <3> QED BY <1>1, <2>1, <3>1, ValueIs
  <2>3. /\ 1 \in 1 .. Len(xs) /\ Matches(r[1], h) /\ Matches(row[1], h)
        /\ r[1] \in Patterns /\ row[1] \in Patterns
    <3>1. 1 \in 1 .. Len(xs)
      BY <2>1
    <3> QED BY <1>7, <1>8, <2>1, <3>1, ProblemIs DEF MatchesAll
  <2>4. row[1] = Wild \/ row[1].con = h.con
    BY <2>1, <2>3, MatchesCon
  <2>5. FitsRow(row, x.cols, ds) /\ (row[1] # Wild => row[1].con \in Constructors)
    <3>1. PICK cols, ro : cols = x.cols /\ ro = row
      OBVIOUS
    <3>2. FitsRow(ro, cols, ds) /\ Depths(ds, cols) /\ cols # <<>>
      BY <1>1, <1>2, <3>1
    <3> QED BY <3>1, <3>2, FirstOfRow
  <2>6. /\ Suits(xs, v, ds[1]) /\ row[1].con \in {"_", v.con}
        /\ v # Anything => r[1] # Wild
    <3>1. CASE v # Anything
      <4>1. v.con \in Constructors /\ r[1].con = v.con /\ r[1] # Wild
        <5>1. v.con \in Constructors
          BY <1>1, <1>3, <3>1, SignatureIs
        <5>2. r[1].con = v.con
          BY <1>7, <3>1 DEF Rebuilds
        <5> QED BY <5>1, <5>2, WildIs
      <4>2. h.con = v.con
        BY <2>1, <2>3, <4>1, MatchesCon
      <4>3. PICK j \in PossibleVariants(col) : j \in Variants(col) /\ BuiltBy(h, Signature[col][j], ds[1]) /\ ds[1] # 0
        BY <2>2, <4>1, <4>2
      <4>4. j = i /\ v = Signature[col][i]
        <5>1. Signature[col][j].con = Signature[col][i].con
          BY <1>3, <3>1, <4>2, <4>3 DEF BuiltBy
        <5>2. Naming(col, Signature[col][i].con) = {i} /\ Naming(col, Signature[col][j].con) = {j}
          BY <1>1, <1>3, <3>1, <4>3, NamingIs
        <5> QED BY <1>3, <3>1, <5>1, <5>2
      <4>5. row[1].con \in {"_", v.con}
        BY <2>4, <4>2, WildIs
      <4> QED BY <3>1, <4>1, <4>3, <4>4, <4>5 DEF Suits
    <3>2. CASE v = Anything
      <4>1. r[1] = Missing(x)
        BY <1>7, <3>2 DEF Rebuilds
      <4>2. \/ PossibleVariants(col) = {}
            \/ \E j \in PossibleVariants(col) : Signature[col][j].con \notin Rooted(x)
        <5>1. i \notin Variants(col)
          BY <1>1, <3>2, HeadAtIs
        <5> QED BY <5>1, HeadsAre DEF PossibleVariants
      <4>3. row[1] = Wild
        <5> SUFFICES ASSUME row[1] # Wild PROVE FALSE
          OBVIOUS
        <5>1. row[1].con = h.con /\ h.con \in Constructors
          BY <2>4, <2>5
        <5>2. h.con \in Rooted(x)
          <6>1. h.con # "_"
            BY <5>1, NamesFree
          <6> QED BY <1>1, <5>1, <6>1 DEF Rooted
        <5>3. PICK j \in PossibleVariants(col) :
                /\ Signature[col][j].con \notin Rooted(x)
                /\ Missing(x) = [con |-> Signature[col][j].con,
                                 args |-> Wilds(Len(Signature[col][j].fields))]
          BY <2>2, <4>2, <5>1, MissingIs
        <5>4. r[1].con = Signature[col][j].con /\ Signature[col][j].con \in Constructors
          <6>1. j \in Variants(col)
            BY DEF PossibleVariants
          <6>2. Missing(x).con = Signature[col][j].con
            BY <5>3
          <6> QED BY <1>1, <4>1, <6>1, <6>2, SignatureIs
        <5>5. r[1] # Wild
          BY <5>4, WildIs
        <5>6. r[1].con = h.con
          BY <2>1, <2>3, <5>5, MatchesCon
        <5> QED BY <5>2, <5>3, <5>4, <5>6
      <4>4. row[1].con = "_"
        BY <4>3, WildIs, Zenon
      <4> QED BY <3>2, <4>4 DEF Suits
    <3> QED BY <3>1, <3>2
  <2>7. Vector(z, y.cols, e)
    <3>1. PICK cols : cols = x.cols
      OBVIOUS
    <3> QED BY <1>1, <1>2, <1>3, <1>4, <1>5, <1>8, <2>6, <3>1, VectorBelow DEF Suits
  <2>8. MatchesAll(Expand(row, v), z)
    <3>1. PICK cols, ro : cols = x.cols /\ ro = row
      OBVIOUS
    <3>2. cols # <<>> /\ Depths(ds, cols) /\ FitsRow(ro, cols, ds) /\ Vector(xs, cols, ds)
          /\ v = HeadAt(cols[1], i) /\ Suits(xs, v, ds[1]) /\ ro[1].con \in {"_", v.con}
      BY <1>1, <1>2, <1>8, <2>5, <2>6, <3>1
    <3>3. MatchesAll(ro, xs) <=> MatchesAll(Expand(ro, v), Expand(xs, v))
      BY <3>2, RowExpanding
    <3> QED BY <1>8, <3>1, <3>3
  <2>9. Expand(row, v) \in y.rows
    BY <1>1, <1>5, <2>6 DEF RowsFor
  <2>10. MatchesAll(w, z)
    <3>1. PICK m \in Nat, n \in Nat : Len(v.fields) = m /\ Len(x.cols) = n + 1 /\ Len(x.cols) - 1 = n
      <4>1. PICK l \in Nat : l = Len(x.cols) /\ l # 0
        BY <2>1
      <4>2. l - 1 \in Nat /\ l = (l - 1) + 1
        BY <4>1
      <4>3. Len(v.fields) \in Nat
        BY <1>3
      <4> QED BY <4>1, <4>2, <4>3
    <3>2. z \in Seq(Patterns) /\ Expands(xs, v, z)
      BY <1>3, <2>1, ExpandIs, Zenon
    <3> HIDE DEF z
    <3>3. ASSUME NEW k \in 1 .. m PROVE Matches(w[k], z[k])
      <4>1. v # Anything
        <5>1. Anything.fields = <<>>
          BY DEF Anything
        <5> QED BY <3>1, <5>1
      <4>2. DOMAIN r[1].args = 1 .. m /\ r[1].args[k] = w[k]
        BY <1>7, <3>1, <4>1 DEF Rebuilds
      <4>3. k \in DOMAIN h.args /\ Matches(w[k], h.args[k])
        BY <2>1, <2>3, <2>6, <4>1, <4>2, MatchesCon
      <4>4. z[k] = h.args[k]
        BY <3>1, <3>2, <4>3 DEF Expands
      <4> QED BY <4>3, <4>4
    <3>4. ASSUME NEW j \in 1 .. n PROVE Matches(w[m + j], z[m + j])
      <4>1. z[m + j] = xs[j + 1]
        BY <2>1, <3>1, <3>2 DEF Expands
      <4>2. w[m + j] = r[j + 1]
        BY <1>7, <3>1 DEF Rebuilds
      <4>3. j + 1 \in 1 .. Len(xs)
        BY <2>1, <3>1
      <4> QED BY <1>8, <4>1, <4>2, <4>3 DEF MatchesAll
    <3>5. ASSUME NEW k \in 1 .. Len(z) PROVE Matches(w[k], z[k])
      <4>1. k \in 1 .. m + n
        BY <2>1, <3>1, <3>2 DEF Expands
      <4>2. k \in 1 .. m \/ \E j \in 1 .. n : k = m + j
        BY <4>1, EitherPart
      <4> QED BY <3>3, <3>4, <4>2
    <3> QED BY <3>5 DEF MatchesAll
  <2> QED BY <1>6, <2>7, <2>8, <2>9, <2>10
<1>9. Witnesses(x, ds, r)
  BY <1>7, <1>8 DEF Witnesses
<1> QED BY <1>4, <1>9

-----------------------------------------------------------------------------
(* What a search that ends within the budget has shown.                    *)

Says(s, r, ds) ==
  /\ r.useful => Witnesses(s.problem, ds, r.witness)
  /\ ~r.useful /\ r.steps <= Budget =>
       \A i \in s.heads : Covered(Specialize(s.problem, HeadAt(s.problem.cols[1], i)),
                                  DepthsBelow(ds, HeadAt(s.problem.cols[1], i)))

\* The same of the problem below.
SaysBelow(y, a, e) ==
  /\ a.useful => Witnesses(y, e, a.witness)
  /\ ~a.useful /\ a.steps <= Budget => Covered(y, e)

\* If the search below says what it should, so does the answer of the first head.
LEMMA AnswerSays ==
  ASSUME NEW s \in Searches, s.heads # {}, s.calls <= Budget,
         NEW e, Inside(Below(s), e),
         Below(s).cols # <<>> => Says(Deeper(s), UsefulFor[Deeper(s)], e)
  PROVE  SaysBelow(Below(s), Answer(UsefulFor, s), e)
<1>1. PICK y, a : y = Below(s) /\ a = Answer(UsefulFor, s)
  OBVIOUS
<1>2. CASE y.cols # <<>>
  <2>1. a = UsefulFor[Deeper(s)]
    BY <1>1, <1>2 DEF Answer
  <2>2. Deeper(s).problem = y /\ Deeper(s).heads = Heads(y) /\ y \in Problems
    BY <1>1, <1>2, DeeperIs
  <2>3. Says(Deeper(s), a, e)
    BY <1>1, <1>2, <2>1
  <2>4. /\ a.useful => Witnesses(y, e, a.witness)
        /\ ~a.useful /\ a.steps <= Budget =>
             \A i \in Heads(y) : Covered(Specialize(y, HeadAt(y.cols[1], i)), DepthsBelow(e, HeadAt(y.cols[1], i)))
    BY <2>2, <2>3 DEF Says
  <2>5. Inside(y, e)
    BY <1>1
  <2>6. ~a.useful /\ a.steps <= Budget => Covered(y, e)
    BY <2>2, <2>4, <2>5, CoveredByHeads
  <2> QED BY <1>1, <2>4, <2>6 DEF SaysBelow
<1>3. CASE y.cols = <<>>
  <2>1. Len(y.cols) = 0 /\ y.cols = <<>>
    BY <1>3
  <2>2. PICK n : n = s.calls + 1
    OBVIOUS
  <2>3. a = IF y.rows = {} /\ s.calls < Budget THEN Found(<<>>, n) ELSE NotFound(n)
    BY <1>1, <1>3, <2>2 DEF Answer
  <2>4. CASE y.rows = {} /\ s.calls < Budget
    <3>1. a = [useful |-> TRUE, witness |-> <<>>, steps |-> n]
      BY <2>3, <2>4 DEF Found
    <3>2. a.useful = TRUE /\ a.witness = <<>>
      BY <3>1
    <3>3. <<>> \in Seq(Patterns) /\ Len(<<>>) = Len(y.cols)
      BY <2>1
    <3>4. Witnesses(y, e, <<>>)
      BY <2>1, <2>4, <3>3 DEF Witnesses
    <3> QED BY <1>1, <3>2, <3>4 DEF SaysBelow
  <2>5. CASE ~(y.rows = {} /\ s.calls < Budget)
    <3>1. a = [useful |-> FALSE, witness |-> <<>>, steps |-> n]
      BY <2>3, <2>5 DEF NotFound
    <3>2. a.useful = FALSE /\ a.steps = n
      BY <3>1
    <3>3. n <= Budget => y.rows # {}
      BY <2>2, <2>5, SearchIs, BoundsTyped
    <3>4. ASSUME y.rows # {} PROVE Covered(y, e)
      <4>1. PICK row \in y.rows : TRUE
        BY <3>4
      <4>2. ASSUME NEW xs, Vector(xs, y.cols, e) PROVE MatchesAll(row, xs)
        BY <2>1, <4>2 DEF Vector, MatchesAll
      <4> QED BY <4>1, <4>2 DEF Covered
    <3> QED BY <1>1, <3>2, <3>3, <3>4 DEF SaysBelow
  <2> QED BY <2>4, <2>5
<1> QED BY <1>2, <1>3

\* By induction on the calls that are left.
LEMMA SearchSays ==
  \A s \in Searches : \A ds :
    Inside(s.problem, ds) /\ s.heads \subseteq Heads(s.problem) => Says(s, UsefulFor[s], ds)
<1> DEFINE Good == {s \in Searches :
                      \A ds : Inside(s.problem, ds) /\ s.heads \subseteq Heads(s.problem)
                                => Says(s, UsefulFor[s], ds)}
<1>1. ASSUME NEW s \in Searches, \A t \in Searches : Left[t] < Left[s] => t \in Good,
             NEW ds, Inside(s.problem, ds), s.heads \subseteq Heads(s.problem)
      PROVE  Says(s, UsefulFor[s], ds)
  <2>1. /\ s.problem \in Problems /\ s.calls \in Nat /\ Budget \in Nat
        /\ s.heads \in SUBSET Nat
    BY SearchIs, BoundsTyped
  <2>2. UsefulFor[s] = SearchOf(UsefulFor, s) /\ \A t \in Searches : UsefulFor[t] \in ResultsOf(t)
    BY UsefulForUnfolds
  <2>3. CASE s.heads = {} \/ s.calls > Budget
    <3>1. UsefulFor[s] = [useful |-> FALSE, witness |-> <<>>, steps |-> s.calls]
      BY <2>2, <2>3 DEF SearchOf, NotFound
    <3>2. UsefulFor[s].useful = FALSE /\ UsefulFor[s].steps = s.calls
      BY <3>1
    <3>3. s.calls <= Budget => s.heads = {}
      BY <2>1, <2>3
    <3> QED BY <3>2, <3>3 DEF Says
  <2>4. CASE ~(s.heads = {} \/ s.calls > Budget)
    <3>1. s.heads # {} /\ s.calls <= Budget
      BY <2>1, <2>4
    <3>2. PICK x, y, v, e, i, a : /\ x = s.problem /\ y = Below(s) /\ v = FirstHead(s) /\ i = Least(s.heads)
                                  /\ e = DepthsBelow(ds, v) /\ a = Answer(UsefulFor, s)
      OBVIOUS
    <3>3. /\ i \in s.heads /\ i \in Heads(x) /\ v = HeadAt(x.cols[1], i)
          /\ y = Specialize(x, v) /\ x \in Problems /\ Inside(x, ds)
      BY <1>1, <2>1, <3>1, <3>2, FirstIs DEF Below
    <3>4. Inside(y, e)
      BY <3>2, <3>3, InsideBelow
    <3>5. y.cols # <<>> => Says(Deeper(s), UsefulFor[Deeper(s)], e)
      <4> SUFFICES ASSUME y.cols # <<>> PROVE Says(Deeper(s), UsefulFor[Deeper(s)], e)
        OBVIOUS
      <4>1. /\ Deeper(s) \in Searches /\ Left[Deeper(s)] < Left[s]
            /\ Deeper(s).problem = y /\ Deeper(s).heads = Heads(y)
        BY <3>1, <3>2, DeeperIs
      <4>2. Deeper(s) \in Good
        BY <1>1, <4>1
      <4> QED BY <3>4, <4>1, <4>2
    <3>6. SaysBelow(y, a, e)
      BY <3>1, <3>2, <3>4, <3>5, AnswerSays
    <3>7. a.useful \in BOOLEAN /\ a.steps \in Nat
      BY <2>2, <3>1, <3>2, AnswerIs
    <3>8. CASE a.useful
      <4>1. PICK w : w = Rebuild(x, v, a.witness)
        OBVIOUS
      <4>2. UsefulFor[s] = [useful |-> TRUE, witness |-> w, steps |-> a.steps]
        BY <2>2, <2>4, <3>2, <3>8, <4>1 DEF SearchOf, Found
      <4>3. UsefulFor[s].useful = TRUE /\ UsefulFor[s].witness = w
        BY <4>2
      <4>4. Witnesses(y, e, a.witness)
        BY <3>6, <3>8 DEF SaysBelow
      <4>5. Witnesses(x, ds, w)
        BY <3>2, <3>3, <4>1, <4>4, WitnessesAbove
      <4> QED BY <3>2, <4>3, <4>5 DEF Says
    <3>9. CASE ~a.useful
      <4>1. PICK t : t = Others(UsefulFor, s)
        OBVIOUS
      <4>2. /\ t \in Searches /\ Left[t] < Left[s]
            /\ t.heads = s.heads \ {i} /\ t.problem = x /\ t.calls = a.steps
        BY <2>2, <3>1, <3>2, <4>1, OthersIs
      <4>3. UsefulFor[s] = UsefulFor[t]
        BY <2>2, <2>4, <3>2, <3>9, <4>1 DEF SearchOf
      <4>4. Says(t, UsefulFor[t], ds)
        <5>1. t \in Good
          BY <1>1, <4>2
        <5>2. Inside(t.problem, ds) /\ t.heads \subseteq Heads(t.problem)
          BY <1>1, <3>2, <3>3, <4>2
        <5> QED BY <5>1, <5>2
      <4>5. PICK r : r = UsefulFor[t]
        OBVIOUS
      <4>6. r.steps \in Nat /\ a.steps <= r.steps /\ r.useful \in BOOLEAN
        BY <2>2, <4>2, <4>5, ResultIs
      <4>7. r.steps <= Budget => a.steps <= Budget
        BY <2>1, <3>7, <4>6
      <4>8. r.useful => Witnesses(x, ds, r.witness)
        BY <4>2, <4>4, <4>5 DEF Says
      <4>9. ASSUME ~r.useful, r.steps <= Budget, NEW j \in s.heads
            PROVE  Covered(Specialize(x, HeadAt(x.cols[1], j)), DepthsBelow(ds, HeadAt(x.cols[1], j)))
        <5>1. CASE j = i
          <6>1. Covered(y, e)
            BY <3>6, <3>9, <4>7, <4>9 DEF SaysBelow
          <6> QED BY <3>2, <3>3, <5>1, <6>1
        <5>2. CASE j # i
          <6>1. j \in t.heads
            BY <4>2, <5>2
          <6> QED BY <4>2, <4>4, <4>5, <4>9, <6>1 DEF Says
        <5> QED BY <5>1, <5>2
      <4> QED BY <3>2, <4>3, <4>5, <4>8, <4>9 DEF Says
    <3> QED BY <3>7, <3>8, <3>9
  <2> QED BY <2>3, <2>4
<1>2. \A s \in Searches : (\A t \in Searches : Left[t] < Left[s] => t \in Good) => s \in Good
  BY <1>1
<1>3. Left \in [Searches -> Nat]
  <2>1. \A s \in Searches : Left[s] \in Nat
    BY SearchIs
  <2>2. Left = [s \in Searches |-> Left[s]]
    BY DEF Left
  <2> QED BY <2>1, <2>2
<1>4. Good \in SUBSET Searches
  OBVIOUS
<1>5. Searches \subseteq Good
  <2> HIDE DEF Good
  <2> QED BY <1>2, <1>3, <1>4, ByRank
<1> QED BY <1>5

-----------------------------------------------------------------------------
(* What a call of Useful says of the values of the scrutinee.              *)

OfArm(p) == Fits(p, Root) /\ p \in Terms[Depth]

RowsOfArms == \A row \in rows : \E q : OfArm(q) /\ row = <<q>>

Answers(p, r) ==
  /\ r.useful \in BOOLEAN /\ r.steps \in Nat /\ r.steps <= Budget + 1
  /\ ~r.useful /\ r.steps <= Budget =>
       \A x \in Values[Depth][Root] : Matches(p, x) => \E q : <<q>> \in rows /\ Matches(q, x)
  /\ r.useful => \A x \in Values[Depth][Root] :
                    Matches(r.witness[1], x) => \A q : <<q>> \in rows => ~Matches(q, x)

\* The pattern of an arm is a row of the matrix.
LEMMA SingleRow ==
  ASSUME NEW p, OfArm(p)
  PROVE  /\ p \in Patterns /\ <<p>> \in Seq(Patterns)
         /\ FitsRow(<<p>>, <<Root>>, <<Depth>>)
<1>1. p \in Patterns
  BY FitsIs, RootIsColumn DEF OfArm
<1>2. <<p>> \in Seq(Patterns) /\ Len(<<p>>) = 1 /\ Len(<<Root>>) = 1
      /\ <<p>>[1] = p /\ <<Root>>[1] = Root /\ <<Depth>>[1] = Depth
  BY <1>1
<1>3. \A k \in 1 .. 1 : k = 1
  OBVIOUS
<1> QED BY <1>1, <1>2, <1>3 DEF FitsRow, OfArm

\* A value of the scrutinee is a vector.
LEMMA SingleVector ==
  ASSUME NEW x \in Values[Depth][Root]
  PROVE  /\ Vector(<<x>>, <<Root>>, <<Depth>>)
         /\ \A row : MatchesAll(row, <<x>>) <=> Matches(row[1], x)
<1>1. x \in Patterns
  <2>1. PICK d \in 0 .. Depth, col \in Columns : d = Depth /\ col = Root
    BY BoundsTyped, RootIsColumn
  <2> QED BY <2>1, ValueIs
<1>2. <<x>> \in Seq(Patterns) /\ Len(<<x>>) = 1 /\ Len(<<Root>>) = 1
      /\ <<x>>[1] = x /\ <<Root>>[1] = Root /\ <<Depth>>[1] = Depth
  BY <1>1
<1>3. \A k : k \in 1 .. 1 <=> k = 1
  OBVIOUS
<1> QED BY <1>2, <1>3 DEF Vector, MatchesAll

\* Useful within its budget says which values of the scrutinee are left over.
THEOREM UsefulSays ==
  ASSUME RowsOfArms, NEW p, OfArm(p), NEW before \in Nat, before <= Budget + 1
  PROVE  Answers(p, Useful(p, before))
<1> DEFINE x == [cols |-> <<Root>>, rows |-> rows, query |-> <<p>>]
           s == Search(Heads(x), x, before + 1)
<1>0. Budget \in Nat
  BY BoundsTyped
<1>1. CASE before > Budget
  <2>1. Useful(p, before) = [useful |-> FALSE, witness |-> <<>>, steps |-> before]
    BY <1>1 DEF Useful, NotFound
  <2>2. PICK r : r = Useful(p, before)
    OBVIOUS
  <2>3. r.useful = FALSE /\ r.steps = before
    BY <2>1, <2>2
  <2>4. ~(r.steps <= Budget)
    BY <1>0, <1>1, <2>3
  <2>5. r.useful \in BOOLEAN /\ ~r.useful
    BY <2>3
  <2>6. Answers(p, r)
    BY <2>3, <2>4, <2>5 DEF Answers
  <2> QED BY <2>2, <2>6
<1>2. CASE ~(before > Budget)
  <2>1. x.cols = <<Root>> /\ x.rows = rows /\ x.query = <<p>>
    OBVIOUS
  <2>2. Root \in Columns /\ <<Root>> \in Seq(Columns) /\ Len(<<Root>>) = 1 /\ <<Root>> # <<>>
    BY RootIsColumn
  <2>3. <<p>> \in Seq(Patterns) /\ Len(<<p>>) = 1 /\ FitsRow(<<p>>, <<Root>>, <<Depth>>)
    BY SingleRow
  <2>4. ASSUME NEW row \in rows
        PROVE  row \in Seq(Patterns) /\ Len(row) = 1 /\ FitsRow(row, <<Root>>, <<Depth>>) /\ row = <<row[1]>>
    <3>1. PICK q : OfArm(q) /\ row = <<q>>
      BY <2>4 DEF RowsOfArms
    <3>2. <<q>> \in Seq(Patterns) /\ FitsRow(<<q>>, <<Root>>, <<Depth>>) /\ Len(<<q>>) = 1 /\ <<q>>[1] = q
      BY <3>1, SingleRow
    <3> QED BY <3>1, <3>2
  <2>5. x \in Matrices
    <3>1. rows \in SUBSET Seq(Patterns)
      BY <2>4
    <3>2. x \in [cols : Seq(Columns), rows : SUBSET Seq(Patterns), query : Seq(Patterns)]
      BY <2>2, <2>3, <3>1
    <3> HIDE DEF x
    <3> QED BY <2>1, <2>2, <2>3, <2>4, <3>2 DEF Matrices
  <2> HIDE DEF x
  <2>6. x \in Problems
    BY <2>1, <2>2, <2>5, ProblemsAre
  <2>7. Inside(x, <<Depth>>)
    <3>1. Depths(<<Depth>>, <<Root>>)
      <4>1. Depth \in 0 .. Depth
        BY BoundsTyped
      <4>2. PICK D : D = 0 .. Depth
        OBVIOUS
      <4>3. <<Depth>> \in Seq(D) /\ Len(<<Depth>>) = 1
        BY <4>1, <4>2
      <4> QED BY <2>2, <4>2, <4>3 DEF Depths
    <3> QED BY <2>1, <2>3, <2>4, <2>5, <3>1 DEF Inside
  <2>8. /\ s \in Searches /\ s.heads = Heads(x) /\ s.problem = x /\ s.calls = before + 1
    <3>1. Heads(x) \in SUBSET Nat
      BY <2>6, HeadsTyped
    <3>2. before + 1 \in Nat /\ before + 1 <= Budget + 1
      BY <1>0, <1>2
    <3> QED BY <2>6, <3>1, <3>2, SearchMade
  <2>9. PICK r : r = UsefulFor[s]
    OBVIOUS
  <2>10. Useful(p, before) = r
    BY <1>2, <2>9 DEF Useful, x
  <2>11. r.useful \in BOOLEAN /\ r.steps \in Nat /\ r.steps <= Budget + 1
    <3>1. r \in ResultsOf(s)
      BY <2>8, <2>9, UsefulForUnfolds
    <3> HIDE DEF s
    <3> QED BY <2>8, <3>1, ResultIs
  <2>12. Says(s, r, <<Depth>>)
    <3> HIDE DEF s
    <3> QED BY <2>7, <2>8, <2>9, SearchSays
  <2>13. ASSUME ~r.useful, r.steps <= Budget, NEW y \in Values[Depth][Root], Matches(p, y)
         PROVE  \E q : <<q>> \in rows /\ Matches(q, y)
    <3>1. \A i \in Heads(x) : Covered(Specialize(x, HeadAt(x.cols[1], i)), DepthsBelow(<<Depth>>, HeadAt(x.cols[1], i)))
      <4> HIDE DEF s
      <4> QED BY <2>8, <2>12, <2>13 DEF Says
    <3>2. Covered(x, <<Depth>>)
      <4>1. PICK ds : ds = <<Depth>>
        OBVIOUS
      <4> QED BY <2>6, <2>7, <3>1, <4>1, CoveredByHeads
    <3>3. Vector(<<y>>, <<Root>>, <<Depth>>) /\ \A row : MatchesAll(row, <<y>>) <=> Matches(row[1], y)
      BY SingleVector
    <3>4. MatchesAll(<<p>>, <<y>>)
      <4>1. <<p>>[1] = p
        OBVIOUS
      <4> QED BY <2>13, <3>3, <4>1
    <3>5. PICK row \in rows : MatchesAll(row, <<y>>)
      BY <2>1, <3>2, <3>3, <3>4 DEF Covered
    <3> QED BY <2>4, <3>3, <3>5
  <2>14. ASSUME r.useful, NEW y \in Values[Depth][Root], Matches(r.witness[1], y), NEW q, <<q>> \in rows
         PROVE  ~Matches(q, y)
    <3>1. Witnesses(x, <<Depth>>, r.witness)
      <4> HIDE DEF s
      <4> QED BY <2>8, <2>12, <2>14 DEF Says
    <3>2. Vector(<<y>>, <<Root>>, <<Depth>>) /\ \A row : MatchesAll(row, <<y>>) <=> Matches(row[1], y)
      BY SingleVector
    <3>3. ~MatchesAll(<<q>>, <<y>>)
      BY <2>1, <2>14, <3>1, <3>2 DEF Witnesses
    <3>4. <<q>>[1] = q
      OBVIOUS
    <3> QED BY <3>2, <3>3, <3>4
  <2>15. Answers(p, r)
    BY <2>11, <2>13, <2>14 DEF Answers
  <2> QED BY <2>10, <2>15
<1> QED BY <1>1, <1>2


-----------------------------------------------------------------------------
(* The arms that are kept.                                                 *)

ArmPatterns == {p \in Patterns : OfArm(p)}

Flat(p) == ~PatNested(p)

Kept ==
  {a \in [pats : Seq(ArmPatterns), guard : BOOLEAN, clause : Nat] :
     /\ a.pats # <<>>
     /\ Len(a.pats) > 1 => a.guard = FALSE /\ \A j \in DOMAIN a.pats : Flat(a.pats[j])}

\* What is kept of an arm.
LEMMA KeptIs ==
  ASSUME NEW a \in Kept
  PROVE  /\ Len(a.pats) \in Nat /\ Len(a.pats) >= 1 /\ DOMAIN a.pats = 1 .. Len(a.pats)
         /\ a.guard \in BOOLEAN
         /\ \A j \in DOMAIN a.pats : OfArm(a.pats[j]) /\ a.pats[j] \in Patterns
         /\ Len(a.pats) > 1 => ~a.guard /\ \A j \in DOMAIN a.pats : Flat(a.pats[j])
<1>1. a \in [pats : Seq(ArmPatterns), guard : BOOLEAN, clause : Nat] /\ a.pats # <<>>
      /\ (Len(a.pats) > 1 => a.guard = FALSE /\ \A j \in DOMAIN a.pats : Flat(a.pats[j]))
  BY DEF Kept
<1>2. a.pats \in Seq(ArmPatterns) /\ a.guard \in BOOLEAN
  BY <1>1
<1>3. Len(a.pats) \in Nat /\ Len(a.pats) >= 1 /\ DOMAIN a.pats = 1 .. Len(a.pats)
  BY <1>1, <1>2
<1>4. \A j \in DOMAIN a.pats : a.pats[j] \in ArmPatterns
  BY <1>2
<1> QED BY <1>1, <1>2, <1>3, <1>4 DEF ArmPatterns

\* normPat leaves `_` alone.
LEMMA NormOfWild == \A col \in Columns : Norm[Wild][col] = Wild
<1> TAKE col \in Columns
<1>1. ~IsVariant(col, Wild.con)
  BY WildIs, VariantTyped
<1>2. Norm[Wild] = NormOf(Norm, Wild)
  BY PatternsWild, NormUnfolds
<1> QED BY <1>1, <1>2 DEF NormOf

\* What normPat makes of a pattern of an arm.
LEMMA NormFits ==
  ASSUME NEW p \in Terms[Depth], Root \in Resolving[p]
  PROVE  /\ OfArm(Norm[p][Root])
         /\ FlatWildOnly(p) => Flat(Norm[p][Root])
<1>1. p \in Patterns
  BY TermsGrow, BoundsTyped DEF Patterns
<1>2. Norm[p] \in [Columns -> Terms[Rank[p]]] /\ Norm[p] = NormOf(Norm, p)
  BY <1>1, NormUnfolds
<1>3. Rank[p] \in Nat /\ Rank[p] <= Depth
  BY <1>1, RankIs, BoundsTyped
<1>4. Norm[p][Root] \in Terms[Depth]
  <2>1. Terms[Rank[p]] \subseteq Terms[Depth]
    BY <1>3, BoundsTyped, TermsGrow
  <2> QED BY <1>2, <2>1, RootIsColumn
<1>5. OfArm(Norm[p][Root])
  BY <1>1, <1>4 DEF OfArm, Fits
<1>6. ASSUME FlatWildOnly(p) PROVE Flat(Norm[p][Root])
  <2>1. CASE ~IsVariant(Root, p.con)
    <3>1. Norm[p][Root] = Wild
      BY <1>2, <2>1, RootIsColumn DEF NormOf
    <3>2. Norm[p][Root].args = <<>>
      BY <3>1, WildIs, Zenon
    <3> QED BY <3>2 DEF Flat, PatNested
  <2>2. CASE IsVariant(Root, p.con)
    <3> DEFINE fields == VariantOf(Root, p.con).fields
    <3>1. Norm[p][Root] = [con |-> p.con,
                           args |-> [i \in DOMAIN p.args \cap DOMAIN fields |-> Norm[p.args[i]][fields[i]]]]
      BY <1>2, <2>2, RootIsColumn DEF NormOf
    <3>2. fields \in Seq(Columns)
      BY <2>2, VariantTyped, RootIsColumn
    <3> HIDE DEF fields
    <3>3. ASSUME NEW i \in DOMAIN Norm[p][Root].args PROVE Norm[p][Root].args[i] = Wild
      <4>1. i \in DOMAIN p.args /\ i \in DOMAIN fields
            /\ Norm[p][Root].args[i] = Norm[p.args[i]][fields[i]]
        BY <3>1, <3>3
      <4>2. p.args[i] = Wild /\ fields[i] \in Columns
        BY <1>6, <3>2, <4>1 DEF FlatWildOnly
      <4> QED BY <4>1, <4>2, NormOfWild
    <3> QED BY <3>3 DEF Flat, PatNested
  <2> QED BY <2>1, <2>2
<1> QED BY <1>5, <1>6

\* What the parser sees to.
LEMMA RawIs ==
  ASSUME NEW raw \in RawArms
  PROVE  /\ raw.pats \in Seq(Terms[Depth]) /\ raw.pats # <<>> /\ raw.guard \in BOOLEAN
         /\ raw.pats[1] = Wild => Len(raw.pats) = 1
<1>1. raw \in Arms /\ raw.pats # <<>> /\ (raw.pats[1] = Wild => Len(raw.pats) = 1)
  BY MatchAssumption
<1>2. raw.pats \in Seq(Terms[Depth]) /\ raw.guard \in BOOLEAN
  BY <1>1 DEF Arms
<1> QED BY <1>1, <1>2

\* An arm that is kept has resolved, and alternatives have neither a guard nor patterns inside.
LEMMA AnalysisKept ==
  ASSUME NEW raw \in RawArms, ~raw.impossible, ~Rejected(raw), Len(clauses) \in Nat
  PROVE  Analysis(raw) \in Kept
<1> DEFINE n == Len(raw.pats)
           pats == [i \in DOMAIN raw.pats |-> Norm[raw.pats[i]][Root]]
<1>1. raw.pats \in Seq(Terms[Depth]) /\ raw.pats # <<>> /\ raw.guard \in BOOLEAN
      /\ (raw.pats[1] = Wild => n = 1)
  BY RawIs
<1>2. n \in Nat /\ n # 0 /\ DOMAIN raw.pats = 1 .. n /\ \A i \in 1 .. n : raw.pats[i] \in Terms[Depth]
  BY <1>1
<1>3. ASSUME NEW i \in 1 .. n
      PROVE  Root \in Resolving[raw.pats[i]] /\ (n > 1 => ~raw.guard /\ FlatWildOnly(raw.pats[i]))
  <2>1. CASE raw.pats[1] = Wild
    <3>0. n = 1
      BY <1>1, <2>1, Zenon
    <3> HIDE DEF n
    <3>1. i = 1 /\ raw.pats[i] = Wild /\ ~(n > 1)
      BY <2>1, <3>0
    <3>2. Root \in Resolving[Wild]
      BY PatternsWild, ResolvingUnfolds, RootIsColumn
    <3> QED BY <3>1, <3>2
  <2>2. CASE raw.pats[1] # Wild
    <3>1. Resolves(raw.pats[i]) /\ ~(n > 1 /\ (raw.guard \/ raw.bind))
          /\ ~(n > 1 /\ ~FlatWildOnly(raw.pats[i]))
      BY <1>2, <2>2 DEF Rejected
    <3> QED BY <3>1 DEF Resolves
  <2> QED BY <2>1, <2>2
<1>4. \A i \in 1 .. n : pats[i] = Norm[raw.pats[i]][Root]
  BY <1>2
<1>5. DOMAIN pats = 1 .. n
  BY <1>2
<1> HIDE DEF n
<1>6. ASSUME NEW i \in 1 .. n PROVE pats[i] \in ArmPatterns /\ (n > 1 => Flat(pats[i]))
  <2>1. raw.pats[i] \in Terms[Depth] /\ Root \in Resolving[raw.pats[i]]
    BY <1>2, <1>3
  <2>2. OfArm(pats[i]) /\ (FlatWildOnly(raw.pats[i]) => Flat(pats[i]))
    BY <1>4, <2>1, NormFits
  <2>3. pats[i] \in Patterns
    BY <2>2, SingleRow
  <2> QED BY <1>3, <2>2, <2>3 DEF ArmPatterns
<1>7. pats \in Seq(ArmPatterns) /\ Len(pats) = n /\ pats # <<>>
  <2>1. pats = [i \in 1 .. n |-> pats[i]]
    BY <1>2
  <2> HIDE DEF pats
  <2>2. pats \in [1 .. n -> ArmPatterns]
    BY <1>6, <2>1
  <2> QED BY <1>2, <2>2
<1>8. Analysis(raw) = [pats |-> pats, guard |-> raw.guard, clause |-> Len(clauses) + 1]
  BY DEF Analysis
<1> HIDE DEF pats
<1>9. PICK a : a = Analysis(raw)
  OBVIOUS
<1>10. a.pats = pats /\ a.guard = raw.guard
  BY <1>8, <1>9
<1>11. a \in [pats : Seq(ArmPatterns), guard : BOOLEAN, clause : Nat]
  BY <1>1, <1>7, <1>8, <1>9
<1>12. n > 1 => raw.guard = FALSE
  BY <1>1, <1>2, <1>3
<1>13. a \in Kept
  BY <1>5, <1>6, <1>7, <1>10, <1>11, <1>12 DEF Kept
<1> QED BY <1>9, <1>13

-----------------------------------------------------------------------------
(* The invariant.                                                          *)

MatchTypes ==
  /\ phase \in {"arms", "rows", "emit", "rejected", "ready", "running", "over"}
  /\ clauses \in Seq(RawArms) /\ arms \in Seq(Kept)
  /\ at \in (Nat \ {0}) \X (Nat \ {0})
  /\ steps \in Nat /\ steps <= Budget + 1
  /\ next \in Nat \ {0}

Ahead(k, l) == k < at[1] \/ (k = at[1] /\ l < at[2])

\* Where the analysis is, and that its rows are the alternatives above without a guard.
RowsAreArms ==
  /\ phase = "arms" => at = <<1, 1>>
  /\ at[1] <= Len(arms) => at[2] <= Len(arms[at[1]].pats)
  /\ \A row \in rows :
       \E k \in DOMAIN arms : \E l \in DOMAIN arms[k].pats :
         Ahead(k, l) /\ ~arms[k].guard /\ row = <<arms[k].pats[l]>>
  /\ \A k \in DOMAIN arms : \A l \in DOMAIN arms[k].pats :
       Ahead(k, l) /\ ~arms[k].guard => <<arms[k].pats[l]>> \in rows

Hits(k, x) == \E l \in DOMAIN arms[k].pats : Matches(arms[k].pats[l], x)

\* Once the match is accepted, every value is matched by an arm without a guard.
Exhaustive ==
  phase \in {"emit", "ready", "running", "over"} =>
    \A x \in Values[Depth][Root] : \E k \in DOMAIN arms : ~arms[k].guard /\ Hits(k, x)

\* A chain has no alternatives, a switch neither guards nor patterns inside.
LoweredAsFits ==
  phase \in {"ready", "running", "over"} =>
    \/ lowering = "chain" /\ \A k \in DOMAIN arms : Len(arms[k].pats) = 1
    \/ lowering = "switch" /\ \A k \in DOMAIN arms : ~arms[k].guard /\ Flat(arms[k].pats[1])

Passed ==
  /\ phase \in {"arms", "rows", "emit", "ready"} => next = 1
  /\ phase \in {"running", "over"} =>
       /\ value \in Scrutinees
       /\ \A k \in DOMAIN arms : k < next => arms[k].guard \/ ~Hits(k, value)

\* The analysis of the arms reports nothing of what values they match.
ErrorsGrounded ==
  /\ phase = "arms" => \A e \in errors : e.kind \in {"arm", "order"}
  /\ \A e \in errors : GroundsOf(e)

MatchInv ==
  MatchTypes /\ RowsAreArms /\ Exhaustive /\ LoweredAsFits /\ Passed /\ RunsFirstArm /\ ErrorsGrounded

\* The first alternative of an arm is covered by the arms above it.
LEMMA CoveredAboveIs ==
  \A x : \A k : CoveredAbove(x, k, 1) <=> \E j \in 1 .. k - 1 : ~arms[j].guard /\ Hits(j, x)
<1>1. 1 .. 1 - 1 = {}
  OBVIOUS
<1> QED BY <1>1 DEF CoveredAbove, Hits

\* The arms, and the alternative that is looked at.
LEMMA ArmsAre ==
  ASSUME MatchTypes
  PROVE  /\ Len(arms) \in Nat /\ DOMAIN arms = 1 .. Len(arms)
         /\ \A k \in DOMAIN arms : arms[k] \in Kept
         /\ at[1] \in Nat /\ at[1] # 0 /\ at[2] \in Nat /\ at[2] # 0 /\ at = <<at[1], at[2]>>
BY DEF MatchTypes

\* What the tests of the emitted Go find is what the patterns match.
LEMMA TestsAreMatches ==
  ASSUME MatchTypes, LoweredAsFits, phase = "running", NEW x \in Scrutinees, NEW k \in DOMAIN arms
  PROVE  Tests(arms[k], x) <=> Hits(k, x)
<1> DEFINE a == arms[k]
<1>1. a \in Kept
  BY ArmsAre
<1>2. /\ Len(a.pats) \in Nat /\ Len(a.pats) >= 1 /\ DOMAIN a.pats = 1 .. Len(a.pats)
      /\ a.guard \in BOOLEAN
      /\ \A j \in DOMAIN a.pats : OfArm(a.pats[j]) /\ a.pats[j] \in Patterns
      /\ Len(a.pats) > 1 => ~a.guard /\ \A j \in DOMAIN a.pats : Flat(a.pats[j])
  BY <1>1, KeptIs
<1>3. CASE lowering = "chain"
  <2>1. Len(a.pats) = 1
    BY <1>3 DEF LoweredAsFits
  <2>2. \A j : j \in DOMAIN a.pats <=> j = 1
    BY <1>2, <2>1
  <2> QED BY <1>3, <2>2 DEF Tests, Hits
<1>4. CASE lowering # "chain"
  <2>1. Flat(a.pats[1])
    BY <1>4 DEF LoweredAsFits
  <2>2. ASSUME NEW j \in DOMAIN a.pats PROVE a.pats[j].con \in {"_", x.con} <=> Matches(a.pats[j], x)
    <3>1. PICK p : p = a.pats[j]
      OBVIOUS
    <3>2. Flat(p) /\ OfArm(p) /\ p \in Patterns
      <4>1. CASE Len(a.pats) > 1
        BY <1>2, <2>2, <3>1, <4>1
      <4>2. CASE ~(Len(a.pats) > 1)
        <5>1. j = 1
          BY <1>2, <4>2
        <5> QED BY <1>2, <2>1, <3>1, <5>1
      <4> QED BY <4>1, <4>2
    <3>3. FitsAs(p, Root)
      BY <3>2, FitsIs, RootIsColumn DEF OfArm
    <3>4. x \in Patterns /\ x.con # "_"
          /\ (x.con \in Constructors => /\ IsVariant(Root, x.con)
                                        /\ DOMAIN x.args = 1 .. Len(Fields(Root, x.con))
                                        /\ \A i \in DOMAIN x.args : x.args[i] \in Patterns)
      <4>1. CASE x = Nil
        <5>1. x.con = "nil" /\ x = [con |-> "nil", args |-> <<>>]
          BY <4>1 DEF Nil
        <5>2. "nil" \in STRING \ Constructors
          BY NamesFree
        <5>3. Depth + 1 \in Nat
          BY BoundsTyped
        <5>4. [con |-> "nil", args |-> <<>>] \in Terms[Depth + 1]
          BY <5>2, <5>3, LeafMade
        <5> QED BY <5>1, <5>2, <5>4 DEF Patterns
      <4>2. CASE x \in Values[Depth][Root]
        <5>1. PICK d \in 0 .. Depth, col \in Columns : d = Depth /\ col = Root
          BY BoundsTyped, RootIsColumn
        <5>2. /\ x \in Patterns /\ d # 0 /\ col # Opaque
              /\ \/ x.con \notin Constructors /\ (col = Opaque \/ d = 0)
                 \/ d # 0 /\ \E i \in PossibleVariants(col) :
                      /\ i \in Variants(col) /\ Signature[col][i].fields \in Seq(Columns)
                      /\ Signature[col][i].con \in Constructors
                      /\ BuiltBy(x, Signature[col][i], d)
          BY <4>2, <5>1, ValueIs, BoundsTyped, RootIsColumn
        <5>3. PICK i \in Variants(col) : Signature[col][i].con \in Constructors /\ BuiltBy(x, Signature[col][i], d)
          BY <5>2
        <5>4. /\ x.con = Signature[col][i].con /\ x.con \in Constructors
              /\ DOMAIN x.args = 1 .. Len(Signature[col][i].fields)
          BY <5>3 DEF BuiltBy
        <5>5. IsVariant(col, x.con) /\ Fields(col, x.con) = Signature[col][i].fields
          BY <5>4, NamingIs DEF Fields
        <5>6. x.con # "_"
          BY <5>4, NamesFree
        <5>7. \A m \in DOMAIN x.args : x.args[m] \in Patterns
          BY <5>2, PartsAreLess
        <5> QED BY <5>1, <5>2, <5>4, <5>5, <5>6, <5>7
      <4> QED BY <4>1, <4>2 DEF Scrutinees
    <3>5. CASE p = Wild
      <4>1. p.con = "_"
        BY <3>5, WildIs, Zenon
      <4> QED BY <3>1, <3>4, <3>5, <4>1, MatchesWild
    <3>6. CASE p # Wild
      <4>1. p.con \in Constructors /\ DOMAIN p.args = 1 .. Len(Fields(Root, p.con))
        BY <3>3, <3>6 DEF FitsAs
      <4>2. p.con # "_"
        BY <4>1, NamesFree
      <4>3. Matches(p, x) <=> /\ p.con = x.con
                              /\ \A i \in DOMAIN p.args : i \in DOMAIN x.args /\ Matches(p.args[i], x.args[i])
        BY <3>2, <3>4, <3>6, MatchesCon
      <4>4. ASSUME p.con = x.con, NEW i \in DOMAIN p.args
            PROVE  i \in DOMAIN x.args /\ Matches(p.args[i], x.args[i])
        <5>1. i \in DOMAIN x.args /\ x.args[i] \in Patterns
          BY <3>4, <4>1, <4>4
        <5>2. p.args[i] = Wild
          BY <3>2 DEF Flat, PatNested
        <5> QED BY <5>1, <5>2, MatchesWild
      <4> QED BY <3>1, <4>2, <4>3, <4>4
    <3> QED BY <3>5, <3>6
  <2> QED BY <1>4, <2>2 DEF Tests, Hits
<1> QED BY <1>3, <1>4


-----------------------------------------------------------------------------
(* Each step keeps the invariant.                                          *)

\* At first there is neither an arm nor a row.
LEMMA MatchInitInv == MatchInit => MatchInv
<1> SUFFICES ASSUME MatchInit PROVE MatchInv
  OBVIOUS
<1>1. /\ phase = "arms" /\ clauses = <<>> /\ arms = <<>> /\ errors = {}
      /\ rows = {} /\ at = <<1, 1>> /\ steps = 0 /\ next = 1
  BY DEF MatchInit
<1>2. MatchTypes
  BY <1>1, BoundsTyped DEF MatchTypes
<1>3. RowsAreArms
  BY <1>1 DEF RowsAreArms
<1>4. Exhaustive /\ LoweredAsFits /\ Passed /\ RunsFirstArm
  BY <1>1 DEF Exhaustive, LoweredAsFits, Passed, RunsFirstArm
<1>5. ErrorsGrounded
  BY <1>1 DEF ErrorsGrounded
<1> QED BY <1>2, <1>3, <1>4, <1>5 DEF MatchInv

\* The arms and the matrix are settled once a match has been accepted.
LEMMA MatrixKept ==
  ASSUME RowsAreArms, UNCHANGED <<arms, rows, at>>, phase' = phase \/ phase' # "arms"
  PROVE  RowsAreArms'
<1>1. \A k, l : Ahead(k, l)' <=> Ahead(k, l)
  BY DEF Ahead
<1>2. phase' = "arms" => at' = <<1, 1>>
  BY DEF RowsAreArms
<1>3. at'[1] <= Len(arms') => at'[2] <= Len(arms'[at'[1]].pats)
  BY DEF RowsAreArms
<1>4. /\ \A row \in rows' :
           \E k \in DOMAIN arms' : \E l \in DOMAIN arms'[k].pats :
             Ahead(k, l)' /\ ~arms'[k].guard /\ row = <<arms'[k].pats[l]>>
      /\ \A k \in DOMAIN arms' : \A l \in DOMAIN arms'[k].pats :
           Ahead(k, l)' /\ ~arms'[k].guard => <<arms'[k].pats[l]>> \in rows'
  BY <1>1 DEF RowsAreArms
<1> QED BY <1>2, <1>3, <1>4 DEF RowsAreArms

\* An arm that is kept has been checked; nothing else changes.
LEMMA ArmKeeps ==
  ASSUME MatchInv, NEW raw \in RawArms, Arm(raw)
  PROVE  MatchInv'
<1>1. MatchTypes /\ RowsAreArms /\ Passed /\ ErrorsGrounded
  BY DEF MatchInv
<1>2. phase = "arms" /\ clauses' = Append(clauses, raw)
      /\ UNCHANGED <<rows, at, steps, next>>
  BY DEF Arm, matrix, execution
<1>3. /\ clauses \in Seq(RawArms) /\ arms \in Seq(Kept) /\ Len(clauses) \in Nat
      /\ at = <<1, 1>>
  BY <1>1, <1>2 DEF MatchTypes, RowsAreArms
<1>4. phase' \in {"arms", "rejected"}
  BY <1>2 DEF Arm
<1>5. arms' \in Seq(Kept)
  <2>1. arms' = arms \/ (~raw.impossible /\ ~Rejected(raw) /\ arms' = Append(arms, Analysis(raw)))
    BY DEF Arm
  <2>2. CASE arms' = arms
    BY <1>3, <2>2
  <2>3. CASE ~raw.impossible /\ ~Rejected(raw) /\ arms' = Append(arms, Analysis(raw))
    <3>1. Analysis(raw) \in Kept
      BY <1>3, <2>3, AnalysisKept
    <3>2. PICK a : a = Analysis(raw)
      OBVIOUS
    <3> QED BY <1>3, <2>3, <3>1, <3>2
  <2> QED BY <2>1, <2>2, <2>3
<1>6. MatchTypes'
  <2>1. clauses' \in Seq(RawArms)
    BY <1>2, <1>3
  <2> QED BY <1>1, <1>2, <1>4, <1>5, <2>1 DEF MatchTypes
<1>7. rows = {}
  BY <1>1, <1>3 DEF RowsAreArms, Ahead, MatchTypes
<1>8. RowsAreArms'
  <2>1. at' = <<1, 1>> /\ rows' = {} /\ at'[1] = 1 /\ at'[2] = 1
    BY <1>2, <1>3, <1>7
  <2>2. ASSUME 1 <= Len(arms') PROVE 1 <= Len(arms'[1].pats)
    <3>1. arms'[1] \in Kept
      BY <1>5, <2>2
    <3> QED BY <3>1, KeptIs
  <2>3. ASSUME NEW k \in DOMAIN arms', NEW l \in DOMAIN arms'[k].pats PROVE ~Ahead(k, l)'
    <3>1. k \in Nat /\ k >= 1
      BY <1>5
    <3>2. arms'[k] \in Kept
      BY <1>5
    <3>3. l \in Nat /\ l >= 1
      BY <3>2, KeptIs
    <3> QED BY <2>1, <3>1, <3>3 DEF Ahead
  <2> QED BY <2>1, <2>2, <2>3 DEF RowsAreArms
<1>9. (Exhaustive /\ LoweredAsFits /\ Passed /\ RunsFirstArm)'
  BY <1>1, <1>2, <1>4 DEF Exhaustive, LoweredAsFits, Passed, RunsFirstArm
<1>10. ErrorsGrounded'
  <2>1. ASSUME NEW e \in errors' PROVE e.kind \in {"arm", "order"}
    <3>1. \A e1 \in errors : e1.kind \in {"arm", "order"}
      BY <1>1, <1>2 DEF ErrorsGrounded
    <3>2. \A kind, where, w : Error(kind, where, w).kind = kind
      BY DEF Error
    <3>3. errors' = errors \/ (\E kind \in {"arm", "order"} : \E where : errors' = errors \cup {Error(kind, where, Wild)})
      BY DEF Arm
    <3> QED BY <2>1, <3>1, <3>2, <3>3
  <2> QED BY <2>1 DEF ErrorsGrounded, GroundsOf
<1> QED BY <1>6, <1>8, <1>9, <1>10 DEF MatchInv

\* The rows begin with the first alternative of the first arm.
LEMMA ArmsEndKeeps ==
  ASSUME MatchInv, ArmsEnd
  PROVE  MatchInv'
<1>1. MatchTypes /\ RowsAreArms /\ Passed /\ ErrorsGrounded
  BY DEF MatchInv
<1>2. /\ phase = "arms" /\ phase' \in {"rejected", "rows"}
      /\ UNCHANGED <<clauses, arms, errors, rows, at, steps, next>>
  BY DEF ArmsEnd, analysis, matrix, execution
<1>3. MatchTypes'
  BY <1>1, <1>2 DEF MatchTypes
<1>4. RowsAreArms'
  BY <1>1, <1>2, MatrixKept
<1>5. (Exhaustive /\ LoweredAsFits /\ Passed /\ RunsFirstArm)'
  BY <1>1, <1>2 DEF Exhaustive, LoweredAsFits, Passed, RunsFirstArm
<1>6. ErrorsGrounded'
  BY <1>1, <1>2 DEF ErrorsGrounded, GroundsOf, CoveredAbove
<1> QED BY <1>3, <1>4, <1>5, <1>6 DEF MatchInv

\* The rows are patterns of arms, so that UsefulSays applies.
LEMMA RowsFit ==
  ASSUME MatchTypes, RowsAreArms
  PROVE  RowsOfArms
<1> SUFFICES ASSUME NEW row \in rows PROVE \E q : OfArm(q) /\ row = <<q>>
  BY DEF RowsOfArms
<1>1. PICK k, l : k \in DOMAIN arms /\ l \in DOMAIN arms[k].pats /\ row = <<arms[k].pats[l]>>
  BY DEF RowsAreArms
<1>2. arms[k] \in Kept
  BY <1>1, ArmsAre
<1> QED BY <1>1, <1>2, KeptIs

\* The matrix gains the row, unless the arm is guarded; an alternative that is not useful is covered above.
LEMMA RowKeeps ==
  ASSUME MatchInv, Row
  PROVE  MatchInv'
<1>1. MatchTypes /\ RowsAreArms /\ Passed /\ ErrorsGrounded
  BY DEF MatchInv
<1>2. phase = "rows" /\ at[1] <= Len(arms) /\ UNCHANGED <<phase, clauses, arms, next>>
  BY DEF Row, execution
<1>3. /\ Len(arms) \in Nat /\ DOMAIN arms = 1 .. Len(arms)
      /\ \A k \in DOMAIN arms : arms[k] \in Kept
      /\ at[1] \in Nat /\ at[1] # 0 /\ at[2] \in Nat /\ at[2] # 0 /\ at = <<at[1], at[2]>>
  BY <1>1, ArmsAre
<1>4. PICK i, j, a, p, r : i = at[1] /\ j = at[2] /\ a = arms[i] /\ p = a.pats[j] /\ r = Useful(p, steps)
  OBVIOUS
<1>5. i \in DOMAIN arms /\ a \in Kept /\ j \in DOMAIN a.pats /\ j <= Len(a.pats) /\ OfArm(p)
  <2>1. i \in DOMAIN arms /\ a \in Kept
    BY <1>2, <1>3, <1>4
  <2>2. j <= Len(a.pats)
    BY <1>1, <1>2, <1>4 DEF RowsAreArms
  <2>3. j \in DOMAIN a.pats
    BY <1>3, <1>4, <2>1, <2>2, KeptIs
  <2> QED BY <1>4, <2>1, <2>2, <2>3, KeptIs
<1>6. /\ steps' = r.steps /\ rows' = (IF a.guard THEN rows ELSE rows \cup {<<p>>})
      /\ errors' = (IF ~r.useful /\ r.steps <= Budget
                    THEN errors \cup {Error("unreachable", at, p)} ELSE errors)
      /\ at' = IF j < Len(a.pats) THEN <<i, j + 1>> ELSE <<i + 1, 1>>
  BY <1>4 DEF Row, Covering, Following
<1>7. Answers(p, r)
  <2>1. RowsOfArms
    BY <1>1, RowsFit
  <2> QED BY <1>1, <1>4, <1>5, <2>1, UsefulSays DEF MatchTypes
<1>8. i \in Nat /\ j \in Nat /\ i # 0 /\ j # 0 /\ Len(a.pats) \in Nat
  BY <1>3, <1>4, <1>5, KeptIs
<1>9. MatchTypes'
  <2>1. at' \in (Nat \ {0}) \X (Nat \ {0})
    BY <1>6, <1>8
  <2>2. r.steps \in Nat /\ r.steps <= Budget + 1
    BY <1>7 DEF Answers
  <2> QED BY <1>1, <1>2, <1>6, <2>1, <2>2 DEF MatchTypes
<1>10. ASSUME NEW k \in DOMAIN arms, NEW l \in DOMAIN arms[k].pats
       PROVE  Ahead(k, l)' <=> Ahead(k, l) \/ (k = i /\ l = j)
  <2>1. k \in Nat /\ l \in Nat /\ l # 0 /\ l <= Len(arms[k].pats)
    <3>1. arms[k] \in Kept
      BY <1>3
    <3>2. Len(arms[k].pats) \in Nat /\ DOMAIN arms[k].pats = 1 .. Len(arms[k].pats)
      BY <3>1, KeptIs
    <3> QED BY <1>3, <3>2
  <2>2. CASE j < Len(a.pats)
    <3>1. at'[1] = i /\ at'[2] = j + 1
      BY <1>6, <2>2
    <3> QED BY <1>4, <1>8, <2>1, <3>1 DEF Ahead
  <2>3. CASE ~(j < Len(a.pats))
    <3>1. at'[1] = i + 1 /\ at'[2] = 1
      BY <1>6, <2>3
    <3>2. k = i => l <= j
      BY <1>4, <1>8, <2>1, <2>3
    <3> QED BY <1>4, <1>8, <2>1, <3>1, <3>2 DEF Ahead
  <2> QED BY <2>2, <2>3
<1>11. RowsAreArms'
  <2>1. ASSUME at'[1] <= Len(arms) PROVE at'[2] <= Len(arms[at'[1]].pats)
    <3>1. CASE j < Len(a.pats)
      <4>1. at'[1] = i /\ at'[2] = j + 1
        BY <1>6, <3>1
      <4> QED BY <1>4, <1>8, <3>1, <4>1
    <3>2. CASE ~(j < Len(a.pats))
      <4>1. at'[1] = i + 1 /\ at'[2] = 1
        BY <1>6, <3>2
      <4>2. i + 1 \in DOMAIN arms
        BY <1>3, <1>8, <2>1, <4>1
      <4>3. Len(arms[i + 1].pats) >= 1 /\ Len(arms[i + 1].pats) \in Nat
        BY <1>3, <4>2, KeptIs
      <4> QED BY <4>1, <4>3
    <3> QED BY <3>1, <3>2
  <2>2. ASSUME NEW row \in rows'
        PROVE  \E k \in DOMAIN arms : \E l \in DOMAIN arms[k].pats :
                 Ahead(k, l)' /\ ~arms[k].guard /\ row = <<arms[k].pats[l]>>
    <3>1. CASE row \in rows
      <4>1. PICK k, l : k \in DOMAIN arms /\ l \in DOMAIN arms[k].pats /\ Ahead(k, l) /\ ~arms[k].guard /\ row = <<arms[k].pats[l]>>
        BY <1>1, <3>1 DEF RowsAreArms
      <4> QED BY <1>10, <4>1
    <3>2. CASE row \notin rows
      <4>1. ~a.guard /\ row = <<p>>
        BY <1>6, <2>2, <3>2
      <4> QED BY <1>4, <1>5, <1>10, <4>1
    <3> QED BY <3>1, <3>2
  <2>3. ASSUME NEW k \in DOMAIN arms, NEW l \in DOMAIN arms[k].pats, Ahead(k, l)', ~arms[k].guard
        PROVE  <<arms[k].pats[l]>> \in rows'
    <3>1. CASE Ahead(k, l)
      <4>1. <<arms[k].pats[l]>> \in rows
        BY <1>1, <2>3, <3>1 DEF RowsAreArms
      <4> QED BY <1>6, <4>1
    <3>2. CASE ~Ahead(k, l)
      <4>1. k = i /\ l = j
        BY <1>10, <2>3, <3>2
      <4> QED BY <1>4, <1>6, <2>3, <4>1
    <3> QED BY <3>1, <3>2
  <2> QED BY <1>2, <2>1, <2>2, <2>3 DEF RowsAreArms
<1>12. (Exhaustive /\ LoweredAsFits /\ Passed /\ RunsFirstArm)'
  BY <1>1, <1>2 DEF Exhaustive, LoweredAsFits, Passed, RunsFirstArm
<1>13. ErrorsGrounded'
  <2>1. \A e \in errors : GroundsOf(e)'
    BY <1>1, <1>2 DEF ErrorsGrounded, GroundsOf, CoveredAbove
  <2>2. ASSUME ~r.useful, r.steps <= Budget, NEW e, e = Error("unreachable", at, p) PROVE GroundsOf(e)'
    <3>2. e.kind = "unreachable" /\ e.at = at /\ e.witness = p
      BY <2>2 DEF Error
    <3>3. ASSUME NEW x \in Values[Depth][Root], Matches(p, x) PROVE CoveredAbove(x, i, j)
      <4>1. PICK q : <<q>> \in rows /\ Matches(q, x)
        BY <1>7, <2>2, <3>3 DEF Answers
      <4>2. PICK k, l : k \in DOMAIN arms /\ l \in DOMAIN arms[k].pats /\ Ahead(k, l) /\ ~arms[k].guard /\ <<q>> = <<arms[k].pats[l]>>
        BY <1>1, <4>1 DEF RowsAreArms
      <4>3. q = arms[k].pats[l]
        BY <4>2
      <4>4. k \in Nat /\ k >= 1 /\ l \in Nat /\ l >= 1
        <5>1. arms[k] \in Kept /\ k \in Nat /\ k >= 1
          BY <1>3, <4>2
        <5>2. DOMAIN arms[k].pats = 1 .. Len(arms[k].pats) /\ Len(arms[k].pats) \in Nat
          BY <5>1, KeptIs
        <5> QED BY <4>2, <5>1, <5>2
      <4>5. CASE k < i
        <5>1. k \in 1 .. i - 1
          BY <1>8, <4>4, <4>5
        <5> QED BY <4>1, <4>2, <4>3, <5>1 DEF CoveredAbove
      <4>6. CASE k = i /\ l < j
        <5>1. l \in 1 .. j - 1
          BY <1>8, <4>4, <4>6
        <5> QED BY <4>1, <4>3, <4>6, <5>1 DEF CoveredAbove
      <4> QED BY <1>4, <4>2, <4>5, <4>6 DEF Ahead
    <3>4. GroundsOf(e)
      BY <1>4, <3>2, <3>3 DEF GroundsOf, SpeaksOf
    <3> QED BY <1>2, <3>4 DEF GroundsOf, CoveredAbove
  <2>3. \A e \in errors' : GroundsOf(e)'
    <3>1. CASE ~r.useful /\ r.steps <= Budget
      BY <1>6, <2>1, <2>2, <3>1
    <3>2. CASE ~(~r.useful /\ r.steps <= Budget)
      BY <1>6, <2>1, <3>2
    <3> QED BY <3>1, <3>2
  <2> QED BY <1>2, <2>3 DEF ErrorsGrounded
<1> QED BY <1>9, <1>11, <1>12, <1>13 DEF MatchInv

\* Where `_` is not useful every value is hit by an arm without a guard, and its witness is hit by none.
LEMMA CoverKeeps ==
  ASSUME MatchInv, Cover
  PROVE  MatchInv'
<1>1. MatchTypes /\ RowsAreArms /\ Passed /\ ErrorsGrounded
  BY DEF MatchInv
<1>2. phase = "rows" /\ at[1] > Len(arms) /\ UNCHANGED <<clauses, arms, rows, at, next>>
      /\ phase' \in {"emit", "rejected"}
  BY DEF Cover, execution
<1>3. /\ Len(arms) \in Nat /\ DOMAIN arms = 1 .. Len(arms)
      /\ \A k \in DOMAIN arms : arms[k] \in Kept
      /\ at[1] \in Nat /\ at[1] # 0 /\ at[2] \in Nat /\ at[2] # 0 /\ at = <<at[1], at[2]>>
  BY <1>1, ArmsAre
<1>4. PICK u, r : u = Useful(Wild, steps) /\ r = IF errors = {} THEN u ELSE NotFound(steps)
  OBVIOUS
<1>5. /\ steps' = r.steps
      /\ errors' = errors \cup TooComplex(r.steps)
                   \cup (IF r.useful THEN {Error("missing", <<>>, r.witness[1])} ELSE {})
      /\ phase' = IF errors' = {} THEN "emit" ELSE "rejected"
  BY <1>4 DEF Cover
<1>6. Answers(Wild, u)
  <2>1. RowsOfArms
    BY <1>1, RowsFit
  <2>2. OfArm(Wild)
    BY WildFits, WildIsTerm, RootIsColumn, BoundsTyped DEF OfArm
  <2> QED BY <1>1, <1>4, <2>1, <2>2, UsefulSays DEF MatchTypes
<1>7. /\ r.useful \in BOOLEAN /\ r.steps \in Nat /\ r.steps <= Budget + 1
      /\ r.useful => errors = {}
  <2>1. CASE errors = {}
    BY <1>4, <1>6, <2>1 DEF Answers
  <2>2. CASE errors # {}
    <3>1. r = [useful |-> FALSE, witness |-> <<>>, steps |-> steps]
      BY <1>4, <2>2 DEF NotFound
    <3>2. r.useful = FALSE /\ r.steps = steps
      BY <3>1
    <3> QED BY <1>1, <3>2 DEF MatchTypes
  <2> QED BY <2>1, <2>2
<1>8. MatchTypes'
  BY <1>1, <1>2, <1>5, <1>7 DEF MatchTypes
<1>9. RowsAreArms'
  BY <1>1, <1>2 DEF RowsAreArms, Ahead
<1>10. Exhaustive'
  <2>1. SUFFICES ASSUME phase' = "emit", NEW x \in Values[Depth][Root]
                 PROVE  \E k \in DOMAIN arms : ~arms[k].guard /\ Hits(k, x)
    BY <1>2 DEF Exhaustive, Hits
  <2>2. errors' = {}
    BY <1>5, <2>1
  <2>3. errors = {} /\ r = u
    BY <1>4, <1>5, <2>2
  <2>4. ~r.useful
    <3>1. r.useful => Error("missing", <<>>, r.witness[1]) \in errors'
      BY <1>5
    <3> QED BY <2>2, <3>1
  <2>5. r.steps <= Budget
    <3>1. r.steps > Budget => Error("too complex", <<>>, Wild) \in errors'
      BY <1>5 DEF TooComplex
    <3> QED BY <1>7, <2>2, <3>1, BoundsTyped
  <2>6. Matches(Wild, x)
    <3>1. x \in Patterns
      <4>1. PICK d \in 0 .. Depth, col \in Columns : d = Depth /\ col = Root
        BY BoundsTyped, RootIsColumn
      <4> QED BY <4>1, ValueIs
    <3> QED BY <3>1, MatchesWild
  <2>7. PICK q : <<q>> \in rows /\ Matches(q, x)
    BY <1>6, <2>3, <2>4, <2>5, <2>6 DEF Answers
  <2>8. PICK k, l : /\ k \in DOMAIN arms /\ l \in DOMAIN arms[k].pats
                    /\ ~arms[k].guard /\ <<q>> = <<arms[k].pats[l]>>
    BY <1>1, <2>7 DEF RowsAreArms
  <2>9. q = arms[k].pats[l]
    BY <2>8
  <2> QED BY <2>7, <2>8, <2>9 DEF Hits
<1>11. (LoweredAsFits /\ Passed /\ RunsFirstArm)'
  BY <1>1, <1>2 DEF LoweredAsFits, Passed, RunsFirstArm
<1>12. ErrorsGrounded'
  <2>1. \A e \in errors : GroundsOf(e)'
    BY <1>1, <1>2 DEF ErrorsGrounded, GroundsOf, CoveredAbove
  <2>2. ASSUME NEW e, e = Error("too complex", <<>>, Wild) PROVE GroundsOf(e)'
    <3>1. e.kind = "too complex"
      BY <2>2 DEF Error
    <3> QED BY <3>1 DEF GroundsOf
  <2>3. ASSUME r.useful, NEW e, e = Error("missing", <<>>, r.witness[1]) PROVE GroundsOf(e)'
    <3>1. e.kind = "missing" /\ e.witness = r.witness[1]
      BY <2>3 DEF Error
    <3>2. r = u
      BY <1>4, <1>7, <2>3
    <3>3. ASSUME NEW x \in Values[Depth][Root], Matches(r.witness[1], x)
          PROVE  ~CoveredAbove(x, Len(arms) + 1, 1)
      <4>1. \A q : <<q>> \in rows => ~Matches(q, x)
        BY <1>6, <2>3, <3>2, <3>3 DEF Answers
      <4>2. ASSUME NEW k \in DOMAIN arms, ~arms[k].guard, NEW l \in DOMAIN arms[k].pats
            PROVE  ~Matches(arms[k].pats[l], x)
        <5>1. Ahead(k, l)
          BY <1>2, <1>3 DEF Ahead
        <5>2. <<arms[k].pats[l]>> \in rows
          BY <1>1, <4>2, <5>1 DEF RowsAreArms
        <5> QED BY <4>1, <5>2
      <4>3. 1 .. (Len(arms) + 1) - 1 = DOMAIN arms
        BY <1>3
      <4>4. \A k \in DOMAIN arms : ~(~arms[k].guard /\ Hits(k, x))
        BY <4>2 DEF Hits
      <4>5. CoveredAbove(x, Len(arms) + 1, 1)
              <=> \E k \in 1 .. (Len(arms) + 1) - 1 : ~arms[k].guard /\ Hits(k, x)
        BY CoveredAboveIs
      <4> QED BY <4>3, <4>4, <4>5
    <3>4. GroundsOf(e)
      BY <3>1, <3>3 DEF GroundsOf, SpeaksOf
    <3> QED BY <1>2, <3>4 DEF GroundsOf, CoveredAbove
  <2>4. ASSUME NEW e \in errors' PROVE GroundsOf(e)'
    <3>1. \/ e \in errors
          \/ e = Error("too complex", <<>>, Wild)
          \/ r.useful /\ e = Error("missing", <<>>, r.witness[1])
      BY <1>5, <2>4 DEF TooComplex
    <3> QED BY <2>1, <2>2, <2>3, <3>1
  <2> QED BY <1>2, <2>4 DEF ErrorsGrounded
<1> QED BY <1>8, <1>9, <1>10, <1>11, <1>12 DEF MatchInv

\* A switch is emitted where patterns are flat, and a chain where arms have one pattern.
LEMMA EmitKeeps ==
  ASSUME MatchInv, Emit
  PROVE  MatchInv'
<1>1. MatchTypes /\ RowsAreArms /\ Exhaustive /\ Passed /\ ErrorsGrounded
  BY DEF MatchInv
<1>2. phase = "emit" /\ phase' \in {"ready", "rejected"}
      /\ UNCHANGED <<clauses, arms, rows, at, steps, value, next>>
  BY DEF Emit, matrix, execution
<1>3. MatchTypes'
  BY <1>1, <1>2 DEF MatchTypes
<1>4. RowsAreArms'
  BY <1>1, <1>2, MatrixKept
<1>5. Exhaustive'
  BY <1>1, <1>2 DEF Exhaustive, Hits
<1>6. RunsFirstArm'
  BY <1>2 DEF RunsFirstArm
<1>7. LoweredAsFits'
  <2>1. SUFFICES ASSUME phase' = "ready"
                 PROVE  \/ lowering' = "chain" /\ \A k \in DOMAIN arms : Len(arms[k].pats) = 1
                        \/ lowering' = "switch" /\ \A k \in DOMAIN arms : ~arms[k].guard /\ Flat(arms[k].pats[1])
    BY <1>2 DEF LoweredAsFits
  <2>2. /\ ~(ChainMode /\ \E i \in DOMAIN arms : Len(arms[i].pats) > 1)
        /\ lowering' = IF ChainMode THEN "chain" ELSE "switch"
    BY <2>1 DEF Emit
  <2>3. CASE ChainMode
    <3>1. ASSUME NEW k \in DOMAIN arms PROVE Len(arms[k].pats) = 1
      <4>1. arms[k] \in Kept
        BY <1>1, ArmsAre
      <4>2. PICK n \in Nat : n = Len(arms[k].pats) /\ n >= 1
        BY <4>1, KeptIs
      <4>3. ~(n > 1)
        BY <2>2, <2>3, <3>1, <4>2
      <4>5. n >= 1
        BY <4>2
      <4>4. n = 1
        BY ONLY <4>3, <4>5, n \in Nat, SMT
      <4> QED BY <4>2, <4>4, Zenon
    <3> QED BY <2>2, <2>3, <3>1
  <2>4. CASE ~ChainMode
    BY <2>2, <2>4 DEF ChainMode, Flat
  <2> QED BY <2>3, <2>4
<1>8. Passed'
  BY <1>1, <1>2 DEF Passed
<1>9. ErrorsGrounded'
  <2>1. \A e \in errors : GroundsOf(e)'
    BY <1>1, <1>2 DEF ErrorsGrounded, GroundsOf, CoveredAbove
  <2>2. ASSUME NEW e, e = Error("alternatives", <<>>, Wild) PROVE GroundsOf(e)'
    <3>1. e.kind = "alternatives"
      BY <2>2 DEF Error
    <3> QED BY <3>1 DEF GroundsOf
  <2>3. errors' = errors \/ errors' = errors \cup {Error("alternatives", <<>>, Wild)}
    BY DEF Emit
  <2> QED BY <1>2, <2>1, <2>2, <2>3 DEF ErrorsGrounded
<1> QED BY <1>3, <1>4, <1>5, <1>6, <1>7, <1>8, <1>9 DEF MatchInv

\* A call begins at the first arm.
LEMMA CallKeeps ==
  ASSUME MatchInv, NEW x \in Scrutinees, Call(x)
  PROVE  MatchInv'
<1>1. MatchTypes /\ RowsAreArms /\ Exhaustive /\ LoweredAsFits /\ Passed /\ ErrorsGrounded
  BY DEF MatchInv
<1>2. phase = "ready" /\ phase' = "running" /\ value' = x
      /\ UNCHANGED <<clauses, arms, errors, rows, at, steps, lowering, next>>
  BY DEF Call, analysis, matrix, emitted
<1>3. MatchTypes'
  BY <1>1, <1>2 DEF MatchTypes
<1>4. RowsAreArms'
  BY <1>1, <1>2, MatrixKept
<1>5. (Exhaustive /\ LoweredAsFits)'
  BY <1>1, <1>2 DEF Exhaustive, Hits, LoweredAsFits
<1>6. RunsFirstArm'
  BY <1>2 DEF RunsFirstArm
<1>7. Passed'
  <2>1. next = 1
    BY <1>1, <1>2 DEF Passed
  <2>2. \A k \in DOMAIN arms : ~(k < 1)
    BY <1>1, ArmsAre
  <2> QED BY <1>2, <2>1, <2>2 DEF Passed
<1>8. ErrorsGrounded'
  BY <1>1, <1>2 DEF ErrorsGrounded, GroundsOf, CoveredAbove
<1> QED BY <1>3, <1>4, <1>5, <1>6, <1>7, <1>8 DEF MatchInv

\* The arm that is taken is hit, and no arm without a guard above it.
LEMMA TakeKeeps ==
  ASSUME MatchInv, Take
  PROVE  MatchInv'
<1>1. MatchTypes /\ RowsAreArms /\ Exhaustive /\ LoweredAsFits /\ Passed /\ ErrorsGrounded
  BY DEF MatchInv
<1>2. phase = "running" /\ phase' = "over" /\ outcome' = "arm"
      /\ next <= Len(arms) /\ Tests(arms[next], value)
      /\ UNCHANGED <<clauses, arms, errors, rows, at, steps, lowering, value, next>>
  BY DEF Take, analysis, matrix, emitted
<1>3. MatchTypes'
  BY <1>1, <1>2 DEF MatchTypes
<1>4. RowsAreArms'
  BY <1>1, <1>2, MatrixKept
<1>5. (Exhaustive /\ LoweredAsFits)'
  BY <1>1, <1>2 DEF Exhaustive, Hits, LoweredAsFits
<1>6. Passed'
  BY <1>1, <1>2 DEF Passed, Hits
<1>7. RunsFirstArm'
  <2>1. value \in Scrutinees /\ \A k \in DOMAIN arms : k < next => arms[k].guard \/ ~Hits(k, value)
    BY <1>1, <1>2 DEF Passed
  <2>2. next \in DOMAIN arms /\ next \in Nat /\ Len(arms) \in Nat
    BY <1>1, <1>2, ArmsAre DEF MatchTypes
  <2>3. Hits(next, value)
    BY <1>1, <1>2, <2>1, <2>2, TestsAreMatches
  <2>4. ~CoveredAbove(value, next, 1)
    <3>1. ASSUME NEW k \in 1 .. next - 1 PROVE arms[k].guard \/ ~Hits(k, value)
      <4>1. k \in DOMAIN arms /\ k < next
        BY <1>1, <1>2, <2>2, ArmsAre
      <4> QED BY <2>1, <4>1
    <3> QED BY <3>1, CoveredAboveIs
  <2> QED BY <1>2, <2>3, <2>4 DEF RunsFirstArm, Hits, CoveredAbove
<1>8. ErrorsGrounded'
  BY <1>1, <1>2 DEF ErrorsGrounded, GroundsOf, CoveredAbove
<1> QED BY <1>3, <1>4, <1>5, <1>6, <1>7, <1>8 DEF MatchInv

\* An arm without a guard is skipped only if it is not hit.
LEMMA SkipKeeps ==
  ASSUME MatchInv, Skip
  PROVE  MatchInv'
<1>1. MatchTypes /\ RowsAreArms /\ Exhaustive /\ LoweredAsFits /\ Passed /\ ErrorsGrounded
  BY DEF MatchInv
<1>2. phase = "running" /\ phase' = "running" /\ next' = next + 1
      /\ next <= Len(arms) /\ (~Tests(arms[next], value) \/ arms[next].guard)
      /\ UNCHANGED <<clauses, arms, errors, rows, at, steps, lowering, value>>
  BY DEF Skip, analysis, matrix, emitted
<1>3. MatchTypes'
  BY <1>1, <1>2 DEF MatchTypes
<1>4. RowsAreArms'
  BY <1>1, <1>2, MatrixKept
<1>5. (Exhaustive /\ LoweredAsFits)'
  BY <1>1, <1>2 DEF Exhaustive, Hits, LoweredAsFits
<1>6. RunsFirstArm'
  BY <1>2 DEF RunsFirstArm
<1>7. Passed'
  <2>1. value \in Scrutinees /\ \A k \in DOMAIN arms : k < next => arms[k].guard \/ ~Hits(k, value)
    BY <1>1, <1>2 DEF Passed
  <2>2. next \in DOMAIN arms /\ next \in Nat
    BY <1>1, <1>2, ArmsAre DEF MatchTypes
  <2>3. arms[next].guard \/ ~Hits(next, value)
    BY <1>1, <1>2, <2>1, <2>2, TestsAreMatches
  <2>4. ASSUME NEW k \in DOMAIN arms, k < next + 1 PROVE arms[k].guard \/ ~Hits(k, value)
    <3>1. k \in Nat
      BY <1>1, ArmsAre
    <3>2. k < next \/ k = next
      BY <2>2, <2>4, <3>1
    <3> QED BY <2>1, <2>3, <3>2
  <2> QED BY <1>2, <2>1, <2>4 DEF Passed, Hits
<1>8. ErrorsGrounded'
  BY <1>1, <1>2 DEF ErrorsGrounded, GroundsOf, CoveredAbove
<1> QED BY <1>3, <1>4, <1>5, <1>6, <1>7, <1>8 DEF MatchInv

\* Only a nil is passed by all of the arms.
LEMMA FallOutKeeps ==
  ASSUME MatchInv, FallOut
  PROVE  MatchInv'
<1>1. MatchTypes /\ RowsAreArms /\ Exhaustive /\ LoweredAsFits /\ Passed /\ ErrorsGrounded
  BY DEF MatchInv
<1>2. phase = "running" /\ phase' = "over" /\ outcome' \in {"panic", "falls through"}
      /\ next > Len(arms)
      /\ UNCHANGED <<clauses, arms, errors, rows, at, steps, lowering, value, next>>
  BY DEF FallOut, analysis, matrix, emitted
<1>3. MatchTypes'
  BY <1>1, <1>2 DEF MatchTypes
<1>4. RowsAreArms'
  BY <1>1, <1>2, MatrixKept
<1>5. (Exhaustive /\ LoweredAsFits)'
  BY <1>1, <1>2 DEF Exhaustive, Hits, LoweredAsFits
<1>6. Passed'
  BY <1>1, <1>2 DEF Passed, Hits
<1>7. RunsFirstArm'
  <2>1. value \in Scrutinees /\ \A k \in DOMAIN arms : k < next => arms[k].guard \/ ~Hits(k, value)
    BY <1>1, <1>2 DEF Passed
  <2>2. \A k \in DOMAIN arms : k < next
    <3>1. next \in Nat /\ Len(arms) \in Nat /\ DOMAIN arms = 1 .. Len(arms)
      BY <1>1, ArmsAre DEF MatchTypes
    <3>2. next > Len(arms)
      BY <1>2
    <3>3. PICK n \in Nat : n = Len(arms)
      BY <3>1
    <3>4. n < next /\ DOMAIN arms = 1 .. n
      BY ONLY <3>1, <3>2, <3>3, n \in Nat
    <3> QED BY ONLY <3>1, <3>4, n \in Nat, SMT
  <2>3. value = Nil
    <3>1. value \notin Values[Depth][Root]
      BY <1>1, <1>2, <2>1, <2>2 DEF Exhaustive
    <3> QED BY <2>1, <3>1 DEF Scrutinees
  <2>4. value' = Nil /\ outcome' # "arm"
    BY <1>2, <2>3
  <2> QED BY <2>4 DEF RunsFirstArm
<1>8. ErrorsGrounded'
  BY <1>1, <1>2 DEF ErrorsGrounded, GroundsOf, CoveredAbove
<1> QED BY <1>3, <1>4, <1>5, <1>6, <1>7, <1>8 DEF MatchInv

-----------------------------------------------------------------------------
(* The theorems.                                                           *)

\* Every reachable state satisfies the invariant.
LEMMA InvHolds == MatchSpec => []MatchInv
<1>1. MatchInv /\ [MatchNext]_matchVars => MatchInv'
  <2> SUFFICES ASSUME MatchInv, [MatchNext]_matchVars PROVE MatchInv'
    OBVIOUS
  <2>1. ASSUME NEW raw \in RawArms, Arm(raw) PROVE MatchInv'
    BY <2>1, ArmKeeps
  <2>2. ASSUME NEW x \in Scrutinees, Call(x) PROVE MatchInv'
    BY <2>2, CallKeeps
  <2>3. CASE UNCHANGED matchVars
    <3>1. UNCHANGED <<phase, clauses, arms, errors, rows, at, steps, lowering, value, next, outcome>>
      BY <2>3 DEF matchVars, analysis, matrix, emitted, execution
    <3>2. MatchTypes'
      <4>1. MatchTypes
        BY DEF MatchInv
      <4> QED BY <3>1, <4>1 DEF MatchTypes
    <3>6. RowsAreArms'
      <4>1. RowsAreArms
        BY DEF MatchInv
      <4> QED BY <3>1, <4>1, MatrixKept
    <3>3. (Exhaustive /\ LoweredAsFits /\ Passed)'
      BY <3>1 DEF MatchInv, Exhaustive, Hits, LoweredAsFits, Passed
    <3>4. RunsFirstArm'
      BY <3>1 DEF MatchInv, RunsFirstArm, CoveredAbove
    <3>5. ErrorsGrounded'
      BY <3>1 DEF MatchInv, ErrorsGrounded, GroundsOf, CoveredAbove
    <3> QED BY <3>2, <3>3, <3>4, <3>5, <3>6 DEF MatchInv
  <2> QED BY <2>1, <2>2, <2>3, ArmsEndKeeps, RowKeeps, CoverKeeps, EmitKeeps, TakeKeeps, SkipKeeps, FallOutKeeps
          DEF MatchNext
<1> QED BY <1>1, MatchInitInv, PTL DEF MatchSpec

\* An accepted match runs the first arm that matches, and every value has one:
\* Useful reports what no row covers, and the emitted tests are what the patterns say.
THEOREM MatchRunsFirstArm == MatchSpec => []RunsFirstArm
<1>1. MatchInv => RunsFirstArm
  BY DEF MatchInv
<1> QED BY <1>1, InvHolds, PTL

\* No arm takes a value that a reported witness speaks of, and an arm that is
\* reported as unreachable leaves no value that those above it do not take.
THEOREM MatchErrorsGrounded == MatchSpec => [](phase = "rejected" => \A e \in errors : GroundsOf(e))
<1>1. MatchInv => (phase = "rejected" => \A e \in errors : GroundsOf(e))
  BY DEF MatchInv, ErrorsGrounded
<1> QED BY <1>1, InvHolds, PTL
=============================================================================
