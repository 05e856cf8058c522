------------------------------- MODULE GenRun -------------------------------
(***************************************************************************)
(* gen.Run and what it does to a package directory: the sources it reads,  *)
(* the outputs it writes, the orphans it deletes and the git index it      *)
(* stages them in, over any number of runs in the modes of `goplus gen`    *)
(* (write, -check, -stage).  Between runs the user edits and deletes       *)
(* sources, and puts hand-written files where an output would go; sources  *)
(* may also be saved while a run is under way.  A write may fail and a run *)
(* may be killed at any step.                                              *)
(*                                                                         *)
(* A source is a number: paths are visited in sorted order.  Its output    *)
(* depends on every source and every hand-written file of the package.     *)
(* Sources that are edited apart may be taken as edited in any order, so   *)
(* that reading them all is one step, and looking for them all another.    *)
(***************************************************************************)
EXTENDS Integers

CONSTANTS NumSources,   \* source paths, whether or not a file is there
          TestSources,  \* those of test sources: their outputs are _test.go files
          Texts,        \* what a source may say when it generates cleanly
          MaxMoves,     \* bound: the user's moves
          MayCrash      \* may a run be killed, or a write fail?

ASSUME GenAssumption ==
  /\ NumSources \in Nat
  /\ TestSources \subseteq 1 .. NumSources
  /\ MaxMoves \in Nat
  /\ MayCrash \in BOOLEAN
  /\ {"none", "bad"} \cap Texts = {}

Sources == 1 .. NumSources

\* What a source may be: absent, in error, or clean.
Views == [Sources -> Texts \cup {"none", "bad"}]

\* A file at an output path: none; without a goplus header (written by hand,
\* or cut by a write that stopped before the header was out); or with one
\* (torn, or the complete output generated from a view of the sources beside
\* some hand-written files).
File == [kind : {"none", "hand", "cut", "torn", "gen"}, of : Views, beside : SUBSET Sources]

\* The smallest element of a set of sources, as a singleton: paths are visited
\* in sorted order.
First(S) == {s \in S : \A r \in S : s <= r}

Blank == [s \in Sources |-> "none"]
Plain(kind) == [kind |-> kind, of |-> Blank, beside |-> {}]

Gen(v, h) == [kind |-> "gen", of |-> v, beside |-> h]

\* emit.GeneratedFrom: the first line is a goplus header.
Generated(f) == f.kind \in {"torn", "gen"}

\* emit.CheckOverwrite refuses.
Refused(f) == f.kind \in {"hand", "cut"}

VARIABLES
  src,       \* the sources on disk
  out,       \* the files at the output paths
  index,     \* the same paths in the git index
  pc,        \* "idle" between runs
  mode,      \* Options of the run under way, or of the last one
  view,      \* the sources as the run read them
  authored,  \* the hand-written files it read with them
  todo,      \* outputs still to visit
  orphans,   \* findOrphans' list, those still to visit
  touched,   \* the run's `touched`
  diags,     \* has the run a diagnostic?
  stale,     \* has it found something stale?
  result,    \* how the last run ended
  moves,     \* the user's moves so far
  moved,     \* history: has the user changed an output since the run began?
  raced,     \* history: sources that came or went before findOrphans looked
  unstaged   \* history: what -stage runs changed and none has staged since

files == <<src, out, index>>
run   == <<mode, view, authored, todo, orphans, touched, diags, stale>>
hist  == <<moves, moved, raced>>
vars  == <<files, pc, run, result, hist, unstaged>>

Results == {"none", "ok", "diags", "refused", "stale", "error", "killed"}

-----------------------------------------------------------------------------
(* Defects of the code, for the mutation runs.                              *)

\* The orphans are found by name, whatever their header says.
OrphansByName == {s \in Sources : src[s] = "none" /\ out[s].kind # "none"}

\* -check removes what it calls stale.
VisitOrphanAlways(s) ==
  /\ out' = [out EXCEPT ![s] = Plain("none")]
  /\ orphans' = orphans \ {s}
  /\ touched' = touched \cup {s}
  /\ UNCHANGED <<src, index, pc, mode, view, authored, todo, diags, stale, unstaged>>

\* A file that starts with the header is taken for current.
CurrentByHeader(s) == Generated(out[s])

\* What was touched is staged although the write failed.
EndOnErrorStages(how) ==
  /\ pc' = "idle"
  /\ result' = how
  /\ index' = [s \in Sources |-> IF s \in touched \cup todo THEN out'[s] ELSE index[s]]
  /\ UNCHANGED <<src, run, unstaged>>

-----------------------------------------------------------------------------
Init ==
  /\ src \in [Sources -> Texts \cup {"none"}]
  /\ out = [s \in Sources |-> Plain("none")]
  /\ index = out
  /\ pc = "idle"
  /\ mode = "write"
  /\ view = Blank
  /\ authored = {}
  /\ todo = {}
  /\ orphans = {}
  /\ touched = {}
  /\ diags = FALSE
  /\ stale = FALSE
  /\ result = "none"
  /\ moves = 0
  /\ moved = FALSE
  /\ raced = {}
  /\ unstaged = {}

(* The user. *)

Move == moves < MaxMoves /\ moves' = moves + 1

\* A source is saved, broken or deleted, at any time.
EditSource(s, text) ==
  /\ Move
  /\ src[s] # text
  /\ src' = [src EXCEPT ![s] = text]
  /\ UNCHANGED <<out, index, pc, run, result, moved, raced, unstaged>>

\* Between runs the user writes a file where an output would go, or deletes
\* the file that is there.
ReplaceOutput(s, kind) ==
  /\ Move
  /\ pc = "idle"
  /\ out[s].kind # kind
  /\ out' = [out EXCEPT ![s] = Plain(kind)]
  /\ moved' = TRUE
  /\ UNCHANGED <<src, index, pc, run, result, raced, unstaged>>

(* The run. *)

\* What loadDir parses beside the sources, if there are any: every Go file of
\* the package that has no header and is no test.
Authored ==
  IF \E s \in Sources : src[s] # "none" THEN {s \in Sources \ TestSources : Refused(out[s])} ELSE {}

\* loadDir reports a file that does not parse.  One that was cut does not.
Broken ==
  \/ \E s \in Sources : src[s] = "bad"
  \/ \E s \in Authored : out[s].kind = "cut"

\* loadDir: the sources and the hand-written files are read, once.
Load(m) ==
  /\ pc = "idle"
  /\ pc' = "loaded"
  /\ mode' = m
  /\ view' = src
  /\ authored' = Authored
  /\ diags' = Broken
  /\ stale' = FALSE
  /\ touched' = {} /\ todo' = {} /\ orphans' = {}
  /\ moved' = FALSE /\ raced' = {}
  /\ UNCHANGED <<files, result, moves, unstaged>>

\* findOrphans: a goplus header, and no source by now.
FindOrphans == {s \in Sources : src[s] = "none" /\ Generated(out[s])}

\* No diagnostic: the outputs that were read for are to be written.
ListOrphans ==
  /\ pc = "loaded"
  /\ ~diags
  /\ pc' = "outputs"
  /\ todo' = {s \in Sources : view[s] # "none"}
  /\ orphans' = FindOrphans
  /\ raced' = {s \in Sources : (view[s] = "none") # (src[s] = "none")}
  /\ UNCHANGED <<files, mode, view, authored, touched, diags, stale, result, moves, moved, unstaged>>

\* A diagnostic ends the run before anything is written: one of loadDir, or
\* of a file it cannot read; or one of resolution, which may type-check the
\* outputs beside whatever else it finds on disk.
EndInDiagnostics ==
  /\ pc = "loaded"
  /\ pc' = "idle"
  /\ result' = "diags"
  /\ UNCHANGED <<files, run, hist, unstaged>>

\* The bytes on disk are the bytes to be written.
Current(s) == out[s] = Gen(view, authored)

Refuse(s) ==
  /\ Refused(out[s])
  /\ diags' = TRUE
  /\ todo' = todo \ {s}
  /\ UNCHANGED <<files, pc, mode, view, authored, orphans, touched, stale, unstaged>>

CheckOutput(s) ==
  /\ ~Refused(out[s])
  /\ mode = "check" \/ Current(s)
  /\ stale' = (stale \/ ~Current(s))
  /\ todo' = todo \ {s}
  /\ UNCHANGED <<files, pc, mode, view, authored, orphans, touched, diags, unstaged>>

\* WriteIfChanged: os.WriteFile truncates before it writes.
Truncate(s) ==
  /\ ~Refused(out[s])
  /\ mode # "check" /\ ~Current(s)
  /\ out' = [out EXCEPT ![s] = Plain("cut")]
  /\ pc' = "writing"
  /\ unstaged' = IF mode = "stage" THEN unstaged \cup {s} ELSE unstaged
  /\ UNCHANGED <<src, index, run>>

VisitOutput ==
  /\ pc = "outputs"
  /\ \E s \in First(todo) : Refuse(s) \/ CheckOutput(s) \/ Truncate(s)
  /\ UNCHANGED <<result, hist>>

Write ==
  /\ pc = "writing"
  /\ \E s \in First(todo) :
       /\ out' = [out EXCEPT ![s] = Gen(view, authored)]
       /\ touched' = touched \cup {s}
       /\ todo' = todo \ {s}
  /\ pc' = "outputs"
  /\ UNCHANGED <<src, index, mode, view, authored, orphans, diags, stale, result, hist, unstaged>>

VisitOrphan(s) ==
  \/ /\ mode = "check"
     /\ stale' = TRUE
     /\ orphans' = orphans \ {s}
     /\ UNCHANGED <<files, pc, mode, view, authored, todo, touched, diags, unstaged>>
  \/ /\ mode # "check"
     /\ out' = [out EXCEPT ![s] = Plain("none")]
     /\ orphans' = orphans \ {s}
     /\ touched' = touched \cup {s}
     /\ unstaged' = IF mode = "stage" THEN unstaged \cup {s} ELSE unstaged
     /\ UNCHANGED <<src, index, pc, mode, view, authored, todo, diags, stale>>

RemoveOrphans ==
  /\ pc = "outputs"
  /\ todo = {}
  /\ \E s \in First(orphans) : VisitOrphan(s)
  /\ UNCHANGED <<result, hist>>

\* git add takes every path or none: a path that is neither on disk nor in
\* the index matches no file.
GitAdd ==
  IF \E s \in touched : out[s].kind = "none" /\ index[s].kind = "none"
  THEN /\ result' = "error"
       /\ UNCHANGED <<index, unstaged>>
  ELSE /\ result' = "ok"
       /\ index' = [s \in Sources |-> IF s \in touched THEN out[s] ELSE index[s]]
       /\ unstaged' = unstaged \ touched

Finish ==
  /\ pc = "outputs"
  /\ todo = {} /\ orphans = {}
  /\ pc' = "idle"
  /\ IF mode = "stage" /\ touched # {} /\ ~diags
     THEN GitAdd
     ELSE /\ result' = IF diags THEN "refused" ELSE IF stale THEN "stale" ELSE "ok"
          /\ UNCHANGED <<index, unstaged>>
  /\ UNCHANGED <<src, out, run, hist>>

\* The run returns an error, or is killed.
EndOnError(how) ==
  /\ pc' = "idle"
  /\ result' = how
  /\ UNCHANGED <<src, index, run, unstaged>>

\* An I/O error returns from Run at once, a signal ends it anywhere; a write
\* under way leaves a prefix of the file, with or without its header line.
Fail(how) ==
  /\ MayCrash
  /\ pc # "idle"
  /\ \/ UNCHANGED out
     \/ /\ pc = "writing"
        /\ \E s \in First(todo) : out' = [out EXCEPT ![s] = Plain("torn")]
  /\ EndOnError(how)
  /\ UNCHANGED hist

User ==
  \E s \in Sources :
    \/ \E text \in Texts \cup {"none", "bad"} : EditSource(s, text)
    \/ \E kind \in {"hand", "none"} : ReplaceOutput(s, kind)

Run ==
  \/ \E m \in {"write", "check", "stage"} : Load(m)
  \/ ListOrphans
  \/ EndInDiagnostics
  \/ VisitOutput
  \/ Write
  \/ RemoveOrphans
  \/ Finish
  \/ \E how \in {"error", "killed"} : Fail(how)

Next == User \/ Run

Spec == Init /\ [][Next]_vars

-----------------------------------------------------------------------------
\* Every file is one that a user, a run or a write cut short can have left.
TypeOK ==
  /\ src \in Views
  /\ out \in [Sources -> File] /\ index \in [Sources -> File]
  /\ pc \in {"idle", "loaded", "outputs", "writing"}
  /\ mode \in {"write", "check", "stage"}
  /\ view \in Views /\ authored \subseteq Sources
  /\ todo \subseteq Sources /\ orphans \subseteq Sources /\ touched \subseteq Sources
  /\ diags \in BOOLEAN /\ stale \in BOOLEAN
  /\ result \in Results
  /\ moves \in 0 .. MaxMoves /\ moved \in BOOLEAN /\ raced \subseteq Sources
  /\ unstaged \subseteq Sources

\* What a run leaves at an output path that it did not refuse.
AsGenerated(s) ==
  IF view[s] = "none" THEN ~Generated(out[s]) ELSE out[s] = Gen(view, authored)

\* What else it leaves where the source came or went between the reading of the
\* sources and the listing of the orphans: an output that was read for may be
\* removed after it was written, a generated file that was not may stay.
Overtaken(s) == s \in raced /\ (view[s] = "none" \/ out[s].kind = "none")

\* A run that succeeds, in any mode and after any crashes, leaves or finds
\* every output as generated from the sources it read and no orphan, but for
\* sources that came or went before it looked for orphans; one that refuses a
\* file has still done its work on all the others.
EndsCurrent ==
  pc = "idle" /\ ~moved =>
    /\ result = "ok" => \A s \in Sources : AsGenerated(s) \/ Overtaken(s)
    /\ result = "refused" /\ mode # "check" =>
         \A s \in Sources : AsGenerated(s) \/ Overtaken(s) \/ Refused(out[s])

\* A file without a goplus header is never changed or deleted by a run
\* ("refuses to clobber ... hand-written code whose name merely matches").
HandWrittenKept ==
  [][\A s \in Sources : pc # "idle" /\ out[s].kind = "hand" => out'[s] = out[s]]_vars

\* -check writes nothing ("verify only: report stale outputs, write nothing").
CheckOnlyReads ==
  [][pc # "idle" /\ mode = "check" => UNCHANGED <<out, index>>]_vars

\* Nothing half-written is ever staged, whatever fails and whenever.
StagedIsComplete == \A s \in Sources : index[s].kind \notin {"cut", "torn"}

\* "after writing, git-add changed/deleted outputs": a -stage run that
\* succeeds leaves nothing that -stage changed out of the index.
StagesWhatItChanged ==
  pc = "idle" /\ mode = "stage" /\ result = "ok" => unstaged = {}

\* The same without the exception for what came or went: a run that succeeds
\* leaves every output it has written and no generated file it read no source for.
SuccessIsWhatWasRead ==
  pc = "idle" /\ ~moved /\ result = "ok" => \A s \in Sources : AsGenerated(s)
=============================================================================
