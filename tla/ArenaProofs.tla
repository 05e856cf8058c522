------------------------------ MODULE ArenaProofs ------------------------------
(***************************************************************************)
(* What std/memory promises, for every capacity, every set of sizes,       *)
(* alignments and groups, and any number of allocations.                   *)
(*                                                                         *)
(* The first part is about handles: one that has become invalid stays so,  *)
(* and a group that has let go of its handles has left none alive. Nothing *)
(* there depends on where takeFree and coalesce put things: ids are never  *)
(* given out twice, and that is what a handle is checked by.               *)
(*                                                                         *)
(* The second part is about the bytes: no two spans share one, the         *)
(* accounts agree with what is allocated, nothing is left to read, and     *)
(* Rollback undoes what came after its checkpoint. It rests on what        *)
(* takeFree, coalesce and Rollback's loop compute, for lists of any        *)
(* length: ByRank is the induction, Recursion says that a recursion which  *)
(* descends defines a function, and CoalesceUnfolds, LaterUnfolds and      *)
(* SumsUnfold say that the three recursions of the model do.               *)
(***************************************************************************)
EXTENDS Arena, FiniteSetTheorems, TLAPS

\* As much as the proofs use of the types of the arena, and that a handle is of
\* this generation or of an earlier one.
HandlesInv ==
  /\ nextID \in Nat \ {0} /\ nextID <= MaxIds + 1
  /\ generation \in Nat
  /\ closed \in BOOLEAN
  /\ allocations = [id \in Ids |-> allocations[id]]
  /\ issued = [id \in Ids |-> issued[id]]
  /\ \A id \in Ids : /\ DOMAIN allocations[id] = {"offset", "length", "alive"}
                     /\ allocations[id].alive \in BOOLEAN
                     /\ issued[id].generation \in Nat
                     /\ issued[id].generation <= generation

\* The members a group's loop has passed.
Passed(g) == {members[g][j] : j \in loop[g].index + 1 .. Len(members[g])}

\* A group's handles were issued, and those its loop has passed are dead.
GroupInv(g) ==
  /\ members[g] \in Seq(Ids)
  /\ loop[g] \in [call : {"none", "Reset", "Release"}, index : Nat]
  /\ \A j \in 1 .. Len(members[g]) : members[g][j] < nextID
  /\ loop[g] # Idle =>
       /\ loop[g].index <= Len(members[g])
       /\ \A id \in Passed(g) : ~Resolves(id)

MembersInv ==
  /\ members = [g \in Groups |-> members[g]]
  /\ loop = [g \in Groups |-> loop[g]]
  /\ \A g \in Groups : GroupInv(g)

IInv == HandlesInv /\ MembersInv

\* How one step may change what Resolves looks at.
Monotone ==
  /\ nextID <= nextID'
  /\ generation <= generation'
  /\ closed => closed'
  /\ \A id \in Ids : id < nextID =>
       /\ issued'[id] = issued[id]
       /\ allocations'[id].alive =>
            /\ allocations[id].alive
            /\ allocations'[id].offset = allocations[id].offset
            /\ allocations'[id].length = allocations[id].length

-----------------------------------------------------------------------------
\* Allocate leaves every handle that was issued before as it is.
LEMMA AllocatedKeepsHandles ==
  ASSUME HandlesInv, NEW size, NEW alignment, Allocated(size, alignment)
  PROVE  Monotone /\ HandlesInv' /\ nextID \in Ids /\ nextID' = nextID + 1
<1> DEFINE n == IF size = 0 THEN 1 ELSE size
           place == Placement(n, alignment)
<1>1. /\ nextID \in Nat \ {0} /\ generation \in Nat /\ closed \in BOOLEAN
      /\ allocations = [id \in Ids |-> allocations[id]]
      /\ issued = [id \in Ids |-> issued[id]]
  BY DEF HandlesInv
<1>2. /\ nextID' = nextID + 1 /\ generation' = generation /\ closed' = closed
      /\ nextID <= MaxIds
      /\ allocations' = [allocations EXCEPT ![nextID] =
                           [offset |-> place.offset, length |-> n, alive |-> TRUE]]
      /\ issued' = [issued EXCEPT ![nextID] =
                      [offset |-> place.offset, length |-> n, generation |-> generation]]
  BY DEF Allocated, FreshID
<1> HIDE DEF place, n
<1>3. nextID \in Ids
  BY <1>1, <1>2, ArenaAssumption DEF Ids
<1>4. /\ allocations'[nextID] = [offset |-> place.offset, length |-> n, alive |-> TRUE]
      /\ issued'[nextID] = [offset |-> place.offset, length |-> n, generation |-> generation]
  BY <1>1, <1>2, <1>3
<1>5. \A id \in Ids : id # nextID => allocations'[id] = allocations[id] /\ issued'[id] = issued[id]
  BY <1>1, <1>2
<1>6. /\ allocations' = [id \in Ids |-> allocations'[id]]
      /\ issued' = [id \in Ids |-> issued'[id]]
  BY <1>1, <1>2
<1>7. \A id \in Ids : /\ DOMAIN allocations'[id] = {"offset", "length", "alive"}
                      /\ allocations'[id].alive \in BOOLEAN
                      /\ issued'[id].generation \in Nat
                      /\ issued'[id].generation <= generation
  <2> TAKE id \in Ids
  <2>1. CASE id = nextID
    BY <2>1, <1>4, <1>1
  <2>2. CASE id # nextID
    BY <2>2, <1>5 DEF HandlesInv
  <2> QED BY <2>1, <2>2
<1>8. Monotone
  <2>1. nextID <= nextID' /\ generation <= generation' /\ (closed => closed')
    BY <1>1, <1>2
  <2>2. \A id \in Ids : id < nextID => id # nextID
    BY <1>1 DEF Ids
  <2> QED BY <2>1, <2>2, <1>5 DEF Monotone
<1>9. HandlesInv'
  <2>1. /\ nextID' \in Nat \ {0} /\ nextID' <= MaxIds + 1
        /\ generation' = generation /\ generation' \in Nat /\ closed' \in BOOLEAN
    BY <1>1, <1>2, ArenaAssumption
  <2> QED BY <2>1, <1>6, <1>7 DEF HandlesInv
<1> QED BY <1>2, <1>3, <1>8, <1>9

\* Releasing allocations changes nothing of them but that they are alive.
LEMMA ReleaseKeepsHandles ==
  ASSUME HandlesInv, NEW ids, ReleaseAll(ids), UNCHANGED <<nextID, generation, closed, issued>>
  PROVE  Monotone /\ HandlesInv'
<1> DEFINE freed == ToSet(ids)
<1>1. allocations' = [id \in Ids |-> [allocations[id] EXCEPT !.alive = @ /\ id \notin freed]]
  BY DEF ReleaseAll
<1> HIDE DEF freed
<1>2. \A id \in Ids : /\ DOMAIN allocations'[id] = {"offset", "length", "alive"}
                      /\ allocations'[id].alive = (allocations[id].alive /\ id \notin freed)
                      /\ allocations'[id].offset = allocations[id].offset
                      /\ allocations'[id].length = allocations[id].length
  BY <1>1 DEF HandlesInv
<1>3. allocations' = [id \in Ids |-> allocations'[id]]
  BY <1>1
<1>4. HandlesInv'
  BY <1>2, <1>3 DEF HandlesInv
<1>5. Monotone
  BY <1>2 DEF HandlesInv, Monotone
<1> QED BY <1>4, <1>5

\* Reset and Close end the generation of every handle.
LEMMA EmptiedKeepsHandles ==
  ASSUME HandlesInv, Emptied, UNCHANGED <<nextID, issued>>, closed => closed', closed' \in BOOLEAN
  PROVE  Monotone /\ HandlesInv'
<1>1. /\ allocations' = [id \in Ids |-> [offset |-> 0, length |-> 0, alive |-> FALSE]]
      /\ generation' = generation + 1
  BY DEF Emptied
<1>2. \A id \in Ids : /\ DOMAIN allocations'[id] = {"offset", "length", "alive"}
                      /\ allocations'[id].alive = FALSE
  BY <1>1
<1>3. allocations' = [id \in Ids |-> allocations'[id]]
  BY <1>1
<1>4. \A id \in Ids : /\ DOMAIN allocations'[id] = {"offset", "length", "alive"}
                      /\ allocations'[id].alive \in BOOLEAN
                      /\ issued'[id].generation \in Nat
                      /\ issued'[id].generation <= generation'
  <2> TAKE id \in Ids
  <2>1. /\ issued'[id].generation \in Nat /\ issued'[id].generation <= generation
        /\ generation \in Nat
    BY DEF HandlesInv
  <2>2. issued[id].generation <= generation + 1
    BY <2>1
  <2> QED BY <2>1, <2>2, <1>1, <1>2
<1>5. HandlesInv'
  <2>1. /\ nextID' \in Nat \ {0} /\ nextID' <= MaxIds + 1 /\ generation' \in Nat
        /\ issued' = [id \in Ids |-> issued'[id]]
    BY <1>1 DEF HandlesInv
  <2> QED BY <2>1, <1>3, <1>4 DEF HandlesInv
<1>6. Monotone
  BY <1>1, <1>2 DEF HandlesInv, Monotone
<1> QED BY <1>5, <1>6

\* A step that leaves alone what Resolves looks at.
LEMMA StutterKeepsHandles ==
  ASSUME HandlesInv, UNCHANGED <<allocations, nextID, generation, closed, issued>>
  PROVE  Monotone /\ HandlesInv'
<1>1. HandlesInv'
  BY DEF HandlesInv
<1>2. Monotone
  BY DEF HandlesInv, Monotone
<1> QED BY <1>1, <1>2

\* What a monotone step means for a handle: it cannot come back.
LEMMA MonotoneNotRevived ==
  ASSUME HandlesInv, HandlesInv', Monotone, NEW id \in Ids, id < nextID, ~Resolves(id)
  PROVE  ~Resolves(id)'
<1> SUFFICES ASSUME Resolves(id)' PROVE FALSE
  OBVIOUS
<1>1. /\ ~closed'
      /\ issued'[id].generation = generation'
      /\ allocations'[id].alive
      /\ allocations'[id].offset = issued'[id].offset
      /\ allocations'[id].length = issued'[id].length
  BY DEF Resolves
<1>2. /\ issued'[id] = issued[id]
      /\ allocations[id].alive
      /\ allocations'[id].offset = allocations[id].offset
      /\ allocations'[id].length = allocations[id].length
  BY <1>1 DEF Monotone
<1>3. ~closed
  BY <1>1 DEF Monotone
<1>4. issued[id].generation = generation
  <2>1. issued[id].generation = generation'
    BY <1>1, <1>2
  <2>2. issued[id].generation \in Nat /\ issued[id].generation <= generation /\ generation \in Nat
    BY DEF HandlesInv
  <2>3. generation <= generation' /\ generation' \in Nat
    BY DEF HandlesInv, Monotone
  <2> QED BY <2>1, <2>2, <2>3
<1> QED BY <1>1, <1>2, <1>3, <1>4 DEF Resolves

-----------------------------------------------------------------------------
\* Every step is monotone.
LEMMA StepKeepsHandles ==
  ASSUME HandlesInv, [Next]_vars
  PROVE  Monotone /\ HandlesInv'
<1>1. ASSUME NEW size \in Sizes, NEW alignment \in Alignments, Allocate(size, alignment)
      PROVE  Monotone /\ HandlesInv'
  BY <1>1, AllocatedKeepsHandles DEF Allocate
<1>2. ASSUME NEW size \in Sizes, NEW alignment \in Alignments, NEW g \in Groups,
             GroupAllocate(g, size, alignment)
      PROVE  Monotone /\ HandlesInv'
  BY <1>2, AllocatedKeepsHandles DEF GroupAllocate
<1>3. ASSUME NEW id \in Ids, Delete(id)
      PROVE  Monotone /\ HandlesInv'
  BY <1>3, ReleaseKeepsHandles DEF Delete, Deleted
<1>4. ASSUME NEW id \in Ids, Zero(id)
      PROVE  Monotone /\ HandlesInv'
  BY <1>4, StutterKeepsHandles DEF Zero
<1>5. ASSUME NEW id \in Ids, NEW at \in Bytes, NEW n \in WriteSizes, Write(id, at, n)
      PROVE  Monotone /\ HandlesInv'
  BY <1>5, StutterKeepsHandles DEF Write
<1>6. ASSUME Checkpoint
      PROVE  Monotone /\ HandlesInv'
  BY <1>6, StutterKeepsHandles DEF Checkpoint, arena
<1>7. ASSUME NEW p \in points, Rollback(p)
      PROVE  Monotone /\ HandlesInv'
  BY <1>7, ReleaseKeepsHandles DEF Rollback
<1>8. ASSUME Reset
      PROVE  Monotone /\ HandlesInv'
  BY <1>8, EmptiedKeepsHandles DEF Reset, HandlesInv
<1>9. ASSUME Close
      PROVE  Monotone /\ HandlesInv'
  BY <1>9, EmptiedKeepsHandles DEF Close, HandlesInv
<1>10. ASSUME NEW g \in Groups, NEW call \in {"Reset", "Release"}, GroupBegin(g, call)
       PROVE  Monotone /\ HandlesInv'
  BY <1>10, StutterKeepsHandles DEF GroupBegin, arena
<1>11. ASSUME NEW g \in Groups, GroupDelete(g)
       PROVE  Monotone /\ HandlesInv'
  <2> DEFINE id == members[g][loop[g].index]
  <2>1. CASE Resolves(id)
    BY <1>11, <2>1, ReleaseKeepsHandles DEF GroupDelete, Deleted
  <2>2. CASE ~Resolves(id)
    BY <1>11, <2>2, StutterKeepsHandles DEF GroupDelete, arena
  <2> QED BY <2>1, <2>2
<1>12. ASSUME NEW g \in Groups, GroupEnd(g)
       PROVE  Monotone /\ HandlesInv'
  BY <1>12, StutterKeepsHandles DEF GroupEnd, arena
<1>13. CASE UNCHANGED vars
  BY <1>13, StutterKeepsHandles DEF vars, arena
<1> QED BY <1>1, <1>2, <1>3, <1>4, <1>5, <1>6, <1>7, <1>8, <1>9, <1>10, <1>11, <1>12, <1>13 DEF Next

\* A deleted handle does not resolve any more.
LEMMA DeletedIsDead ==
  ASSUME HandlesInv, NEW id \in Ids, Deleted(id)
  PROVE  ~Resolves(id)'
<1>1. allocations' = [k \in Ids |-> [allocations[k] EXCEPT !.alive = @ /\ k \notin ToSet(<<id>>)]]
  BY DEF Deleted, ReleaseAll
<1>2. id \in ToSet(<<id>>)
  <2>1. 1 \in DOMAIN <<id>> /\ <<id>>[1] = id
    OBVIOUS
  <2> QED BY <2>1 DEF ToSet
<1>3. allocations'[id].alive = FALSE
  BY <1>1, <1>2 DEF HandlesInv
<1> QED BY <1>3 DEF Resolves

\* A group that a monotone step does not touch keeps its invariant.
LEMMA UntouchedGroup ==
  ASSUME IInv, HandlesInv', Monotone, NEW g \in Groups,
         members'[g] = members[g], loop'[g] = loop[g]
  PROVE  GroupInv(g)'
<1>1. GroupInv(g)
  BY DEF IInv, MembersInv
<1>2. \A j \in 1 .. Len(members[g]) : members[g][j] \in Ids
  BY <1>1 DEF GroupInv
<1>3. \A j \in 1 .. Len(members[g]) : members[g][j] < nextID'
  <2>1. nextID \in Nat /\ nextID' \in Nat /\ nextID <= nextID'
    BY DEF IInv, HandlesInv, Monotone
  <2>2. \A j \in 1 .. Len(members[g]) : members[g][j] < nextID
    BY <1>1 DEF GroupInv
  <2> TAKE j \in 1 .. Len(members[g])
  <2>3. members[g][j] \in Int /\ members[g][j] < nextID
    BY <1>2, <2>2 DEF Ids
  <2> QED BY <2>1, <2>3
<1>4. Passed(g)' = Passed(g)
  BY DEF Passed
<1>5. ASSUME loop[g] # Idle, NEW id \in Passed(g)
      PROVE  ~Resolves(id)'
  <2>1. PICK j \in 1 .. Len(members[g]) : members[g][j] = id
    BY <1>1, <1>5 DEF GroupInv, Passed
  <2>2. id \in Ids /\ id < nextID /\ ~Resolves(id)
    BY <1>1, <1>2, <1>5, <2>1 DEF GroupInv
  <2> QED BY <2>2, MonotoneNotRevived DEF IInv
<1> QED BY <1>1, <1>3, <1>4, <1>5 DEF GroupInv

\* A monotone step that touches one group only.
LEMMA OneGroupStep ==
  ASSUME IInv, HandlesInv', Monotone, NEW g \in Groups, GroupInv(g)',
         members' = [h \in Groups |-> members'[h]],
         loop' = [h \in Groups |-> loop'[h]],
         \A h \in Groups : h # g => members'[h] = members[h] /\ loop'[h] = loop[h]
  PROVE  IInv'
<1>1. ASSUME NEW h \in Groups PROVE GroupInv(h)'
  <2>1. CASE h = g
    BY <2>1
  <2>2. CASE h # g
    BY <2>2, UntouchedGroup
  <2> QED BY <2>1, <2>2
<1> QED BY <1>1 DEF IInv, MembersInv

\* A monotone step that touches no group.
LEMMA NoGroupStep ==
  ASSUME IInv, HandlesInv', Monotone, UNCHANGED <<members, loop>>
  PROVE  IInv'
<1>1. \A h \in Groups : GroupInv(h)'
  BY UntouchedGroup
<1> QED BY <1>1 DEF IInv, MembersInv

\* A group takes up the id that Allocate has just given out.
LEMMA GroupAllocateStep ==
  ASSUME IInv, NEW size, NEW alignment, NEW g \in Groups, GroupAllocate(g, size, alignment)
  PROVE  IInv'
<1>1. Monotone /\ HandlesInv' /\ nextID \in Ids /\ nextID' = nextID + 1
  BY AllocatedKeepsHandles DEF GroupAllocate, IInv
<1>2. /\ loop[g] = Idle /\ loop' = loop
      /\ members' = [members EXCEPT ![g] = Append(@, nextID)]
  BY DEF GroupAllocate, FreshID
<1>3. GroupInv(g) /\ members = [h \in Groups |-> members[h]] /\ loop = [h \in Groups |-> loop[h]]
  BY DEF IInv, MembersInv
<1>4. members'[g] = Append(members[g], nextID) /\ members[g] \in Seq(Ids)
  BY <1>2, <1>3 DEF GroupInv
<1>5. members'[g] \in Seq(Ids) /\ Len(members'[g]) = Len(members[g]) + 1
  BY <1>1, <1>4
<1>6. ASSUME NEW j \in 1 .. Len(members'[g]) PROVE members'[g][j] < nextID'
  <2>1. CASE j = Len(members[g]) + 1
    BY <2>1, <1>1, <1>4 DEF Ids
  <2>2. CASE j # Len(members[g]) + 1
    <3>1. j \in 1 .. Len(members[g])
      BY <2>2, <1>4, <1>5
    <3>2. members'[g][j] = members[g][j] /\ members[g][j] \in Ids
      BY <3>1, <1>4
    <3>3. members[g][j] < nextID
      BY <3>1, <1>3 DEF GroupInv
    <3> QED BY <3>2, <3>3, <1>1 DEF Ids
  <2> QED BY <2>1, <2>2
<1>7. GroupInv(g)'
  <2>1. loop'[g] = Idle /\ loop'[g] \in [call : {"none", "Reset", "Release"}, index : Nat]
    BY <1>2, <1>3 DEF GroupInv
  <2> QED BY <2>1, <1>5, <1>6 DEF GroupInv
<1>8. /\ members' = [h \in Groups |-> members'[h]]
      /\ loop' = [h \in Groups |-> loop'[h]]
      /\ \A h \in Groups : h # g => members'[h] = members[h] /\ loop'[h] = loop[h]
  BY <1>2, <1>3
<1> QED BY <1>1, <1>7, <1>8, OneGroupStep

\* Before the first Delete there is nothing to show.
LEMMA GroupBeginStep ==
  ASSUME IInv, NEW g \in Groups, NEW call \in {"Reset", "Release"}, GroupBegin(g, call)
  PROVE  IInv'
<1>1. Monotone /\ HandlesInv'
  BY StutterKeepsHandles DEF GroupBegin, IInv, arena
<1>2. /\ loop' = [loop EXCEPT ![g] = [call |-> call, index |-> Len(members[g])]]
      /\ members' = members /\ nextID' = nextID
  BY DEF GroupBegin, arena
<1>3. GroupInv(g) /\ members = [h \in Groups |-> members[h]] /\ loop = [h \in Groups |-> loop[h]]
  BY DEF IInv, MembersInv
<1>4. loop'[g] = [call |-> call, index |-> Len(members[g])]
  BY <1>2, <1>3
<1>5. Len(members[g]) \in Nat
  BY <1>3 DEF GroupInv
<1>6. GroupInv(g)'
  <2>1. /\ loop'[g] \in [call : {"none", "Reset", "Release"}, index : Nat]
        /\ loop'[g].index = Len(members'[g])
    BY <1>2, <1>4, <1>5
  <2>2. Passed(g)' = {}
    BY <2>1, <1>2, <1>5 DEF Passed
  <2> QED BY <2>1, <2>2, <1>2, <1>3, <1>5 DEF GroupInv
<1>7. /\ members' = [h \in Groups |-> members'[h]]
      /\ loop' = [h \in Groups |-> loop'[h]]
      /\ \A h \in Groups : h # g => members'[h] = members[h] /\ loop'[h] = loop[h]
  BY <1>2, <1>3
<1> QED BY <1>1, <1>6, <1>7, OneGroupStep

\* The loop has passed one more handle, and that one it has deleted.
LEMMA GroupDeleteStep ==
  ASSUME IInv, NEW g \in Groups, GroupDelete(g)
  PROVE  IInv'
<1>1. Monotone /\ HandlesInv'
  BY StepKeepsHandles DEF IInv, Next
<1>2. loop[g] # Idle /\ loop[g].index > 0 /\ members' = members /\ nextID <= nextID'
  BY <1>1 DEF GroupDelete, Monotone
<1>3. GroupInv(g) /\ members = [h \in Groups |-> members[h]] /\ loop = [h \in Groups |-> loop[h]]
  BY DEF IInv, MembersInv
<1>4. PICK i \in 1 .. Len(members[g]) : i = loop[g].index
  BY <1>2, <1>3 DEF GroupInv
<1>5. PICK id \in Ids : id = members[g][i]
  BY <1>3, <1>4 DEF GroupInv
<1>6. ASSUME NEW j \in 1 .. Len(members[g]) PROVE members'[g][j] < nextID'
  <2>1. members[g][j] \in Ids /\ members[g][j] < nextID
    BY <1>3 DEF GroupInv
  <2>2. nextID \in Nat /\ nextID' \in Nat
    BY <1>1 DEF IInv, HandlesInv
  <2> QED BY <1>2, <2>1, <2>2 DEF Ids
<1>7. CASE Resolves(id)
  <2>1. loop' = [loop EXCEPT ![g].index = i - 1] /\ Deleted(id)
    BY <1>4, <1>5, <1>7 DEF GroupDelete
  <2>2. /\ loop'[g] \in [call : {"none", "Reset", "Release"}, index : Nat]
        /\ loop'[g].index = i - 1
    BY <2>1, <1>3, <1>4 DEF GroupInv
  <2>3. ~Resolves(id)'
    BY <2>1, DeletedIsDead DEF IInv
  <2>4. ASSUME NEW k \in Passed(g)' PROVE ~Resolves(k)'
    <3>1. PICK j \in i .. Len(members[g]) : members[g][j] = k
      BY <2>2, <2>4, <1>2, <1>4 DEF Passed
    <3>2. CASE j = i
      BY <3>1, <3>2, <2>3, <1>5
    <3>3. CASE j # i
      <4>1. j \in i + 1 .. Len(members[g]) /\ j \in 1 .. Len(members[g])
        BY <3>3, <1>4
      <4>2. k \in Passed(g)
        BY <4>1, <3>1, <1>4 DEF Passed
      <4>3. k \in Ids /\ k < nextID /\ ~Resolves(k)
        BY <4>1, <4>2, <3>1, <1>2, <1>3 DEF GroupInv
      <4> QED BY <4>3, <1>1, MonotoneNotRevived DEF IInv
    <3> QED BY <3>2, <3>3
  <2>5. GroupInv(g)'
    <3>1. loop'[g].index <= Len(members'[g])
      BY <2>2, <1>2, <1>4
    <3> QED BY <2>2, <2>4, <3>1, <1>2, <1>3, <1>6 DEF GroupInv
  <2>6. /\ members' = [h \in Groups |-> members'[h]]
        /\ loop' = [h \in Groups |-> loop'[h]]
        /\ \A h \in Groups : h # g => members'[h] = members[h] /\ loop'[h] = loop[h]
    BY <2>1, <1>2, <1>3
  <2> QED BY <2>5, <2>6, <1>1, OneGroupStep
<1>8. CASE ~Resolves(id)
  <2>1. loop' = [loop EXCEPT ![g] = Idle]
    BY <1>4, <1>5, <1>8 DEF GroupDelete
  <2>2. loop'[g] = Idle /\ Idle \in [call : {"none", "Reset", "Release"}, index : Nat]
    BY <2>1, <1>3 DEF Idle
  <2>3. GroupInv(g)'
    BY <2>2, <1>2, <1>3, <1>6 DEF GroupInv
  <2>4. /\ members' = [h \in Groups |-> members'[h]]
        /\ loop' = [h \in Groups |-> loop'[h]]
        /\ \A h \in Groups : h # g => members'[h] = members[h] /\ loop'[h] = loop[h]
    BY <2>1, <1>2, <1>3
  <2> QED BY <2>3, <2>4, <1>1, OneGroupStep
<1> QED BY <1>7, <1>8

\* The group forgets its handles.
LEMMA GroupEndStep ==
  ASSUME IInv, NEW g \in Groups, GroupEnd(g)
  PROVE  IInv'
<1>1. Monotone /\ HandlesInv'
  BY StutterKeepsHandles DEF GroupEnd, IInv, arena
<1>2. /\ loop' = [loop EXCEPT ![g] = Idle]
      /\ members' = [members EXCEPT ![g] = <<>>]
  BY DEF GroupEnd
<1>3. members = [h \in Groups |-> members[h]] /\ loop = [h \in Groups |-> loop[h]]
  BY DEF IInv, MembersInv
<1>4. /\ loop'[g] = Idle /\ Idle \in [call : {"none", "Reset", "Release"}, index : Nat]
      /\ members'[g] = <<>> /\ Len(<<>>) = 0
  BY <1>2, <1>3 DEF Idle
<1>5. GroupInv(g)'
  BY <1>4 DEF GroupInv
<1>6. /\ members' = [h \in Groups |-> members'[h]]
      /\ loop' = [h \in Groups |-> loop'[h]]
      /\ \A h \in Groups : h # g => members'[h] = members[h] /\ loop'[h] = loop[h]
  BY <1>2, <1>3
<1> QED BY <1>1, <1>5, <1>6, OneGroupStep

-----------------------------------------------------------------------------
\* No handle has been issued yet.
LEMMA InitInv == Init => IInv
<1> SUFFICES ASSUME Init PROVE IInv
  OBVIOUS
<1>1. HandlesInv
  <2>1. /\ nextID = 1 /\ nextID <= MaxIds + 1 /\ generation = 1 /\ closed = FALSE
        /\ allocations = [id \in Ids |-> [offset |-> 0, length |-> 0, alive |-> FALSE]]
        /\ issued = [id \in Ids |-> [offset |-> 0, length |-> 0, generation |-> 0]]
    BY ArenaAssumption DEF Init
  <2>2. /\ allocations = [id \in Ids |-> allocations[id]]
        /\ issued = [id \in Ids |-> issued[id]]
    BY <2>1
  <2>3. ASSUME NEW id \in Ids
        PROVE  /\ DOMAIN allocations[id] = {"offset", "length", "alive"}
               /\ allocations[id].alive \in BOOLEAN
               /\ issued[id].generation \in Nat
               /\ issued[id].generation <= generation
    <3>1. /\ allocations[id] = [offset |-> 0, length |-> 0, alive |-> FALSE]
          /\ issued[id] = [offset |-> 0, length |-> 0, generation |-> 0]
      BY <2>1
    <3> QED BY <3>1, <2>1
  <2>4. nextID \in Nat \ {0} /\ nextID <= MaxIds + 1 /\ generation \in Nat
    BY <2>1
  <2>5. closed \in BOOLEAN
    BY DEF Init
  <2> QED BY <2>2, <2>3, <2>4, <2>5 DEF HandlesInv
<1>2. ASSUME NEW g \in Groups PROVE GroupInv(g)
  <2>1. /\ members[g] = <<>> /\ loop[g] = Idle
        /\ Idle \in [call : {"none", "Reset", "Release"}, index : Nat]
    BY DEF Init, Idle
  <2> QED BY <2>1 DEF GroupInv
<1>3. members = [g \in Groups |-> members[g]] /\ loop = [g \in Groups |-> loop[g]]
  BY DEF Init
<1> QED BY <1>1, <1>2, <1>3 DEF IInv, MembersInv

\* Every step keeps the handles' and the groups' invariant.
LEMMA StepInv ==
  ASSUME IInv, [Next]_vars
  PROVE  IInv'
<1>1. Monotone /\ HandlesInv'
  BY StepKeepsHandles DEF IInv
<1>2. ASSUME NEW size \in Sizes, NEW alignment \in Alignments, Allocate(size, alignment)
      PROVE  IInv'
  BY <1>1, <1>2, NoGroupStep DEF Allocate
<1>3. ASSUME NEW size \in Sizes, NEW alignment \in Alignments, NEW g \in Groups,
             GroupAllocate(g, size, alignment)
      PROVE  IInv'
  BY <1>3, GroupAllocateStep
<1>4. ASSUME NEW id \in Ids, Delete(id)
      PROVE  IInv'
  BY <1>1, <1>4, NoGroupStep DEF Delete
<1>5. ASSUME NEW id \in Ids, Zero(id)
      PROVE  IInv'
  BY <1>1, <1>5, NoGroupStep DEF Zero
<1>6. ASSUME NEW id \in Ids, NEW at \in Bytes, NEW n \in WriteSizes, Write(id, at, n)
      PROVE  IInv'
  BY <1>1, <1>6, NoGroupStep DEF Write
<1>7. ASSUME Checkpoint
      PROVE  IInv'
  BY <1>1, <1>7, NoGroupStep DEF Checkpoint
<1>8. ASSUME NEW p \in points, Rollback(p)
      PROVE  IInv'
  BY <1>1, <1>8, NoGroupStep DEF Rollback
<1>9. ASSUME Reset
      PROVE  IInv'
  BY <1>1, <1>9, NoGroupStep DEF Reset
<1>10. ASSUME Close
       PROVE  IInv'
  BY <1>1, <1>10, NoGroupStep DEF Close
<1>11. ASSUME NEW g \in Groups, NEW call \in {"Reset", "Release"}, GroupBegin(g, call)
       PROVE  IInv'
  BY <1>11, GroupBeginStep
<1>12. ASSUME NEW g \in Groups, GroupDelete(g)
       PROVE  IInv'
  BY <1>12, GroupDeleteStep
<1>13. ASSUME NEW g \in Groups, GroupEnd(g)
       PROVE  IInv'
  BY <1>13, GroupEndStep
<1>14. CASE UNCHANGED vars
  BY <1>1, <1>14, NoGroupStep DEF vars
<1> QED BY <1>2, <1>3, <1>4, <1>5, <1>6, <1>7, <1>8, <1>9, <1>10, <1>11, <1>12, <1>13, <1>14 DEF Next

\* A handle that has become invalid (deleted, rolled back, or of an earlier
\* generation) is refused for ever, whatever is allocated at its place: resolve
\* checks the id and the generation, and neither is used twice.
THEOREM NeverRevived == Spec => HandlesNotRevived
<1>1. ASSUME IInv, [Next]_vars
      PROVE  [\A id \in 1 .. nextID - 1 : ~Resolves(id) => ~Resolves(id)']_vars
  <2>1. HandlesInv /\ HandlesInv' /\ Monotone
    BY <1>1, StepKeepsHandles DEF IInv
  <2>2. ASSUME NEW id \in 1 .. nextID - 1 PROVE id \in Ids /\ id < nextID
    BY <2>1, ArenaAssumption DEF HandlesInv, Ids
  <2> QED BY <2>1, <2>2, MonotoneNotRevived
<1> QED BY <1>1, InitInv, StepInv, PTL DEF Spec, HandlesNotRevived

\* Only two calls change what a group holds.
LEMMA MembersStep ==
  ASSUME [Next]_vars
  PROVE  \/ members' = members
         \/ \E size \in Sizes, alignment \in Alignments, g \in Groups : GroupAllocate(g, size, alignment)
         \/ \E g \in Groups : GroupEnd(g)
<1>1. CASE UNCHANGED vars
  BY <1>1 DEF vars
<1>2. CASE Next
  BY <1>2 DEF Next, Allocate, Delete, Zero, Write, Checkpoint, Rollback, Reset, Close, GroupBegin, GroupDelete
<1> QED BY <1>1, <1>2

\* When a group forgets its handles (releaseHandles went through to the end) none
\* of them resolves, for any number of groups and whatever other callers did to the
\* arena between two of its Deletes. Deleting walks back from the last handle, and
\* by MonotoneNotRevived what has been passed stays dead.
THEOREM GroupsLeaveNothing == Spec => GroupLeavesNothing
<1>1. ASSUME IInv, [Next]_vars
      PROVE  [\A g \in Groups : members'[g] = <<>> =>
                 \A id \in ToSet(members[g]) : ~Resolves(id)']_vars
  <2> SUFFICES ASSUME NEW g \in Groups, members'[g] = <<>>, NEW id \in ToSet(members[g])
               PROVE  ~Resolves(id)'
    OBVIOUS
  <2>1. GroupInv(g) /\ members = [h \in Groups |-> members[h]]
    BY <1>1 DEF IInv, MembersInv
  <2>2. PICK j \in 1 .. Len(members[g]) : members[g][j] = id
    BY <2>1 DEF ToSet, GroupInv
  <2>3. id \in Ids /\ id < nextID /\ Len(members[g]) # 0
    BY <2>1, <2>2 DEF GroupInv
  <2>4. members'[g] # members[g]
    BY <2>3
  <2>5. ASSUME NEW size, NEW alignment, NEW h \in Groups, GroupAllocate(h, size, alignment)
        PROVE  FALSE
    <3>1. members' = [members EXCEPT ![h] = Append(@, FreshID)]
      BY <2>5 DEF GroupAllocate
    <3>2. members'[g] = Append(members[g], FreshID)
      BY <3>1, <2>1, <2>4
    <3>3. Len(Append(members[g], FreshID)) = Len(members[g]) + 1 /\ Len(members[g]) \in Nat
      BY <2>1 DEF GroupInv
    <3> QED BY <3>2, <3>3
  <2>6. ASSUME NEW h \in Groups, GroupEnd(h)
        PROVE  ~Resolves(id)'
    <3>1. h = g /\ loop[g] # Idle /\ loop[g].index = 0
      BY <2>6, <2>1, <2>4 DEF GroupEnd
    <3>2. id \in Passed(g)
      BY <3>1, <2>2 DEF Passed
    <3>3. ~Resolves(id)
      BY <3>1, <3>2, <2>1 DEF GroupInv
    <3> QED BY <3>3, <2>3, <1>1, StepKeepsHandles, MonotoneNotRevived DEF IInv
  <2> QED BY <2>4, <2>5, <2>6, <1>1, MembersStep
<1> QED BY <1>1, InitInv, StepInv, PTL DEF Spec, GroupLeavesNothing

-----------------------------------------------------------------------------
(* Induction and recursion over what has a rank.                           *)

\* No sequence of natural numbers descends for ever.
LEMMA LessIsWellFounded == IsWellFoundedOn({ss \in Nat \X Nat : ss[1] < ss[2]}, Nat)
BY NatLessThanWellFounded DEF OpToRel

\* Every set of natural numbers that is not empty has a least member.
LEMMA Least ==
  ASSUME NEW S \in SUBSET Nat, S # {}
  PROVE  \E m \in S : \A k \in S : m <= k
<1> DEFINE R == {ss \in Nat \X Nat : ss[1] < ss[2]}
<1>1. PICK m \in S : \A k \in S : <<k, m>> \notin R
  <2>1. IsWellFoundedOn(R, Nat)
    BY LessIsWellFounded
  <2> HIDE DEF R
  <2> QED BY <2>1, WFMin, Zenon
<1>2. ASSUME NEW k \in S PROVE m <= k
  <2>1. <<k, m>> \in Nat \X Nat /\ <<k, m>> \notin R
    BY <1>1
  <2>2. ~(k < m)
    BY <2>1
  <2> QED BY <2>2
<1> QED BY <1>2

\* Whatever holds of x when it holds of all of smaller rank holds everywhere:
\* an element of the least rank it fails at would be a contradiction.
LEMMA ByRank ==
  ASSUME NEW D, NEW rank \in [D -> Nat], NEW Good \in SUBSET D,
         \A x \in D : (\A y \in D : rank[y] < rank[x] => y \in Good) => x \in Good
  PROVE  D \subseteq Good
<1> SUFFICES ASSUME D \ Good # {} PROVE FALSE
  OBVIOUS
<1> DEFINE S == {rank[x] : x \in D \ Good}
<1>1. S \in SUBSET Nat /\ S # {}
  OBVIOUS
<1>2. PICK m \in S : \A k \in S : m <= k
  <2> HIDE DEF S
  <2> QED BY <1>1, Least
<1>3. PICK x \in D \ Good : rank[x] = m
  OBVIOUS
<1>4. ASSUME NEW y \in D, rank[y] < rank[x] PROVE y \in Good
  <2>1. rank[y] \in Nat /\ m \in Nat /\ ~(m <= rank[y])
    BY <1>1, <1>3, <1>4
  <2>2. rank[y] \notin S
    BY <1>2, <2>1
  <2> QED BY <2>2
<1> QED BY <1>3, <1>4

\* A recursion on D that each step takes to a smaller rank: `last` are the elements
\* it ends in, next[x] is where it goes from x.
Descends(D, V, rank, last, next, first, G) ==
  /\ rank \in [D -> Nat]
  /\ last \subseteq D /\ first \in [last -> V]
  /\ G \in [D \X V -> V]
  /\ \A x \in D \ last : next[x] \in D /\ rank[next[x]] < rank[x]

\* Such a recursion defines a function.
LEMMA Recursion ==
  ASSUME NEW D, NEW V, NEW rank, NEW last, NEW next, NEW first, NEW G,
         Descends(D, V, rank, last, next, first, G)
  PROVE  \E f \in [D -> V] : \A x \in D :
           f[x] = IF x \in last THEN first[x] ELSE G[<<x, f[next[x]]>>]
<1> USE DEF Descends
<1> DEFINE Below(n) == {x \in D : rank[x] < n}
           Solves(f, n) ==
             /\ f \in [Below(n) -> V]
             /\ \A x \in Below(n) : f[x] = IF x \in last THEN first[x] ELSE G[<<x, f[next[x]]>>]
<1>1. \A n \in Nat : \A x \in Below(n) \ last : next[x] \in Below(n)
  OBVIOUS
<1>2. ASSUME NEW n \in Nat, NEW f, Solves(f, n), NEW m \in Nat, NEW g, Solves(g, m)
      PROVE  \A x \in D : x \in Below(n) /\ x \in Below(m) => f[x] = g[x]
  <2> DEFINE Good == {x \in D : x \in Below(n) /\ x \in Below(m) => f[x] = g[x]}
  <2>1. ASSUME NEW x \in D, \A y \in D : rank[y] < rank[x] => y \in Good,
               x \in Below(n), x \in Below(m)
        PROVE  f[x] = g[x]
    <3>1. CASE x \in last
      BY <1>2, <2>1, <3>1
    <3>2. CASE x \notin last
      <4>1. next[x] \in Below(n) /\ next[x] \in Below(m) /\ rank[next[x]] < rank[x]
        BY <1>1, <2>1, <3>2
      <4>2. f[next[x]] = g[next[x]]
        BY <2>1, <4>1
      <4> QED BY <1>2, <2>1, <3>2, <4>2
    <3> QED BY <3>1, <3>2
  <2>2. \A x \in D : (\A y \in D : rank[y] < rank[x] => y \in Good) => x \in Good
    BY <2>1
  <2>3. Good \in SUBSET D
    OBVIOUS
  <2>4. D \subseteq Good
    <3> HIDE DEF Good
    <3> QED BY <2>2, <2>3, ByRank
  <2> QED BY <2>4
<1>3. \A n \in Nat : \E f : Solves(f, n)
  <2> DEFINE Good == {n \in Nat : \E f : Solves(f, n)}
             id == [n \in Nat |-> n]
  <2>1. \E f : Solves(f, 0)
    <3>1. Below(0) = {}
      OBVIOUS
    <3>2. Solves([x \in {} |-> x], 0)
      BY <3>1
    <3> QED BY <3>2
  <2>2. ASSUME NEW n \in Nat, NEW f, Solves(f, n) PROVE \E g : Solves(g, n + 1)
    <3> DEFINE g == [x \in Below(n + 1) |->
                       IF x \in last THEN first[x] ELSE G[<<x, f[next[x]]>>]]
    <3>1. \A x \in Below(n + 1) \ last : next[x] \in Below(n)
      OBVIOUS
    <3>2. \A x \in Below(n + 1) : g[x] \in V
      BY <2>2, <3>1
    <3>3. \A x \in Below(n) : x \in Below(n + 1) /\ g[x] = f[x]
      BY <2>2
    <3>4. \A x \in Below(n + 1) : g[x] = IF x \in last THEN first[x] ELSE G[<<x, g[next[x]]>>]
      BY <3>1, <3>3
    <3>5. g \in [Below(n + 1) -> V]
      BY <3>2
    <3> HIDE DEF g
    <3> QED BY <3>4, <3>5
  <2> HIDE DEF Solves
  <2>3. ASSUME NEW n \in Nat, \A m \in Nat : m < n => m \in Good PROVE n \in Good
    <3>1. CASE n = 0
      BY <2>1, <3>1
    <3>2. CASE n # 0
      <4>1. n - 1 \in Nat /\ n - 1 < n /\ (n - 1) + 1 = n
        BY <3>2
      <4> QED BY <2>2, <2>3, <4>1
    <3> QED BY <3>1, <3>2
  <2>4. id \in [Nat -> Nat] /\ Good \in SUBSET Nat
        /\ \A n \in Nat : (\A m \in Nat : id[m] < id[n] => m \in Good) => n \in Good
    BY <2>3
  <2>5. Nat \subseteq Good
    <3> HIDE DEF Good, id
    <3> QED BY <2>4, ByRank
  <2> QED BY <2>5
<1> DEFINE part == [n \in Nat |-> CHOOSE f : Solves(f, n)]
           F == [x \in D |-> part[rank[x] + 1][x]]
<1>4. \A n \in Nat : Solves(part[n], n)
  <2> HIDE DEF Solves
  <2> QED BY <1>3
<1> HIDE DEF part
<1>5. ASSUME NEW x \in D PROVE F[x] \in V
  <2>1. rank[x] + 1 \in Nat /\ x \in Below(rank[x] + 1)
    OBVIOUS
  <2>2. part[rank[x] + 1] \in [Below(rank[x] + 1) -> V]
    BY <1>4, <2>1
  <2>3. part[rank[x] + 1][x] \in V
    BY <2>1, <2>2
  <2> QED BY <2>3
<1>6. ASSUME NEW x \in D
      PROVE  F[x] = IF x \in last THEN first[x] ELSE G[<<x, F[next[x]]>>]
  <2>1. rank[x] + 1 \in Nat /\ x \in Below(rank[x] + 1)
    OBVIOUS
  <2>2. CASE x \in last
    BY <1>4, <2>1, <2>2
  <2>3. CASE x \notin last
    <3>1. next[x] \in D /\ next[x] \in Below(rank[x] + 1)
          /\ rank[next[x]] + 1 \in Nat /\ next[x] \in Below(rank[next[x]] + 1)
      BY <2>3
    <3>2. part[rank[x] + 1][next[x]] = part[rank[next[x]] + 1][next[x]]
      <4> HIDE DEF Solves, Below
      <4> QED BY <1>2, <1>4, <2>1, <3>1
    <3>3. part[rank[x] + 1][x] = G[<<x, part[rank[x] + 1][next[x]]>>]
      <4>1. Solves(part[rank[x] + 1], rank[x] + 1)
        BY <1>4, <2>1
      <4> HIDE DEF F
      <4> QED BY <4>1, <2>1, <2>3
    <3> QED BY <3>1, <3>2, <3>3, <2>3
  <2> QED BY <2>2, <2>3
<1>7. F \in [D -> V]
  BY <1>5
<1> HIDE DEF F
<1> QED BY <1>6, <1>7

-----------------------------------------------------------------------------
(* Sequences of spans, and coalesce's walk over one.                       *)

\* A span without its bounds, which the layout's invariant states apart.
Slot == [offset : Nat, length : Nat]

\* What SMT knows of a concatenation once it knows the types.
LEMMA ConcatElements ==
  ASSUME NEW V, NEW p \in Seq(V), NEW q \in Seq(V)
  PROVE  /\ p \o q \in Seq(V)
         /\ Len(p \o q) = Len(p) + Len(q)
         /\ \A j \in 1 .. Len(p) : (p \o q)[j] = p[j]
         /\ \A j \in Len(p) + 1 .. Len(p) + Len(q) : (p \o q)[j] = q[j - Len(p)]
OBVIOUS

\* RemoveAt closes the gap.
LEMMA RemoveAtElements ==
  ASSUME NEW V, NEW s \in Seq(V), NEW i \in 1 .. Len(s)
  PROVE  /\ RemoveAt(s, i) \in Seq(V)
         /\ Len(RemoveAt(s, i)) = Len(s) - 1
         /\ \A j \in 1 .. Len(s) - 1 : RemoveAt(s, i)[j] = IF j < i THEN s[j] ELSE s[j + 1]
<1> DEFINE before == SubSeq(s, 1, i - 1)
           after == SubSeq(s, i + 1, Len(s))
<1>1. /\ before \in Seq(V) /\ Len(before) = i - 1
      /\ \A j \in 1 .. i - 1 : before[j] = s[j]
  OBVIOUS
<1>2. /\ after \in Seq(V) /\ Len(after) = Len(s) - i
      /\ \A j \in 1 .. Len(s) - i : after[j] = s[i + j]
  OBVIOUS
<1> HIDE DEF before, after
<1>3. /\ before \o after \in Seq(V)
      /\ Len(before \o after) = Len(s) - 1
      /\ \A j \in 1 .. Len(s) - 1 :
           (before \o after)[j] = IF j < i THEN before[j] ELSE after[j - (i - 1)]
  <2>1. /\ before \o after \in Seq(V)
        /\ Len(before \o after) = (i - 1) + (Len(s) - i)
        /\ \A j \in 1 .. i - 1 : (before \o after)[j] = before[j]
        /\ \A j \in i .. Len(s) - 1 : (before \o after)[j] = after[j - (i - 1)]
    <3>1. /\ before \o after \in Seq(V)
          /\ Len(before \o after) = Len(before) + Len(after)
          /\ \A j \in 1 .. Len(before) : (before \o after)[j] = before[j]
          /\ \A j \in Len(before) + 1 .. Len(before) + Len(after) :
                (before \o after)[j] = after[j - Len(before)]
      BY <1>1, <1>2, ConcatElements
    <3>2. (i - 1) + 1 = i /\ (i - 1) + (Len(s) - i) = Len(s) - 1
      OBVIOUS
    <3> QED BY <1>1, <1>2, <3>1, <3>2
  <2> QED BY <2>1
<1>4. ASSUME NEW j \in 1 .. Len(s) - 1
      PROVE  (before \o after)[j] = IF j < i THEN s[j] ELSE s[j + 1]
  <2>1. CASE j < i
    BY <2>1, <1>1, <1>3
  <2>2. CASE ~(j < i)
    <3>1. j - (i - 1) \in 1 .. Len(s) - i /\ i + (j - (i - 1)) = j + 1
      BY <2>2
    <3> QED BY <2>2, <3>1, <1>2, <1>3
  <2> QED BY <2>1, <2>2
<1> QED BY <1>3, <1>4 DEF RemoveAt, before, after

\* Two adjacent spans joined are one span of the bytes of both.
LEMMA JoinedExtent ==
  ASSUME NEW s \in Slot, NEW t \in Slot, Adjacent(s, t)
  PROVE  /\ Joined(s, t) \in Slot
         /\ Extent(Joined(s, t)) = Extent(s) \cup Extent(t)
         /\ EndOf(Joined(s, t)) \in {EndOf(s), EndOf(t)}
<1>1. PICK a \in Nat, m \in Nat : s.offset = a /\ s.length = m
  BY DEF Slot
<1>2. PICK b \in Nat, n \in Nat : t.offset = b /\ t.length = n
  BY DEF Slot
<1>3. Joined(s, t) = [offset |-> IF a < b THEN a ELSE b, length |-> m + n]
  BY <1>1, <1>2 DEF Joined
<1>4. a + m = b \/ b + n = a
  BY <1>1, <1>2 DEF Adjacent, EndOf
<1>5. Joined(s, t) \in Slot
  BY <1>3 DEF Slot
<1>6. PICK j \in Slot : j = Joined(s, t)
  BY <1>5
<1>7. j.offset = (IF a < b THEN a ELSE b) /\ j.length = m + n
  BY <1>3, <1>6
<1>8. EndOf(j) \in {EndOf(s), EndOf(t)}
  BY <1>1, <1>2, <1>4, <1>7 DEF EndOf
<1>9. Extent(j) = Extent(s) \cup Extent(t)
  <2>1. Extent(s) = a .. a + m - 1 /\ Extent(t) = b .. b + n - 1
    BY <1>1, <1>2 DEF Extent, EndOf
  <2>2. Extent(j) = j.offset .. j.offset + (m + n) - 1
    BY <1>7 DEF Extent, EndOf
  <2>3. CASE a + m = b
    <3>1. j.offset = a
      BY <1>7, <2>3
    <3> QED BY <2>1, <2>2, <2>3, <3>1
  <2>4. CASE b + n = a
    <3>1. j.offset = b
      BY <1>7, <2>4
    <3> QED BY <2>1, <2>2, <2>4, <3>1
  <2> QED BY <1>4, <2>3, <2>4
<1> QED BY <1>5, <1>6, <1>8, <1>9

\* One step of coalesce's loops stays in its domain.
LEMMA CoalesceStepWalks ==
  ASSUME NEW w \in Walks, w.left <= Len(w.free)
  PROVE  /\ CoalesceStep(w) \in Walks
         /\ \/ CoalesceStep(w).left + Len(w.free) = w.left + 1 + Len(CoalesceStep(w).free)
            \/ /\ CoalesceStep(w).left = w.left /\ CoalesceStep(w).free = w.free
               /\ CoalesceStep(w).right = w.right + 1 /\ w.right <= Len(w.free)
<1> DEFINE f == w.free
           l == w.left
           r == w.right
<1>1. f \in Seq(Slot) /\ l \in Nat \ {0} /\ r \in Nat \ {0} /\ l < r /\ l <= Len(f)
  BY DEF Walks, Slot
<1>2. CASE r > Len(f)
  BY <1>1, <1>2 DEF CoalesceStep, Walks, Slot
<1>3. CASE r <= Len(f) /\ Adjacent(f[l], f[r])
  <2> DEFINE g == [f EXCEPT ![l] = Joined(f[l], f[r])]
  <2>1. Joined(f[l], f[r]) \in Slot
    <3>1. f[l] \in Slot /\ f[r] \in Slot
      BY <1>1, <1>3
    <3> QED BY <1>3, <3>1, JoinedExtent
  <2>2. g \in Seq(Slot) /\ Len(g) = Len(f) /\ r \in 1 .. Len(g)
    BY <2>1, <1>1, <1>3
  <2> HIDE DEF g
  <2>3. RemoveAt(g, r) \in Seq(Slot) /\ Len(RemoveAt(g, r)) = Len(f) - 1
    BY <2>2, RemoveAtElements
  <2>4. CoalesceStep(w) = [free |-> RemoveAt(g, r), left |-> l, right |-> r]
    BY <1>1, <1>3 DEF CoalesceStep, g
  <2> HIDE DEF f, l, r
  <2> DEFINE h == RemoveAt(g, r)
  <2>5. CoalesceStep(w) \in Walks
    <3>1. h \in Seq([offset : Nat, length : Nat])
      BY <2>3 DEF Slot
    <3>2. CoalesceStep(w) = [free |-> h, left |-> l, right |-> r]
      BY <2>4
    <3> HIDE DEF h
    <3>3. [free |-> h, left |-> l, right |-> r]
            \in [free : Seq([offset : Nat, length : Nat]), left : Nat \ {0}, right : Nat \ {0}]
      BY <1>1, <3>1
    <3>4. CoalesceStep(w).left = l /\ CoalesceStep(w).right = r
      BY <3>2
    <3> QED BY <1>1, <3>2, <3>3, <3>4 DEF Walks
  <2>6. CoalesceStep(w).left + Len(w.free) = w.left + 1 + Len(CoalesceStep(w).free)
    <3>1. CoalesceStep(w).left = l /\ CoalesceStep(w).free = RemoveAt(g, r)
      BY <2>4
    <3>2. Len(CoalesceStep(w).free) = Len(f) - 1 /\ Len(f) \in Nat /\ l \in Nat
      BY <1>1, <2>3, <3>1
    <3>3. w.left = l /\ w.free = f
      BY DEF f, l
    <3> QED BY <3>1, <3>2, <3>3
  <2> QED BY <2>5, <2>6
<1>4. CASE r <= Len(f) /\ ~Adjacent(f[l], f[r])
  <2>1. CoalesceStep(w) = [free |-> f, left |-> l, right |-> r + 1]
    BY <1>1, <1>4 DEF CoalesceStep
  <2>2. CoalesceStep(w) \in Walks
    <3> HIDE DEF f, l, r
    <3> QED BY <1>1, <2>1 DEF Walks, Slot
  <2> QED BY <1>4, <2>1, <2>2
<1>5. r > Len(f) \/ r <= Len(f)
  BY <1>1
<1> QED BY <1>2, <1>3, <1>4, <1>5

\* How far coalesce's loops have to go: the spans left of the outer loop, then
\* those of the inner one.
Ahead(w) == IF w.left > Len(w.free) THEN 0 ELSE Len(w.free) - w.left + 1
AheadInside(w) == IF w.right > Len(w.free) THEN 0 ELSE Len(w.free) - w.right + 1
Measure == [w \in Walks |-> Ahead(w) * Ahead(w) + AheadInside(w)]

\* A step of coalesce's outer loop outweighs all that the inner one may add.
LEMMA SquareShrinks ==
  ASSUME NEW a \in Nat \ {0}, NEW b \in Nat, NEW c \in Nat, c <= a - 1
  PROVE  (a - 1) * (a - 1) + c < a * a + b
<1>1. (a - 1) * (a - 1) = a * a - 2 * a + 1
  OBVIOUS
<1>2. a * a \in Nat
  OBVIOUS
<1> QED BY <1>1, <1>2

\* Each step of coalesce's loops brings them nearer to their end.
LEMMA MeasureShrinks ==
  /\ Measure \in [Walks -> Nat]
  /\ \A w \in Walks : w.left <= Len(w.free) => Measure[CoalesceStep(w)] < Measure[w]
<1>1. ASSUME NEW w \in Walks
      PROVE  /\ w.free \in Seq(Slot) /\ Len(w.free) \in Nat
             /\ w.left \in Nat \ {0} /\ w.right \in Nat \ {0} /\ w.left < w.right
             /\ Ahead(w) \in Nat /\ AheadInside(w) \in Nat
  BY <1>1 DEF Walks, Slot, Ahead, AheadInside
<1>2. Measure \in [Walks -> Nat]
  <2>1. ASSUME NEW a \in Nat, NEW b \in Nat PROVE a * a + b \in Nat
    OBVIOUS
  <2> QED BY <1>1, <2>1 DEF Measure
<1>3. ASSUME NEW w \in Walks, w.left <= Len(w.free)
      PROVE  Measure[CoalesceStep(w)] < Measure[w]
  <2> DEFINE s == CoalesceStep(w)
             a == Ahead(w)
  <2>1. /\ s \in Walks
        /\ \/ s.left + Len(w.free) = w.left + 1 + Len(s.free)
           \/ s.left = w.left /\ s.free = w.free /\ s.right = w.right + 1 /\ w.right <= Len(w.free)
    BY <1>3, CoalesceStepWalks
  <2> HIDE DEF s
  <2> SUFFICES Measure[s] < Measure[w]
    BY DEF s
  <2>2. a \in Nat \ {0} /\ AheadInside(w) \in Nat /\ Ahead(s) \in Nat /\ AheadInside(s) \in Nat
    BY <1>1, <1>3, <2>1 DEF Ahead
  <2>3. Measure[w] = a * a + AheadInside(w) /\ Measure[s] = Ahead(s) * Ahead(s) + AheadInside(s)
    BY <2>1 DEF Measure
  <2>4. CASE s.left + Len(w.free) = w.left + 1 + Len(s.free)
    <3>1. Ahead(s) = a - 1
      <4>1. PICK l \in Nat, n \in Nat : w.left = l /\ Len(w.free) = n
        BY <1>1
      <4>2. PICK k \in Nat, m \in Nat : s.left = k /\ Len(s.free) = m
        BY <1>1, <2>1
      <4>3. l <= n /\ k + n = l + 1 + m
        BY <1>3, <2>4, <4>1, <4>2
      <4>4. a = IF l > n THEN 0 ELSE n - l + 1
        BY <4>1 DEF Ahead
      <4>5. Ahead(s) = IF k > m THEN 0 ELSE m - k + 1
        BY <4>2 DEF Ahead
      <4> HIDE DEF a
      <4> QED BY <4>3, <4>4, <4>5
    <3>2. AheadInside(s) <= Ahead(s)
      BY <1>1, <2>1 DEF Ahead, AheadInside
    <3> HIDE DEF a
    <3>3. (a - 1) * (a - 1) + AheadInside(s) < a * a + AheadInside(w)
      BY <2>2, <3>1, <3>2, SquareShrinks
    <3> QED BY <2>3, <3>1, <3>3
  <2>5. CASE s.left = w.left /\ s.free = w.free /\ s.right = w.right + 1 /\ w.right <= Len(w.free)
    <3>1. Ahead(s) = a /\ AheadInside(s) = AheadInside(w) - 1
      BY <1>1, <2>1, <2>5 DEF Ahead, AheadInside
    <3>2. a * a \in Nat
      BY <2>2
    <3> HIDE DEF a
    <3> QED BY <2>2, <2>3, <3>1, <3>2
  <2> QED BY <2>1, <2>4, <2>5
<1> QED BY <1>2, <1>3

\* CoalesceFrom is the function its recursive definition says it is.
LEMMA CoalesceUnfolds ==
  \A w \in Walks :
    CoalesceFrom[w] = IF w.left > Len(w.free) THEN w.free ELSE CoalesceFrom[CoalesceStep(w)]
<1> DEFINE last == {w \in Walks : w.left > Len(w.free)}
           next == [w \in Walks |-> CoalesceStep(w)]
           first == [w \in last |-> w.free]
           G == [wv \in Walks \X Seq(Slot) |-> wv[2]]
<1>1. /\ Measure \in [Walks -> Nat] /\ last \in SUBSET Walks
      /\ first \in [last -> Seq(Slot)]
      /\ G \in [Walks \X Seq(Slot) -> Seq(Slot)]
  BY MeasureShrinks DEF Walks, Slot
<1>2. ASSUME NEW w \in Walks \ last
      PROVE  next[w] \in Walks /\ Measure[next[w]] < Measure[w]
  <2>1. w \in Walks /\ w.left <= Len(w.free)
    BY DEF Walks
  <2> QED BY <2>1, CoalesceStepWalks, MeasureShrinks
<1>3. PICK F \in [Walks -> Seq(Slot)] : \A w \in Walks :
        F[w] = IF w \in last THEN first[w] ELSE G[<<w, F[next[w]]>>]
  <2>1. \A w \in Walks \ last : next[w] \in Walks /\ Measure[next[w]] < Measure[w]
    BY <1>2
  <2> HIDE DEF last, next, first, G
  <2>2. Descends(Walks, Seq(Slot), Measure, last, next, first, G)
    BY <1>1, <2>1 DEF Descends
  <2> QED BY <2>2, Recursion
<1>4. F = [w \in Walks |-> IF w.left > Len(w.free) THEN w.free ELSE F[CoalesceStep(w)]]
  <2>1. ASSUME NEW w \in Walks
        PROVE  F[w] = IF w.left > Len(w.free) THEN w.free ELSE F[CoalesceStep(w)]
    <3>1. CASE w \in last
      BY <1>3, <3>1
    <3>2. CASE w \notin last
      <4>1. next[w] \in Walks /\ next[w] = CoalesceStep(w)
        BY <1>2, <3>2
      <4>2. F[next[w]] \in Seq(Slot)
        BY <4>1, <1>3
      <4>3. G[<<w, F[next[w]]>>] = F[next[w]]
        BY <4>2
      <4>4. F[w] = G[<<w, F[next[w]]>>]
        <5> HIDE DEF last, next, first, G
        <5> QED BY <1>3, <3>2
      <4> QED BY <3>2, <4>1, <4>3, <4>4
    <3> QED BY <3>1, <3>2
  <2> HIDE DEF last, next, first, G
  <2> QED BY <1>3, <2>1
<1>5. CoalesceFrom = [w \in Walks |-> IF w.left > Len(w.free) THEN w.free
                                      ELSE CoalesceFrom[CoalesceStep(w)]]
  BY <1>4 DEF CoalesceFrom
<1> QED BY <1>5

-----------------------------------------------------------------------------
(* What coalesce does to the free list: it takes up the same bytes, and no *)
(* two of its spans share one.                                              *)

\* A list of spans of which no two share a byte, the bytes it covers, and where it ends.
Apart(f) == \A i, j \in DOMAIN f : i # j => Extent(f[i]) \cap Extent(f[j]) = {}
Covered(f) == UNION {Extent(f[i]) : i \in DOMAIN f}
Within(f, end) == \A i \in DOMAIN f : EndOf(f[i]) <= end

\* Joining two spans of a list where the left one stands.
LEMMA JoinKeeps ==
  ASSUME NEW f \in Seq(Slot), NEW l \in DOMAIN f, NEW r \in DOMAIN f, l < r,
         Adjacent(f[l], f[r]), NEW end, Apart(f), Within(f, end),
         NEW h, h = RemoveAt([f EXCEPT ![l] = Joined(f[l], f[r])], r)
  PROVE  h \in Seq(Slot) /\ Apart(h) /\ Within(h, end) /\ Covered(h) = Covered(f)
<1> DEFINE g == [f EXCEPT ![l] = Joined(f[l], f[r])]
<1>1. /\ f[l] \in Slot /\ f[r] \in Slot /\ Len(f) \in Nat /\ DOMAIN f = 1 .. Len(f)
      /\ l \in 1 .. Len(f) /\ r \in 1 .. Len(f)
  OBVIOUS
<1>2. PICK joined \in Slot :
        /\ joined = Joined(f[l], f[r])
        /\ Extent(joined) = Extent(f[l]) \cup Extent(f[r])
        /\ EndOf(joined) \in {EndOf(f[l]), EndOf(f[r])}
  BY <1>1, JoinedExtent
<1>3. /\ g \in Seq(Slot) /\ Len(g) = Len(f)
      /\ \A k \in 1 .. Len(f) : g[k] = IF k = l THEN joined ELSE f[k]
  BY <1>1, <1>2
<1>4. h = RemoveAt(g, r)
  OBVIOUS
<1> HIDE DEF g
<1>5. /\ h \in Seq(Slot) /\ Len(h) = Len(f) - 1
      /\ \A j \in 1 .. Len(f) - 1 : h[j] = IF j < r THEN g[j] ELSE g[j + 1]
  <2>1. g \in Seq(Slot) /\ r \in 1 .. Len(g) /\ Len(g) = Len(f)
    BY <1>1, <1>3
  <2>2. /\ RemoveAt(g, r) \in Seq(Slot)
        /\ Len(RemoveAt(g, r)) = Len(g) - 1
        /\ \A j \in 1 .. Len(g) - 1 : RemoveAt(g, r)[j] = IF j < r THEN g[j] ELSE g[j + 1]
    BY <2>1, RemoveAtElements
  <2> QED BY <1>4, <2>1, <2>2
<1>6. DOMAIN h = 1 .. Len(f) - 1
  BY <1>5
<1> DEFINE at(j) == IF j < r THEN j ELSE j + 1
<1>7. ASSUME NEW j \in DOMAIN h
      PROVE  /\ at(j) \in DOMAIN f /\ at(j) # r
             /\ h[j] = IF at(j) = l THEN joined ELSE f[at(j)]
  <2>1. j \in 1 .. Len(f) - 1
    BY <1>6
  <2>2. at(j) \in 1 .. Len(f) /\ at(j) # r
    BY <1>1, <2>1
  <2>3. h[j] = g[at(j)]
    BY <1>5, <2>1
  <2> QED BY <1>1, <1>3, <2>2, <2>3
<1>8. \A i, j \in DOMAIN h : i # j => at(i) # at(j)
  BY <1>1, <1>6
<1>9. \A k \in DOMAIN f : k # r => \E j \in DOMAIN h : at(j) = k
  <2> TAKE k \in DOMAIN f
  <2> HAVE k # r
  <2>1. CASE k < r
    <3>1. k \in DOMAIN h /\ at(k) = k
      BY <1>1, <1>6, <2>1
    <3> QED BY <3>1
  <2>2. CASE k > r
    <3>1. k - 1 \in DOMAIN h /\ at(k - 1) = k
      BY <1>1, <1>6, <2>2
    <3> QED BY <3>1
  <2>3. k < r \/ k > r
    BY <1>1
  <2> QED BY <2>1, <2>2, <2>3
<1> HIDE DEF at
<1>10. Apart(h)
  <2> SUFFICES ASSUME NEW i \in DOMAIN h, NEW j \in DOMAIN h, i # j
               PROVE  Extent(h[i]) \cap Extent(h[j]) = {}
    BY DEF Apart
  <2>1. /\ at(i) \in DOMAIN f /\ at(j) \in DOMAIN f /\ at(i) # r /\ at(j) # r /\ at(i) # at(j)
        /\ h[i] = IF at(i) = l THEN joined ELSE f[at(i)]
        /\ h[j] = IF at(j) = l THEN joined ELSE f[at(j)]
    BY <1>7, <1>8
  <2>2. \A x \in DOMAIN f : x # r /\ x # l => (Extent(f[l]) \cup Extent(f[r])) \cap Extent(f[x]) = {}
    BY DEF Apart
  <2>3. CASE at(i) = l
    BY <2>1, <2>2, <2>3, <1>2
  <2>4. CASE at(j) = l
    BY <2>1, <2>2, <2>4, <1>2
  <2>5. CASE at(i) # l /\ at(j) # l
    BY <2>1, <2>5 DEF Apart
  <2> QED BY <2>3, <2>4, <2>5
<1>11. Within(h, end)
  <2> SUFFICES ASSUME NEW j \in DOMAIN h PROVE EndOf(h[j]) <= end
    BY DEF Within
  <2>1. \A x \in DOMAIN f : EndOf(f[x]) <= end
    BY DEF Within
  <2>2. EndOf(joined) <= end
    BY <1>2, <2>1
  <2> QED BY <1>7, <2>1, <2>2
<1>12. Covered(h) = Covered(f)
  <2>1. ASSUME NEW b, NEW j \in DOMAIN h, b \in Extent(h[j])
        PROVE  \E k \in DOMAIN f : b \in Extent(f[k])
    <3>1. CASE at(j) = l
      BY <1>2, <1>7, <2>1, <3>1
    <3>2. CASE at(j) # l
      BY <1>7, <2>1, <3>2
    <3> QED BY <3>1, <3>2
  <2>2. ASSUME NEW b, NEW k \in DOMAIN f, b \in Extent(f[k])
        PROVE  \E j \in DOMAIN h : b \in Extent(h[j])
    <3>1. CASE k = l \/ k = r
      <4>1. b \in Extent(joined)
        BY <1>2, <2>2, <3>1
      <4>2. l \in DOMAIN f /\ l # r
        BY <1>1
      <4>3. PICK j \in DOMAIN h : at(j) = l
        BY <1>9, <4>2
      <4> QED BY <1>7, <4>1, <4>3
    <3>2. CASE k # l /\ k # r
      <4>1. PICK j \in DOMAIN h : at(j) = k
        BY <1>9, <3>2
      <4> QED BY <1>7, <2>2, <3>2, <4>1
    <3> QED BY <3>1, <3>2
  <2> QED BY <2>1, <2>2 DEF Covered
<1> QED BY <1>5, <1>10, <1>11, <1>12

\* coalesce keeps the bytes that are free, keeps spans apart, and reaches no further
\* than the spans it was given, whatever list it is given: by ByRank on how far its
\* loops have to go, the steps being JoinKeeps or none.
THEOREM CoalescedKeeps ==
  ASSUME NEW f \in Seq(Slot), NEW end, Apart(f), Within(f, end)
  PROVE  /\ Coalesced(f) \in Seq(Slot)
         /\ Apart(Coalesced(f)) /\ Within(Coalesced(f), end)
         /\ Covered(Coalesced(f)) = Covered(f)
<1> DEFINE Kept(g) == /\ g \in Seq(Slot) /\ Apart(g) /\ Within(g, end)
                      /\ Covered(g) = Covered(f)
           Good == {w \in Walks : Kept(w.free) => Kept(CoalesceFrom[w])}
<1>1. ASSUME NEW w \in Walks, w.left <= Len(w.free), Kept(w.free)
      PROVE  Kept(CoalesceStep(w).free)
  <2>1. /\ w.free \in Seq(Slot) /\ w.left \in Nat \ {0} /\ w.right \in Nat \ {0}
        /\ w.left < w.right /\ Len(w.free) \in Nat
    BY DEF Walks, Slot
  <2>2. CASE w.right <= Len(w.free) /\ Adjacent(w.free[w.left], w.free[w.right])
    <3>1. CoalesceStep(w).free = RemoveAt([w.free EXCEPT ![w.left] =
                                             Joined(w.free[w.left], w.free[w.right])], w.right)
      BY <2>1, <2>2 DEF CoalesceStep
    <3>2. w.left \in DOMAIN w.free /\ w.right \in DOMAIN w.free
      BY <1>1, <2>1, <2>2
    <3> QED BY <1>1, <2>1, <2>2, <3>1, <3>2, JoinKeeps
  <2>3. CASE ~(w.right <= Len(w.free) /\ Adjacent(w.free[w.left], w.free[w.right]))
    <3>1. CoalesceStep(w).free = w.free
      BY <2>1, <2>3 DEF CoalesceStep
    <3> QED BY <1>1, <3>1
  <2> QED BY <2>2, <2>3
<1>2. ASSUME NEW w \in Walks, \A v \in Walks : Measure[v] < Measure[w] => v \in Good
      PROVE  w \in Good
  <2> HIDE DEF Kept
  <2> SUFFICES ASSUME Kept(w.free) PROVE Kept(CoalesceFrom[w])
    OBVIOUS
  <2>1. w.left \in Nat /\ Len(w.free) \in Nat
    BY DEF Walks
  <2>2. CASE w.left > Len(w.free)
    BY <2>2, CoalesceUnfolds
  <2>3. CASE w.left <= Len(w.free)
    <3>1. CoalesceStep(w) \in Walks /\ Measure[CoalesceStep(w)] < Measure[w]
      BY <2>3, CoalesceStepWalks, MeasureShrinks
    <3>2. Kept(CoalesceFrom[CoalesceStep(w)])
      BY <1>1, <1>2, <2>3, <3>1
    <3>3. CoalesceFrom[w] = CoalesceFrom[CoalesceStep(w)]
      BY <2>1, <2>3, CoalesceUnfolds
    <3> QED BY <3>2, <3>3
  <2> QED BY <2>1, <2>2, <2>3
<1>3. Walks \subseteq Good
  <2>1. Good \in SUBSET Walks /\ Measure \in [Walks -> Nat]
    BY MeasureShrinks
  <2> HIDE DEF Good
  <2> QED BY <1>2, <2>1, ByRank
<1>4. [free |-> f, left |-> 1, right |-> 2] \in Walks
  BY DEF Walks, Slot
<1>5. Kept(f)
  OBVIOUS
<1> HIDE DEF Kept
<1>6. Kept(Coalesced(f))
  BY <1>3, <1>4, <1>5 DEF Coalesced
<1> QED BY <1>6 DEF Kept

-----------------------------------------------------------------------------
(* Where Allocate puts an allocation.                                      *)

\* Two lists of spans that share no byte make one.
LEMMA ConcatKeeps ==
  ASSUME NEW p \in Seq(Slot), NEW q \in Seq(Slot), NEW end, Apart(p), Apart(q),
         Within(p, end), Within(q, end), Covered(p) \cap Covered(q) = {}
  PROVE  /\ p \o q \in Seq(Slot) /\ Apart(p \o q) /\ Within(p \o q, end)
         /\ Covered(p \o q) = Covered(p) \cup Covered(q)
<1>1. PICK h \in Seq(Slot) : h = p \o q
  BY ConcatElements
<1>2. /\ Len(p) \in Nat /\ Len(q) \in Nat
      /\ DOMAIN p = 1 .. Len(p) /\ DOMAIN q = 1 .. Len(q) /\ DOMAIN h = 1 .. Len(p) + Len(q)
      /\ \A j \in 1 .. Len(p) : h[j] = p[j]
      /\ \A j \in Len(p) + 1 .. Len(p) + Len(q) : h[j] = q[j - Len(p)]
  BY <1>1, ConcatElements
<1>3. \A j \in DOMAIN h : \/ j \in DOMAIN p /\ h[j] = p[j]
                          \/ /\ j \notin DOMAIN p /\ j - Len(p) \in DOMAIN q
                             /\ h[j] = q[j - Len(p)]
  BY <1>2
<1>4. \A k \in DOMAIN q : Len(p) + k \in DOMAIN h /\ h[Len(p) + k] = q[k]
  <2> TAKE k \in DOMAIN q
  <2>1. Len(p) + k \in Len(p) + 1 .. Len(p) + Len(q) /\ (Len(p) + k) - Len(p) = k
    BY <1>2
  <2> QED BY <1>2, <2>1
<1>5. \A k \in DOMAIN p : k \in DOMAIN h /\ h[k] = p[k]
  BY <1>2
<1>6. \A j, k \in DOMAIN h : j # k /\ j \notin DOMAIN p /\ k \notin DOMAIN p =>
        j - Len(p) # k - Len(p)
  BY <1>2
<1>7. Apart(h)
  <2> SUFFICES ASSUME NEW j \in DOMAIN h, NEW k \in DOMAIN h, j # k
               PROVE  Extent(h[j]) \cap Extent(h[k]) = {}
    BY DEF Apart
  <2>1. CASE j \in DOMAIN p /\ k \in DOMAIN p
    BY <1>5, <2>1 DEF Apart
  <2>2. CASE j \in DOMAIN p /\ k \notin DOMAIN p
    <3>1. Extent(h[j]) \subseteq Covered(p) /\ Extent(h[k]) \subseteq Covered(q)
      BY <1>3, <2>2 DEF Covered
    <3> QED BY <3>1
  <2>3. CASE j \notin DOMAIN p /\ k \in DOMAIN p
    <3>1. Extent(h[j]) \subseteq Covered(q) /\ Extent(h[k]) \subseteq Covered(p)
      BY <1>3, <2>3 DEF Covered
    <3> QED BY <3>1
  <2>4. CASE j \notin DOMAIN p /\ k \notin DOMAIN p
    <3>1. PICK x \in DOMAIN q, y \in DOMAIN q : x # y /\ h[j] = q[x] /\ h[k] = q[y]
      BY <1>3, <1>6, <2>4
    <3> QED BY <3>1 DEF Apart
  <2> QED BY <2>1, <2>2, <2>3, <2>4
<1>8. Within(h, end)
  BY <1>3 DEF Within
<1>9. Covered(h) = Covered(p) \cup Covered(q)
  <2>1. Covered(h) \subseteq Covered(p) \cup Covered(q)
    BY <1>3 DEF Covered
  <2>2. Covered(p) \subseteq Covered(h)
    BY <1>5 DEF Covered
  <2>3. Covered(q) \subseteq Covered(h)
    BY <1>4 DEF Covered
  <2> QED BY <2>1, <2>2, <2>3
<1> QED BY <1>1, <1>7, <1>8, <1>9

\* Taking one span out of the list.
LEMMA RemoveKeeps ==
  ASSUME NEW f \in Seq(Slot), NEW i \in DOMAIN f, NEW end, Apart(f), Within(f, end)
  PROVE  /\ RemoveAt(f, i) \in Seq(Slot) /\ Apart(RemoveAt(f, i)) /\ Within(RemoveAt(f, i), end)
         /\ Covered(RemoveAt(f, i)) \subseteq Covered(f)
         /\ Covered(RemoveAt(f, i)) \cap Extent(f[i]) = {}
<1>1. i \in 1 .. Len(f) /\ DOMAIN f = 1 .. Len(f) /\ Len(f) \in Nat
  OBVIOUS
<1>2. PICK h \in Seq(Slot) :
        /\ h = RemoveAt(f, i) /\ Len(h) = Len(f) - 1
        /\ \A j \in 1 .. Len(f) - 1 : h[j] = IF j < i THEN f[j] ELSE f[j + 1]
  BY <1>1, RemoveAtElements
<1>3. DOMAIN h = 1 .. Len(f) - 1
  BY <1>2
<1> DEFINE at(j) == IF j < i THEN j ELSE j + 1
<1>4. \A j \in DOMAIN h : at(j) \in DOMAIN f /\ at(j) # i /\ h[j] = f[at(j)]
  BY <1>1, <1>2, <1>3
<1>5. \A j, k \in DOMAIN h : j # k => at(j) # at(k)
  BY <1>1, <1>3
<1> HIDE DEF at
<1>6. Apart(h)
  BY <1>4, <1>5 DEF Apart
<1>7. Within(h, end)
  BY <1>4 DEF Within
<1>8. Covered(h) \subseteq Covered(f)
  BY <1>4 DEF Covered
<1>9. Covered(h) \cap Extent(f[i]) = {}
  <2>1. \A j \in DOMAIN h : Extent(h[j]) \cap Extent(f[i]) = {}
    BY <1>4 DEF Apart
  <2> QED BY <2>1 DEF Covered
<1> QED BY <1>2, <1>6, <1>7, <1>8, <1>9

\* The remainders of a span are the span without what was taken out of it.
LEMMA RemaindersKeep ==
  ASSUME NEW s \in Slot, NEW from \in Nat, NEW to \in Nat,
         s.offset <= from, from <= to, to <= EndOf(s),
         NEW end, EndOf(s) <= end, end \in Nat
  PROVE  /\ Remainders(s, from, to) \in Seq(Slot)
         /\ Apart(Remainders(s, from, to)) /\ Within(Remainders(s, from, to), end)
         /\ Covered(Remainders(s, from, to)) \subseteq Extent(s)
         /\ Covered(Remainders(s, from, to)) \cap (from .. to - 1) = {}
<1>1. PICK a \in Nat, m \in Nat : s.offset = a /\ s.length = m /\ a <= from /\ to <= a + m
  BY DEF Slot, EndOf
<1> DEFINE before == [offset |-> a, length |-> from - a]
           after == [offset |-> to, length |-> (a + m) - to]
           kept(t) == IF t.length > 0 THEN <<t>> ELSE <<>>
<1>2. /\ before \in Slot /\ after \in Slot
      /\ Extent(before) = a .. from - 1 /\ Extent(after) = to .. (a + m) - 1
      /\ EndOf(before) = from /\ EndOf(after) = a + m
  BY <1>1 DEF Slot, Extent, EndOf
<1>3. Extent(s) = a .. (a + m) - 1 /\ a + m <= end
  BY <1>1 DEF Extent, EndOf
<1>4. Remainders(s, from, to) = kept(before) \o kept(after)
  BY <1>1 DEF Remainders, EndOf
<1> HIDE DEF before, after
<1>5. ASSUME NEW t \in Slot, EndOf(t) <= end
      PROVE  /\ kept(t) \in Seq(Slot) /\ Apart(kept(t)) /\ Within(kept(t), end)
             /\ Covered(kept(t)) \subseteq Extent(t)
  <2>1. CASE t.length > 0
    <3>1. kept(t) = <<t>> /\ DOMAIN <<t>> = {1} /\ <<t>>[1] = t
      BY <2>1
    <3> QED BY <3>1, <1>5 DEF Apart, Within, Covered
  <2>2. CASE ~(t.length > 0)
    <3>1. kept(t) = <<>> /\ DOMAIN <<>> = {}
      BY <2>2
    <3> QED BY <3>1 DEF Apart, Within, Covered
  <2> QED BY <2>1, <2>2
<1> HIDE DEF kept
<1>6. EndOf(before) <= end /\ EndOf(after) <= end
  BY <1>1, <1>2, <1>3
<1>7. Extent(before) \cap Extent(after) = {}
  BY <1>1, <1>2
<1>8. /\ kept(before) \o kept(after) \in Seq(Slot) /\ Apart(kept(before) \o kept(after))
      /\ Within(kept(before) \o kept(after), end)
      /\ Covered(kept(before) \o kept(after)) \subseteq Extent(before) \cup Extent(after)
  <2>1. Covered(kept(before)) \cap Covered(kept(after)) = {}
    BY <1>2, <1>5, <1>6, <1>7
  <2> QED BY <2>1, <1>2, <1>5, <1>6, ConcatKeeps
<1>9. /\ Extent(before) \cup Extent(after) \subseteq Extent(s)
      /\ (Extent(before) \cup Extent(after)) \cap (from .. to - 1) = {}
  BY <1>1, <1>2, <1>3
<1> QED BY <1>4, <1>8, <1>9

\* AlignUp goes up, and to a natural number.
LEMMA AlignUpIsUp ==
  ASSUME NEW value \in Nat, NEW alignment \in Alignments
  PROVE  AlignUp(value, alignment) \in Nat /\ value <= AlignUp(value, alignment)
<1>1. ASSUME NEW a \in Nat \ {0} PROVE (a - (value % a)) % a \in Nat
  <2>1. a - (value % a) \in Int
    OBVIOUS
  <2> QED BY <2>1
<1>2. alignment \in Nat \ {0}
  BY ArenaAssumption
<1>3. PICK padding \in Nat : AlignUp(value, alignment) = value + padding
  BY <1>1, <1>2 DEF AlignUp
<1> QED BY <1>3

\* The free list and the allocations' side of what Allocate does: it takes bytes
\* that are free or that were never allocated, and no others.
THEOREM PlacementKeeps ==
  ASSUME free \in Seq(Slot), cursor \in 0 .. Capacity, Apart(free), Within(free, cursor),
         NEW size \in Nat, NEW alignment \in Alignments,
         Placement(size, alignment).fits
  PROVE  LET place == Placement(size, alignment)
             taken == place.offset .. place.offset + size - 1
         IN /\ place.free \in Seq(Slot) /\ place.cursor \in cursor .. Capacity
            /\ place.offset \in Nat /\ place.offset + size <= place.cursor
            /\ Apart(place.free) /\ Within(place.free, place.cursor)
            /\ Covered(place.free) \subseteq Covered(free)
            /\ Covered(place.free) \cap taken = {}
            /\ taken \subseteq Covered(free) \/ cursor <= place.offset
<1> DEFINE fitting == Fitting(size, alignment)
           i == Min(fitting)
           place == Placement(size, alignment)
           taken == place.offset .. place.offset + size - 1
<1>1. Capacity \in Nat /\ cursor \in Nat /\ cursor <= Capacity
  BY ArenaAssumption
<1>2. CASE fitting # {}
  <2>1. fitting \in SUBSET Nat
    BY DEF Fitting
  <2>2. i \in fitting
    <3> HIDE DEF fitting
    <3> QED BY <1>2, <2>1, Least DEF Min
  <2> DEFINE s == free[i]
             at == AlignUp(s.offset, alignment)
  <2>3. i \in DOMAIN free /\ at + size <= EndOf(s)
    BY <2>2 DEF Fitting
  <2>4. s \in Slot /\ EndOf(s) <= cursor /\ s.offset \in Nat /\ EndOf(s) \in Nat
    <3>1. s \in Slot /\ EndOf(s) <= cursor
      BY <2>3 DEF Within
    <3> HIDE DEF s
    <3> QED BY <3>1 DEF Slot, EndOf
  <2>5. at \in Nat /\ s.offset <= at
    BY <2>4, AlignUpIsUp
  <2>6. /\ place.offset = at /\ place.cursor = cursor
        /\ place.free = RemoveAt(free, i) \o Remainders(s, at, at + size)
    BY <1>2 DEF Placement
  <2> HIDE DEF i, s, at, fitting, place
  <2> DEFINE rest == RemoveAt(free, i)
             left == Remainders(s, at, at + size)
  <2>7. /\ rest \in Seq(Slot) /\ Apart(rest) /\ Within(rest, cursor)
        /\ Covered(rest) \subseteq Covered(free) /\ Covered(rest) \cap Extent(s) = {}
    BY <2>3, RemoveKeeps DEF s
  <2>8. /\ left \in Seq(Slot) /\ Apart(left) /\ Within(left, cursor)
        /\ Covered(left) \subseteq Extent(s) /\ Covered(left) \cap (at .. (at + size) - 1) = {}
    <3>1. at + size \in Nat /\ at <= at + size
      BY <2>5
    <3> QED BY <1>1, <2>3, <2>4, <2>5, <3>1, RemaindersKeep
  <2> HIDE DEF rest, left
  <2>9. Extent(s) \subseteq Covered(free)
    BY <2>3 DEF Covered, s
  <2>10. at .. (at + size) - 1 \subseteq Extent(s)
    BY <2>3, <2>4, <2>5 DEF Extent
  <2>11. /\ rest \o left \in Seq(Slot) /\ Apart(rest \o left) /\ Within(rest \o left, cursor)
         /\ Covered(rest \o left) = Covered(rest) \cup Covered(left)
    BY <2>7, <2>8, ConcatKeeps
  <2>12. place.free = rest \o left
    BY <2>6 DEF rest, left
  <2>13. taken = at .. (at + size) - 1
    BY <2>5, <2>6 DEF taken
  <2> HIDE DEF taken
  <2>14. /\ Covered(place.free) \subseteq Covered(free) /\ Covered(place.free) \cap taken = {}
         /\ taken \subseteq Covered(free)
    BY <2>7, <2>8, <2>9, <2>10, <2>11, <2>12, <2>13
  <2>15. /\ place.free \in Seq(Slot) /\ Apart(place.free) /\ Within(place.free, place.cursor)
    BY <2>6, <2>11, <2>12
  <2>16. /\ place.cursor \in cursor .. Capacity /\ place.offset \in Nat
         /\ place.offset + size <= place.cursor
    BY <1>1, <2>3, <2>4, <2>5, <2>6
  <2> QED BY <2>14, <2>15, <2>16 DEF taken, place
<1>3. CASE fitting = {}
  <2> DEFINE at == AlignUp(cursor, alignment)
  <2>1. at \in Nat /\ cursor <= at
    BY <1>1, AlignUpIsUp
  <2>2. /\ place.offset = at /\ place.cursor = at + size /\ place.free = free
        /\ at + size <= Capacity
    BY <1>3 DEF Placement
  <2> HIDE DEF at, fitting, place
  <2>3. place.cursor \in cursor .. Capacity /\ place.cursor \in Nat
    BY <1>1, <2>1, <2>2
  <2>4. \A j \in DOMAIN free : /\ Extent(free[j]) \cap taken = {}
                               /\ EndOf(free[j]) <= place.cursor
    <3> TAKE j \in DOMAIN free
    <3>1. PICK t \in Slot : t = free[j] /\ EndOf(t) <= cursor
      BY DEF Within
    <3>2. EndOf(t) \in Nat /\ EndOf(t) <= place.cursor
      BY <1>1, <2>3, <3>1 DEF Slot, EndOf
    <3>3. Extent(t) \cap taken = {}
      BY <1>1, <2>1, <2>2, <3>1, <3>2 DEF Extent, Slot
    <3> QED BY <3>1, <3>2, <3>3
  <2>5. Within(place.free, place.cursor) /\ Covered(place.free) \cap taken = {}
    BY <2>2, <2>4 DEF Within, Covered
  <2> QED BY <2>1, <2>2, <2>3, <2>5 DEF place
<1> QED BY <1>2, <1>3

-----------------------------------------------------------------------------
(* What Rollback releases.                                                 *)

\* Whatever holds of 0, and of each number when it holds of the one before, holds
\* of all of them.
LEMMA UpFromZero ==
  ASSUME NEW Good \in SUBSET Nat, 0 \in Good,
         \A k \in Nat \ {0} : k - 1 \in Good => k \in Good
  PROVE  \A k \in Nat : k \in Good
<1> DEFINE id == [k \in Nat |-> k]
<1>1. ASSUME NEW k \in Nat, \A m \in Nat : id[m] < id[k] => m \in Good
      PROVE  k \in Good
  <2>1. CASE k = 0
    BY <2>1
  <2>2. CASE k # 0
    <3>1. k - 1 \in Nat /\ k - 1 < k
      BY <2>2
    <3> QED BY <1>1, <2>2, <3>1
  <2> QED BY <2>1, <2>2
<1>2. id \in [Nat -> Nat] /\ Good \in SUBSET Nat
      /\ \A k \in Nat : (\A m \in Nat : id[m] < id[k] => m \in Good) => k \in Good
  BY <1>1
<1>3. Nat \subseteq Good
  <2> HIDE DEF id
  <2> QED BY <1>2, ByRank
<1> QED BY <1>3

\* What Later's recursion says.
LEMMA LaterUnfolds ==
  ASSUME NEW ids, NEW from \in Nat, NEW among \in SUBSET Ids
  PROVE  \E U : /\ Later(ids, from, among) = U[Len(ids)]
                /\ \A k \in Nat :
                     U[k] = IF k <= from THEN <<>>
                            ELSE IF ids[k] \in among THEN Append(U[k - 1], ids[k]) ELSE U[k - 1]
<1> DEFINE U == CHOOSE upTo : upTo = [k \in Nat |->
                  IF k <= from THEN <<>>
                  ELSE IF ids[k] \in among THEN Append(upTo[k - 1], ids[k]) ELSE upTo[k - 1]]
<1>1. Later(ids, from, among) = U[Len(ids)]
  BY DEF Later
<1>2. \A k \in Nat : U[k] = IF k <= from THEN <<>>
                            ELSE IF ids[k] \in among THEN Append(U[k - 1], ids[k]) ELSE U[k - 1]
  <2> DEFINE G == [kv \in Nat \X Seq(Ids) |->
                     IF ids[kv[1]] \in among THEN Append(kv[2], ids[kv[1]]) ELSE kv[2]]
  <2>1. G \in [Nat \X Seq(Ids) -> Seq(Ids)]
    <3> SUFFICES ASSUME NEW k \in Nat, NEW v \in Seq(Ids), ids[k] \in among
                 PROVE  Append(v, ids[k]) \in Seq(Ids)
      OBVIOUS
    <3>1. ids[k] \in Ids
      OBVIOUS
    <3> QED BY <3>1
  <2> DEFINE rank == [k \in Nat |-> k]
             last == {k \in Nat : k <= from}
             next == [k \in Nat |-> k - 1]
             first == [k \in last |-> <<>>]
  <2>2. Descends(Nat, Seq(Ids), rank, last, next, first, G)
    <3>1. /\ rank \in [Nat -> Nat] /\ last \subseteq Nat
          /\ \A k \in Nat \ last : next[k] \in Nat /\ rank[next[k]] < rank[k]
      OBVIOUS
    <3>2. first \in [last -> Seq(Ids)]
      OBVIOUS
    <3> HIDE DEF rank, last, next, first, G
    <3> QED BY <2>1, <3>1, <3>2 DEF Descends
  <2>3. PICK F \in [Nat -> Seq(Ids)] : \A k \in Nat :
          F[k] = IF k \in last THEN first[k] ELSE G[<<k, F[next[k]]>>]
    <3> HIDE DEF rank, last, next, first, G
    <3>1. PICK D : D = Nat
      OBVIOUS
    <3>2. Descends(D, Seq(Ids), rank, last, next, first, G)
      BY <2>2, <3>1
    <3>3. \E F \in [D -> Seq(Ids)] : \A k \in D :
             F[k] = IF k \in last THEN first[k] ELSE G[<<k, F[next[k]]>>]
      BY <3>2, Recursion
    <3> QED BY <3>1, <3>3
  <2>4. \A k \in Nat : F[k] = IF k <= from THEN <<>>
                              ELSE IF ids[k] \in among THEN Append(F[k - 1], ids[k]) ELSE F[k - 1]
    <3> TAKE k \in Nat
    <3>1. CASE k <= from
      <4>1. k \in last /\ first[k] = <<>>
        BY <3>1
      <4> HIDE DEF last, next, first, G
      <4> QED BY <2>3, <3>1, <4>1
    <3>2. CASE ~(k <= from)
      <4>1. k \notin last /\ next[k] = k - 1 /\ k - 1 \in Nat
        BY <3>2
      <4>2. F[k - 1] \in Seq(Ids)
        BY <2>3, <4>1
      <4>3. G[<<k, F[k - 1]>>] = IF ids[k] \in among THEN Append(F[k - 1], ids[k]) ELSE F[k - 1]
        BY <4>2
      <4> HIDE DEF last, next, first, G
      <4> QED BY <2>3, <3>2, <4>1, <4>3
    <3> QED BY <3>1, <3>2
  <2>5. F = [k \in Nat |-> IF k <= from THEN <<>>
               ELSE IF ids[k] \in among THEN Append(F[k - 1], ids[k]) ELSE F[k - 1]]
    <3> HIDE DEF G, last, next, first
    <3> QED BY <2>3, <2>4
  <2>6. U = [k \in Nat |-> IF k <= from THEN <<>>
               ELSE IF ids[k] \in among THEN Append(U[k - 1], ids[k]) ELSE U[k - 1]]
    BY <2>5
  <2> HIDE DEF U
  <2> QED BY <2>6
<1> HIDE DEF U
<1> QED BY <1>1, <1>2

\* Later lists each of the members once, in their order.
LEMMA LaterLists ==
  ASSUME NEW ids \in Seq(Ids), \A i, j \in DOMAIN ids : i < j => ids[i] < ids[j],
         NEW from \in Nat, NEW among \in SUBSET Ids
  PROVE  /\ Later(ids, from, among) \in Seq(Ids)
         /\ \A i, j \in DOMAIN Later(ids, from, among) :
              i # j => Later(ids, from, among)[i] # Later(ids, from, among)[j]
         /\ ToSet(Later(ids, from, among)) =
              {id \in among : \E k \in DOMAIN ids : k > from /\ ids[k] = id}
<1>1. PICK U : /\ Later(ids, from, among) = U[Len(ids)]
               /\ \A k \in Nat :
                    U[k] = IF k <= from THEN <<>>
                           ELSE IF ids[k] \in among THEN Append(U[k - 1], ids[k]) ELSE U[k - 1]
  BY LaterUnfolds
<1> DEFINE Lists(s, k) ==
      /\ s \in Seq(Ids)
      /\ \A i \in DOMAIN s : \E j \in 1 .. k : from < j /\ ids[j] \in among /\ s[i] = ids[j]
      /\ \A j \in 1 .. k : from < j /\ ids[j] \in among => \E i \in DOMAIN s : s[i] = ids[j]
      /\ \A i, j \in DOMAIN s : i # j => s[i] # s[j]
<1>3. Lists(<<>>, 0)
  OBVIOUS
<1>4. ASSUME NEW k \in Nat, k \in 1 .. Len(ids), Lists(U[k - 1], k - 1)
      PROVE  Lists(U[k], k)
  <2> PICK s \in Seq(Ids) : s = U[k - 1]
    BY <1>4
  <2>1. /\ k - 1 \in Nat /\ DOMAIN ids = 1 .. Len(ids) /\ Len(ids) \in Nat
        /\ DOMAIN s = 1 .. Len(s) /\ Len(s) \in Nat
    BY <1>4
  <2>2. \A j \in 1 .. k - 1 : ids[j] # ids[k]
    <3> TAKE j \in 1 .. k - 1
    <3>1. j \in DOMAIN ids /\ k \in DOMAIN ids /\ j < k
      BY <1>4, <2>1
    <3>2. ids[j] \in Ids /\ ids[k] \in Ids /\ ids[j] < ids[k]
      BY <3>1
    <3> QED BY <3>2 DEF Ids
  <2>3. CASE k <= from
    <3>1. U[k] = <<>>
      BY <1>1, <1>4, <2>3
    <3> QED BY <1>4, <2>3, <3>1
  <2>4. CASE ~(k <= from) /\ ids[k] \notin among
    <3>1. U[k] = s
      BY <1>1, <1>4, <2>4
    <3>2. \A j \in 1 .. k : ids[j] \in among => j \in 1 .. k - 1
      BY <1>4, <2>4
    <3>3. \A j \in 1 .. k - 1 : j \in 1 .. k
      BY <2>1
    <3> QED BY <1>4, <3>1, <3>2, <3>3
  <2>5. CASE ~(k <= from) /\ ids[k] \in among
    <3>1. U[k] = Append(s, ids[k])
      BY <1>1, <1>4, <2>5
    <3>2. PICK t \in Seq(Ids) : t = Append(s, ids[k])
      <4>1. ids[k] \in Ids /\ s \in Seq(Ids)
        BY <2>5
      <4>2. Append(s, ids[k]) \in Seq(Ids)
        BY <4>1
      <4> QED BY <4>2
    <3>3. /\ DOMAIN t = 1 .. Len(s) + 1 /\ t[Len(s) + 1] = ids[k]
          /\ \A i \in 1 .. Len(s) : t[i] = s[i]
      BY <2>1, <3>2
    <3>4. \A i \in 1 .. Len(s) + 1 : i \in 1 .. Len(s) \/ i = Len(s) + 1
      BY <2>1
    <3>5. \A j \in 1 .. k : j \in 1 .. k - 1 \/ j = k
      BY <1>4
    <3>6. \A j \in 1 .. k - 1 : j \in 1 .. k
      BY <2>1
    <3>7. \A i \in DOMAIN t : \E j \in 1 .. k : from < j /\ ids[j] \in among /\ t[i] = ids[j]
      <4> TAKE i \in DOMAIN t
      <4>1. CASE i \in DOMAIN s
        <5>1. PICK j \in 1 .. k - 1 : from < j /\ ids[j] \in among /\ s[i] = ids[j]
          BY <1>4, <4>1
        <5> QED BY <2>1, <3>3, <3>6, <4>1, <5>1
      <4>2. CASE i = Len(s) + 1
        BY <1>4, <2>5, <3>3, <4>2
      <4> QED BY <2>1, <3>3, <3>4, <4>1, <4>2
    <3>8. \A j \in 1 .. k : from < j /\ ids[j] \in among => \E i \in DOMAIN t : t[i] = ids[j]
      <4> TAKE j \in 1 .. k
      <4> HAVE from < j /\ ids[j] \in among
      <4>1. CASE j \in 1 .. k - 1
        <5>1. PICK i \in DOMAIN s : s[i] = ids[j]
          BY <1>4, <4>1
        <5>2. i \in DOMAIN t /\ t[i] = s[i]
          BY <2>1, <3>3, <5>1
        <5> QED BY <5>1, <5>2
      <4>2. CASE j = k
        <5>1. Len(s) + 1 \in DOMAIN t
          BY <2>1, <3>3
        <5> QED BY <3>3, <4>2, <5>1
      <4> QED BY <3>5, <4>1, <4>2
    <3>9. \A i \in DOMAIN s : s[i] # ids[k]
      BY <1>4, <2>2
    <3>10. \A i, j \in DOMAIN t : i # j => t[i] # t[j]
      <4> TAKE i, j \in DOMAIN t
      <4> HAVE i # j
      <4>1. CASE i \in DOMAIN s /\ j \in DOMAIN s
        BY <1>4, <2>1, <3>3, <4>1
      <4>2. CASE i \in DOMAIN s /\ j = Len(s) + 1
        BY <2>1, <3>3, <3>9, <4>2
      <4>3. CASE i = Len(s) + 1 /\ j \in DOMAIN s
        BY <2>1, <3>3, <3>9, <4>3
      <4> QED BY <2>1, <3>3, <3>4, <4>1, <4>2, <4>3
    <3>11. U[k] = t
      BY <3>1, <3>2
    <3> QED BY <3>7, <3>8, <3>10, <3>11
  <2> QED BY <2>3, <2>4, <2>5
<1> DEFINE Good == {k \in Nat : k <= Len(ids) => Lists(U[k], k)}
<1>5. Len(ids) \in Nat
  OBVIOUS
<1>6. 0 \in Good
  <2>1. U[0] = <<>>
    BY <1>1
  <2> HIDE DEF Lists
  <2> QED BY <1>3, <2>1
<1>7. \A k \in Nat : k \in Good
  <2>1. ASSUME NEW k \in Nat \ {0}, k - 1 \in Good PROVE k \in Good
    <3> HIDE DEF Lists
    <3> SUFFICES ASSUME k <= Len(ids) PROVE Lists(U[k], k)
      OBVIOUS
    <3>1. k - 1 \in Nat /\ k - 1 <= Len(ids) /\ k \in 1 .. Len(ids)
      BY <1>5
    <3>2. Lists(U[k - 1], k - 1)
      BY <2>1, <3>1
    <3> QED BY <1>4, <3>1, <3>2
  <2>2. Good \in SUBSET Nat
    OBVIOUS
  <2> HIDE DEF Good
  <2> QED BY <1>6, <2>1, <2>2, UpFromZero
<1>8. Lists(U[Len(ids)], Len(ids))
  <2> HIDE DEF Lists
  <2> QED BY <1>5, <1>7
<1>9. PICK s \in Seq(Ids) : s = Later(ids, from, among) /\ Lists(s, Len(ids))
  BY <1>1, <1>8
<1>10. DOMAIN ids = 1 .. Len(ids)
  OBVIOUS
<1>11. ToSet(s) = {x \in among : \E k \in DOMAIN ids : k > from /\ ids[k] = x}
  <2>1. ASSUME NEW x \in ToSet(s) PROVE x \in among /\ \E k \in DOMAIN ids : k > from /\ ids[k] = x
    BY <1>9, <1>10 DEF ToSet
  <2>2. ASSUME NEW x \in among, NEW k \in DOMAIN ids, k > from, ids[k] = x PROVE x \in ToSet(s)
    BY <1>9, <1>10, <2>2 DEF ToSet
  <2> QED BY <2>1, <2>2
<1> QED BY <1>9, <1>11

-----------------------------------------------------------------------------
(* Sums and counts.                                                        *)

\* There are finitely many ids.
LEMMA IdsFinite ==
  /\ IsFiniteSet(Ids) /\ Cardinality(Ids) \in Nat
  /\ \A s \in SUBSET Ids : IsFiniteSet(s) /\ Cardinality(s) \in Nat
<1>1. IsFiniteSet(Ids)
  BY FS_Interval, ArenaAssumption DEF Ids
<1>2. \A s \in SUBSET Ids : IsFiniteSet(s)
  BY <1>1, FS_Subset
<1> QED BY <1>1, <1>2, FS_CardinalityType

\* A list without repetitions has as many members as it is long.
LEMMA DistinctCount ==
  ASSUME NEW s \in Seq(Ids), \A i, j \in DOMAIN s : i # j => s[i] # s[j]
  PROVE  Cardinality(ToSet(s)) = Len(s)
<1>1. Len(s) \in Nat /\ DOMAIN s = 1 .. Len(s)
  OBVIOUS
<1>2. IsFiniteSet(1 .. Len(s)) /\ Cardinality(1 .. Len(s)) = Len(s)
  BY <1>1, FS_Interval
<1>3. s \in Bijection(1 .. Len(s), ToSet(s))
  <2>1. s \in [1 .. Len(s) -> ToSet(s)]
    BY <1>1 DEF ToSet
  <2>2. \A t \in ToSet(s) : \E i \in 1 .. Len(s) : s[i] = t
    BY <1>1 DEF ToSet
  <2>3. \A i, j \in 1 .. Len(s) : s[i] = s[j] => i = j
    BY <1>1
  <2> QED BY <2>1, <2>2, <2>3 DEF Bijection, Injection, Surjection, IsInjective
<1> QED BY <1>2, <1>3, FS_Bijection DEF ExistsBijection

\* As much as the accounts need of the allocations' types.
Lengths == [Ids -> [offset : Nat, length : Nat, alive : BOOLEAN]]

\* The sum over all subsets of S, as Total's recursion builds it.
Sums(a, S) == CHOOSE iter : iter = [s \in SUBSET S |->
                IF s = {} THEN 0
                ELSE LET x == CHOOSE x \in s : TRUE IN a[x].length + iter[s \ {x}]]

\* Total is the last of those sums.
LEMMA TotalIsSums ==
  ASSUME NEW a, NEW S
  PROVE  Total(a, S) = Sums(a, S)[S]
BY DEF Total, MapThenSumSet, MapThenFoldSet, Sums

\* The member such a sum takes next.
AnyOf(s) == CHOOSE x \in s : TRUE

\* A set that is not empty has a member to choose.
LEMMA AnyOfIsMember == \A s : s # {} => AnyOf(s) \in s
BY DEF AnyOf

\* Each subset's sum is that of one member and of the rest.
LEMMA SumsUnfold ==
  ASSUME NEW a \in Lengths, NEW S \in SUBSET Ids
  PROVE  \A s \in SUBSET S :
           Sums(a, S)[s] = IF s = {} THEN 0 ELSE a[AnyOf(s)].length + Sums(a, S)[s \ {AnyOf(s)}]
<1> DEFINE rank == [s \in SUBSET S |-> Cardinality(s)]
           last == {{}}
           next == [s \in SUBSET S |-> s \ {AnyOf(s)}]
           first == [s \in last |-> 0]
           All == SUBSET S
<1>1. \A s \in All : s # {} => AnyOf(s) \in s /\ AnyOf(s) \in Ids /\ a[AnyOf(s)].length \in Nat
  BY AnyOfIsMember DEF Lengths
<1>2. \A s \in All : IsFiniteSet(s) /\ Cardinality(s) \in Nat
  BY IdsFinite
<1> DEFINE G == [sv \in (SUBSET S) \X Nat |->
                  IF sv[1] = {} THEN 0 ELSE a[AnyOf(sv[1])].length + sv[2]]
<1>3. G \in [All \X Nat -> Nat]
  <2> SUFFICES ASSUME NEW s \in All, NEW v \in Nat, s # {}
               PROVE  a[AnyOf(s)].length + v \in Nat
    OBVIOUS
  <2> QED BY <1>1
<1>4. ASSUME NEW s \in All \ last
      PROVE  next[s] \in All /\ rank[next[s]] < rank[s]
  <2>1. s # {} /\ AnyOf(s) \in s
    BY <1>1
  <2>2. next[s] = s \ {AnyOf(s)} /\ next[s] \in All
    OBVIOUS
  <2>3. Cardinality(s \ {AnyOf(s)}) = Cardinality(s) - 1 /\ Cardinality(s) \in Nat
    BY <1>2, <2>1, FS_RemoveElement
  <2> QED BY <2>2, <2>3
<1>5. Descends(All, Nat, rank, last, next, first, G)
  <2>1. rank \in [All -> Nat]
    BY <1>2
  <2>2. last \subseteq All /\ first \in [last -> Nat]
    OBVIOUS
  <2>3. \A s \in All \ last : next[s] \in All /\ rank[next[s]] < rank[s]
    BY <1>4
  <2> HIDE DEF rank, last, next, first, G, All
  <2> QED BY <1>3, <2>1, <2>2, <2>3 DEF Descends
<1>6. PICK F \in [All -> Nat] : \A s \in All :
        F[s] = IF s \in last THEN first[s] ELSE G[<<s, F[next[s]]>>]
  <2> HIDE DEF rank, last, next, first, G, All
  <2> QED BY <1>5, Recursion
<1>7. ASSUME NEW s \in All
      PROVE  F[s] = IF s = {} THEN 0 ELSE a[AnyOf(s)].length + F[s \ {AnyOf(s)}]
  <2>1. CASE s = {}
    <3>1. s \in last /\ first[s] = 0
      BY <2>1
    <3> HIDE DEF last, next, first, G, All
    <3> QED BY <1>6, <2>1, <3>1
  <2>2. CASE s # {}
    <3>1. s \notin last /\ next[s] = s \ {AnyOf(s)} /\ s \ {AnyOf(s)} \in All
      BY <2>2
    <3>2. F[s \ {AnyOf(s)}] \in Nat
      <4> HIDE DEF All
      <4> QED BY <1>6, <3>1
    <3>3. \A v \in Nat : G[<<s, v>>] = a[AnyOf(s)].length + v
      BY <2>2
    <3> HIDE DEF last, next, first, G, All
    <3> QED BY <1>6, <2>2, <3>1, <3>2, <3>3
  <2> QED BY <2>1, <2>2
<1>8. F = [s \in SUBSET S |-> IF s = {} THEN 0
                              ELSE LET x == CHOOSE x \in s : TRUE IN a[x].length + F[s \ {x}]]
  <2>1. F = [s \in SUBSET S |-> F[s]]
    BY <1>6
  <2> QED BY <1>7, <2>1 DEF AnyOf
<1>9. Sums(a, S) = [s \in SUBSET S |-> IF s = {} THEN 0
                       ELSE LET x == CHOOSE x \in s : TRUE IN a[x].length + Sums(a, S)[s \ {x}]]
  BY <1>8 DEF Sums
<1> HIDE DEF All, rank, last, next, first, G
<1> QED BY <1>9 DEF AnyOf

\* Which larger set it is taken in makes no difference to a sum.
LEMMA SumsAgree ==
  ASSUME NEW a \in Lengths, NEW S \in SUBSET Ids
  PROVE  \A s \in SUBSET S : Sums(a, S)[s] = Sums(a, Ids)[s] /\ Sums(a, Ids)[s] \in Nat
<1> DEFINE All == SUBSET S
           rank == [s \in All |-> Cardinality(s)]
           Good == {s \in All : Sums(a, S)[s] = Sums(a, Ids)[s] /\ Sums(a, Ids)[s] \in Nat}
<1>1. ASSUME NEW s \in All, \A t \in All : rank[t] < rank[s] => t \in Good
      PROVE  s \in Good
  <2>1. s \in SUBSET Ids /\ s \in SUBSET S /\ IsFiniteSet(s) /\ Cardinality(s) \in Nat
    BY IdsFinite
  <2>2. Ids \in SUBSET Ids
    OBVIOUS
  <2>3. CASE s = {}
    <3>1. Sums(a, S)[s] = 0 /\ Sums(a, Ids)[s] = 0
      BY <2>1, <2>2, <2>3, SumsUnfold
    <3> QED BY <3>1
  <2>4. CASE s # {}
    <3> DEFINE t == s \ {AnyOf(s)}
               n == a[AnyOf(s)].length
    <3>1. AnyOf(s) \in s /\ AnyOf(s) \in Ids /\ n \in Nat
      BY <2>1, <2>4, AnyOfIsMember DEF Lengths
    <3>2. t \in All /\ Cardinality(t) = Cardinality(s) - 1
      BY <2>1, <3>1, FS_RemoveElement
    <3>3. Sums(a, S)[s] = n + Sums(a, S)[t] /\ Sums(a, Ids)[s] = n + Sums(a, Ids)[t]
      BY <2>1, <2>2, <2>4, SumsUnfold
    <3>4. Sums(a, S)[t] = Sums(a, Ids)[t] /\ Sums(a, Ids)[t] \in Nat
      <4>1. rank[t] < rank[s]
        BY <2>1, <3>2
      <4>2. t \in Good
        <5> HIDE DEF Good, rank
        <5> QED BY <1>1, <3>2, <4>1
      <4> QED BY <4>2
    <3> HIDE DEF t, n
    <3> QED BY <3>1, <3>3, <3>4
  <2> QED BY <2>3, <2>4
<1>2. rank \in [All -> Nat] /\ Good \in SUBSET All
  BY IdsFinite
<1>3. All \subseteq Good
  <2>1. \A s \in All : (\A t \in All : rank[t] < rank[s] => t \in Good) => s \in Good
    BY <1>1
  <2> HIDE DEF All, rank, Good
  <2> QED BY <1>2, <2>1, ByRank
<1> QED BY <1>3

\* What is total of the empty set, and of a set that has the member x: which member
\* Total takes first makes no difference.
LEMMA TotalSplits ==
  ASSUME NEW a \in Lengths
  PROVE  /\ \A s \in SUBSET Ids : Total(a, s) \in Nat
         /\ Total(a, {}) = 0
         /\ \A s \in SUBSET Ids : \A x \in s : Total(a, s) = a[x].length + Total(a, s \ {x})
<1> DEFINE All == SUBSET Ids
           T(s) == Sums(a, Ids)[s]
           rank == [s \in All |-> Cardinality(s)]
           Good == {s \in All : \A x \in s : T(s) = a[x].length + T(s \ {x})}
<1>1. \A s \in All : Total(a, s) = T(s) /\ T(s) \in Nat
  <2> TAKE s \in All
  <2>1. s \in SUBSET s
    OBVIOUS
  <2> QED BY <2>1, SumsAgree, TotalIsSums
<1>2. \A s \in All : T(s) = IF s = {} THEN 0 ELSE a[AnyOf(s)].length + T(s \ {AnyOf(s)})
  <2>1. Ids \in SUBSET Ids
    OBVIOUS
  <2> QED BY <2>1, SumsUnfold
<1>3. \A x \in Ids : a[x].length \in Nat
  BY DEF Lengths
<1>4. ASSUME NEW s \in All, \A t \in All : rank[t] < rank[s] => t \in Good
      PROVE  s \in Good
  <2> HIDE DEF T
  <2> SUFFICES ASSUME NEW x \in s PROVE T(s) = a[x].length + T(s \ {x})
    OBVIOUS
  <2> DEFINE y == AnyOf(s)
             z == s \ {x, y}
  <2>1. y \in s /\ s # {} /\ y \in Ids /\ x \in Ids
    BY AnyOfIsMember
  <2>2. T(s) = a[y].length + T(s \ {y})
    BY <1>2, <2>1
  <2>3. CASE x = y
    BY <2>2, <2>3
  <2>4. CASE x # y
    <3>1. IsFiniteSet(s) /\ Cardinality(s) \in Nat
      BY IdsFinite
    <3>2. Cardinality(s \ {x}) = Cardinality(s) - 1 /\ Cardinality(s \ {y}) = Cardinality(s) - 1
      BY <2>1, <3>1, FS_RemoveElement
    <3>3. s \ {x} \in All /\ s \ {y} \in All /\ z \in All
      OBVIOUS
    <3>4. s \ {x} \in Good /\ s \ {y} \in Good
      <4>1. rank[s \ {x}] < rank[s] /\ rank[s \ {y}] < rank[s]
        BY <3>1, <3>2, <3>3
      <4> HIDE DEF Good, rank
      <4> QED BY <1>4, <3>3, <4>1
    <3>5. y \in s \ {x} /\ x \in s \ {y} /\ (s \ {x}) \ {y} = z /\ (s \ {y}) \ {x} = z
      BY <2>1, <2>4
    <3> HIDE DEF z
    <3>6. T(s \ {x}) = a[y].length + T(z) /\ T(s \ {y}) = a[x].length + T(z)
      BY <3>4, <3>5
    <3>7. T(z) \in Nat /\ a[x].length \in Nat /\ a[y].length \in Nat
      BY <1>1, <1>3, <2>1, <3>3
    <3> HIDE DEF y
    <3> QED BY <2>2, <3>6, <3>7
  <2> QED BY <2>3, <2>4
<1>5. All \subseteq Good
  <2>1. rank \in [All -> Nat] /\ Good \in SUBSET All
    BY IdsFinite
  <2>2. \A s \in All : (\A t \in All : rank[t] < rank[s] => t \in Good) => s \in Good
    BY <1>4
  <2> HIDE DEF All, rank, Good
  <2> QED BY <2>1, <2>2, ByRank
<1>6. \A s \in All : \A x \in s : Total(a, s) = a[x].length + Total(a, s \ {x})
  <2> HIDE DEF T
  <2> TAKE s \in All
  <2> TAKE x \in s
  <2>1. s \ {x} \in All
    OBVIOUS
  <2> QED BY <1>1, <1>5, <2>1
<1>7. Total(a, {}) = 0
  <2>1. {} \in All
    OBVIOUS
  <2> QED BY <1>1, <1>2, <2>1
<1> QED BY <1>1, <1>6, <1>7

\* Allocations of the same lengths have the same total.
LEMMA TotalSame ==
  ASSUME NEW a \in Lengths, NEW b \in Lengths, NEW S \in SUBSET Ids,
         \A id \in S : a[id].length = b[id].length
  PROVE  Total(a, S) = Total(b, S)
<1> DEFINE All == SUBSET S
           rank == [s \in All |-> Cardinality(s)]
           Good == {s \in All : Total(a, s) = Total(b, s)}
<1>1. ASSUME NEW s \in All, \A t \in All : rank[t] < rank[s] => t \in Good
      PROVE  s \in Good
  <2>1. CASE s = {}
    BY <2>1, TotalSplits
  <2>2. CASE s # {}
    <3>1. PICK x \in s : TRUE
      BY <2>2
    <3>2. s \in SUBSET Ids /\ IsFiniteSet(s) /\ Cardinality(s) \in Nat
      BY IdsFinite
    <3>3. s \ {x} \in All /\ Cardinality(s \ {x}) = Cardinality(s) - 1
      BY <3>2, FS_RemoveElement
    <3>4. Total(a, s \ {x}) = Total(b, s \ {x})
      <4>1. rank[s \ {x}] < rank[s]
        BY <3>2, <3>3
      <4>2. (s \ {x}) \in Good
        <5> HIDE DEF Good, rank
        <5> QED BY <1>1, <3>3, <4>1
      <4> QED BY <4>2
    <3>5. /\ Total(a, s) = a[x].length + Total(a, s \ {x})
          /\ Total(b, s) = b[x].length + Total(b, s \ {x})
      BY <3>2, TotalSplits
    <3> QED BY <3>4, <3>5
  <2> QED BY <2>1, <2>2
<1>2. All \subseteq Good
  <2>1. rank \in [All -> Nat] /\ Good \in SUBSET All
    BY IdsFinite
  <2>2. \A s \in All : (\A t \in All : rank[t] < rank[s] => t \in Good) => s \in Good
    BY <1>1
  <2> HIDE DEF All, rank, Good
  <2> QED BY <2>1, <2>2, ByRank
<1> QED BY <1>2

\* The total of a part and the total of the rest.
LEMMA TotalParts ==
  ASSUME NEW a \in Lengths, NEW S \in SUBSET Ids, NEW T \in SUBSET S
  PROVE  Total(a, S \ T) = Total(a, S) - Total(a, T)
<1> DEFINE All == SUBSET T
           rank == [s \in All |-> Cardinality(s)]
           Good == {s \in All : Total(a, S \ s) = Total(a, S) - Total(a, s)}
<1>1. ASSUME NEW s \in All, \A t \in All : rank[t] < rank[s] => t \in Good
      PROVE  s \in Good
  <2>1. CASE s = {}
    <3>1. S \ s = S /\ Total(a, S) \in Nat /\ Total(a, s) = 0
      BY <2>1, TotalSplits
    <3> QED BY <3>1
  <2>2. CASE s # {}
    <3>1. PICK x \in s : x \in S
      BY <2>2
    <3>2. s \in SUBSET Ids /\ IsFiniteSet(s) /\ Cardinality(s) \in Nat
      BY IdsFinite
    <3> DEFINE t == s \ {x}
    <3>3. t \in All /\ Cardinality(t) = Cardinality(s) - 1
      BY <3>2, FS_RemoveElement
    <3>4. Total(a, S \ t) = Total(a, S) - Total(a, t)
      <4>1. rank[t] < rank[s]
        BY <3>2, <3>3
      <4>2. t \in Good
        <5> HIDE DEF Good, rank
        <5> QED BY <1>1, <3>3, <4>1
      <4> QED BY <4>2
    <3>5. Total(a, s) = a[x].length + Total(a, t)
      BY <3>2, TotalSplits
    <3>6. Total(a, S \ t) = a[x].length + Total(a, S \ s)
      <4>1. S \ t \in SUBSET Ids /\ x \in S \ t /\ (S \ t) \ {x} = S \ s
        BY <3>1
      <4> HIDE DEF t
      <4> QED BY <4>1, TotalSplits
    <3>7. /\ Total(a, S) \in Nat /\ Total(a, s) \in Nat /\ Total(a, t) \in Nat
          /\ Total(a, S \ s) \in Nat /\ a[x].length \in Nat
      <4>1. S \in SUBSET Ids /\ s \in SUBSET Ids /\ t \in SUBSET Ids /\ S \ s \in SUBSET Ids /\ x \in Ids
        BY <3>1, <3>2
      <4> HIDE DEF t
      <4> QED BY <4>1, TotalSplits DEF Lengths
    <3> HIDE DEF t
    <3> QED BY <3>4, <3>5, <3>6, <3>7
  <2> QED BY <2>1, <2>2
<1>2. All \subseteq Good
  <2>1. rank \in [All -> Nat] /\ Good \in SUBSET All
    BY IdsFinite
  <2>2. \A s \in All : (\A t \in All : rank[t] < rank[s] => t \in Good) => s \in Good
    BY <1>1
  <2> HIDE DEF All, rank, Good
  <2> QED BY <2>1, <2>2, ByRank
<1> QED BY <1>2

-----------------------------------------------------------------------------
(* The layout, the order and the accounts, step by step.                   *)

\* SpansDisjoint, with the types it is stated over and in terms of the bytes that
\* the free list covers.
LayoutInv ==
  /\ cursor \in 0 .. Capacity
  /\ free \in Seq(Slot) /\ Apart(free) /\ Within(free, cursor)
  /\ allocations \in Lengths
  /\ \A a \in Alive : /\ EndOf(allocations[a]) <= cursor
                      /\ Extent(allocations[a]) \cap Covered(free) = {}
  /\ \A a, b \in Alive : a # b => Extent(allocations[a]) \cap Extent(allocations[b]) = {}

\* The order is in the order of the ids, and no allocation that is alive has been
\* cut from it.
OrderInv ==
  /\ nextID \in 1 .. MaxIds + 1
  /\ order \in Seq(Ids)
  /\ \A i \in DOMAIN order : order[i] < nextID
  /\ \A i, j \in DOMAIN order : i < j => order[i] < order[j]
  /\ \A id \in Alive : \E i \in DOMAIN order : order[i] = id

\* What Stats reports is what is allocated.
AccountsInv == used \in Nat /\ live \in Nat /\ AccountsAgree

\* The inductive invariant of the arena's own state.
ArenaInv == LayoutInv /\ OrderInv /\ AccountsInv /\ NothingLeftToRead

\* The layout's invariant is SpansDisjoint with the bytes of the free list taken together.
LEMMA LayoutDisjoint == LayoutInv => SpansDisjoint
BY DEF LayoutInv, SpansDisjoint, Apart, Within, Covered

\* What is alive is below nextID.
LEMMA AliveIssued ==
  ASSUME OrderInv
  PROVE  nextID \notin Alive /\ \A id \in Alive : id \in Ids /\ id < nextID
<1>1. nextID \in Int
  BY DEF OrderInv
<1>2. \A id \in Alive : id \in Ids /\ id < nextID
  BY DEF OrderInv, Alive
<1> QED BY <1>1, <1>2

\* Arena.Allocate takes bytes nobody has, an id nobody had, and counts both.
LEMMA AllocatedKeeps ==
  ASSUME ArenaInv, NEW asked \in Sizes, NEW alignment \in Alignments, Allocated(asked, alignment)
  PROVE  ArenaInv'
<1> DEFINE size == IF asked = 0 THEN 1 ELSE asked
           place == Placement(size, alignment)
<1>1. size \in Nat
  BY ArenaAssumption
<1>2. /\ nextID <= MaxIds /\ place.fits /\ free' = place.free /\ cursor' = place.cursor
      /\ allocations' = [allocations EXCEPT ![nextID] =
                           [offset |-> place.offset, length |-> size, alive |-> TRUE]]
      /\ order' = Append(order, nextID) /\ nextID' = nextID + 1
      /\ used' = used + size /\ live' = live + 1 /\ storage' = storage
  BY DEF Allocated, FreshID
<1> HIDE DEF size
<1>3. LayoutInv /\ OrderInv /\ AccountsInv /\ NothingLeftToRead
  BY DEF ArenaInv
<1>4. nextID \in Ids /\ nextID \notin Alive /\ MaxIds \in Nat
  BY <1>2, <1>3, AliveIssued, ArenaAssumption DEF OrderInv, Ids
<1> DEFINE taken == place.offset .. place.offset + size - 1
<1>5. /\ place.free \in Seq(Slot) /\ place.cursor \in cursor .. Capacity
      /\ place.offset \in Nat /\ place.offset + size <= place.cursor
      /\ Apart(place.free) /\ Within(place.free, place.cursor)
      /\ Covered(place.free) \subseteq Covered(free)
      /\ Covered(place.free) \cap taken = {}
      /\ taken \subseteq Covered(free) \/ cursor <= place.offset
  <2>1. free \in Seq(Slot) /\ cursor \in 0 .. Capacity /\ Apart(free) /\ Within(free, cursor)
    BY <1>3 DEF LayoutInv
  <2> QED BY <1>1, <1>2, <2>1, PlacementKeeps
<1> HIDE DEF place
<1> DEFINE new == [offset |-> place.offset, length |-> size, alive |-> TRUE]
<1>6. /\ allocations \in Lengths /\ allocations' \in Lengths
      /\ allocations'[nextID] = new
      /\ \A id \in Ids : id # nextID => allocations'[id] = allocations[id]
  <2>1. allocations \in Lengths
    BY <1>3 DEF LayoutInv
  <2>2. new \in [offset : Nat, length : Nat, alive : BOOLEAN]
    BY <1>1, <1>5
  <2> HIDE DEF new
  <2>3. allocations' = [allocations EXCEPT ![nextID] = new]
    BY <1>2 DEF new
  <2> QED BY <1>4, <2>1, <2>2, <2>3 DEF Lengths
<1>7. new.alive /\ new.length = size /\ Extent(new) = taken /\ EndOf(new) = place.offset + size
  <2>1. new.alive /\ new.length = size /\ new.offset = place.offset
    OBVIOUS
  <2> HIDE DEF new
  <2>2. EndOf(new) = place.offset + size
    BY <2>1 DEF EndOf
  <2>3. Extent(new) = place.offset .. EndOf(new) - 1
    BY <2>1 DEF Extent
  <2>4. Extent(new) = taken
    <3>1. EndOf(new) - 1 = place.offset + size - 1
      BY <1>1, <1>5, <2>2
    <3> QED BY <2>3, <3>1, Zenon
  <2> QED BY <2>1, <2>2, <2>4, Zenon
<1> HIDE DEF new
<1>8. Alive' = Alive \cup {nextID} /\ Alive \subseteq Ids
  BY <1>4, <1>6, <1>7 DEF Alive
<1>9. \A a \in Alive : a \in Ids /\ a # nextID /\ allocations'[a] = allocations[a]
  BY <1>4, <1>6, <1>8
<1>10. LayoutInv'
  <2>1. /\ \A a \in Alive : /\ EndOf(allocations[a]) <= cursor
                            /\ Extent(allocations[a]) \cap Covered(free) = {}
        /\ \A a, b \in Alive : a # b => Extent(allocations[a]) \cap Extent(allocations[b]) = {}
        /\ cursor \in 0 .. Capacity
    BY <1>3 DEF LayoutInv
  <2>2. \A a \in Alive : Extent(allocations[a]) \cap taken = {}
    <3> TAKE a \in Alive
    <3>1. CASE taken \subseteq Covered(free)
      BY <2>1, <3>1
    <3>2. CASE cursor <= place.offset
      <4>1. allocations[a] \in [offset : Nat, length : Nat, alive : BOOLEAN]
        BY <1>6, <1>9 DEF Lengths
      <4>2. EndOf(allocations[a]) \in Nat /\ EndOf(allocations[a]) <= cursor
        BY <2>1, <4>1 DEF EndOf
      <4> QED BY <1>5, <2>1, <3>2, <4>1, <4>2 DEF Extent
    <3> QED BY <1>5, <3>1, <3>2
  <2>3. \A a \in Alive : EndOf(allocations[a]) <= place.cursor
    <3> TAKE a \in Alive
    <3>1. allocations[a] \in [offset : Nat, length : Nat, alive : BOOLEAN]
      BY <1>6, <1>9 DEF Lengths
    <3>2. EndOf(allocations[a]) \in Nat /\ EndOf(allocations[a]) <= cursor
      BY <2>1, <3>1 DEF EndOf
    <3> QED BY <1>5, <2>1, <3>2
  <2> HIDE DEF taken
  <2>4. place.cursor \in 0 .. Capacity
    BY <1>5, <2>1
  <2>5. /\ \A a \in Alive' : /\ EndOf(allocations'[a]) <= place.cursor
                             /\ Extent(allocations'[a]) \cap Covered(place.free) = {}
        /\ \A a, b \in Alive' : a # b => Extent(allocations'[a]) \cap Extent(allocations'[b]) = {}
    <3>1. \A a \in Alive' : a = nextID \/ a \in Alive
      BY <1>8
    <3>2. /\ EndOf(allocations'[nextID]) <= place.cursor
          /\ Extent(allocations'[nextID]) = taken
      BY <1>5, <1>6, <1>7
    <3> QED BY <1>5, <1>9, <2>1, <2>2, <2>3, <3>1, <3>2
  <2>6. Covered(free') = Covered(place.free) /\ Apart(free') /\ Within(free', cursor') /\ free' \in Seq(Slot)
    BY <1>2, <1>5
  <2>7. /\ cursor' \in 0 .. Capacity
        /\ free' \in Seq(Slot) /\ Apart(free') /\ Within(free', cursor')
        /\ allocations' \in Lengths
        /\ \A a \in Alive' : /\ EndOf(allocations'[a]) <= cursor'
                             /\ Extent(allocations'[a]) \cap Covered(free') = {}
        /\ \A a, b \in Alive' : a # b => Extent(allocations'[a]) \cap Extent(allocations'[b]) = {}
    BY <1>2, <1>6, <2>4, <2>5, <2>6
  <2> QED BY <2>7 DEF LayoutInv
<1>11. OrderInv'
  <2>1. /\ nextID \in 1 .. MaxIds + 1 /\ order \in Seq(Ids)
        /\ \A i \in DOMAIN order : order[i] < nextID
        /\ \A i, j \in DOMAIN order : i < j => order[i] < order[j]
        /\ \A id \in Alive : \E i \in DOMAIN order : order[i] = id
    BY <1>3 DEF OrderInv
  <2>2. PICK o \in Seq(Ids) : o = Append(order, nextID)
    <3>1. Append(order, nextID) \in Seq(Ids)
      BY <1>4, <2>1
    <3> QED BY <3>1
  <2>3. /\ Len(order) \in Nat /\ DOMAIN order = 1 .. Len(order)
        /\ DOMAIN o = 1 .. Len(order) + 1 /\ o[Len(order) + 1] = nextID
        /\ \A i \in 1 .. Len(order) : o[i] = order[i]
    BY <1>4, <2>1, <2>2
  <2>4. \A i \in DOMAIN o : i \in DOMAIN order \/ i = Len(order) + 1
    BY <2>3
  <2>5. \A i \in DOMAIN order : order[i] \in Int /\ order[i] < nextID + 1 /\ i \in DOMAIN o /\ o[i] = order[i]
    <3> TAKE i \in DOMAIN order
    <3>1. order[i] \in Ids /\ order[i] < nextID
      BY <2>1
    <3>2. order[i] \in Int /\ order[i] < nextID + 1
      BY <2>1, <3>1 DEF Ids
    <3> QED BY <2>3, <3>2
  <2>6. \A i \in DOMAIN o : o[i] < nextID + 1
    BY <1>4, <2>3, <2>4, <2>5 DEF Ids
  <2>7. \A i, j \in DOMAIN o : i < j => o[i] < o[j]
    <3> TAKE i, j \in DOMAIN o
    <3> HAVE i < j
    <3>1. CASE j \in DOMAIN order
      <4>1. i \in DOMAIN order
        BY <2>3, <3>1
      <4> QED BY <2>1, <2>5, <3>1, <4>1
    <3>2. CASE j = Len(order) + 1
      <4>1. i \in DOMAIN order
        BY <2>3, <3>2
      <4> QED BY <2>1, <2>3, <2>5, <3>2, <4>1
    <3> QED BY <2>4, <3>1, <3>2
  <2>8. \A id \in Alive' : \E i \in DOMAIN o : o[i] = id
    <3>1. Len(order) + 1 \in DOMAIN o
      BY <2>3
    <3> QED BY <1>8, <2>1, <2>3, <2>5, <3>1
  <2>9. nextID + 1 \in 1 .. MaxIds + 1
    BY <1>2, <1>4 DEF Ids
  <2> QED BY <1>2, <2>2, <2>6, <2>7, <2>8, <2>9 DEF OrderInv
<1>12. AccountsInv'
  <2>1. /\ used \in Nat /\ live = Cardinality(Alive) /\ used = Total(allocations, Alive)
        /\ live \in Nat
    BY <1>3 DEF AccountsInv, AccountsAgree
  <2>2. Cardinality(Alive \cup {nextID}) = Cardinality(Alive) + 1
    BY <1>4, <1>8, IdsFinite, FS_AddElement
  <2>3. Alive' \in SUBSET Ids /\ Alive' \ {nextID} = Alive /\ nextID \in Alive'
    BY <1>4, <1>8
  <2>4. Total(allocations', Alive) = Total(allocations, Alive)
    BY <1>6, <1>8, <1>9, TotalSame
  <2>5. Total(allocations', Alive') = size + Total(allocations', Alive)
    BY <1>6, <1>7, <2>3, TotalSplits
  <2>6. used' = Total(allocations', Alive') /\ live' = Cardinality(Alive') /\ used' \in Nat /\ live' \in Nat
    BY <1>1, <1>2, <1>8, <2>1, <2>2, <2>4, <2>5
  <2> QED BY <2>6 DEF AccountsInv, AccountsAgree
<1>13. NothingLeftToRead'
  BY <1>2, <1>3, <1>8, <1>9 DEF NothingLeftToRead
<1> QED BY <1>10, <1>11, <1>12, <1>13 DEF ArenaInv

\* What every release does, be it of one allocation or of all that a Rollback undoes:
\* the bytes of the released allocations, and no others, become free ones and zeroes.
LEMMA ReleasedKeeps ==
  ASSUME ArenaInv, NEW ids \in Seq(Ids), \A i, j \in DOMAIN ids : i # j => ids[i] # ids[j],
         ToSet(ids) \subseteq Alive, ReleaseAll(ids), cursor' = cursor
  PROVE  /\ LayoutInv' /\ AccountsInv' /\ NothingLeftToRead'
         /\ Alive' = Alive \ ToSet(ids)
<1> DEFINE freed == ToSet(ids)
           q == [k \in DOMAIN ids |-> [offset |-> allocations[ids[k]].offset,
                                       length |-> allocations[ids[k]].length]]
           gone == UNION {Extent(allocations[id]) : id \in freed}
<1>1. /\ storage' = IF ZeroOnRelease THEN [b \in Bytes |-> IF b \in gone THEN 0 ELSE storage[b]]
                    ELSE storage
      /\ allocations' = [id \in Ids |-> [allocations[id] EXCEPT !.alive = @ /\ id \notin freed]]
      /\ free' = Coalesced(free \o q)
      /\ used' = used - Total(allocations, freed)
      /\ live' = live - Len(ids)
  BY DEF ReleaseAll
<1>2. freed = {ids[k] : k \in DOMAIN ids} /\ freed \subseteq Alive /\ Alive \subseteq Ids
  BY DEF ToSet, Alive
<1>3. /\ cursor \in 0 .. Capacity
      /\ free \in Seq(Slot) /\ Apart(free) /\ Within(free, cursor)
      /\ allocations \in Lengths
      /\ \A a \in Alive : /\ EndOf(allocations[a]) <= cursor
                          /\ Extent(allocations[a]) \cap Covered(free) = {}
      /\ \A a, b \in Alive : a # b => Extent(allocations[a]) \cap Extent(allocations[b]) = {}
  BY DEF ArenaInv, LayoutInv
<1>4. \A id \in Ids : /\ allocations[id] \in [offset : Nat, length : Nat, alive : BOOLEAN]
                      /\ allocations'[id].offset = allocations[id].offset
                      /\ allocations'[id].length = allocations[id].length
                      /\ allocations'[id].alive = (allocations[id].alive /\ id \notin freed)
  BY <1>1, <1>3, Zenon DEF Lengths
<1>5. allocations' \in Lengths
  <2>1. \A id \in Ids : [allocations[id] EXCEPT !.alive = @ /\ id \notin freed]
                          \in [offset : Nat, length : Nat, alive : BOOLEAN]
    BY <1>3 DEF Lengths
  <2> QED BY <1>1, <2>1 DEF Lengths
<1> HIDE DEF freed
<1>6. Alive' = Alive \ freed
  BY <1>4 DEF Alive
<1>7. \A id \in Ids : /\ Extent(allocations'[id]) = Extent(allocations[id])
                      /\ EndOf(allocations'[id]) = EndOf(allocations[id])
  BY <1>4 DEF Extent, EndOf
<1>8. /\ q \in Seq(Slot) /\ DOMAIN q = DOMAIN ids
      /\ \A k \in DOMAIN ids : /\ ids[k] \in freed /\ ids[k] \in Alive
                               /\ Extent(q[k]) = Extent(allocations[ids[k]])
                               /\ EndOf(q[k]) = EndOf(allocations[ids[k]])
  <2>1. \A k \in DOMAIN ids : ids[k] \in Ids /\ ids[k] \in freed /\ ids[k] \in Alive
    BY <1>2
  <2>2. \A k \in DOMAIN ids : q[k] = [offset |-> allocations[ids[k]].offset,
                                      length |-> allocations[ids[k]].length]
    OBVIOUS
  <2>3. \A k \in DOMAIN ids : q[k] \in Slot
    BY <1>4, <2>1, <2>2 DEF Slot
  <2>4. q \in Seq(Slot)
    BY <2>3
  <2>5. DOMAIN q = DOMAIN ids
    OBVIOUS
  <2> HIDE DEF q
  <2>6. \A k \in DOMAIN ids : /\ EndOf(q[k]) = EndOf(allocations[ids[k]])
                              /\ Extent(q[k]) = Extent(allocations[ids[k]])
    <3> TAKE k \in DOMAIN ids
    <3>1. /\ q[k].offset = allocations[ids[k]].offset
          /\ q[k].length = allocations[ids[k]].length
      <4>1. q[k] = [offset |-> allocations[ids[k]].offset, length |-> allocations[ids[k]].length]
        BY <2>2
      <4> QED BY <4>1
    <3>2. EndOf(q[k]) = EndOf(allocations[ids[k]])
      BY <3>1 DEF EndOf
    <3>3. Extent(q[k]) = Extent(allocations[ids[k]])
      BY <3>1, <3>2 DEF Extent
    <3> QED BY <3>2, <3>3
  <2> QED BY <2>1, <2>4, <2>5, <2>6
<1> HIDE DEF q
<1>9. Apart(q) /\ Within(q, cursor)
  BY <1>3, <1>8 DEF Apart, Within
<1>10. Covered(q) = gone
  <2>1. \A b : b \in gone <=> \E id \in freed : b \in Extent(allocations[id])
    BY Zenon
  <2>2. \A b : b \in Covered(q) <=> \E k \in DOMAIN ids : b \in Extent(q[k])
    BY <1>8 DEF Covered
  <2> HIDE DEF gone
  <2>3. \A b : b \in gone <=> b \in Covered(q)
    BY <1>2, <1>8, <2>1, <2>2
  <2> QED BY <2>3
<1>11. /\ free' \in Seq(Slot) /\ Apart(free') /\ Within(free', cursor)
       /\ Covered(free') = Covered(free) \cup gone
  <2>1. Covered(free) \cap Covered(q) = {}
    BY <1>2, <1>3, <1>10
  <2>2. /\ free \o q \in Seq(Slot) /\ Apart(free \o q) /\ Within(free \o q, cursor)
        /\ Covered(free \o q) = Covered(free) \cup Covered(q)
    BY <1>3, <1>8, <1>9, <2>1, ConcatKeeps
  <2>3. /\ Coalesced(free \o q) \in Seq(Slot)
        /\ Apart(Coalesced(free \o q)) /\ Within(Coalesced(free \o q), cursor)
        /\ Covered(Coalesced(free \o q)) = Covered(free \o q)
    BY <2>2, CoalescedKeeps
  <2> QED BY <1>1, <1>10, <2>2, <2>3
<1>12. LayoutInv'
  <2>1. \A a \in Alive' : a \in Alive /\ a \in Ids /\ a \notin freed
    BY <1>2, <1>6
  <2>2. \A a \in Alive' : Extent(allocations[a]) \cap gone = {}
    BY <1>2, <1>3, <2>1
  <2>3. \A a \in Alive' : /\ EndOf(allocations'[a]) <= cursor'
                          /\ Extent(allocations'[a]) \cap Covered(free') = {}
    BY <1>3, <1>7, <1>11, <2>1, <2>2
  <2>4. \A a, b \in Alive' : a # b => Extent(allocations'[a]) \cap Extent(allocations'[b]) = {}
    BY <1>3, <1>7, <2>1
  <2>5. cursor' \in 0 .. Capacity
    BY <1>3
  <2> QED BY <1>5, <1>11, <2>3, <2>4, <2>5 DEF LayoutInv
<1>13. AccountsInv'
  <2>1. /\ used \in Nat /\ live \in Nat
        /\ live = Cardinality(Alive) /\ used = Total(allocations, Alive)
    BY DEF ArenaInv, AccountsInv, AccountsAgree
  <2>2. Cardinality(freed) = Len(ids)
    BY DistinctCount DEF freed
  <2>3. freed \in SUBSET Alive /\ Alive \in SUBSET Ids /\ Alive' \in SUBSET Ids
    BY <1>2, <1>6
  <2>4. Cardinality(Alive \ freed) = Cardinality(Alive) - Len(ids)
    <3>1. IsFiniteSet(Alive) /\ Alive \cap freed = freed
      BY <2>3, IdsFinite
    <3>2. Cardinality(Alive \ freed) = Cardinality(Alive) - Cardinality(Alive \cap freed)
      BY <3>1, FS_Difference
    <3> QED BY <2>2, <3>1, <3>2
  <2>5. Total(allocations', Alive') = Total(allocations, Alive')
    BY <1>3, <1>4, <1>5, <2>3, TotalSame
  <2>6. Total(allocations, Alive \ freed) = Total(allocations, Alive) - Total(allocations, freed)
    BY <1>3, <2>3, TotalParts
  <2>7. Total(allocations', Alive') \in Nat /\ Cardinality(Alive') \in Nat
    BY <1>5, <2>3, TotalSplits, IdsFinite
  <2> QED BY <1>1, <1>6, <2>1, <2>4, <2>5, <2>6, <2>7 DEF AccountsInv, AccountsAgree
<1>14. NothingLeftToRead'
  <2> SUFFICES ASSUME ZeroOnRelease, NEW b \in Bytes, storage'[b] # 0
               PROVE  storage'[b] \in Alive' /\ b \in Extent(allocations'[storage'[b]])
    BY DEF NothingLeftToRead
  <2> HIDE DEF gone
  <2>1. storage'[b] = storage[b] /\ b \notin gone
    BY <1>1
  <2>2. storage[b] \in Alive /\ b \in Extent(allocations[storage[b]])
    BY <2>1 DEF ArenaInv, NothingLeftToRead
  <2>3. storage[b] \notin freed
    BY <2>1, <2>2 DEF gone
  <2> QED BY <1>2, <1>6, <1>7, <2>1, <2>2, <2>3
<1> QED BY <1>6, <1>12, <1>13, <1>14 DEF freed

-----------------------------------------------------------------------------
(* The arena's calls that release, and its checkpoints.                    *)

\* A checkpoint of this generation: what the order has after it was allocated later,
\* and, unless the order was cut below it, what the order has up to it was not.
PointsInv ==
  /\ points \subseteq Point
  /\ generation \in Nat
  /\ \A p \in points :
       /\ p.generation <= generation
       /\ p.next <= nextID
       /\ p.generation = generation =>
            /\ \A i \in DOMAIN order : i > p.order => order[i] >= p.next
            /\ ~p.cut => /\ p.order <= Len(order)
                         /\ \A i \in 1 .. p.order : order[i] < p.next

\* The order of the ids outlives a step that gives out none and brings none back.
LEMMA OrderOutlives ==
  ASSUME OrderInv, UNCHANGED <<order, nextID>>, Alive' \subseteq Alive
  PROVE  OrderInv'
BY DEF OrderInv

\* Arena.Delete.
LEMMA DeletedKeeps ==
  ASSUME ArenaInv, NEW id \in Ids, Deleted(id)
  PROVE  ArenaInv'
<1>1. ReleaseAll(<<id>>) /\ UNCHANGED <<cursor, order, nextID>> /\ id \in Alive
  BY DEF Deleted, Resolves, Alive
<1>2. PICK ids \in Seq(Ids) : ids = <<id>> /\ DOMAIN ids = {1} /\ ids[1] = id
  <2>1. <<id>> \in Seq(Ids) /\ DOMAIN <<id>> = 1 .. 1 /\ <<id>>[1] = id
    OBVIOUS
  <2>2. 1 .. 1 = {1}
    OBVIOUS
  <2> QED BY <2>1, <2>2
<1>3. ToSet(ids) \subseteq Alive
  BY <1>1, <1>2 DEF ToSet
<1>4. \A i, j \in DOMAIN ids : i # j => ids[i] # ids[j]
  BY <1>2
<1>5. /\ LayoutInv' /\ AccountsInv' /\ NothingLeftToRead'
      /\ Alive' = Alive \ ToSet(ids)
  BY <1>1, <1>2, <1>3, <1>4, ReleasedKeeps
<1>6. OrderInv'
  BY <1>1, <1>5, OrderOutlives DEF ArenaInv
<1> QED BY <1>5, <1>6 DEF ArenaInv

\* Arena.Rollback releases what the order has after the checkpoint, and nothing else.
LEMMA RollbackReleases ==
  ASSUME ArenaInv, PointsInv, NEW p \in points, Rollback(p)
  PROVE  /\ LayoutInv' /\ AccountsInv' /\ NothingLeftToRead'
         /\ Alive' = {id \in Alive : \A k \in DOMAIN order : order[k] = id => k <= p.order}
<1> DEFINE ids == Undone(p)
<1>1. p.order \in Nat
  BY DEF PointsInv, Point
<1>2. order \in Seq(Ids) /\ \A i, j \in DOMAIN order : i < j => order[i] < order[j]
  BY DEF ArenaInv, OrderInv
<1>3. Alive \in SUBSET Ids
  BY DEF Alive
<1>4. /\ ids \in Seq(Ids)
      /\ \A i, j \in DOMAIN ids : i # j => ids[i] # ids[j]
      /\ ToSet(ids) = {id \in Alive : \E k \in DOMAIN order : k > p.order /\ order[k] = id}
  BY <1>1, <1>2, <1>3, LaterLists DEF Undone
<1>5. ReleaseAll(ids) /\ cursor' = cursor
  BY DEF Rollback
<1> HIDE DEF ids
<1>6. ToSet(ids) \subseteq Alive
  BY <1>4
<1>7. LayoutInv' /\ AccountsInv' /\ NothingLeftToRead' /\ Alive' = Alive \ ToSet(ids)
  BY <1>4, <1>5, <1>6, ReleasedKeeps
<1>8. \A k \in DOMAIN order : k > p.order <=> ~(k <= p.order)
  BY <1>1, <1>2
<1> QED BY <1>4, <1>7, <1>8

\* And it cuts the order there.
LEMMA RollbackCuts ==
  ASSUME ArenaInv, PointsInv, NEW p \in points, Rollback(p)
  PROVE  /\ p.order \in Nat /\ order' \in Seq(Ids) /\ Len(order') = p.order
         /\ p.order <= Len(order) /\ DOMAIN order' = 1 .. p.order
         /\ DOMAIN order' \subseteq DOMAIN order
         /\ \A i \in 1 .. p.order : order'[i] = order[i]
         /\ nextID' = nextID
<1>1. p.order \in Nat
  BY DEF PointsInv, Point
<1>2. order \in Seq(Ids)
  BY DEF ArenaInv, OrderInv
<1>3. p.order <= Len(order) /\ order' = SubSeq(order, 1, p.order) /\ nextID' = nextID
  BY DEF Rollback
<1>4. SubSeq(order, 1, p.order) \in Seq(Ids)
  BY <1>1, <1>2, <1>3
<1>5. /\ Len(SubSeq(order, 1, p.order)) = p.order
      /\ \A i \in 1 .. p.order : SubSeq(order, 1, p.order)[i] = order[i]
  BY <1>1, <1>2, <1>3
<1>6. DOMAIN order' = 1 .. p.order /\ 1 .. p.order \subseteq DOMAIN order
  BY <1>1, <1>2, <1>3, <1>4, <1>5
<1> QED BY <1>1, <1>3, <1>4, <1>5, <1>6

\* Arena.Rollback, and what it does to the other checkpoints.
LEMMA RollbackKeeps ==
  ASSUME ArenaInv, PointsInv, NEW p \in points, Rollback(p)
  PROVE  ArenaInv' /\ PointsInv'
<1>1. /\ LayoutInv' /\ AccountsInv' /\ NothingLeftToRead'
      /\ Alive' = {id \in Alive : \A k \in DOMAIN order : order[k] = id => k <= p.order}
  BY RollbackReleases
<1>2. /\ p.order \in Nat /\ order' \in Seq(Ids) /\ Len(order') = p.order
      /\ p.order <= Len(order) /\ DOMAIN order' = 1 .. p.order
      /\ DOMAIN order' \subseteq DOMAIN order
      /\ \A i \in 1 .. p.order : order'[i] = order[i]
      /\ nextID' = nextID
  BY RollbackCuts
<1>3. /\ nextID \in 1 .. MaxIds + 1 /\ order \in Seq(Ids)
      /\ \A i \in DOMAIN order : order[i] < nextID
      /\ \A i, j \in DOMAIN order : i < j => order[i] < order[j]
      /\ \A id \in Alive : \E i \in DOMAIN order : order[i] = id
  BY DEF ArenaInv, OrderInv
<1>4. OrderInv'
  <2>1. \A id \in Alive' : \E i \in DOMAIN order' : order'[i] = id
    <3> TAKE id \in Alive'
    <3>1. id \in Alive /\ \A k \in DOMAIN order : order[k] = id => k <= p.order
      BY <1>1
    <3>2. PICK i \in DOMAIN order : order[i] = id
      BY <1>3, <3>1
    <3>3. i \in 1 .. p.order
      BY <1>2, <1>3, <3>1, <3>2
    <3> QED BY <1>2, <3>2, <3>3
  <2>2. \A i \in DOMAIN order' : order'[i] < nextID'
    BY <1>2, <1>3
  <2>3. \A i, j \in DOMAIN order' : i < j => order'[i] < order'[j]
    BY <1>2, <1>3
  <2> QED BY <1>2, <1>3, <2>1, <2>2, <2>3 DEF OrderInv
<1>5. points' = CutBack(p.order) /\ generation' = generation
  BY DEF Rollback
<1>6. PointsInv'
  <2>1. points \subseteq Point /\ generation \in Nat
    BY DEF PointsInv
  <2>2. ASSUME NEW q \in points'
        PROVE  \E o \in points :
                 /\ q \in Point /\ q.generation = o.generation /\ q.order = o.order /\ q.next = o.next
                 /\ ~q.cut => ~o.cut /\ ~(o.generation = generation /\ o.order > p.order)
    <3>1. PICK o \in points :
            q = [o EXCEPT !.cut = @ \/ (o.generation = generation /\ o.order > p.order)]
      BY <1>5 DEF CutBack
    <3>2. o \in Point
      BY <2>1
    <3> QED BY <3>1, <3>2 DEF Point
  <2>3. ASSUME NEW q \in points'
        PROVE  /\ q \in Point /\ q.generation <= generation /\ q.next <= nextID
               /\ q.generation = generation =>
                    /\ \A i \in DOMAIN order' : i > q.order => order'[i] >= q.next
                    /\ ~q.cut => /\ q.order <= Len(order')
                                 /\ \A i \in 1 .. q.order : order'[i] < q.next
    <3>1. PICK o \in points :
            /\ q \in Point /\ q.generation = o.generation /\ q.order = o.order /\ q.next = o.next
            /\ ~q.cut => ~o.cut /\ ~(o.generation = generation /\ o.order > p.order)
      BY <2>2
    <3>2. /\ o.generation <= generation /\ o.next <= nextID
          /\ o.generation = generation =>
               /\ \A i \in DOMAIN order : i > o.order => order[i] >= o.next
               /\ ~o.cut => /\ o.order <= Len(order)
                            /\ \A i \in 1 .. o.order : order[i] < o.next
      BY DEF PointsInv
    <3>3. q.order \in Nat /\ o.order \in Nat
      BY <3>1 DEF Point
    <3>4. ASSUME q.generation = generation, NEW i \in DOMAIN order', i > q.order
          PROVE  order'[i] >= q.next
      BY <1>2, <3>1, <3>2, <3>4
    <3>5. ASSUME q.generation = generation, ~q.cut
          PROVE  q.order <= Len(order') /\ \A i \in 1 .. q.order : order'[i] < q.next
      <4>1. ~o.cut /\ o.order <= p.order
        <5>1. ~o.cut /\ ~(o.order > p.order)
          BY <3>1, <3>5, Zenon
        <5> QED BY <1>2, <3>3, <5>1
      <4>2. \A i \in 1 .. q.order : i \in 1 .. p.order
        BY <1>2, <3>1, <3>3, <4>1
      <4>3. \A i \in 1 .. q.order : order[i] < q.next
        BY <3>1, <3>2, <3>5, <4>1
      <4>4. q.order <= Len(order')
        BY <1>2, <3>1, <4>1
      <4> QED BY <1>2, <4>2, <4>3, <4>4
    <3> QED BY <3>1, <3>2, <3>4, <3>5
  <2> QED BY <1>2, <1>5, <2>1, <2>3 DEF PointsInv
<1> QED BY <1>1, <1>4, <1>6 DEF ArenaInv

\* Reset and Close leave nothing allocated, and no checkpoint of the new generation.
LEMMA EmptiedKeeps ==
  ASSUME ArenaInv, PointsInv, Emptied, UNCHANGED <<nextID, points>>, cursor' \in 0 .. Capacity
  PROVE  ArenaInv' /\ PointsInv'
<1>1. /\ storage' = IF ZeroOnRelease THEN [b \in Bytes |-> 0] ELSE storage
      /\ free' = <<>> /\ order' = <<>> /\ used' = 0 /\ live' = 0 /\ generation' = generation + 1
      /\ allocations' = [id \in Ids |-> [offset |-> 0, length |-> 0, alive |-> FALSE]]
  BY DEF Emptied
<1>2. Alive' = {}
  BY <1>1 DEF Alive
<1>3. LayoutInv'
  <2>1. free' \in Seq(Slot) /\ DOMAIN free' = {}
    BY <1>1
  <2>2. allocations' \in Lengths
    BY <1>1 DEF Lengths
  <2> QED BY <1>2, <2>1, <2>2 DEF LayoutInv, Apart, Within
<1>4. OrderInv'
  <2>1. order' \in Seq(Ids) /\ DOMAIN order' = {}
    BY <1>1
  <2> QED BY <1>2, <2>1 DEF ArenaInv, OrderInv
<1>5. AccountsInv'
  <2>1. Cardinality({}) = 0
    BY FS_EmptySet
  <2>2. Total(allocations', {}) = 0
    BY <1>3, TotalSplits DEF LayoutInv
  <2> QED BY <1>1, <1>2, <2>1, <2>2 DEF AccountsInv, AccountsAgree
<1>6. NothingLeftToRead'
  BY <1>1 DEF NothingLeftToRead
<1>7. PointsInv'
  <2>1. /\ points' = points /\ nextID' = nextID /\ points \subseteq Point /\ generation \in Nat
        /\ \A p \in points : p.generation <= generation /\ p.next <= nextID
    BY DEF PointsInv
  <2>2. \A p \in points : p.generation <= generation + 1 /\ p.generation # generation + 1
    BY <2>1 DEF Point
  <2> QED BY <1>1, <2>1, <2>2 DEF PointsInv
<1> QED BY <1>3, <1>4, <1>5, <1>6, <1>7 DEF ArenaInv

\* Write and Zero: only the bytes of an allocation that is alive change, to its
\* own id or to nothing.
LEMMA BytesKeep ==
  ASSUME ArenaInv, UNCHANGED <<cursor, free, allocations, order, nextID, used, live>>,
         NEW id \in Alive,
         \A b \in Bytes : \/ storage'[b] \in {storage[b], 0}
                          \/ storage'[b] = id /\ b \in Extent(allocations[id])
  PROVE  ArenaInv'
<1>1. Alive' = Alive
  BY DEF Alive
<1>2. LayoutInv' /\ OrderInv' /\ AccountsInv'
  BY <1>1 DEF ArenaInv, LayoutInv, OrderInv, AccountsInv, AccountsAgree
<1>3. NothingLeftToRead'
  BY <1>1 DEF ArenaInv, NothingLeftToRead
<1> QED BY <1>2, <1>3 DEF ArenaInv

\* Arena.Write stays inside its allocation.
LEMMA WriteKeeps ==
  ASSUME ArenaInv, NEW id \in Ids, NEW at \in Bytes, NEW n \in WriteSizes, Write(id, at, n)
  PROVE  ArenaInv'
<1>1. /\ id \in Alive /\ n <= allocations[id].length - at
      /\ storage' = [b \in Bytes |-> IF /\ b >= allocations[id].offset + at
                                        /\ b < allocations[id].offset + at + n
                                     THEN id ELSE storage[b]]
      /\ UNCHANGED <<cursor, free, allocations, order, nextID, used, live>>
  BY DEF Write, Resolves, Alive, FitsIn
<1>2. allocations[id] \in [offset : Nat, length : Nat, alive : BOOLEAN]
  BY DEF ArenaInv, LayoutInv, Lengths
<1>3. at \in Nat /\ n \in Nat
  BY ArenaAssumption DEF Bytes
<1>4. ASSUME NEW b \in Bytes
      PROVE  \/ storage'[b] = storage[b]
             \/ storage'[b] = id /\ b \in Extent(allocations[id])
  <2>1. CASE b >= allocations[id].offset + at /\ b < allocations[id].offset + at + n
    <3>1. PICK o \in Nat, l \in Nat : allocations[id].offset = o /\ allocations[id].length = l
      BY <1>2
    <3>2. b \in o .. o + l - 1
      BY <1>1, <1>3, <2>1, <3>1 DEF Bytes
    <3>3. Extent(allocations[id]) = o .. o + l - 1
      BY <3>1 DEF Extent, EndOf
    <3> QED BY <1>1, <2>1, <3>2, <3>3
  <2>2. CASE ~(b >= allocations[id].offset + at /\ b < allocations[id].offset + at + n)
    BY <1>1, <2>2
  <2> QED BY <2>1, <2>2
<1> QED BY <1>1, <1>4, BytesKeep

\* Arena.Zero only clears.
LEMMA ZeroKeeps ==
  ASSUME ArenaInv, NEW id \in Ids, Zero(id)
  PROVE  ArenaInv'
<1>1. /\ id \in Alive
      /\ storage' = [b \in Bytes |-> IF b \in Extent(allocations[id]) THEN 0 ELSE storage[b]]
      /\ UNCHANGED <<cursor, free, allocations, order, nextID, used, live>>
  BY DEF Zero, Resolves, Alive
<1>2. \A b \in Bytes : storage'[b] \in {storage[b], 0}
  BY <1>1
<1> QED BY <1>1, <1>2, BytesKeep

\* A step that is not the arena's.
LEMMA UntouchedKeeps ==
  ASSUME ArenaInv, UNCHANGED arena
  PROVE  ArenaInv'
<1>1. Alive' = Alive
  BY DEF Alive, arena
<1> QED BY <1>1 DEF ArenaInv, LayoutInv, OrderInv, AccountsInv, AccountsAgree, NothingLeftToRead, arena

\* The checkpoints of a step that does not take, cut or outdate one.
LEMMA UntouchedPoints ==
  ASSUME PointsInv, UNCHANGED <<points, generation, order, nextID>>
  PROVE  PointsInv'
BY DEF PointsInv

\* What Allocate appends is younger than every checkpoint.
LEMMA AllocatedPoints ==
  ASSUME ArenaInv, PointsInv, NEW asked, NEW alignment, Allocated(asked, alignment), points' = points
  PROVE  PointsInv'
<1>1. /\ nextID' = nextID + 1 /\ generation' = generation /\ order' = Append(order, nextID)
      /\ nextID <= MaxIds
  BY DEF Allocated, FreshID
<1>2. nextID \in Nat /\ order \in Seq(Ids) /\ nextID \in Ids /\ \A i \in DOMAIN order : order[i] \in Int
  BY <1>1, ArenaAssumption DEF ArenaInv, OrderInv, Ids
<1>3. PICK o \in Seq(Ids) : o = Append(order, nextID)
  <2>1. Append(order, nextID) \in Seq(Ids)
    BY <1>2
  <2> QED BY <2>1
<1>4. /\ Len(order) \in Nat /\ DOMAIN order = 1 .. Len(order) /\ Len(o) = Len(order) + 1
      /\ DOMAIN o = 1 .. Len(order) + 1 /\ o[Len(order) + 1] = nextID
      /\ \A i \in DOMAIN order : o[i] = order[i]
  BY <1>2, <1>3
<1>5. \A i \in DOMAIN o : i \in DOMAIN order \/ i = Len(order) + 1
  BY <1>4
<1>6. points \subseteq Point /\ generation \in Nat
  BY DEF PointsInv
<1>7. ASSUME NEW p \in points
      PROVE  /\ p.generation <= generation /\ p.next <= nextID + 1
             /\ p.generation = generation =>
                  /\ \A i \in DOMAIN o : i > p.order => o[i] >= p.next
                  /\ ~p.cut => /\ p.order <= Len(o)
                               /\ \A i \in 1 .. p.order : o[i] < p.next
  <2>1. p.generation \in Nat /\ p.order \in Nat /\ p.next \in Nat
    BY <1>6 DEF Point
  <2>2. /\ p.generation <= generation /\ p.next <= nextID
        /\ p.generation = generation =>
             /\ \A i \in DOMAIN order : i > p.order => order[i] >= p.next
             /\ ~p.cut => /\ p.order <= Len(order)
                          /\ \A i \in 1 .. p.order : order[i] < p.next
    BY DEF PointsInv
  <2>3. ASSUME p.generation = generation, NEW i \in DOMAIN o, i > p.order
        PROVE  o[i] >= p.next
    BY <1>2, <1>4, <1>5, <2>1, <2>2, <2>3
  <2>4. ASSUME p.generation = generation, ~p.cut
        PROVE  p.order <= Len(o) /\ \A i \in 1 .. p.order : o[i] < p.next
    BY <1>4, <2>1, <2>2, <2>4
  <2>5. p.next <= nextID + 1
    BY <1>2, <2>1, <2>2
  <2> QED BY <2>2, <2>3, <2>4, <2>5
<1> QED BY <1>1, <1>3, <1>6, <1>7 DEF PointsInv

\* A new checkpoint names the whole order.
LEMMA CheckpointPoints ==
  ASSUME ArenaInv, PointsInv, Checkpoint
  PROVE  PointsInv'
<1> DEFINE new == [generation |-> generation, order |-> Len(order), next |-> nextID, cut |-> FALSE]
<1>1. /\ points' = points \cup {new}
      /\ UNCHANGED <<generation, order, nextID>>
  BY DEF Checkpoint, arena
<1>2. /\ order \in Seq(Ids) /\ Len(order) \in Nat /\ DOMAIN order = 1 .. Len(order) /\ nextID \in Nat
      /\ \A i \in DOMAIN order : order[i] < nextID
  BY ArenaAssumption DEF ArenaInv, OrderInv
<1>3. /\ new \in Point /\ new.generation = generation /\ new.order = Len(order) /\ new.next = nextID
  BY <1>2 DEF PointsInv, Point
<1> HIDE DEF new
<1>4. \A i \in DOMAIN order : ~(i > new.order)
  BY <1>2, <1>3
<1>5. /\ new.generation <= generation /\ new.next <= nextID /\ new.order <= Len(order)
      /\ \A i \in 1 .. new.order : order[i] < new.next
  BY <1>2, <1>3 DEF PointsInv
<1> QED BY <1>1, <1>3, <1>4, <1>5 DEF PointsInv

-----------------------------------------------------------------------------
(* The arena, in every behaviour.                                          *)

\* In the beginning there is nothing.
LEMMA InitArena == Init => ArenaInv /\ PointsInv
<1> SUFFICES ASSUME Init PROVE ArenaInv /\ PointsInv
  OBVIOUS
<1>1. /\ storage = [b \in Bytes |-> 0] /\ cursor = 0 /\ free = <<>> /\ order = <<>>
      /\ allocations = [id \in Ids |-> [offset |-> 0, length |-> 0, alive |-> FALSE]]
      /\ nextID = 1 /\ generation = 1 /\ used = 0 /\ live = 0 /\ points = {}
  BY DEF Init
<1>2. Alive = {}
  BY <1>1 DEF Alive
<1>3. free \in Seq(Slot) /\ DOMAIN free = {} /\ order \in Seq(Ids) /\ DOMAIN order = {}
  BY <1>1
<1>4. allocations \in Lengths
  BY <1>1 DEF Lengths
<1>5. LayoutInv
  <2>1. cursor \in 0 .. Capacity
    BY <1>1, ArenaAssumption
  <2> QED BY <1>2, <1>3, <1>4, <2>1 DEF LayoutInv, Apart, Within
<1>6. OrderInv
  <2>1. nextID \in 1 .. MaxIds + 1
    BY <1>1, ArenaAssumption
  <2> QED BY <1>2, <1>3, <2>1 DEF OrderInv
<1>7. AccountsInv
  BY <1>1, <1>2, <1>4, TotalSplits, FS_EmptySet DEF AccountsInv, AccountsAgree
<1>8. NothingLeftToRead
  BY <1>1 DEF NothingLeftToRead
<1> QED BY <1>1, <1>5, <1>6, <1>7, <1>8 DEF ArenaInv, PointsInv

\* The invariant of the arena's own state, action by action. IInv is needed where a
\* group deletes: what it deletes are ids.
LEMMA StepArena ==
  ASSUME ArenaInv, PointsInv, IInv, [Next]_vars
  PROVE  ArenaInv' /\ PointsInv'
<1>1. ASSUME NEW size \in Sizes, NEW alignment \in Alignments, Allocate(size, alignment)
      PROVE  ArenaInv' /\ PointsInv'
  BY <1>1, AllocatedKeeps, AllocatedPoints DEF Allocate
<1>2. ASSUME NEW size \in Sizes, NEW alignment \in Alignments, NEW g \in Groups,
             GroupAllocate(g, size, alignment)
      PROVE  ArenaInv' /\ PointsInv'
  BY <1>2, AllocatedKeeps, AllocatedPoints DEF GroupAllocate
<1>3. ASSUME NEW id \in Ids, Delete(id)
      PROVE  ArenaInv' /\ PointsInv'
  BY <1>3, DeletedKeeps, UntouchedPoints DEF Delete, Deleted
<1>4. ASSUME NEW id \in Ids, Zero(id)
      PROVE  ArenaInv' /\ PointsInv'
  BY <1>4, ZeroKeeps, UntouchedPoints DEF Zero
<1>5. ASSUME NEW id \in Ids, NEW at \in Bytes, NEW n \in WriteSizes, Write(id, at, n)
      PROVE  ArenaInv' /\ PointsInv'
  BY <1>5, WriteKeeps, UntouchedPoints DEF Write
<1>6. ASSUME Checkpoint
      PROVE  ArenaInv' /\ PointsInv'
  BY <1>6, UntouchedKeeps, CheckpointPoints DEF Checkpoint
<1>7. ASSUME NEW p \in points, Rollback(p)
      PROVE  ArenaInv' /\ PointsInv'
  BY <1>7, RollbackKeeps
<1>8. ASSUME Reset
      PROVE  ArenaInv' /\ PointsInv'
  <2>1. cursor' \in 0 .. Capacity
    BY <1>8, ArenaAssumption DEF Reset
  <2> QED BY <1>8, <2>1, EmptiedKeeps DEF Reset
<1>9. ASSUME Close
      PROVE  ArenaInv' /\ PointsInv'
  <2>1. cursor' \in 0 .. Capacity
    BY <1>9 DEF Close, ArenaInv, LayoutInv
  <2> QED BY <1>9, <2>1, EmptiedKeeps DEF Close
<1>10. ASSUME NEW g \in Groups, NEW call \in {"Reset", "Release"}, GroupBegin(g, call)
       PROVE  ArenaInv' /\ PointsInv'
  BY <1>10, UntouchedKeeps, UntouchedPoints DEF GroupBegin, arena
<1>11. ASSUME NEW g \in Groups, GroupDelete(g)
       PROVE  ArenaInv' /\ PointsInv'
  <2>1. loop[g] # Idle /\ loop[g].index > 0 /\ points' = points
    BY <1>11 DEF GroupDelete
  <2>2. members[g] \in Seq(Ids) /\ loop[g].index \in 1 .. Len(members[g])
    BY <2>1 DEF IInv, MembersInv, GroupInv
  <2>3. PICK id \in Ids : id = members[g][loop[g].index]
    BY <2>2
  <2>4. CASE Resolves(id)
    <3>1. Deleted(id)
      BY <1>11, <2>3, <2>4 DEF GroupDelete
    <3> QED BY <2>1, <3>1, DeletedKeeps, UntouchedPoints DEF Deleted
  <2>5. CASE ~Resolves(id)
    <3>1. UNCHANGED arena
      BY <1>11, <2>3, <2>5 DEF GroupDelete
    <3> QED BY <2>1, <3>1, UntouchedKeeps, UntouchedPoints DEF arena
  <2> QED BY <2>4, <2>5
<1>12. ASSUME NEW g \in Groups, GroupEnd(g)
       PROVE  ArenaInv' /\ PointsInv'
  BY <1>12, UntouchedKeeps, UntouchedPoints DEF GroupEnd, arena
<1>13. CASE UNCHANGED vars
  BY <1>13, UntouchedKeeps, UntouchedPoints DEF vars, arena
<1> QED BY <1>1, <1>2, <1>3, <1>4, <1>5, <1>6, <1>7, <1>8, <1>9, <1>10, <1>11, <1>12, <1>13 DEF Next

\* The three invariants hold in every reachable state.
LEMMA ArenaAlways == Spec => [](ArenaInv /\ PointsInv /\ IInv)
<1>1. Init => ArenaInv /\ PointsInv /\ IInv
  BY InitArena, InitInv
<1>2. (ArenaInv /\ PointsInv /\ IInv) /\ [Next]_vars => (ArenaInv /\ PointsInv /\ IInv)'
  BY StepArena, StepInv
<1> QED BY <1>1, <1>2, PTL DEF Spec

\* The live allocations, the free spans and what was never allocated share no byte,
\* after any sequence of calls: takeFree and the cursor give out only bytes that
\* nobody has (PlacementKeeps), and a release puts back exactly the bytes of what it
\* releases, however coalesce joins them (ConcatKeeps, CoalescedKeeps).
THEOREM NeverShared == Spec => []SpansDisjoint
BY ArenaAlways, LayoutDisjoint, PTL DEF ArenaInv

\* What Stats reports is the number and the bytes of what is allocated: each of
\* Rollback's releases is counted once, for its list names no allocation twice.
THEOREM AccountsHold == Spec => []AccountsAgree
<1>1. ArenaInv => AccountsAgree
  BY DEF ArenaInv, AccountsInv
<1> QED BY <1>1, ArenaAlways, PTL

\* With the secure default no allocation reads what another left behind: releasing
\* clears all the bytes an allocation had, and writing stays within them.
THEOREM NothingLeft == Spec => []NothingLeftToRead
<1>1. ArenaInv => NothingLeftToRead
  BY DEF ArenaInv
<1> QED BY <1>1, ArenaAlways, PTL

\* Rollback keeps what was allocated before the checkpoint and, unless the order was
\* cut below it, releases all the rest. It finds both by their position in the order,
\* which is why the order is in the order of the ids and misses nothing alive
\* (OrderInv), and why every checkpoint still says where it stands in it (PointsInv).
THEOREM RollbacksUndo == Spec => RollbackUndoes
<1>1. ASSUME ArenaInv, PointsInv, NEW p \in points, Rollback(p)
      PROVE  /\ {id \in Alive : id < p.next} \subseteq Alive'
             /\ ~p.cut => \A id \in Alive' : id < p.next
  <2>1. Alive' = {id \in Alive : \A k \in DOMAIN order : order[k] = id => k <= p.order}
    BY <1>1, RollbackReleases
  <2>2. p.generation = generation /\ p.order <= Len(order) /\ p.order \in Nat
    BY <1>1, RollbackCuts DEF Rollback
  <2>3. /\ \A i \in DOMAIN order : i > p.order => order[i] >= p.next
        /\ ~p.cut => \A i \in 1 .. p.order : order[i] < p.next
        /\ p.next \in Nat
    BY <1>1, <2>2 DEF PointsInv, Point
  <2>4. /\ order \in Seq(Ids) /\ \A id \in Alive : \E i \in DOMAIN order : order[i] = id
    BY <1>1 DEF ArenaInv, OrderInv
  <2>5. ASSUME NEW id \in Alive, id < p.next, NEW k \in DOMAIN order, order[k] = id
        PROVE  k <= p.order
    <3>1. id \in Int /\ k \in Int /\ ~(id >= p.next)
      BY <2>3, <2>4, <2>5 DEF Alive, Ids
    <3>2. ~(k > p.order)
      BY <2>3, <2>5, <3>1
    <3> QED BY <2>2, <3>1, <3>2
  <2>6. ASSUME ~p.cut, NEW id \in Alive'
        PROVE  id < p.next
    <3>1. PICK k \in DOMAIN order : order[k] = id /\ k <= p.order
      BY <2>1, <2>4, <2>6
    <3>2. k \in 1 .. p.order
      BY <2>2, <2>4, <3>1
    <3> QED BY <2>3, <2>6, <3>1, <3>2
  <2> QED BY <2>1, <2>5, <2>6
<1>2. ASSUME ArenaInv, PointsInv
      PROVE  [\A p \in points : Rollback(p) =>
                 /\ {id \in Alive : id < p.next} \subseteq Alive'
                 /\ ~p.cut => \A id \in Alive' : id < p.next]_vars
  BY <1>1, <1>2
<1> QED BY <1>2, ArenaAlways, PTL DEF RollbackUndoes
====
