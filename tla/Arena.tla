-------------------------------- MODULE Arena --------------------------------
(***************************************************************************)
(* std/memory's Arena and its allocation Groups. A call on the arena runs  *)
(* under Arena.mu from its first line to its last and is one action. A     *)
(* group's Reset or Release holds Group.mu and takes Arena.mu anew for     *)
(* each Delete, so calls on the arena fall between two of them.            *)
(*                                                                         *)
(* A call that is refused (CapacityExhausted, InvalidHandle, ...) changes  *)
(* nothing and is not an action, except where a group's loop ends in it.   *)
(* Reads change nothing; what they would return is `storage`. Peak, which  *)
(* only Stats reports, is left out.                                        *)
(***************************************************************************)
EXTENDS Integers, FiniteSets, Sequences, SequencesExt, FiniteSetsExt

CONSTANTS Capacity,       \* Config.Capacity, in bytes
          ZeroOnRelease,  \* Config.Zero: TRUE unless PreserveOnRelease
          Sizes,          \* sizes callers ask for
          Alignments,     \* alignments callers ask for: powers of two
          WriteSizes,     \* lengths of what callers write
          Groups,         \* the allocation groups of this arena
          MaxIds,         \* bound: allocations in a behaviour
          MaxGeneration,  \* bound: Reset is not called in the last generation
          MaxPoints       \* bound: checkpoints in a behaviour

ASSUME ArenaAssumption ==
  /\ Capacity \in Nat \ {0}
  /\ ZeroOnRelease \in BOOLEAN
  /\ Sizes \cup WriteSizes \subseteq Nat
  /\ Alignments \subseteq {1, 2, 4, 8, 16}
  /\ {MaxIds, MaxGeneration, MaxPoints} \subseteq Nat

Ids == 1 .. MaxIds
Bytes == 0 .. Capacity - 1

VARIABLES
  storage,      \* each byte: 0, or the allocation that last wrote it
  cursor,       \* everything from here on has never been allocated
  free,         \* the free spans, in the order takeFree tries them
  allocations,  \* per id; an id the map does not hold is not alive
  order,        \* the ids in allocation order, cut back by Rollback
  nextID, generation, used, live, closed,
  points,       \* the checkpoints callers hold
  issued,       \* the handles callers hold, by id
  members,      \* Group.handles, as ids
  released,     \* Group.released
  loop          \* a group's Reset or Release under way, and the index it is at

arena == <<storage, cursor, free, allocations, order, nextID, generation, used, live, closed>>
vars == <<arena, points, issued, members, released, loop>>

Span == [offset : 0 .. Capacity, length : 0 .. Capacity]
Allocation == [offset : 0 .. Capacity, length : 0 .. Capacity, alive : BOOLEAN]

\* `next` and `cut` are history: what nextID was when the checkpoint was taken,
\* and whether a Rollback has since cut the order below it.
Point == [generation : Nat, order : Nat, next : Nat, cut : BOOLEAN]
Handle == [offset : 0 .. Capacity, length : 0 .. Capacity, generation : Nat]

Idle == [call |-> "none", index |-> 0]

EndOf(s) == s.offset + s.length
Extent(s) == s.offset .. EndOf(s) - 1

\* resolve: does this handle still name an allocation?
Resolves(id) ==
  /\ ~closed
  /\ id < nextID
  /\ issued[id].generation = generation
  /\ allocations[id].alive
  /\ allocations[id].offset = issued[id].offset
  /\ allocations[id].length = issued[id].length

Alive == {id \in Ids : allocations[id].alive}

AlignUp(value, alignment) == value + ((alignment - (value % alignment)) % alignment)

-----------------------------------------------------------------------------
(* The free list.                                                          *)

Adjacent(s, t) == EndOf(s) = t.offset \/ EndOf(t) = s.offset

Joined(s, t) == [offset |-> IF s.offset < t.offset THEN s.offset ELSE t.offset,
                 length |-> s.length + t.length]

\* Where coalesce's two loops stand: the free list and leftIndex, rightIndex.
Walks == {w \in [free : Seq([offset : Nat, length : Nat]), left : Nat \ {0}, right : Nat \ {0}] :
            w.left < w.right}

CoalesceStep(w) ==
  LET f == w.free  l == w.left  r == w.right
  IN IF r > Len(f) THEN [free |-> f, left |-> l + 1, right |-> l + 2]
     ELSE IF Adjacent(f[l], f[r])
          THEN [free |-> RemoveAt([f EXCEPT ![l] = Joined(f[l], f[r])], r), left |-> l, right |-> r]
          ELSE [free |-> f, left |-> l, right |-> r + 1]

CoalesceFrom[w \in Walks] ==
  IF w.left > Len(w.free) THEN w.free ELSE CoalesceFrom[CoalesceStep(w)]

Coalesced(f) == CoalesceFrom[[free |-> f, left |-> 1, right |-> 2]]

\* The spans takeFree may use, and where in such a span the allocation begins.
Fitting(size, alignment) ==
  {i \in DOMAIN free : AlignUp(free[i].offset, alignment) + size <= EndOf(free[i])}

\* What is left of span s when [from, to) is taken out of it.
Remainders(s, from, to) ==
  LET kept(t) == IF t.length > 0 THEN <<t>> ELSE <<>>
  IN kept([offset |-> s.offset, length |-> from - s.offset])
       \o kept([offset |-> to, length |-> EndOf(s) - to])

\* Where Allocate puts `size` bytes: the first span that fits, else at the cursor.
Placement(size, alignment) ==
  LET fitting == Fitting(size, alignment)
      i == Min(fitting)
      at == IF fitting # {} THEN AlignUp(free[i].offset, alignment) ELSE AlignUp(cursor, alignment)
  IN [fits   |-> fitting # {} \/ at + size <= Capacity,
      offset |-> at,
      free   |-> IF fitting = {} THEN free
                 ELSE RemoveAt(free, i) \o Remainders(free[i], at, at + size),
      cursor |-> IF fitting = {} THEN at + size ELSE cursor]

-----------------------------------------------------------------------------
(* The arena's calls.                                                      *)

Init ==
  /\ storage = [b \in Bytes |-> 0]
  /\ cursor = 0
  /\ free = <<>>
  /\ allocations = [id \in Ids |-> [offset |-> 0, length |-> 0, alive |-> FALSE]]
  /\ order = <<>>
  /\ nextID = 1 /\ generation = 1
  /\ used = 0 /\ live = 0
  /\ closed = FALSE
  /\ points = {}
  /\ issued = [id \in Ids |-> [offset |-> 0, length |-> 0, generation |-> 0]]
  /\ members = [g \in Groups |-> <<>>]
  /\ released = [g \in Groups |-> FALSE]
  /\ loop = [g \in Groups |-> Idle]

\* A defect, for the mutation runs: an id is the position in the order.
PositionID == Len(order) + 1

FreshID == nextID

\* Arena.Allocate, when it succeeds.
Allocated(asked, alignment) ==
  LET size == IF asked = 0 THEN 1 ELSE asked
      place == Placement(size, alignment)
  IN /\ ~closed
     /\ nextID <= MaxIds
     /\ place.fits
     /\ free' = place.free
     /\ cursor' = place.cursor
     /\ allocations' = [allocations EXCEPT ![FreshID] =
                          [offset |-> place.offset, length |-> size, alive |-> TRUE]]
     /\ issued' = [issued EXCEPT ![FreshID] =
                     [offset |-> place.offset, length |-> size, generation |-> generation]]
     /\ order' = Append(order, FreshID)
     /\ nextID' = nextID + 1
     /\ used' = used + size
     /\ live' = live + 1
     /\ UNCHANGED <<storage, generation, closed>>

Allocate(size, alignment) ==
  /\ Allocated(size, alignment)
  /\ UNCHANGED <<points, members, released, loop>>

\* The bytes that the allocations `ids` take up together.
Total(allocs, ids) == MapThenSumSet(LAMBDA id : allocs[id].length, ids)

\* release of each of the live allocations `ids` in turn, then coalesce.
ReleaseAll(ids) ==
  LET freed == ToSet(ids)
      gone == UNION {Extent(allocations[id]) : id \in freed}
  IN /\ storage' = IF ZeroOnRelease
                   THEN [b \in Bytes |-> IF b \in gone THEN 0 ELSE storage[b]]
                   ELSE storage
     /\ allocations' = [id \in Ids |-> [allocations[id] EXCEPT !.alive = @ /\ id \notin freed]]
     /\ free' = Coalesced(free \o [k \in DOMAIN ids |->
                    [offset |-> allocations[ids[k]].offset, length |-> allocations[ids[k]].length]])
     /\ used' = used - Total(allocations, freed)
     /\ live' = live - Len(ids)

\* Arena.Delete of a handle that resolves.
Deleted(id) ==
  /\ Resolves(id)
  /\ ReleaseAll(<<id>>)
  /\ UNCHANGED <<cursor, order, nextID, generation, closed>>

Delete(id) ==
  /\ Deleted(id)
  /\ UNCHANGED <<points, issued, members, released, loop>>

\* A defect: where the write begins is not counted.
FitsUnplaced(id, at, n) == n <= allocations[id].length

FitsIn(id, at, n) == n <= allocations[id].length - at

Write(id, at, n) ==
  /\ Resolves(id)
  /\ FitsIn(id, at, n)
  /\ storage' = [b \in Bytes |-> IF /\ b >= allocations[id].offset + at
                                    /\ b < allocations[id].offset + at + n
                                 THEN id ELSE storage[b]]
  /\ UNCHANGED <<cursor, free, allocations, order, nextID, generation, used, live, closed>>
  /\ UNCHANGED <<points, issued, members, released, loop>>

Zero(id) ==
  /\ Resolves(id)
  /\ storage' = [b \in Bytes |-> IF b \in Extent(allocations[id]) THEN 0 ELSE storage[b]]
  /\ UNCHANGED <<cursor, free, allocations, order, nextID, generation, used, live, closed>>
  /\ UNCHANGED <<points, issued, members, released, loop>>

Checkpoint ==
  /\ ~closed
  /\ Cardinality(points) < MaxPoints
  /\ points' = points \cup {[generation |-> generation, order |-> Len(order), next |-> nextID, cut |-> FALSE]}
  /\ UNCHANGED <<arena, issued, members, released, loop>>

\* The checkpoints that name more of the order than a Rollback to n leaves.
CutBack(n) ==
  {[p EXCEPT !.cut = @ \/ (p.generation = generation /\ p.order > n)] : p \in points}

\* The members of `among` that `ids` has after position `from`, in its order.
Later(ids, from, among) ==
  LET upTo[k \in Nat] ==
        IF k <= from THEN <<>>
        ELSE IF ids[k] \in among THEN Append(upTo[k - 1], ids[k]) ELSE upTo[k - 1]
  IN upTo[Len(ids)]

\* A defect: allocations that were deleted one by one are released again.
UndoneDeadToo(p) == Later(order, p.order, Ids)

\* A defect: the first allocation after the checkpoint is taken for part of it.
UndoneButFirst(p) == Later(order, p.order + 1, Alive)

\* What Rollback to p releases.
Undone(p) == Later(order, p.order, Alive)

Rollback(p) ==
  /\ ~closed
  /\ p.generation = generation
  /\ p.order <= Len(order)
  /\ ReleaseAll(Undone(p))
  /\ order' = SubSeq(order, 1, p.order)
  /\ points' = CutBack(p.order)
  /\ UNCHANGED <<cursor, nextID, generation, closed, issued, members, released, loop>>

\* A defect: used is not reset.
EmptiedButUsed ==
  /\ storage' = IF ZeroOnRelease THEN [b \in Bytes |-> 0] ELSE storage
  /\ free' = <<>>
  /\ allocations' = [id \in Ids |-> [offset |-> 0, length |-> 0, alive |-> FALSE]]
  /\ order' = <<>>
  /\ used' = used
  /\ live' = 0
  /\ generation' = generation + 1

\* What Reset and Close have in common.
Emptied ==
  /\ storage' = IF ZeroOnRelease THEN [b \in Bytes |-> 0] ELSE storage
  /\ free' = <<>>
  /\ allocations' = [id \in Ids |-> [offset |-> 0, length |-> 0, alive |-> FALSE]]
  /\ order' = <<>>
  /\ used' = 0
  /\ live' = 0
  /\ generation' = generation + 1

Reset ==
  /\ ~closed
  /\ generation < MaxGeneration
  /\ Emptied
  /\ cursor' = 0
  /\ UNCHANGED <<nextID, closed, points, issued, members, released, loop>>

\* Close also drops the storage; nothing reads it any more.
Close ==
  /\ ~closed
  /\ Emptied
  /\ closed' = TRUE
  /\ UNCHANGED <<cursor, nextID, points, issued, members, released, loop>>

-----------------------------------------------------------------------------
(* The groups' calls.                                                      *)

GroupAllocate(g, size, alignment) ==
  /\ loop[g] = Idle
  /\ ~released[g]
  /\ Allocated(size, alignment)
  /\ members' = [members EXCEPT ![g] = Append(@, FreshID)]
  /\ UNCHANGED <<points, released, loop>>

\* Group.Reset or Group.Release takes Group.mu and begins with the last handle.
GroupBegin(g, call) ==
  /\ loop[g] = Idle
  /\ ~released[g]
  /\ loop' = [loop EXCEPT ![g] = [call |-> call, index |-> Len(members[g])]]
  /\ UNCHANGED <<arena, points, issued, members, released>>

\* releaseHandles: one Delete, or the end of the whole call with its failure.
GroupDelete(g) ==
  LET i == loop[g].index
  IN /\ loop[g] # Idle
     /\ i > 0
     /\ IF Resolves(members[g][i])
        THEN /\ Deleted(members[g][i])
             /\ loop' = [loop EXCEPT ![g].index = i - 1]
        ELSE /\ loop' = [loop EXCEPT ![g] = Idle]
             /\ UNCHANGED arena
     /\ UNCHANGED <<points, issued, members, released>>

\* A defect: the loop runs while index > 0 and leaves the first handle out.
GroupEndBeforeFirst(g) ==
  /\ loop[g] # Idle
  /\ loop[g].index <= 1
  /\ members' = [members EXCEPT ![g] = <<>>]
  /\ released' = [released EXCEPT ![g] = loop[g].call = "Release"]
  /\ loop' = [loop EXCEPT ![g] = Idle]
  /\ UNCHANGED <<arena, points, issued>>

GroupEnd(g) ==
  /\ loop[g] # Idle
  /\ loop[g].index = 0
  /\ members' = [members EXCEPT ![g] = <<>>]
  /\ released' = [released EXCEPT ![g] = loop[g].call = "Release"]
  /\ loop' = [loop EXCEPT ![g] = Idle]
  /\ UNCHANGED <<arena, points, issued>>

Next ==
  \/ \E size \in Sizes, alignment \in Alignments :
       \/ Allocate(size, alignment)
       \/ \E g \in Groups : GroupAllocate(g, size, alignment)
  \/ \E id \in Ids :
       \/ Delete(id)
       \/ Zero(id)
       \/ \E at \in Bytes, n \in WriteSizes : Write(id, at, n)
  \/ Checkpoint
  \/ \E p \in points : Rollback(p)
  \/ Reset
  \/ Close
  \/ \E g \in Groups :
       \/ \E call \in {"Reset", "Release"} : GroupBegin(g, call)
       \/ GroupDelete(g)
       \/ GroupEnd(g)

Spec == Init /\ [][Next]_vars

-----------------------------------------------------------------------------
(* Properties.                                                              *)

TypeOK ==
  /\ storage \in [Bytes -> 0 .. MaxIds]
  /\ cursor \in 0 .. Capacity
  /\ free \in Seq(Span)
  /\ allocations \in [Ids -> Allocation]
  /\ order \in Seq(Ids)
  /\ nextID \in 1 .. MaxIds + 1
  /\ generation \in 1 .. MaxGeneration + 1
  /\ used \in 0 .. Capacity /\ live \in 0 .. MaxIds
  /\ closed \in BOOLEAN
  /\ points \subseteq Point
  /\ issued \in [Ids -> Handle]
  /\ members \in [Groups -> Seq(Ids)]
  /\ released \in [Groups -> BOOLEAN]
  /\ loop \in [Groups -> [call : {"none", "Reset", "Release"}, index : 0 .. MaxIds]]

\* The live allocations, the free spans and what was never allocated share no
\* byte, after any sequence of allocations, deletes and rollbacks: no span is
\* freed twice and takeFree gives none out twice.
SpansDisjoint ==
  LET disjoint(s, t) == Extent(s) \cap Extent(t) = {}
  IN /\ \A a, b \in Alive : a # b => disjoint(allocations[a], allocations[b])
     /\ \A i, j \in DOMAIN free : i # j => disjoint(free[i], free[j])
     /\ \A i \in DOMAIN free, a \in Alive : disjoint(free[i], allocations[a])
     /\ \A i \in DOMAIN free : EndOf(free[i]) <= cursor
     /\ \A a \in Alive : EndOf(allocations[a]) <= cursor

\* What Stats reports is what is allocated, whichever way allocations went.
AccountsAgree ==
  /\ live = Cardinality(Alive)
  /\ used = Total(allocations, Alive)

\* With the secure default, a byte that is not zero belongs to the live
\* allocation that wrote it: no allocation reads what another left behind.
NothingLeftToRead ==
  ZeroOnRelease => \A b \in Bytes : storage[b] # 0 =>
    /\ storage[b] \in Alive
    /\ b \in Extent(allocations[storage[b]])

\* A handle that has become invalid stays so, even when its span is reused at
\* the same place and length.
HandlesNotRevived ==
  [][\A id \in 1 .. nextID - 1 : ~Resolves(id) => ~Resolves(id)']_vars

\* Rollback releases what was allocated since the checkpoint and keeps what was
\* there, unless an earlier Rollback has cut the order below the checkpoint: such
\* a checkpoint is accepted again once the order has grown past it, and then only
\* what was there before is kept.
RollbackUndoes ==
  [][\A p \in points : Rollback(p) =>
       /\ {id \in Alive : id < p.next} \subseteq Alive'
       /\ ~p.cut => \A id \in Alive' : id < p.next]_vars

\* A group that has let go of its handles has left none of them alive, whatever
\* was done to the arena between two of its Deletes.
GroupLeavesNothing ==
  [][\A g \in Groups : members'[g] = <<>> =>
       \A id \in ToSet(members[g]) : ~Resolves(id)']_vars

\* README.md of the package: "Group.Reset securely releases every member while
\* keeping the group reusable". It does not hold: a member that was deleted through
\* its handle, or rolled back, ends releaseHandles with InvalidHandle, every time,
\* and the members before it are never released.
GroupCallsReleaseMembers ==
  [][\A g \in Groups : loop[g] # Idle /\ loop'[g] = Idle =>
       \A id \in ToSet(members[g]) : ~Resolves(id)']_vars

\* It does not hold that coalesce leaves no two adjacent spans: its inner loop
\* does not look again at the spans it has passed when the left one has grown.
SpansApart ==
  \A i, j \in DOMAIN free : i # j => ~Adjacent(free[i], free[j])
====
