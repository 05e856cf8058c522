----------------------------- MODULE LatchProofs -----------------------------
(***************************************************************************)
(* The safety of the latch for any finite set of workers and any set of    *)
(* trippers.  The argument: inflight is the number of workers between Inc  *)
(* and Dec, so it is never negative and an Inc never brings it to zero;    *)
(* the goroutine that does bring it to zero, or that stores tripped, is    *)
(* then Responsible until it has seen Done closed.                         *)
(***************************************************************************)
EXTENDS Latch, FiniteSetTheorems, TLAPS

CountInv == inflight = Cardinality(Working)

\* Whoever is past tripped.Store, or past a load that saw it, saw it stay.
ArmedInv == \A t \in Threads : pc[t] \in {"load", "fire", "closing"} => tripped

\* closeOnce admits one goroutine to the close, and is over when it is done.
OnceInv ==
  /\ closeOnce \in {"new", "running"} => closes = 0 /\ ~done
  /\ closeOnce = "over" => closes = 1 /\ done /\ tripped
  /\ \A t \in Threads : pc[t] = "closing" => closeOnce = "running"
  /\ \A t, u \in Threads : pc[t] = "closing" /\ pc[u] = "closing" => t = u

IInv == TypeOK /\ CountInv /\ ArmedInv /\ OnceInv /\ RendezvousNotLost

-----------------------------------------------------------------------------
(***************************************************************************)
(* Inc adds its worker to Working and DecAdd takes it away; every other    *)
(* step leaves Working, and so its cardinality, alone.                     *)
(***************************************************************************)
LEMMA WorkingFinite == IsFiniteSet(Working) /\ Cardinality(Working) \in Nat
BY ThreadsAssumption, FS_Subset, FS_CardinalityType DEF Working

LEMMA InitIInv == Init => IInv
<1> SUFFICES ASSUME Init PROVE IInv OBVIOUS
<1> USE DEF Init
<1>1. TypeOK
  <2>1. \A t \in Threads : pc[t] = "idle"
    OBVIOUS
  <2>2. pc \in [Threads -> WorkerPC \cup TripperPC]
    BY DEF WorkerPC, TripperPC
  <2>3. /\ \A w \in Workers : pc[w] \in WorkerPC
        /\ \A t \in Trippers : pc[t] \in TripperPC
    BY <2>1 DEF Threads, WorkerPC, TripperPC
  <2>4. tripOnce \in Once /\ closeOnce \in Once
    BY DEF Once
  <2>5. inflight \in Int /\ closes \in Nat /\ owed \in SUBSET Workers
    OBVIOUS
  <2> QED BY <2>2, <2>3, <2>4, <2>5, Zenon DEF TypeOK
<1>2. CountInv
  BY FS_EmptySet DEF CountInv, Working, Threads
<1>3. ArmedInv /\ OnceInv /\ RendezvousNotLost
  BY DEF ArmedInv, OnceInv, RendezvousNotLost, Threads
<1> QED BY <1>1, <1>2, <1>3 DEF IInv

(***************************************************************************)
(* Type correctness is inductive by itself.                                *)
(***************************************************************************)
LEMMA TypeStep == TypeOK /\ [Next]_vars => TypeOK'
<1> SUFFICES ASSUME TypeOK, [Next]_vars PROVE TypeOK' OBVIOUS
<1> USE ThreadsAssumption DEF TypeOK, Threads, Once, WorkerPC, TripperPC, Goto
<1>1. ASSUME NEW w \in Workers, Admit(w) PROVE TypeOK'
  BY <1>1 DEF Admit
<1>2. ASSUME NEW w \in Workers, Inc(w) PROVE TypeOK'
  BY <1>2 DEF Inc
<1>3. ASSUME NEW w \in Workers, DecAdd(w) PROVE TypeOK'
  BY <1>3 DEF DecAdd
<1>4. ASSUME NEW w \in Workers, DecLoad(w) PROVE TypeOK'
  BY <1>4 DEF DecLoad
<1>5. ASSUME NEW t \in Trippers, TripEnter(t) PROVE TypeOK'
  BY <1>5 DEF TripEnter
<1>6. ASSUME NEW t \in Trippers, TripStore(t) PROVE TypeOK'
  BY <1>6 DEF TripStore, Working
<1>7. ASSUME NEW t \in Trippers, TripLoad(t) PROVE TypeOK'
  BY <1>7 DEF TripLoad
<1>8. ASSUME NEW t \in Trippers, TripLeave(t) PROVE TypeOK'
  BY <1>8 DEF TripLeave
<1>9. ASSUME NEW t \in Threads, FireEnter(t) PROVE TypeOK'
  BY <1>9 DEF FireEnter, AfterFire
<1>10. ASSUME NEW t \in Threads, FireClose(t) PROVE TypeOK'
  BY <1>10 DEF FireClose, AfterFire
<1>11. CASE UNCHANGED vars
  BY <1>11 DEF vars
<1> QED
  BY <1>1, <1>2, <1>3, <1>4, <1>5, <1>6, <1>7, <1>8, <1>9, <1>10, <1>11
     DEF Next, Worker, Tripper

LEMMA CountStep == TypeOK /\ CountInv /\ [Next]_vars => CountInv'
<1> SUFFICES ASSUME TypeOK, CountInv, [Next]_vars PROVE CountInv' OBVIOUS
<1> USE DEF TypeOK, CountInv, Threads, Goto
<1>1. ASSUME Working' = Working, UNCHANGED inflight PROVE CountInv'
  BY <1>1
<1>2. ASSUME NEW w \in Workers, Inc(w) PROVE CountInv'
  <2>1. Working' = Working \cup {w} /\ w \notin Working
    BY <1>2 DEF Inc, Working
  <2> QED BY <1>2, <2>1, WorkingFinite, FS_AddElement DEF Inc
<1>3. ASSUME NEW w \in Workers, DecAdd(w) PROVE CountInv'
  <2>1. Working' = Working \ {w} /\ w \in Working
    BY <1>3 DEF DecAdd, Working
  <2> QED BY <1>3, <2>1, WorkingFinite, FS_RemoveElement DEF DecAdd
<1>4. ASSUME NEW w \in Workers, Admit(w) \/ DecLoad(w) PROVE CountInv'
  <2>1. Working' = Working BY <1>4 DEF Admit, DecLoad, Working
  <2> QED BY <1>1, <1>4, <2>1 DEF Admit, DecLoad
<1>5. ASSUME NEW t \in Trippers, Tripper(t) PROVE CountInv'
  <2>1. Working' = Working
    BY <1>5, ThreadsAssumption
       DEF Tripper, TripEnter, TripStore, TripLoad, TripLeave, Working
  <2> QED
    BY <1>1, <1>5, <2>1 DEF Tripper, TripEnter, TripStore, TripLoad, TripLeave
<1>6. ASSUME NEW t \in Threads, FireEnter(t) \/ FireClose(t) PROVE CountInv'
  <2>1. Working' = Working
    BY <1>6 DEF FireEnter, FireClose, Working, AfterFire
  <2> QED BY <1>1, <1>6, <2>1 DEF FireEnter, FireClose
<1>7. CASE UNCHANGED vars
  BY <1>1, <1>7 DEF vars, Working
<1> QED
  BY <1>2, <1>3, <1>4, <1>5, <1>6, <1>7 DEF Next, Worker

LEMMA OnceStep ==
  TypeOK /\ ArmedInv /\ OnceInv /\ [Next]_vars => ArmedInv' /\ OnceInv'
<1> SUFFICES ASSUME TypeOK, ArmedInv, OnceInv, [Next]_vars
             PROVE ArmedInv' /\ OnceInv'
  OBVIOUS
<1> USE ThreadsAssumption
    DEF TypeOK, Threads, Once, WorkerPC, TripperPC, Goto, ArmedInv, OnceInv
<1>1. ASSUME NEW w \in Workers, Worker(w) PROVE ArmedInv' /\ OnceInv'
  BY <1>1 DEF Worker, Admit, Inc, DecAdd, DecLoad
<1>2. ASSUME NEW t \in Trippers, Tripper(t) PROVE ArmedInv' /\ OnceInv'
  BY <1>2 DEF Tripper, TripEnter, TripStore, TripLoad, TripLeave
<1>3. ASSUME NEW t \in Threads, FireEnter(t) PROVE ArmedInv' /\ OnceInv'
  BY <1>3 DEF FireEnter, AfterFire
<1>4. ASSUME NEW t \in Threads, FireClose(t) PROVE ArmedInv' /\ OnceInv'
  BY <1>4 DEF FireClose, AfterFire
<1>5. CASE UNCHANGED vars
  BY <1>5 DEF vars
<1> QED BY <1>1, <1>2, <1>3, <1>4, <1>5 DEF Next

(***************************************************************************)
(* Every step that could complete the premise of RendezvousNotLost leaves  *)
(* somebody responsible; the last responsible goroutine leaves only with   *)
(* Done closed, or having seen another still in flight.                    *)
(***************************************************************************)
LEMMA RendezvousStep == IInv /\ [Next]_vars => RendezvousNotLost'
<1> SUFFICES ASSUME IInv, [Next]_vars PROVE RendezvousNotLost' OBVIOUS
<1> inflight \in Nat
  BY WorkingFinite DEF IInv, CountInv
<1> USE ThreadsAssumption
    DEF IInv, TypeOK, Threads, Once, WorkerPC, TripperPC, Goto,
        RendezvousNotLost, Responsible
<1>1. ASSUME NEW w \in Workers, Admit(w) PROVE RendezvousNotLost'
  BY <1>1 DEF Admit
<1>2. ASSUME NEW w \in Workers, Inc(w) PROVE RendezvousNotLost'
  BY <1>2 DEF Inc
<1>3. ASSUME NEW w \in Workers, DecAdd(w) PROVE RendezvousNotLost'
  <2>1. CASE inflight - 1 = 0
    <3>1. Responsible(w)' BY <1>3, <2>1 DEF DecAdd
    <3> QED BY <3>1
  <2>2. CASE inflight - 1 # 0
    BY <1>3, <2>2 DEF DecAdd
  <2> QED BY <2>1, <2>2
<1>4. ASSUME NEW w \in Workers, DecLoad(w) PROVE RendezvousNotLost'
  <2>1. CASE tripped
    <3>1. Responsible(w)' BY <1>4, <2>1 DEF DecLoad
    <3> QED BY <3>1
  <2>2. CASE ~tripped
    BY <1>4, <2>2 DEF DecLoad
  <2> QED BY <2>1, <2>2
<1>5. ASSUME NEW t \in Trippers, TripEnter(t) PROVE RendezvousNotLost'
  BY <1>5 DEF TripEnter
<1>6. ASSUME NEW t \in Trippers, TripStore(t) PROVE RendezvousNotLost'
  <2>1. Responsible(t)' BY <1>6 DEF TripStore
  <2> QED BY <2>1
<1>7. ASSUME NEW t \in Trippers, TripLoad(t) PROVE RendezvousNotLost'
  <2>1. CASE inflight = 0
    <3>1. Responsible(t)' BY <1>7, <2>1 DEF TripLoad
    <3> QED BY <3>1
  <2>2. CASE inflight # 0
    BY <1>7, <2>2 DEF TripLoad
  <2> QED BY <2>1, <2>2
<1>8. ASSUME NEW t \in Trippers, TripLeave(t) PROVE RendezvousNotLost'
  BY <1>8 DEF TripLeave
<1>9. ASSUME NEW t \in Threads, FireEnter(t) PROVE RendezvousNotLost'
  <2>1. CASE closeOnce = "new"
    <3>1. Responsible(t)' BY <1>9, <2>1 DEF FireEnter
    <3> QED BY <3>1
  <2>2. CASE closeOnce = "over"
    BY <1>9, <2>2 DEF FireEnter, OnceInv
  <2> QED BY <1>9, <2>1, <2>2 DEF FireEnter
<1>10. ASSUME NEW t \in Threads, FireClose(t) PROVE RendezvousNotLost'
  BY <1>10 DEF FireClose
<1>11. CASE UNCHANGED vars
  BY <1>11 DEF vars
<1> QED
  BY <1>1, <1>2, <1>3, <1>4, <1>5, <1>6, <1>7, <1>8, <1>9, <1>10, <1>11
     DEF Next, Worker, Tripper

-----------------------------------------------------------------------------
\* The count of workers between Inc and Dec, the arming, the two once-guards and
\* the rendezvous hold together in every state of the latch.
THEOREM Inductive == Spec => []IInv
<1>1. IInv /\ [Next]_vars => IInv'
  BY TypeStep, CountStep, OnceStep, RendezvousStep DEF IInv
<1> QED BY InitIInv, <1>1, PTL DEF Spec

\* Every goroutine stands at a step of its own kind of call and every field
\* of the latch keeps its type, however many goroutines share it.
THEOREM TypeCorrect == Spec => []TypeOK
<1>1. IInv => TypeOK BY DEF IInv
<1> QED BY Inductive, <1>1, PTL

\* A tripped latch with nothing in flight and nobody about to fire has fired:
\* Dec and Trip cannot both conclude that the other one will close Done.
THEOREM NoLostRendezvous == Spec => []RendezvousNotLost
<1>1. IInv => RendezvousNotLost BY DEF IInv
<1> QED BY Inductive, <1>1, PTL

\* Done closes only after Trip, and the channel is closed at most once.
THEOREM FiresOnce == Spec => []FiresOnceAfterTrip
<1>1. IInv => FiresOnceAfterTrip
  BY DEF IInv, TypeOK, OnceInv, Once, FiresOnceAfterTrip
<1> QED BY Inductive, <1>1, PTL

=============================================================================
