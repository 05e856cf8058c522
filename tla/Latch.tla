-------------------------------- MODULE Latch --------------------------------
(***************************************************************************)
(* std/latch: an in-flight counter and a trip switch.  Every step below is *)
(* one atomic operation of the code (an atomic load, store or add, or the  *)
(* entry or exit of a sync.Once), so two goroutines may interleave between *)
(* any two of them.                                                        *)
(*                                                                         *)
(* Workers follow the admission discipline the package comment asks for:   *)
(* Tripped() = false first, then Inc, then the work, then Dec.  Trippers   *)
(* call Trip, any number of times.                                         *)
(***************************************************************************)
EXTENDS Integers, FiniteSets

CONSTANTS Workers,   \* goroutines that register work
          Trippers   \* goroutines that arm the rendezvous

ASSUME ThreadsAssumption ==
  /\ IsFiniteSet(Workers)
  /\ Workers \cap Trippers = {}

VARIABLES
  tripped,     \* Latch.tripped
  inflight,    \* Latch.inflight
  done,        \* Latch.done is closed
  tripOnce,    \* Latch.tripOnce
  closeOnce,   \* Latch.closeOnce
  pc,          \* where each goroutine stands
  owed,        \* history: workers in flight when Trip stored TRUE, not retired since
  closes       \* history: calls of close(l.done); a second one panics

vars == <<tripped, inflight, done, tripOnce, closeOnce, pc, owed, closes>>

Threads == Workers \cup Trippers

\* A sync.Once: nobody has entered, one goroutine is inside, or it is over.
Once == {"new", "running", "over"}

WorkerPC  == {"idle", "admitted", "working", "zero", "fire", "closing"}
TripperPC == {"idle", "store", "load", "fire", "closing", "leave"}

Working == {w \in Workers : pc[w] = "working"}

Goto(t, label) == pc' = [pc EXCEPT ![t] = label]

-----------------------------------------------------------------------------
(* Defects of the code, for the mutation runs: each stands for the          *)
(* definition it is named after.                                            *)

\* Trip leaves the firing to Dec even when nothing is in flight.
TripLoadNeverFires(t) ==
  /\ pc[t] = "load"
  /\ Goto(t, "leave")
  /\ UNCHANGED <<tripped, inflight, done, tripOnce, closeOnce, owed, closes>>

\* Dec looks at tripped but leaves the firing to Trip.
DecLoadNeverFires(w) ==
  /\ pc[w] = "zero"
  /\ Goto(w, "idle")
  /\ UNCHANGED <<tripped, inflight, done, tripOnce, closeOnce, owed, closes>>

\* close(l.done) without closeOnce around it.
FireEnterUnguarded(t) ==
  /\ pc[t] = "fire"
  /\ closeOnce' = "running"
  /\ Goto(t, "closing")
  /\ UNCHANGED <<tripped, inflight, done, tripOnce, owed, closes>>

-----------------------------------------------------------------------------
\* Where closeOnce.Do returns to: Dec is over, Trip still has to leave tripOnce.
AfterFire(t) == IF t \in Trippers THEN "leave" ELSE "idle"

Init ==
  /\ tripped = FALSE
  /\ inflight = 0
  /\ done = FALSE
  /\ tripOnce = "new"
  /\ closeOnce = "new"
  /\ pc = [t \in Threads |-> "idle"]
  /\ owed = {}
  /\ closes = 0

\* The caller's Tripped() check: a tripped latch admits nobody.
Admit(w) ==
  /\ pc[w] = "idle"
  /\ ~tripped
  /\ Goto(w, "admitted")
  /\ UNCHANGED <<tripped, inflight, done, tripOnce, closeOnce, owed, closes>>

Inc(w) ==
  /\ pc[w] = "admitted"
  /\ inflight' = inflight + 1
  /\ Goto(w, "working")
  /\ UNCHANGED <<tripped, done, tripOnce, closeOnce, owed, closes>>

\* Dec, first half: inflight.Add(-1), whose result decides what follows.
DecAdd(w) ==
  /\ pc[w] = "working"
  /\ inflight' = inflight - 1
  /\ Goto(w, IF inflight - 1 = 0 THEN "zero" ELSE "idle")
  /\ owed' = owed \ {w}
  /\ UNCHANGED <<tripped, done, tripOnce, closeOnce, closes>>

\* Dec, second half: tripped.Load(), only after the add returned zero.
DecLoad(w) ==
  /\ pc[w] = "zero"
  /\ Goto(w, IF tripped THEN "fire" ELSE "idle")
  /\ UNCHANGED <<tripped, inflight, done, tripOnce, closeOnce, owed, closes>>

\* closeOnce.Do: the first caller goes in, later callers return, and a caller
\* that arrives while another is inside waits.
FireEnter(t) ==
  /\ pc[t] = "fire"
  /\ \/ /\ closeOnce = "new"
        /\ closeOnce' = "running"
        /\ Goto(t, "closing")
     \/ /\ closeOnce = "over"
        /\ Goto(t, AfterFire(t))
        /\ UNCHANGED closeOnce
  /\ UNCHANGED <<tripped, inflight, done, tripOnce, owed, closes>>

\* close(l.done), and closeOnce.Do returns.
FireClose(t) ==
  /\ pc[t] = "closing"
  /\ done' = TRUE
  /\ closes' = closes + 1
  /\ closeOnce' = "over"
  /\ Goto(t, AfterFire(t))
  /\ UNCHANGED <<tripped, inflight, tripOnce, owed>>

\* tripOnce.Do: only the first Trip runs the body; a Trip that finds it over
\* returns at once and changes nothing.
TripEnter(t) ==
  /\ pc[t] = "idle"
  /\ tripOnce = "new"
  /\ tripOnce' = "running"
  /\ Goto(t, "store")
  /\ UNCHANGED <<tripped, inflight, done, closeOnce, owed, closes>>

TripStore(t) ==
  /\ pc[t] = "store"
  /\ tripped' = TRUE
  /\ owed' = Working
  /\ Goto(t, "load")
  /\ UNCHANGED <<inflight, done, tripOnce, closeOnce, closes>>

TripLoad(t) ==
  /\ pc[t] = "load"
  /\ Goto(t, IF inflight = 0 THEN "fire" ELSE "leave")
  /\ UNCHANGED <<tripped, inflight, done, tripOnce, closeOnce, owed, closes>>

TripLeave(t) ==
  /\ pc[t] = "leave"
  /\ tripOnce' = "over"
  /\ Goto(t, "idle")
  /\ UNCHANGED <<tripped, inflight, done, closeOnce, owed, closes>>

Worker(w)  == Admit(w) \/ Inc(w) \/ DecAdd(w) \/ DecLoad(w)
Tripper(t) == TripEnter(t) \/ TripStore(t) \/ TripLoad(t) \/ TripLeave(t)

Next ==
  \/ \E w \in Workers : Worker(w)
  \/ \E t \in Trippers : Tripper(t)
  \/ \E t \in Threads : FireEnter(t) \/ FireClose(t)

Spec == Init /\ [][Next]_vars

\* Once a call has begun the Go scheduler finishes it, and work that was
\* started ends.  Nobody is obliged to begin a call: neither Admit nor
\* TripEnter is fair.
Fairness ==
  /\ \A w \in Workers : WF_vars(Inc(w) \/ DecAdd(w) \/ DecLoad(w))
  /\ \A t \in Trippers : WF_vars(TripStore(t) \/ TripLoad(t) \/ TripLeave(t))
  /\ \A t \in Threads : WF_vars(FireEnter(t) \/ FireClose(t))

FairSpec == Spec /\ Fairness

-----------------------------------------------------------------------------
\* The latch's fields hold what their Go types allow, and each goroutine stands
\* at a step of its own calls.
TypeOK ==
  /\ tripped \in BOOLEAN
  /\ inflight \in Int
  /\ done \in BOOLEAN
  /\ tripOnce \in Once
  /\ closeOnce \in Once
  /\ pc \in [Threads -> WorkerPC \cup TripperPC]
  /\ \A w \in Workers : pc[w] \in WorkerPC
  /\ \A t \in Trippers : pc[t] \in TripperPC
  /\ owed \in SUBSET Workers
  /\ closes \in Nat

\* A goroutine that will still look at the latch and close Done if it must.
Responsible(t) == pc[t] \in {"zero", "load", "fire", "closing"}

\* The rendezvous is never lost: when the latch is tripped, nothing is in
\* flight and no goroutine is still on its way to fire, Done is closed.  Dec
\* (latch.gp, Dec) and Trip each read the other's variable only after having
\* written their own; swapping either order loses a wake-up.
RendezvousNotLost ==
  (tripped /\ inflight = 0 /\ \A t \in Threads : ~Responsible(t)) => done

\* Done never closes before Trip, and is closed at most once (a second close
\* of the channel would panic) although Dec and Trip may both try to fire.
FiresOnceAfterTrip == (done => tripped) /\ closes <= 1

\* What Done promises a drain: every unit of work that was in flight when the
\* latch was tripped has been retired before Done closes.
WaitsForInflight == done => owed = {}

\* Liveness: a tripped latch eventually fires, since admitted work ends and no
\* new work is admitted.
TrippedEventuallyFires == tripped ~> done

=============================================================================
