------------------------------ MODULE FakeClock ------------------------------
(***************************************************************************)
(* std/clock's Fake: time moves only in Advance, which fires the due       *)
(* registrations one by one and releases the mutex around each delivery.   *)
(* One driver goroutine calls Advance; registrations and Stops come from   *)
(* callbacks and from other goroutines, at any moment the mutex is free,   *)
(* so they may fall between any two deliveries of a drain.                 *)
(*                                                                         *)
(* A registration is named by its insertion number nextSeq, which is its   *)
(* position in `regs`.                                                     *)
(***************************************************************************)
EXTENDS Integers, Sequences

CONSTANTS Durations,  \* the arguments callers pass to After and AfterFunc
          Steps,      \* the arguments of Advance that do not panic
          MaxRegs,    \* bound: registrations in a behaviour
          MaxNow      \* bound: targets of Advance

ASSUME ClockAssumption ==
  /\ Durations \subseteq Int
  /\ Steps \subseteq Nat
  /\ MaxRegs \in Nat
  /\ MaxNow \in Nat

VARIABLES
  now,      \* Fake.now
  regs,     \* every registration ever made, in insertion order
  target,   \* Advance's local: the time it is moving to
  pc,       \* the driver: idle, in the loop, or inside a delivery
  fires     \* history: what was delivered, and the time Now showed then

vars == <<now, regs, target, pc, fires>>

Reg == [shape : {"after", "func"}, deadline : Int,
        state : {"live", "stopped", "fired"}]

Delivery == [seq : Nat, at : Int]

\* The number of such a delivery.
Direct == 0

Due(k) == regs[k].state = "live" /\ regs[k].deadline <= target

\* Fake.timers: a fired timer has left the slice, a stopped one has not.
Timers == {k \in DOMAIN regs : regs[k].shape = "func" /\ regs[k].state # "fired"}

\* A defect, for the mutation runs: registrations of equal deadline fire in the order the slices give them.
BeforeNoTieBreak(j, k) ==
  \/ regs[j].deadline < regs[k].deadline
  \/ regs[j].deadline = regs[k].deadline /\ j > k

\* Earlier in (deadline, insertion) order.
Before(j, k) ==
  \/ regs[j].deadline < regs[k].deadline
  \/ regs[j].deadline = regs[k].deadline /\ j < k

-----------------------------------------------------------------------------
(* Defects of the code, for the mutation runs.                              *)

\* Stop forgets to look at fired.
StopIgnoresFired(k) ==
  /\ k \in DOMAIN regs
  /\ regs[k].shape = "func"
  /\ regs' = [regs EXCEPT ![k].state = "stopped"]
  /\ UNCHANGED <<now, target, pc, fires>>

\* The loop ends when no channel is due, whatever the callbacks.
FinishChannelsOnly ==
  /\ pc = "loop"
  /\ \A k \in DOMAIN regs : Due(k) => regs[k].shape = "func"
  /\ now' = target
  /\ pc' = "idle"
  /\ UNCHANGED <<regs, target, fires>>

\* Only an event moves the clock: a loop that stops at the target waits for
\* one that falls on it.
FinishOnTarget ==
  /\ pc = "loop"
  /\ \A k \in DOMAIN regs : ~Due(k)
  /\ now = target
  /\ pc' = "idle"
  /\ UNCHANGED <<now, regs, target, fires>>

-----------------------------------------------------------------------------
Init ==
  /\ now = 0
  /\ regs = <<>>
  /\ target = 0
  /\ pc = "idle"
  /\ fires = <<>>

Register(shape, d) ==
  /\ Len(regs) < MaxRegs
  /\ regs' = Append(regs, [shape |-> shape, deadline |-> now + d, state |-> "live"])
  /\ UNCHANGED <<now, target, pc, fires>>

\* After fires at once when d <= 0 and registers nothing.
After(d) ==
  \/ /\ d <= 0
     /\ Len(fires) < MaxRegs
     /\ fires' = Append(fires, [seq |-> Direct, at |-> now])
     /\ UNCHANGED <<now, regs, target, pc>>
  \/ /\ d > 0
     /\ Register("after", d)

\* AfterFunc always registers, whatever d is.
AfterFunc(d) == Register("func", d)

\* Stop on a timer that is live; it returns false and does nothing otherwise.
StopTimer(k) ==
  /\ k \in DOMAIN regs
  /\ regs[k].shape = "func"
  /\ regs[k].state = "live"
  /\ regs' = [regs EXCEPT ![k].state = "stopped"]
  /\ UNCHANGED <<now, target, pc, fires>>

AdvanceEnter(d) ==
  /\ pc = "idle"
  /\ now + d <= MaxNow
  /\ target' = now + d
  /\ pc' = "loop"
  /\ UNCHANGED <<now, regs, fires>>

\* One critical section of the loop: take the first due registration, set
\* the clock to its deadline, and unlock to deliver it.
Fire(k) ==
  /\ pc = "loop"
  /\ Due(k)
  /\ \A j \in DOMAIN regs : Due(j) => j = k \/ Before(k, j)
  /\ now' = regs[k].deadline
  /\ regs' = [regs EXCEPT ![k].state = "fired"]
  /\ fires' = Append(fires, [seq |-> k, at |-> regs[k].deadline])
  /\ pc' = "delivering"
  /\ UNCHANGED target

\* The channel send (the buffer never blocks it) or the callback is over.
Return ==
  /\ pc = "delivering"
  /\ pc' = "loop"
  /\ UNCHANGED <<now, regs, target, fires>>

Finish ==
  /\ pc = "loop"
  /\ \A k \in DOMAIN regs : ~Due(k)
  /\ now' = target
  /\ pc' = "idle"
  /\ UNCHANGED <<regs, target, fires>>

Next ==
  \/ \E d \in Durations : After(d) \/ AfterFunc(d)
  \/ \E k \in DOMAIN regs : StopTimer(k) \/ Fire(k)
  \/ \E d \in Steps : AdvanceEnter(d)
  \/ Return
  \/ Finish

\* The driver goroutine runs; nobody is obliged to register or to Advance.
Fairness == WF_vars(Return) /\ WF_vars(Finish) /\ WF_vars(\E k \in DOMAIN regs : Fire(k))

Spec == Init /\ [][Next]_vars /\ Fairness

-----------------------------------------------------------------------------
\* The clock, its registrations (numbered from 1, as nextSeq) and the deliveries
\* have their types.
TypeOK ==
  /\ now \in Int
  /\ regs \in Seq(Reg)
  /\ target \in Int
  /\ pc \in {"idle", "loop", "delivering"}
  /\ fires \in Seq(Delivery)

\* Deliveries happen in (deadline, insertion) order over the whole life of
\* the clock, across drains, re-entrant registrations and registrations by
\* other goroutines, and the time they show never goes back (the package
\* comment's "deadline-ascending order, ties broken by insertion order").
FiresInOrder ==
  \A i, j \in DOMAIN fires :
    i < j => /\ fires[i].at <= fires[j].at
             /\ \/ fires[i].at < fires[j].at
                \/ fires[i].seq = Direct
                \/ fires[j].seq = Direct
                \/ fires[i].seq < fires[j].seq

\* A Stop that answered true is final, and nothing is delivered twice
\* (Stop's comment: "the fn will NOT fire").
DeliveredOnce ==
  \A k \in DOMAIN regs :
    LET times == {i \in DOMAIN fires : fires[i].seq = k}
    IN  IF regs[k].state = "fired" THEN \E i \in times : times = {i} ELSE times = {}

\* Time never goes back, so a callback sees its own deadline and no later
\* event has moved the clock on ("Time advances chronologically").
Chronological == [][now' >= now]_now

\* Between drains nothing is left behind: a registration that is still live
\* was due later than the last target, or was made since at the current time.
NothingOverdue ==
  pc = "idle" => \A k \in DOMAIN regs :
    regs[k].state = "live" =>
      \/ regs[k].deadline > now
      \/ regs[k].shape = "func" /\ regs[k].deadline = now

\* "Stopped and fired timers are removed lazily by Advance" (TimerLen's
\* comment): after an Advance beyond its deadline a stopped timer is gone.
StoppedRemovedLazily ==
  pc = "idle" => \A k \in Timers : regs[k].state = "stopped" => regs[k].deadline >= now

\* Advance comes back, whatever its callbacks register (as long as they stop
\* registering): the drain never waits for a receiver.
AdvanceReturns == pc # "idle" ~> pc = "idle"
=============================================================================
