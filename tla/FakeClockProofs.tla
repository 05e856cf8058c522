--------------------------- MODULE FakeClockProofs ---------------------------
(***************************************************************************)
(* What the fake clock promises callers that never ask for a negative      *)
(* duration, for every number of registrations, every set of durations and *)
(* every interleaving of callbacks, goroutines and Advance.                *)
(***************************************************************************)
EXTENDS FakeClock, SequenceTheorems, TLAPS

\* Callers ask for no negative duration.
NoPast == Durations \subseteq Nat

\* Whatever is live is not overdue, and comes after all that was delivered.
LiveIsLater ==
  \A k \in DOMAIN regs : regs[k].state = "live" =>
    /\ regs[k].deadline >= now
    /\ \A i \in DOMAIN fires :
         fires[i].seq = Direct \/ fires[i].at < regs[k].deadline \/ fires[i].seq < k

FiresArePast == \A i \in DOMAIN fires : fires[i].at <= now /\ fires[i].seq <= Len(regs)

TargetAhead == pc # "idle" => target >= now

IInv == TypeOK /\ TargetAhead /\ FiresArePast /\ LiveIsLater /\ FiresInOrder

LEMMA InitHolds == Init => IInv
<1> SUFFICES ASSUME Init PROVE IInv
  OBVIOUS
<1>1. TypeOK
  BY DEF Init, TypeOK
<1> QED
  BY <1>1 DEF Init, IInv, TargetAhead, FiresArePast, LiveIsLater, FiresInOrder

-----------------------------------------------------------------------------
(* The two sequences.                                                      *)

LEMMA RegType ==
  ASSUME regs \in Seq(Reg), NEW k \in DOMAIN regs
  PROVE  /\ regs[k] \in Reg /\ regs[k].deadline \in Int /\ k \in Nat /\ k # Direct
         /\ DOMAIN regs = 1 .. Len(regs) /\ Len(regs) \in Nat
<1>1. regs[k] \in Reg /\ k \in Nat /\ k >= 1 /\ DOMAIN regs = 1 .. Len(regs) /\ Len(regs) \in Nat
  OBVIOUS
<1>2. regs[k].deadline \in Int
  BY <1>1 DEF Reg
<1> QED
  BY <1>1, <1>2 DEF Direct

LEMMA FireType ==
  ASSUME fires \in Seq(Delivery), NEW i \in DOMAIN fires
  PROVE  fires[i].seq \in Nat /\ fires[i].at \in Int
<1>1. fires[i] \in Delivery
  OBVIOUS
<1> QED
  BY <1>1 DEF Delivery

LEMMA StateChange ==
  ASSUME regs \in Seq(Reg), NEW k \in DOMAIN regs, NEW s \in {"stopped", "fired"},
         regs' = [regs EXCEPT ![k].state = s]
  PROVE  /\ regs' \in Seq(Reg) /\ DOMAIN regs' = DOMAIN regs /\ Len(regs') = Len(regs)
         /\ \A j \in DOMAIN regs : j # k => regs'[j] = regs[j]
         /\ regs'[k].state = s
<1> DEFINE r == [regs[k] EXCEPT !.state = s]
<1>1. r \in Reg /\ r.state = s
  <2>1. regs[k] \in Reg
    BY RegType
  <2> QED
    BY <2>1 DEF Reg
<1>2. regs' = [regs EXCEPT ![k] = r]
  OBVIOUS
<1> HIDE DEF r
<1>3. regs' \in Seq(Reg) /\ Len(regs') = Len(regs)
  BY <1>1, <1>2, ExceptSeq
<1> QED
  BY <1>1, <1>2, <1>3

-----------------------------------------------------------------------------
\* Appending a registration that is not overdue.
LEMMA RegisterKeeps ==
  ASSUME IInv, NEW shape \in {"after", "func"}, NEW d \in Nat, Register(shape, d)
  PROVE  IInv'
<1> DEFINE r == [shape |-> shape, deadline |-> now + d, state |-> "live"]
<1>0. TypeOK /\ TargetAhead /\ FiresArePast /\ LiveIsLater /\ FiresInOrder
  BY DEF IInv
<1>1. /\ regs' = Append(regs, r) /\ r \in Reg
      /\ UNCHANGED <<now, target, pc, fires>>
  BY <1>0 DEF Register, TypeOK, Reg
<1>2. TypeOK'
  <2>1. regs' \in Seq(Reg)
    BY <1>0, <1>1 DEF TypeOK
  <2> QED
    BY <2>1, <1>0, <1>1 DEF TypeOK
<1>3. /\ DOMAIN regs' = 1 .. Len(regs) + 1 /\ Len(regs') = Len(regs) + 1
      /\ Len(regs) \in Nat /\ DOMAIN regs = 1 .. Len(regs)
      /\ regs'[Len(regs) + 1] = r
      /\ \A k \in DOMAIN regs : regs'[k] = regs[k]
  BY <1>0, <1>1 DEF TypeOK
<1>4. \A i \in DOMAIN fires : fires'[i].seq \in Nat /\ fires'[i].at \in Int
  BY <1>0, <1>1, FireType DEF TypeOK
<1>5. TargetAhead' /\ FiresInOrder'
  BY <1>0, <1>1 DEF TargetAhead, FiresInOrder
<1>6. FiresArePast'
  BY <1>0, <1>1, <1>3, <1>4 DEF FiresArePast
<1>7. LiveIsLater'
  <2> SUFFICES ASSUME NEW k \in DOMAIN regs', regs'[k].state = "live"
               PROVE  /\ regs'[k].deadline >= now'
                      /\ \A i \in DOMAIN fires' : fires'[i].seq = Direct
                           \/ fires'[i].at < regs'[k].deadline \/ fires'[i].seq < k
    BY DEF LiveIsLater
  <2>1. CASE k \in DOMAIN regs
    BY <2>1, <1>0, <1>1, <1>3 DEF LiveIsLater
  <2>2. CASE k = Len(regs) + 1
    <3>1. regs'[k].deadline = now + d /\ now \in Int
      BY <2>2, <1>3, <1>0 DEF TypeOK
    <3>2. \A i \in DOMAIN fires' : fires'[i].seq < k
      BY <2>2, <1>0, <1>1, <1>3, <1>4 DEF FiresArePast
    <3> QED
      BY <3>1, <3>2, <1>1
  <2> QED
    BY <2>1, <2>2, <1>3
<1> QED
  BY <1>2, <1>5, <1>6, <1>7 DEF IInv

\* A delivery that After makes itself.
LEMMA DirectKeeps ==
  ASSUME IInv, fires' = Append(fires, [seq |-> Direct, at |-> now]),
         UNCHANGED <<now, regs, target, pc>>
  PROVE  IInv'
<1>0. TypeOK /\ TargetAhead /\ FiresArePast /\ LiveIsLater /\ FiresInOrder
  BY DEF IInv
<1> DEFINE f == [seq |-> Direct, at |-> now]
<1>1. /\ f \in Delivery /\ fires \in Seq(Delivery)
      /\ f.seq = Direct /\ f.at = now /\ now \in Int
  BY <1>0 DEF TypeOK, Direct, Delivery
<1>2. TypeOK'
  <2>1. fires' \in Seq(Delivery)
    BY <1>1
  <2> QED
    BY <2>1, <1>0 DEF TypeOK
<1>3. /\ DOMAIN fires' = 1 .. Len(fires) + 1 /\ DOMAIN fires = 1 .. Len(fires)
      /\ Len(fires) \in Nat /\ fires'[Len(fires) + 1] = f
      /\ \A i \in DOMAIN fires : fires'[i] = fires[i]
  BY <1>1
<1>4. FiresArePast' /\ TargetAhead' /\ LiveIsLater'
  BY <1>0, <1>1, <1>3 DEF FiresArePast, TargetAhead, LiveIsLater, Direct, TypeOK
<1>5. FiresInOrder'
  BY <1>0, <1>1, <1>3 DEF FiresInOrder, FiresArePast
<1> QED
  BY <1>2, <1>4, <1>5 DEF IInv

LEMMA StopKeeps ==
  ASSUME IInv, NEW k \in DOMAIN regs, StopTimer(k)
  PROVE  IInv'
<1>0. TypeOK /\ TargetAhead /\ FiresArePast /\ LiveIsLater /\ FiresInOrder
  BY DEF IInv
<1>1. /\ regs' = [regs EXCEPT ![k].state = "stopped"] /\ regs \in Seq(Reg)
      /\ UNCHANGED <<now, target, pc, fires>>
  BY <1>0 DEF StopTimer, TypeOK
<1>2. /\ DOMAIN regs' = DOMAIN regs /\ Len(regs') = Len(regs) /\ regs' \in Seq(Reg)
      /\ \A j \in DOMAIN regs : j # k => regs'[j] = regs[j]
      /\ regs'[k].state = "stopped"
  BY <1>1, StateChange
<1> QED
  BY <1>0, <1>1, <1>2 DEF IInv, TypeOK, TargetAhead, FiresArePast, LiveIsLater, FiresInOrder

LEMMA FireKeeps ==
  ASSUME IInv, NEW k \in DOMAIN regs, Fire(k)
  PROVE  IInv' /\ now' >= now
<1>0. TypeOK /\ TargetAhead /\ FiresArePast /\ LiveIsLater /\ FiresInOrder
  BY DEF IInv
<1> DEFINE f == [seq |-> k, at |-> regs[k].deadline]
<1>1. /\ regs \in Seq(Reg) /\ regs[k] \in Reg /\ regs[k].deadline \in Int /\ k \in Nat
      /\ k # Direct /\ DOMAIN regs = 1 .. Len(regs) /\ Len(regs) \in Nat
  BY <1>0, RegType DEF TypeOK
<1>2. /\ now' = regs[k].deadline /\ fires' = Append(fires, f)
      /\ regs' = [regs EXCEPT ![k].state = "fired"] /\ target' = target
      /\ pc = "loop" /\ pc' = "delivering" /\ regs[k].state = "live"
      /\ regs[k].deadline <= target
  BY DEF Fire, Due
<1>3. /\ DOMAIN regs' = DOMAIN regs /\ Len(regs') = Len(regs) /\ regs' \in Seq(Reg)
      /\ \A j \in DOMAIN regs : j # k => regs'[j] = regs[j]
      /\ regs'[k].state = "fired"
  BY <1>1, <1>2, StateChange
<1>4. /\ f \in Delivery /\ fires \in Seq(Delivery)
      /\ f.seq = k /\ f.at = regs[k].deadline
  BY <1>0, <1>1 DEF TypeOK, Delivery
<1>5. /\ DOMAIN fires' = 1 .. Len(fires) + 1 /\ DOMAIN fires = 1 .. Len(fires)
      /\ Len(fires) \in Nat /\ fires'[Len(fires) + 1] = f
      /\ \A i \in DOMAIN fires :
           fires'[i] = fires[i] /\ fires[i].seq \in Nat /\ fires[i].at \in Int
      /\ fires' \in Seq(Delivery)
  BY <1>2, <1>4, FireType
<1>6. now' >= now
  BY <1>0, <1>2 DEF LiveIsLater
<1>7. TypeOK'
  BY <1>0, <1>1, <1>2, <1>3, <1>5 DEF TypeOK
<1>8. TargetAhead'
  BY <1>2 DEF TargetAhead
<1>9. FiresArePast'
  BY <1>0, <1>1, <1>2, <1>3, <1>4, <1>5, <1>6 DEF FiresArePast, TypeOK
<1>10. LiveIsLater'
  <2> SUFFICES ASSUME NEW j \in DOMAIN regs, j # k, regs[j].state = "live"
               PROVE  /\ regs[j].deadline >= now'
                      /\ \A i \in DOMAIN fires' : fires'[i].seq = Direct
                           \/ fires'[i].at < regs[j].deadline \/ fires'[i].seq < j
    BY <1>3 DEF LiveIsLater
  <2>1. regs[j].deadline \in Int /\ target \in Int /\ j \in Nat
    BY <1>0, <1>1, RegType DEF TypeOK
  <2>2. Before(k, j)
    <3>1. CASE regs[j].deadline <= target
      BY <3>1 DEF Fire, Due
    <3>2. CASE regs[j].deadline > target
      BY <3>2, <2>1, <1>1, <1>2 DEF Before
    <3> QED
      BY <3>1, <3>2, <2>1
  <2>3. regs[j].deadline >= now' /\ (f.at < regs[j].deadline \/ f.seq < j)
    BY <2>1, <2>2, <1>1, <1>2, <1>4 DEF Before
  <2>4. \A i \in DOMAIN fires : fires[i].seq = Direct
           \/ fires[i].at < regs[j].deadline \/ fires[i].seq < j
    BY <1>0 DEF LiveIsLater
  <2> HIDE DEF f
  <2> QED
    BY <2>3, <2>4, <1>4, <1>5
<1>11. FiresInOrder'
  <2>1. ASSUME NEW i \in DOMAIN fires
        PROVE  /\ fires[i].at <= regs[k].deadline
               /\ \/ fires[i].at < regs[k].deadline
                  \/ fires[i].seq = Direct
                  \/ fires[i].seq < k
    <3>1. fires[i].at <= now /\ now <= regs[k].deadline
      BY <1>0, <1>2 DEF FiresArePast, LiveIsLater
    <3>2. fires[i].at \in Int /\ now \in Int
      BY <1>0, <1>5 DEF TypeOK
    <3> QED
      BY <3>1, <3>2, <1>0, <1>1, <1>2 DEF LiveIsLater
  <2> SUFFICES ASSUME NEW i \in DOMAIN fires', NEW j \in DOMAIN fires', i < j
               PROVE  /\ fires'[i].at <= fires'[j].at
                      /\ \/ fires'[i].at < fires'[j].at
                         \/ fires'[i].seq = Direct
                         \/ fires'[j].seq = Direct
                         \/ fires'[i].seq < fires'[j].seq
    BY DEF FiresInOrder
  <2>2. i \in DOMAIN fires /\ fires'[i] = fires[i]
    BY <1>5
  <2>3. CASE j \in DOMAIN fires
    BY <2>2, <2>3, <1>0, <1>5 DEF FiresInOrder
  <2>4. CASE j = Len(fires) + 1
    <3>1. fires'[j] = f
      BY <2>4, <1>5
    <3> QED
      BY <3>1, <2>1, <2>2
  <2> QED
    BY <2>3, <2>4, <1>5
<1> QED
  BY <1>6, <1>7, <1>8, <1>9, <1>10, <1>11 DEF IInv

LEMMA DriverKeeps ==
  ASSUME IInv, (\E d \in Steps : AdvanceEnter(d)) \/ Return \/ Finish
  PROVE  IInv' /\ now' >= now
<1>0. /\ TypeOK /\ TargetAhead /\ FiresArePast /\ LiveIsLater /\ FiresInOrder
      /\ now \in Int /\ target \in Int
  BY DEF IInv, TypeOK
<1>1. CASE (\E d \in Steps : AdvanceEnter(d)) \/ Return
  <2>1. /\ UNCHANGED <<now, regs, fires>> /\ target' \in Int /\ target' >= now
        /\ pc' \in {"idle", "loop", "delivering"}
    BY <1>1, <1>0, ClockAssumption DEF AdvanceEnter, Return, TargetAhead
  <2> QED
    BY <2>1, <1>0 DEF IInv, TypeOK, TargetAhead, FiresArePast, LiveIsLater, FiresInOrder
<1>2. CASE Finish
  <2>1. /\ UNCHANGED <<regs, fires, target>> /\ now' = target /\ now' >= now /\ pc' = "idle"
    BY <1>2, <1>0 DEF Finish, TargetAhead
  <2>2. \A k \in DOMAIN regs : regs[k].deadline \in Int
    BY <1>0, RegType DEF TypeOK
  <2>3. LiveIsLater'
    <3>1. \A k \in DOMAIN regs : regs[k].state = "live" => regs[k].deadline >= target
      BY <1>2, <2>2, <1>0 DEF Finish, Due
    <3> QED
      BY <3>1, <2>1, <1>0 DEF LiveIsLater
  <2>4. FiresArePast'
    BY <2>1, <1>0, FireType DEF FiresArePast, TypeOK
  <2> QED
    BY <2>1, <2>3, <2>4, <1>0 DEF IInv, TypeOK, TargetAhead, FiresInOrder
<1> QED
  BY <1>1, <1>2

LEMMA StepHolds ==
  ASSUME NoPast, IInv, [Next]_vars
  PROVE  IInv' /\ now' >= now
<1>0. now \in Int
  BY DEF IInv, TypeOK
<1>1. ASSUME NEW d \in Durations, After(d) \/ AfterFunc(d) PROVE IInv' /\ now' = now
  <2>1. d \in Nat
    BY DEF NoPast
  <2>2. CASE \E shape \in {"after", "func"} : Register(shape, d)
    BY <2>1, <2>2, RegisterKeeps DEF Register
  <2>3. CASE fires' = Append(fires, [seq |-> Direct, at |-> now]) /\ UNCHANGED <<now, regs, target, pc>>
    BY <2>3, DirectKeeps
  <2> QED
    BY <1>1, <2>2, <2>3 DEF After, AfterFunc
<1>2. ASSUME NEW k \in DOMAIN regs, StopTimer(k) PROVE IInv' /\ now' = now
  BY <1>2, StopKeeps DEF StopTimer
<1>3. CASE UNCHANGED vars
  BY <1>3, <1>0 DEF vars, IInv, TypeOK, TargetAhead, FiresArePast, LiveIsLater, FiresInOrder, Direct
<1> QED
  BY <1>0, <1>1, <1>2, <1>3, FireKeeps, DriverKeeps DEF Next

\* The fake clock's deliveries come in (deadline, insertion) order and the
\* time they show never goes back, for callers that ask for no negative
\* duration, in every interleaving (std/clock, Fake.Advance and nextDue).
THEOREM DeliversInOrder ==
  ASSUME NoPast
  PROVE  Spec => []FiresInOrder
<1>1. Init => IInv
  BY InitHolds
<1>2. IInv /\ [Next]_vars => IInv'
  BY StepHolds
<1>3. IInv => FiresInOrder
  BY DEF IInv
<1> QED
  BY <1>1, <1>2, <1>3, PTL DEF Spec

\* Type correctness, under the same assumption.
THEOREM TypeCorrect ==
  ASSUME NoPast
  PROVE  Spec => []TypeOK
<1>1. Init => IInv
  BY InitHolds
<1>2. IInv /\ [Next]_vars => IInv'
  BY StepHolds
<1>3. IInv => TypeOK
  BY DEF IInv
<1> QED
  BY <1>1, <1>2, <1>3, PTL DEF Spec

\* "Time advances chronologically": no step of any goroutine moves the fake
\* clock back (std/clock, Fake.Advance), under the same assumption.
THEOREM TimeNeverGoesBack ==
  ASSUME NoPast
  PROVE  Spec => Chronological
<1>1. Init => IInv
  BY InitHolds
<1>2. IInv /\ [Next]_vars => IInv'
  BY StepHolds
<1>3. IInv /\ [Next]_vars => [now' >= now]_now
  BY StepHolds
<1> QED
  BY <1>1, <1>2, <1>3, PTL DEF Spec, Chronological

-----------------------------------------------------------------------------
(* Every registration is delivered at most once, and in time.              *)

\* How often registration k is among the deliveries.
Never(k) == \A i \in DOMAIN fires : fires[i].seq # k
JustOnce(k) == \E i \in DOMAIN fires : \A j \in DOMAIN fires : fires[j].seq = k <=> j = i

\* DeliveredOnce of one registration.
Once(k) == IF regs[k].state = "fired" THEN JustOnce(k) ELSE Never(k)

LEMMA OnceEach == DeliveredOnce <=> \A k \in DOMAIN regs : Once(k)
<1> SUFFICES ASSUME NEW k \in DOMAIN regs
             PROVE  LET times == {i \in DOMAIN fires : fires[i].seq = k}
                    IN  (IF regs[k].state = "fired" THEN \E i \in times : times = {i} ELSE times = {})
                        <=> Once(k)
  BY DEF DeliveredOnce
<1> DEFINE times == {i \in DOMAIN fires : fires[i].seq = k}
<1>1. (times = {}) <=> \A i \in DOMAIN fires : fires[i].seq # k
  OBVIOUS
<1>2. ASSUME NEW i \in DOMAIN fires
      PROVE  (i \in times /\ times = {i}) <=> \A j \in DOMAIN fires : fires[j].seq = k <=> j = i
  OBVIOUS
<1>3. (\E i \in times : times = {i}) <=> \E i \in DOMAIN fires : i \in times /\ times = {i}
  OBVIOUS
<1> QED
  BY <1>1, <1>2, <1>3 DEF Once, Never, JustOnce

\* One delivery more, of k or of another.
LEMMA OneMore ==
  ASSUME fires \in Seq(Delivery), NEW f, fires' = Append(fires, f), NEW k
  PROVE  /\ f.seq = k /\ Never(k) => JustOnce(k)'
         /\ f.seq # k /\ Never(k) => Never(k)'
         /\ f.seq # k /\ JustOnce(k) => JustOnce(k)'
<1>1. /\ DOMAIN fires' = 1 .. Len(fires) + 1 /\ DOMAIN fires = 1 .. Len(fires)
      /\ Len(fires) \in Nat /\ fires'[Len(fires) + 1] = f
      /\ \A i \in DOMAIN fires : fires'[i] = fires[i]
  OBVIOUS
<1>2. ASSUME f.seq = k, Never(k) PROVE JustOnce(k)'
  <2>1. Len(fires) + 1 \in DOMAIN fires'
    BY <1>1
  <2>2. ASSUME NEW j \in DOMAIN fires' PROVE fires'[j].seq = k <=> j = Len(fires) + 1
    BY <1>1, <1>2 DEF Never
  <2> QED
    BY <2>1, <2>2 DEF JustOnce
<1>3. ASSUME f.seq # k, Never(k) PROVE Never(k)'
  BY <1>1, <1>3 DEF Never
<1>4. ASSUME f.seq # k, JustOnce(k) PROVE JustOnce(k)'
  <2>1. PICK i \in DOMAIN fires : \A j \in DOMAIN fires : fires[j].seq = k <=> j = i
    BY <1>4 DEF JustOnce
  <2>2. i \in DOMAIN fires'
    BY <1>1
  <2>3. ASSUME NEW j \in DOMAIN fires' PROVE fires'[j].seq = k <=> j = i
    BY <1>1, <1>4, <2>1
  <2> QED
    BY <2>2, <2>3 DEF JustOnce
<1> QED
  BY <1>2, <1>3, <1>4

\* A registration that has not fired has no delivery: the number of a new one is
\* larger than that of any delivery made so far.
LEMMA OnceStep ==
  ASSUME IInv, DeliveredOnce, [Next]_vars
  PROVE  DeliveredOnce'
<1>0. /\ FiresArePast /\ regs \in Seq(Reg) /\ fires \in Seq(Delivery)
      /\ DOMAIN regs = 1 .. Len(regs) /\ Len(regs) \in Nat
      /\ \A k \in DOMAIN regs : Once(k)
  BY OnceEach DEF IInv, TypeOK
<1>a. (\A k \in DOMAIN regs : Once(k))' => DeliveredOnce'
  BY OnceEach, PTL
<1> SUFFICES \A k \in DOMAIN regs' : Once(k)'
  BY <1>a
<1>1. ASSUME NEW shape, NEW d, Register(shape, d) PROVE \A k \in DOMAIN regs' : Once(k)'
  <2>1. /\ DOMAIN regs' = 1 .. Len(regs) + 1 /\ fires' = fires
        /\ regs'[Len(regs) + 1].state = "live"
        /\ \A k \in DOMAIN regs : regs'[k] = regs[k]
    BY <1>0, <1>1 DEF Register
  <2>2. \A i \in DOMAIN fires : fires[i].seq \in Nat /\ fires[i].seq <= Len(regs)
    BY <1>0, FireType DEF FiresArePast
  <2>3. ASSUME NEW k \in DOMAIN regs', k = Len(regs) + 1 PROVE Once(k)'
    BY <2>1, <2>2, <2>3, <1>0 DEF Once, Never
  <2>4. ASSUME NEW k \in DOMAIN regs PROVE Once(k)'
    BY <2>1, <1>0 DEF Once, Never, JustOnce
  <2> QED
    BY <2>1, <2>3, <2>4, <1>0
<1>2. ASSUME fires' = Append(fires, [seq |-> Direct, at |-> now]), UNCHANGED regs
      PROVE  \A k \in DOMAIN regs' : Once(k)'
  <2>1. ASSUME NEW k \in DOMAIN regs PROVE Once(k)'
    <3> DEFINE f == [seq |-> Direct, at |-> now]
    <3>1. f.seq # k /\ fires' = Append(fires, f)
      BY <1>0, <1>2 DEF Direct
    <3> HIDE DEF f
    <3>2. (Never(k) => Never(k)') /\ (JustOnce(k) => JustOnce(k)')
      BY <3>1, <1>0, OneMore
    <3> QED
      BY <3>2, <1>0, <1>2 DEF Once
  <2> QED
    BY <2>1, <1>2
<1>3. ASSUME NEW k \in DOMAIN regs, StopTimer(k) PROVE \A j \in DOMAIN regs' : Once(j)'
  <2>1. /\ regs' = [regs EXCEPT ![k].state = "stopped"] /\ fires' = fires
        /\ regs[k].state = "live"
    BY <1>3 DEF StopTimer
  <2>2. /\ DOMAIN regs' = DOMAIN regs /\ regs'[k].state = "stopped"
        /\ \A j \in DOMAIN regs : j # k => regs'[j] = regs[j]
    BY <2>1, <1>0, StateChange
  <2>3. Once(k)'
    BY <2>1, <2>2, <1>0 DEF Once, Never
  <2>4. ASSUME NEW j \in DOMAIN regs, j # k PROVE Once(j)'
    BY <2>1, <2>2, <2>4, <1>0 DEF Once, Never, JustOnce
  <2> QED
    BY <2>2, <2>3, <2>4
<1>4. ASSUME NEW k \in DOMAIN regs, Fire(k) PROVE \A j \in DOMAIN regs' : Once(j)'
  <2> DEFINE f == [seq |-> k, at |-> regs[k].deadline]
  <2>1. /\ regs' = [regs EXCEPT ![k].state = "fired"] /\ fires' = Append(fires, f)
        /\ regs[k].state = "live" /\ f.seq = k
    BY <1>4 DEF Fire, Due
  <2>2. /\ DOMAIN regs' = DOMAIN regs /\ regs'[k].state = "fired"
        /\ \A j \in DOMAIN regs : j # k => regs'[j] = regs[j]
    BY <2>1, <1>0, StateChange
  <2>3. Never(k)
    BY <1>0, <2>1 DEF Once
  <2> HIDE DEF f
  <2>4. Once(k)'
    <3>1. JustOnce(k)'
      BY <2>1, <2>3, <1>0, OneMore
    <3> QED
      BY <3>1, <2>2 DEF Once
  <2>5. ASSUME NEW j \in DOMAIN regs, j # k PROVE Once(j)'
    <3>1. f.seq # j /\ Once(j) /\ regs'[j] = regs[j]
      BY <2>1, <2>2, <2>5, <1>0
    <3>2. (Never(j) => Never(j)') /\ (JustOnce(j) => JustOnce(j)')
      BY <3>1, <2>1, <1>0, OneMore
    <3> QED
      BY <3>1, <3>2 DEF Once
  <2> QED
    BY <2>2, <2>4, <2>5
<1>5. CASE UNCHANGED <<regs, fires>>
  BY <1>5, <1>0 DEF Once, Never, JustOnce
<1> QED
  BY <1>1, <1>2, <1>3, <1>4, <1>5
     DEF Next, After, AfterFunc, AdvanceEnter, Return, Finish, vars

\* A Stop that answered true is final and nothing is delivered twice, in every
\* interleaving of callbacks, goroutines and Advance (std/clock, Stop and nextDue).
THEOREM DeliversOnce ==
  ASSUME NoPast
  PROVE  Spec => []DeliveredOnce
<1>1. Init => IInv /\ DeliveredOnce
  BY InitHolds DEF Init, DeliveredOnce
<1>2. IInv /\ DeliveredOnce /\ [Next]_vars => IInv' /\ DeliveredOnce'
  BY StepHolds, OnceStep
<1> QED
  BY <1>1, <1>2, PTL DEF Spec

\* Only Finish ends a drain, and it finds nothing due; what is registered between
\* drains is not due before now, and a channel of After later than now.
LEMMA OverdueStep ==
  ASSUME NoPast, IInv, NothingOverdue, [Next]_vars
  PROVE  NothingOverdue'
<1>0. /\ regs \in Seq(Reg) /\ now \in Int /\ target \in Int
      /\ DOMAIN regs = 1 .. Len(regs) /\ Len(regs) \in Nat
      /\ \A k \in DOMAIN regs : regs[k].deadline \in Int
  BY RegType DEF IInv, TypeOK
<1>1. ASSUME NEW shape, NEW d \in Nat, Register(shape, d), shape = "func" \/ d > 0
      PROVE  NothingOverdue'
  <2>1. /\ DOMAIN regs' = 1 .. Len(regs) + 1 /\ UNCHANGED <<now, pc>>
        /\ regs'[Len(regs) + 1].shape = shape
        /\ regs'[Len(regs) + 1].deadline = now + d
        /\ \A k \in DOMAIN regs : regs'[k] = regs[k]
    BY <1>0, <1>1 DEF Register
  <2> QED
    BY <2>1, <1>0, <1>1 DEF NothingOverdue
<1>2. ASSUME NEW k \in DOMAIN regs, StopTimer(k) PROVE NothingOverdue'
  <2>1. regs' = [regs EXCEPT ![k].state = "stopped"] /\ UNCHANGED <<now, pc>>
    BY <1>2 DEF StopTimer
  <2>2. /\ DOMAIN regs' = DOMAIN regs /\ regs'[k].state = "stopped"
        /\ \A j \in DOMAIN regs : j # k => regs'[j] = regs[j]
    BY <2>1, <1>0, StateChange
  <2> QED
    BY <2>1, <2>2 DEF NothingOverdue
<1>3. CASE Finish
  BY <1>0, <1>3 DEF Finish, Due, NothingOverdue
<1>4. CASE pc' # "idle" \/ UNCHANGED <<now, regs, pc>>
  BY <1>4 DEF NothingOverdue
<1>5. ASSUME NEW d \in Durations, After(d) \/ AfterFunc(d) PROVE NothingOverdue'
  <2>1. d \in Nat
    BY DEF NoPast
  <2> QED
    BY <1>1, <1>4, <1>5, <2>1 DEF After, AfterFunc
<1>6. ASSUME NEW k \in DOMAIN regs, Fire(k) PROVE pc' # "idle"
  BY <1>6 DEF Fire
<1>7. (\E d \in Steps : AdvanceEnter(d)) \/ Return => pc' # "idle"
  BY DEF AdvanceEnter, Return
<1> QED
  BY <1>2, <1>3, <1>4, <1>5, <1>6, <1>7 DEF Next, vars

\* When Advance comes back nothing it should have delivered is left, callbacks that
\* re-register and other goroutines notwithstanding (std/clock, Fake.Advance).
THEOREM LeavesNothingOverdue ==
  ASSUME NoPast
  PROVE  Spec => []NothingOverdue
<1>1. Init => IInv /\ NothingOverdue
  BY InitHolds DEF Init, NothingOverdue
<1>2. IInv /\ NothingOverdue /\ [Next]_vars => IInv' /\ NothingOverdue'
  BY StepHolds, OverdueStep
<1> QED
  BY <1>1, <1>2, PTL DEF Spec
=============================================================================
