-------------------------- MODULE AltTransportProofs --------------------------
(***************************************************************************)
(* What std/http's Transport keeps for any number of callers, authorities  *)
(* and transports: a request that cannot be sent again is handed to one    *)
(* transport at most, an origin is never known and suppressed at once, and *)
(* a closed HTTP/3 transport holds no connection.                          *)
(*                                                                         *)
(* The three rest on one another's types only; the invariant of requests   *)
(* says where a request is that has not been sent yet.                     *)
(***************************************************************************)
EXTENDS AltTransport, TLAPS

\* A request that cannot be sent again has not been handed to anybody while it is
\* still to be sent, and in the modes that have a fallback one with such a body does
\* not come near HTTP/3. A request that has a transport has one that was made.
RequestOk(m, q) ==
  /\ q.kind \in {"once", "tunnel"} =>
       /\ q.sent <= 1
       /\ q.pc \in Attempting \cup {"fallback"} => q.sent = 0
       /\ q.kind = "once" /\ m # "only" => q.pc \notin Attempting \cup {"sent", "succeeded", "failed"}
  /\ q.pc \in {"client", "dial", "dialing", "sent"} => q.at # 0

WorldInv == mode \in Modes /\ settled \in Authorities \cup {None}
CacheInv == /\ capability \in Capability
            /\ broken \in Authorities \cup {None}
            /\ KnownOrBroken
PoolInv == /\ made \in 0 .. MaxTransports
           /\ h3 \in 0 .. made
           /\ status \in [Transports -> {"open", "detached", "closed"}]
           /\ conn \in [Transports -> Authorities \cup {None}]
           /\ ClosedLeavesNothing
ReqInv == /\ req \in [Requests -> Request]
          /\ \A r \in Requests : RequestOk(mode, req[r])

IInv == WorldInv /\ CacheInv /\ PoolInv /\ ReqInv

-----------------------------------------------------------------------------
LEMMA IdleIsARequest == Idle \in Request /\ \A m \in Modes : RequestOk(m, Idle)
BY AltAssumption DEF Idle, Request, Kinds, Headers, RequestOk

\* A step of one request.
LEMMA OneRequest ==
  ASSUME ReqInv, NEW r \in Requests, NEW q \in Request, RequestOk(mode, q), mode' = mode,
         req' = [req EXCEPT ![r] = q]
  PROVE  ReqInv'
<1>1. req' \in [Requests -> Request]
  BY DEF ReqInv
<1>2. ASSUME NEW p \in Requests PROVE RequestOk(mode', req'[p])
  <2>1. CASE p = r
    <3>1. req'[p] = q
      BY <2>1 DEF ReqInv
    <3> QED BY <3>1
  <2>2. CASE p # r
    <3>1. req'[p] = req[p]
      BY <2>2 DEF ReqInv
    <3>2. RequestOk(mode, req[p])
      BY DEF ReqInv
    <3> QED BY <3>1, <3>2
  <2> QED BY <2>1, <2>2
<1> QED BY <1>1, <1>2 DEF ReqInv

LEMMA ReturnStep ==
  ASSUME ReqInv, WorldInv, NEW r \in Requests, Return(r), mode' = mode
  PROVE  ReqInv'
BY IdleIsARequest, OneRequest DEF Return, WorldInv

\* Going on to a step that asks nothing new of the request.
LEMMA GotoStep ==
  ASSUME ReqInv, NEW r \in Requests, NEW step, mode' = mode,
         Goto(r, step), step \in {"failed", "succeeded", "dial"}, req[r].pc \in Attempting \cup {"sent"},
         step = "dial" => req[r].pc = "client"
  PROVE  ReqInv'
<1> DEFINE q == [req[r] EXCEPT !.pc = step]
<1>1. req[r] \in Request /\ RequestOk(mode, req[r])
  BY DEF ReqInv
<1>2. q \in Request
  BY <1>1 DEF Request, Attempting
<1>3. RequestOk(mode, q)
  BY <1>1 DEF RequestOk, Request, Attempting
<1>4. req' = [req EXCEPT ![r] = q]
  BY DEF Goto
<1> QED BY <1>2, <1>3, <1>4, OneRequest

LEMMA LetGoStep ==
  ASSUME ReqInv, NEW r \in Requests, NEW step \in {"failed", "succeeded"}, NEW a \in Authorities \cup {None},
         mode' = mode, LetGo(r, step, a), req[r].pc \in Attempting \cup {"sent"}
  PROVE  ReqInv'
<1> DEFINE q == [Idle EXCEPT !.pc = step, !.via = a, !.kind = req[r].kind, !.sent = req[r].sent]
<1>1. req[r] \in Request /\ RequestOk(mode, req[r])
  BY DEF ReqInv
<1>2. q \in Request
  BY <1>1, IdleIsARequest DEF Request, Idle, Attempting
<1>3. RequestOk(mode, q)
  <2>1. q.pc = step /\ q.kind = req[r].kind /\ q.sent = req[r].sent
    BY DEF Idle
  <2> HIDE DEF q
  <2> QED BY <1>1, <2>1 DEF RequestOk, Request, Attempting
<1>4. req' = [req EXCEPT ![r] = q]
  BY DEF LetGo
<1> QED BY <1>2, <1>3, <1>4, OneRequest

\* Handing the request to a connection, from where it had not been sent.
LEMMA SentStep ==
  ASSUME ReqInv, NEW r \in Requests, NEW a \in Authorities \cup {None},
         mode' = mode, Sent(r, a), req[r].pc \in {"client", "dialing"}
  PROVE  ReqInv'
<1> DEFINE q == [req[r] EXCEPT !.pc = "sent", !.via = a, !.sent = req[r].sent + 1]
<1>1. req[r] \in Request /\ RequestOk(mode, req[r])
  BY DEF ReqInv
<1>2. q \in Request
  <2>1. req[r].sent + 1 \in Nat
    BY <1>1 DEF Request
  <2> QED BY <1>1, <2>1 DEF Request
<1>3. RequestOk(mode, q)
  <2>1. q.pc = "sent" /\ q.kind = req[r].kind /\ q.sent = req[r].sent + 1 /\ q.at = req[r].at
    BY <1>1 DEF Request
  <2> HIDE DEF q
  <2> QED BY <1>1, <2>1 DEF RequestOk, Attempting
<1>4. req' = [req EXCEPT ![r] = q]
  BY DEF Sent
<1> QED BY <1>2, <1>3, <1>4, OneRequest

-----------------------------------------------------------------------------
\* Every step of a request keeps the invariant of requests.
LEMMA StartStep ==
  ASSUME IInv, NEW r \in Requests, NEW kind \in Kinds, Start(r, kind)
  PROVE  ReqInv'
<1> DEFINE tries == mode \in {"only", "prior"} \/ Supports
           q == [Idle EXCEPT !.pc = Route(tries, kind), !.kind = kind]
<1>1. req' = [req EXCEPT ![r] = q] /\ mode' = mode
  BY DEF Start, world
<1>2. mode \in Modes /\ ReqInv
  BY DEF IInv, WorldInv
<1>3. q.kind = kind /\ q.sent = 0 /\ q.pc = Route(tries, kind)
  BY DEF Idle
<1>4. q \in Request
  BY IdleIsARequest DEF Request, Idle, Route, Attempting
<1>5. RequestOk(mode, q)
  <2> HIDE DEF q
  <2>1. kind = "once" /\ mode # "only" => q.pc \in {"direct", "fallback"}
    BY <1>3 DEF Route
  <2>2. q.pc \in {"h3", "direct", "fallback"}
    BY <1>3 DEF Route
  <2> QED BY <1>3, <2>1, <2>2 DEF RequestOk, Attempting
<1> QED BY <1>1, <1>2, <1>4, <1>5, OneRequest

LEMMA AcquireStep ==
  ASSUME IInv, NEW r \in Requests, Acquire(r)
  PROVE  ReqInv'
<1> DEFINE q == [req[r] EXCEPT !.pc = "client", !.at = h3']
<1>1. req[r] \in Request /\ RequestOk(mode, req[r]) /\ ReqInv /\ req[r].pc = "h3"
  BY DEF IInv, ReqInv, Acquire, At
<1>2. h3' \in 1 .. MaxTransports
  BY AltAssumption DEF Acquire, IInv, PoolInv
<1>3. h3' \in 0 .. MaxTransports /\ h3' # 0
  BY <1>2, AltAssumption
<1>4. q.pc = "client" /\ q.kind = req[r].kind /\ q.sent = req[r].sent /\ q.at = h3'
  BY <1>1 DEF Request
<1>5. q \in Request
  BY <1>1, <1>3 DEF Request, Attempting
<1>6. req' = [req EXCEPT ![r] = q] /\ mode' = mode
  BY DEF Acquire, world
<1>7. RequestOk(mode, q)
  <2> HIDE DEF q
  <2> QED BY <1>1, <1>3, <1>4 DEF RequestOk, Attempting
<1> QED BY <1>1, <1>5, <1>6, <1>7, OneRequest

LEMMA ClientStep ==
  ASSUME IInv, NEW r \in Requests, Client(r)
  PROVE  ReqInv'
<1> DEFINE i == req[r].at
<1>1. ReqInv /\ mode' = mode /\ req[r].pc = "client"
  BY DEF IInv, Client, world, At
<1>2. CASE LetGo(r, "failed", None)
  BY <1>1, <1>2, LetGoStep DEF Attempting
<1>3. CASE conn[i] # None /\ Sent(r, conn[i])
  <2>1. i \in Transports
    BY <1>1 DEF ReqInv, RequestOk, Request, Transports
  <2>2. conn[i] \in Authorities \cup {None}
    BY <2>1 DEF IInv, PoolInv
  <2> QED BY <1>1, <1>3, <2>2, SentStep
<1>4. CASE Goto(r, "dial")
  BY <1>1, <1>4, GotoStep DEF Attempting
<1> QED BY <1>2, <1>3, <1>4 DEF Client

LEMMA DialStep ==
  ASSUME IInv, NEW r \in Requests, Dial(r)
  PROVE  ReqInv'
<1> DEFINE q == [req[r] EXCEPT !.pc = "dialing", !.via = DialTarget]
<1>1. req[r] \in Request /\ RequestOk(mode, req[r]) /\ ReqInv /\ req[r].pc = "dial"
  BY DEF IInv, ReqInv, Dial, At
<1>2. DialTarget \in Authorities \cup {None}
  BY DEF DialTarget, IInv, CacheInv, Capability, Authorities
<1>3. q \in Request
  BY <1>1, <1>2 DEF Request, Attempting
<1>4. RequestOk(mode, q)
  BY <1>1 DEF RequestOk, Request, Attempting
<1>5. req' = [req EXCEPT ![r] = q] /\ mode' = mode
  BY DEF Dial, world
<1> QED BY <1>1, <1>3, <1>4, <1>5, OneRequest

LEMMA DialOkStep ==
  ASSUME IInv, NEW r \in Requests, DialOk(r)
  PROVE  ReqInv'
<1> DEFINE i == req[r].at
           a == IF conn[i] # None THEN conn[i] ELSE req[r].via
<1>1. ReqInv /\ mode' = mode /\ req[r].pc = "dialing" /\ req[r] \in Request
  BY DEF IInv, ReqInv, DialOk, world, At
<1>2. CASE LetGo(r, "failed", None)
  BY <1>1, <1>2, LetGoStep DEF Attempting
<1>3. CASE Sent(r, a)
  <2>1. i \in Transports
    BY <1>1 DEF ReqInv, RequestOk, Request, Transports
  <2>2. a \in Authorities \cup {None}
    BY <1>1, <2>1 DEF IInv, PoolInv, Request
  <2> QED BY <1>1, <1>3, <2>2, SentStep
<1> QED BY <1>2, <1>3 DEF DialOk, Dialed

LEMMA FailingStep ==
  ASSUME IInv, NEW r \in Requests, DialFails(r) \/ Answered(r) \/ Breaks(r) \/ GivesUp(r)
  PROVE  ReqInv'
<1>1. ReqInv /\ WorldInv /\ mode' = mode
  BY DEF IInv, DialFails, Answered, Breaks, GivesUp, world
<1>2. req[r].via \in Authorities \cup {None}
  BY <1>1 DEF ReqInv, Request
<1>3. CASE DialFails(r)
  BY <1>1, <1>2, <1>3, LetGoStep DEF DialFails, At, Attempting
<1>4. CASE Answered(r)
  BY <1>1, <1>4, LetGoStep DEF Answered, At
<1>5. CASE Breaks(r)
  BY <1>1, <1>2, <1>5, LetGoStep DEF Breaks, At
<1>6. CASE GivesUp(r)
  BY <1>1, <1>6, ReturnStep DEF GivesUp
<1> QED BY <1>3, <1>4, <1>5, <1>6

LEMMA FailureStep ==
  ASSUME IInv, NEW r \in Requests, Failure(r)
  PROVE  ReqInv'
<1> DEFINE q == [req[r] EXCEPT !.pc = "fallback"]
<1>1. req[r] \in Request /\ RequestOk(mode, req[r]) /\ req[r].pc = "failed"
  BY DEF IInv, ReqInv, Failure, At
<1>2. ReqInv /\ WorldInv /\ mode' = mode
  BY DEF IInv, Failure, world
<1>3. CASE Return(r)
  BY <1>2, <1>3, ReturnStep
<1>4. CASE mode # "only" /\ req[r].kind # "tunnel" /\ Goto(r, "fallback")
  <2>1. q \in Request
    BY <1>1 DEF Request, Attempting
  <2>2. req[r].kind \notin {"once", "tunnel"}
    BY <1>1, <1>4 DEF RequestOk
  <2>3. q.kind = req[r].kind /\ q.pc = "fallback"
    BY <1>1 DEF Request
  <2>4. RequestOk(mode, q)
    BY <2>2, <2>3 DEF RequestOk
  <2>5. req' = [req EXCEPT ![r] = q]
    BY <1>4 DEF Goto
  <2> QED BY <1>2, <2>1, <2>4, <2>5, OneRequest
<1> QED BY <1>3, <1>4 DEF Failure

LEMMA FallbackStep ==
  ASSUME IInv, NEW r \in Requests, NEW header \in Headers, Fallback(r, header)
  PROVE  ReqInv'
<1> DEFINE q == [req[r] EXCEPT !.pc = "observing", !.header = header, !.sent = req[r].sent + 1]
<1>1. req[r] \in Request /\ RequestOk(mode, req[r]) /\ ReqInv /\ req[r].pc = "fallback"
  BY DEF IInv, ReqInv, Fallback, At
<1>2. q \in Request
  <2>1. req[r].sent + 1 \in Nat
    BY <1>1 DEF Request
  <2> QED BY <1>1, <2>1 DEF Request
<1>3. RequestOk(mode, q)
  <2>1. q.pc = "observing" /\ q.kind = req[r].kind /\ q.sent = req[r].sent + 1
    BY <1>1 DEF Request
  <2> HIDE DEF q
  <2> QED BY <1>1, <2>1 DEF RequestOk, Attempting
<1>4. req' = [req EXCEPT ![r] = q] /\ mode' = mode
  BY DEF Fallback, world
<1> QED BY <1>1, <1>2, <1>3, <1>4, OneRequest

LEMMA EndingStep ==
  ASSUME IInv, NEW r \in Requests,
         Success(r) \/ ReplayFails(r) \/ FallbackFails(r) \/ Direct(r) \/ Observe(r)
  PROVE  ReqInv'
<1>1. Return(r) /\ mode' = mode
  BY DEF Success, ReplayFails, FallbackFails, Direct, Observe, world
<1> QED BY <1>1, ReturnStep DEF IInv

\* A connection that dies changes of its requests only that they are lost.
LEMMA GoneStep ==
  ASSUME IInv, NEW i \in Transports, Gone(i), mode' = mode
  PROVE  ReqInv'
<1>1. ASSUME NEW r \in Requests PROVE req'[r] \in Request /\ RequestOk(mode', req'[r])
  <2> DEFINE lost == req[r].lost \/ (req[r].pc = "sent" /\ req[r].at = i)
             q == [req[r] EXCEPT !.lost = lost]
  <2>1. req[r] \in Request /\ RequestOk(mode, req[r])
    BY DEF IInv, ReqInv
  <2>2. req'[r] = q
    BY DEF Gone
  <2>3. lost \in BOOLEAN
    BY <2>1 DEF Request
  <2> HIDE DEF lost
  <2>4. q \in Request /\ q.pc = req[r].pc /\ q.kind = req[r].kind /\ q.sent = req[r].sent /\ q.at = req[r].at
    BY <2>1, <2>3 DEF Request
  <2> HIDE DEF q
  <2>5. RequestOk(mode, q)
    BY <2>1, <2>4 DEF RequestOk
  <2> QED BY <2>2, <2>4, <2>5
<1>2. req' = [r \in Requests |-> req'[r]]
  BY DEF Gone
<1> QED BY <1>1, <1>2 DEF ReqInv

LEMMA StepReqInv ==
  ASSUME IInv, [Next]_vars
  PROVE  ReqInv'
<1>1. ASSUME NEW r \in Requests, NEW kind \in Kinds, Start(r, kind) PROVE ReqInv'
  BY <1>1, StartStep
<1>2. ASSUME NEW r \in Requests, Step(r) PROVE ReqInv'
  BY <1>2, AcquireStep, ClientStep, DialStep, DialOkStep, FailingStep, FailureStep, FallbackStep, EndingStep DEF Step
<1>3. ASSUME NEW i \in Transports, Close(i) \/ ConnectionDies(i) PROVE ReqInv'
  BY <1>3, GoneStep DEF Close, ConnectionDies, world
<1>4. CASE Detach
  BY <1>4 DEF Detach, IInv, ReqInv, world
<1>5. CASE CooldownEnds
  BY <1>5 DEF CooldownEnds, IInv, ReqInv, world
<1>6. CASE CapabilityExpires
  BY <1>6 DEF CapabilityExpires, IInv, ReqInv, world
<1>7. ASSUME NEW a \in Alternatives, Settle(a) PROVE ReqInv'
  BY <1>7 DEF Settle, IInv, ReqInv
<1>8. CASE UNCHANGED vars
  BY <1>8 DEF vars, IInv, ReqInv
<1> QED BY <1>1, <1>2, <1>3, <1>4, <1>5, <1>6, <1>7, <1>8 DEF Next

-----------------------------------------------------------------------------
\* What the cache holds, and that it never says two things of an origin.
LEMMA MarkBrokenStep ==
  ASSUME CacheInv, MarkBroken
  PROVE  CacheInv'
<1>1. capability' = Unknown /\ Unknown \in Capability
  BY DEF MarkBroken, Unknown, Capability
<1>2. broken' \in Authorities \cup {None}
  BY DEF MarkBroken, CacheInv, Capability, Authorities
<1> QED BY <1>1, <1>2 DEF CacheInv, KnownOrBroken

LEMMA LearnedStep ==
  ASSUME NEW a \in Authorities, capability' = Learned(a), broken' = None
  PROVE  CacheInv'
BY DEF CacheInv, KnownOrBroken, Learned, Capability

LEMMA ObserveStep ==
  ASSUME CacheInv, NEW header \in Headers, ObserveAltSvc(header)
  PROVE  CacheInv'
<1>1. CASE header \in {"nothing", broken}
  BY <1>1 DEF ObserveAltSvc, CacheInv, KnownOrBroken, cache
<1>2. CASE header \notin {"nothing", "clear", broken}
  <2>1. header \in Authorities /\ capability' = Learned(header) /\ broken' = None
    BY <1>2 DEF ObserveAltSvc, Headers
  <2> QED BY <2>1, LearnedStep
<1>3. CASE header = "clear" /\ header # broken /\ header # "nothing"
  <2>1. capability' = Unknown /\ broken' = None
    BY <1>3 DEF ObserveAltSvc
  <2> QED BY <2>1 DEF CacheInv, KnownOrBroken, Unknown, Capability
<1> QED BY <1>1, <1>2, <1>3

LEMMA StepCacheInv ==
  ASSUME IInv, [Next]_vars
  PROVE  CacheInv'
<1> USE DEF IInv
<1>1. ASSUME NEW r \in Requests, NEW kind \in Kinds, Start(r, kind) PROVE CacheInv'
  <2>1. capability' \in {capability, Unknown} /\ broken' = broken
    <3>1. capability' \in {capability, Pruned} /\ broken' = broken
      BY <1>1 DEF Start
    <3> QED BY <3>1 DEF Pruned
  <2>2. Unknown \in Capability
    BY DEF Unknown, Capability
  <2> QED BY <2>1, <2>2 DEF CacheInv, KnownOrBroken
<1>2. ASSUME NEW r \in Requests, Success(r) PROVE CacheInv'
  BY <1>2, LearnedStep DEF Success, MarkHTTP3, Authorities
<1>3. ASSUME NEW r \in Requests, Failure(r) \/ ReplayFails(r) PROVE CacheInv'
  <2>1. MarkBroken \/ UNCHANGED cache
    BY <1>3 DEF Failure, ReplayFails
  <2> QED BY <2>1, MarkBrokenStep DEF cache, CacheInv, KnownOrBroken
<1>4. ASSUME NEW r \in Requests, Observe(r) PROVE CacheInv'
  <2>1. req[r].header \in Headers
    BY DEF ReqInv, Request
  <2> QED BY <1>4, <2>1, ObserveStep DEF Observe
<1>5. CASE CooldownEnds
  BY <1>5 DEF CooldownEnds, CacheInv, KnownOrBroken
<1>6. CASE CapabilityExpires
  <2>1. capability # Unknown /\ broken' = broken
    BY <1>6 DEF CapabilityExpires, Unknown
  <2>2. capability' \in Capability
    BY <1>6 DEF CapabilityExpires, CacheInv, Capability
  <2> QED BY <2>1, <2>2 DEF CacheInv, KnownOrBroken
<1>7. CASE UNCHANGED cache
  BY <1>7 DEF CacheInv, KnownOrBroken, cache
<1>8. ASSUME NEW r \in Requests, Step(r) PROVE CacheInv'
  <2>1. \/ Success(r) \/ Failure(r) \/ ReplayFails(r) \/ Observe(r)
        \/ UNCHANGED cache
    BY <1>8 DEF Step, Acquire, Client, Dial, DialOk, DialFails, Answered, Breaks, GivesUp,
                Fallback, FallbackFails, Direct
  <2> QED BY <2>1, <1>2, <1>3, <1>4, <1>7
<1>9. CASE Detach \/ (\E i \in Transports : Close(i) \/ ConnectionDies(i))
           \/ (\E a \in Alternatives : Settle(a)) \/ UNCHANGED vars
  BY <1>7, <1>9 DEF Detach, Close, ConnectionDies, Settle, vars, cache
<1> QED BY <1>1, <1>5, <1>6, <1>8, <1>9 DEF Next

\* What the transports hold, and that a closed one holds nothing.
LEMMA StepPoolInv ==
  ASSUME IInv, [Next]_vars
  PROVE  PoolInv'
<1> USE DEF IInv
<1>1. ASSUME NEW r \in Requests, Acquire(r) PROVE PoolInv'
  <2>1. made' \in 0 .. MaxTransports /\ h3' \in 0 .. made'
    BY <1>1, AltAssumption DEF Acquire, PoolInv
  <2> QED BY <1>1, <2>1 DEF Acquire, PoolInv, ClosedLeavesNothing
<1>2. ASSUME NEW r \in Requests, DialOk(r) PROVE PoolInv'
  <2> DEFINE i == req[r].at
             a == IF conn[i] # None THEN conn[i] ELSE req[r].via
  <2>1. i \in Transports /\ req[r].via \in Authorities \cup {None}
    BY <1>2 DEF DialOk, At, ReqInv, RequestOk, Request, Transports
  <2>2. UNCHANGED <<h3, made, status>>
    BY <1>2 DEF DialOk
  <2>3. CASE UNCHANGED conn
    BY <2>2, <2>3 DEF PoolInv, ClosedLeavesNothing
  <2>4. CASE status[i] # "closed" /\ conn' = [conn EXCEPT ![i] = a]
    <3>1. a \in Authorities \cup {None}
      BY <2>1 DEF PoolInv
    <3> HIDE DEF a
    <3>2. conn' \in [Transports -> Authorities \cup {None}]
      BY <2>4, <3>1 DEF PoolInv
    <3>3. ASSUME NEW k \in Transports, status'[k] = "closed" PROVE conn'[k] = None
      BY <2>1, <2>2, <2>4, <3>3 DEF PoolInv, ClosedLeavesNothing
    <3> QED BY <2>2, <3>2, <3>3 DEF PoolInv, ClosedLeavesNothing
  <2> QED BY <1>2, <2>3, <2>4 DEF DialOk, Dialed
<1>3. CASE Detach
  <2>1. /\ made' \in 0 .. MaxTransports /\ h3' \in 0 .. made' /\ conn' = conn
        /\ status' = [status EXCEPT ![h3] = "detached"]
    BY <1>3, AltAssumption DEF Detach, PoolInv
  <2>2. status' \in [Transports -> {"open", "detached", "closed"}]
    BY <2>1 DEF PoolInv
  <2>3. ASSUME NEW k \in Transports, status'[k] = "closed" PROVE conn'[k] = None
    BY <2>1, <2>3 DEF PoolInv, ClosedLeavesNothing
  <2> QED BY <2>1, <2>2, <2>3 DEF PoolInv, ClosedLeavesNothing
<1>4. ASSUME NEW i \in Transports, Close(i) \/ ConnectionDies(i) PROVE PoolInv'
  <2>1. /\ UNCHANGED <<h3, made>>
        /\ conn' = [conn EXCEPT ![i] = None]
        /\ status' \in {status, [status EXCEPT ![i] = "closed"]}
    BY <1>4 DEF Close, ConnectionDies, Gone
  <2>2. /\ conn' \in [Transports -> Authorities \cup {None}]
        /\ status' \in [Transports -> {"open", "detached", "closed"}]
    BY <2>1 DEF PoolInv
  <2>3. ASSUME NEW k \in Transports, status'[k] = "closed" PROVE conn'[k] = None
    BY <2>1, <2>3 DEF PoolInv, ClosedLeavesNothing
  <2> QED BY <2>1, <2>2, <2>3 DEF PoolInv, ClosedLeavesNothing
<1>5. CASE UNCHANGED pool
  BY <1>5 DEF PoolInv, ClosedLeavesNothing, pool
<1>6. ASSUME NEW r \in Requests, Step(r) PROVE PoolInv'
  <2>1. Acquire(r) \/ DialOk(r) \/ UNCHANGED pool
    BY <1>6 DEF Step, Client, Dial, DialFails, Answered, Breaks, GivesUp, Success, Failure,
                ReplayFails, Fallback, FallbackFails, Direct, Observe
  <2> QED BY <2>1, <1>1, <1>2, <1>5
<1>7. CASE (\E r \in Requests, kind \in Kinds : Start(r, kind)) \/ CooldownEnds \/ CapabilityExpires
           \/ (\E a \in Alternatives : Settle(a)) \/ UNCHANGED vars
  BY <1>5, <1>7 DEF Start, CooldownEnds, CapabilityExpires, Settle, vars, pool
<1> QED BY <1>3, <1>4, <1>6, <1>7 DEF Next

LEMMA StepWorldInv ==
  ASSUME IInv, [Next]_vars
  PROVE  WorldInv'
<1>1. (\E a \in Alternatives : Settle(a)) \/ UNCHANGED world
  BY DEF Next, Start, Step, Acquire, Client, Dial, DialOk, DialFails, Answered, Breaks, GivesUp,
         Success, Failure, ReplayFails, Fallback, FallbackFails, Direct, Observe, Detach, Close,
         ConnectionDies, CooldownEnds, CapabilityExpires, vars, world
<1> QED BY <1>1 DEF IInv, WorldInv, Settle, world, Authorities

-----------------------------------------------------------------------------
LEMMA InitInv == Init => IInv
<1> SUFFICES ASSUME Init PROVE IInv
  OBVIOUS
<1>1. WorldInv
  BY DEF Init, WorldInv
<1>2. CacheInv
  BY DEF Init, CacheInv, KnownOrBroken, Unknown, Capability
<1>3. PoolInv
  BY AltAssumption DEF Init, PoolInv, ClosedLeavesNothing
<1>4. ReqInv
  BY <1>1, IdleIsARequest DEF Init, ReqInv, WorldInv
<1> QED BY <1>1, <1>2, <1>3, <1>4 DEF IInv

LEMMA StepInv ==
  ASSUME IInv, [Next]_vars
  PROVE  IInv'
<1>1. WorldInv' /\ CacheInv' /\ PoolInv' /\ ReqInv'
  BY StepWorldInv, StepCacheInv, StepPoolInv, StepReqInv
<1> QED BY <1>1 DEF IInv

LEMMA Invariance == Spec => []IInv
<1>1. IInv /\ [Next]_vars => IInv'
  BY StepInv
<1> QED BY <1>1, InitInv, PTL DEF Spec

\* Type correctness.
THEOREM TypeCorrect == Spec => []TypeOK
<1>1. IInv => TypeOK
  BY DEF IInv, TypeOK, WorldInv, CacheInv, PoolInv, ReqInv
<1> QED BY <1>1, Invariance, PTL

\* RoundTrip never hands a body that cannot be had again, or a tunnel, to a second
\* transport: for any number of concurrent callers, whatever HTTP/3 does.
THEOREM NeverSentTwice == Spec => []SentOnce
<1>1. IInv => SentOnce
  BY DEF IInv, ReqInv, RequestOk, SentOnce
<1> QED BY <1>1, Invariance, PTL

\* MarkHTTP3, markHTTP3Broken, markHTTP3Alternative and ForgetHTTP3 keep the two
\* maps apart, in whatever order concurrent requests call them.
THEOREM NeverBoth == Spec => []KnownOrBroken
<1>1. IInv => KnownOrBroken
  BY DEF IInv, CacheInv
<1> QED BY <1>1, Invariance, PTL

\* The second look at `closed` after a dial is what keeps a closed transport from
\* being left with a connection nobody closes.
THEOREM NothingLeftOpen == Spec => []ClosedLeavesNothing
<1>1. IInv => ClosedLeavesNothing
  BY DEF IInv, PoolInv
<1> QED BY <1>1, Invariance, PTL
====
