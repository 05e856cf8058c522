----------------------------- MODULE AltTransport -----------------------------
(***************************************************************************)
(* std/http's Transport: which of HTTP/3 and its fallback a request takes, *)
(* what the Alt-Svc cache learns from the outcome, and the HTTP/3          *)
(* transport it makes for itself, which keeps one connection.              *)
(*                                                                         *)
(* RoundTrip runs in the goroutines of its callers. Each section under     *)
(* Transport.mu or http3.Transport.mu is a step, and so is each wait for   *)
(* the network: between any two of them other requests, CloseIdle and the  *)
(* peer may act. The cache and the pool are keyed by origin and one origin *)
(* is modelled. Requests for plain http and the mode HTTP2Or1Only go       *)
(* straight to the fallback and are left out.                              *)
(*                                                                         *)
(* http3.Transport.client keeps dead connections in its pool and skips     *)
(* them; with one connection per origin they change nothing, and `conn` is *)
(* the live one. Its `fast` pointer only finds that one sooner.            *)
(***************************************************************************)
EXTENDS Naturals

CONSTANTS Requests,       \* the goroutines that call RoundTrip, one request after the other
          Own,            \* the authority of the origin itself
          Alternatives,   \* the other authorities it may advertise
          None,           \* no authority
          MaxTransports   \* bound: how often t.h3 is made

ASSUME AltAssumption ==
  /\ Own \notin Alternatives
  /\ None \notin Alternatives \cup {Own}
  /\ MaxTransports \in Nat \ {0}

Authorities == Alternatives \cup {Own}
Transports == 1 .. MaxTransports
Modes == {"auto", "prior", "only"}   \* Auto, Auto with PriorKnowledge, HTTP3Only

\* "plain" has no body or one that GetBody reproduces, "once" has one that cannot
\* be had again, "tunnel" is an extended CONNECT.
Kinds == {"plain", "once", "tunnel"}

\* What an Alt-Svc header may say: nothing of h3, clear (or ma=0), an authority.
Headers == {"nothing", "clear"} \cup Authorities

VARIABLES
  mode,
  capability,   \* t.capabilities of the origin
  broken,       \* t.broken of the origin: the authority, while the cooldown runs
  h3, made,     \* the transport t.h3 points to (0: nil), and how many were made
  status, conn, \* of each http3.Transport, and its live connection
  req,          \* the request each goroutine is at
  settled       \* None, or the authority at which the server stays from now on

vars == <<mode, capability, broken, h3, made, status, conn, req, settled>>
cache == <<capability, broken>>
pool == <<h3, made, status, conn>>
world == <<mode, settled>>

\* An entry that is past its time stays in the map until SupportsHTTP3 finds it.
Capability == [authority : Authorities \cup {None}, fresh : BOOLEAN]
Unknown == [authority |-> None, fresh |-> FALSE]
Learned(a) == [authority |-> a, fresh |-> TRUE]

\* `at` is the transport a request has got hold of, `via` the authority it dials or
\* is connected to, `lost` that this connection has died, `header` the answer's
\* Alt-Svc, `sent` to how many transports the request was handed.
Idle == [pc |-> "idle", kind |-> "plain", at |-> 0, via |-> None, lost |-> FALSE,
         header |-> "nothing", sent |-> 0]

Attempting == {"h3", "client", "dial", "dialing"}
Request == [pc : Attempting \cup {"idle", "sent", "succeeded", "failed", "fallback", "direct", "observing"},
            kind : Kinds, at : 0 .. MaxTransports, via : Authorities \cup {None},
            lost : BOOLEAN, header : Headers, sent : Nat]

At(r, step) == req[r].pc = step
Return(r) == req' = [req EXCEPT ![r] = Idle]
Goto(r, step) == req' = [req EXCEPT ![r].pc = step]

\* The request goes on to `step` without its transport; `a` is where it had failed.
LetGo(r, step, a) ==
  req' = [req EXCEPT ![r] = [Idle EXCEPT !.pc = step, !.via = a,
                                         !.kind = req[r].kind, !.sent = req[r].sent]]

Init ==
  /\ mode \in Modes
  /\ capability = Unknown
  /\ broken = None
  /\ h3 = 0 /\ made = 0
  /\ status = [i \in Transports |-> "open"]
  /\ conn = [i \in Transports |-> None]
  /\ req = [r \in Requests |-> Idle]
  /\ settled = None

-----------------------------------------------------------------------------
(* RoundTrip, up to the transport it chooses.                              *)

\* SupportsHTTP3, which also drops an entry that is past its time.
Supports == broken = None /\ capability.fresh
Pruned == IF broken = None /\ ~capability.fresh THEN Unknown ELSE capability

\* A defect: a body that cannot be had again is tried over HTTP/3 all the same.
RouteSpeculative(tries, kind) == IF tries THEN "h3" ELSE "fallback"

Route(tries, kind) ==
  IF ~tries THEN "fallback"
  ELSE IF mode # "only" /\ kind = "once" THEN "direct" ELSE "h3"

Start(r, kind) ==
  /\ At(r, "idle")
  /\ settled = None \/ kind = "plain"
  /\ LET tries == mode \in {"only", "prior"} \/ Supports
     IN req' = [req EXCEPT ![r] = [Idle EXCEPT !.pc = Route(tries, kind), !.kind = kind]]
  /\ capability' = IF mode = "auto" THEN Pruned ELSE capability
  /\ UNCHANGED <<broken, pool, world>>

\* roundTripHTTP3 takes t.h3, or makes it.
Acquire(r) ==
  /\ At(r, "h3")
  /\ IF h3 = 0
     THEN /\ made < MaxTransports
          /\ made' = made + 1 /\ h3' = made + 1
     ELSE UNCHANGED <<h3, made>>
  /\ req' = [req EXCEPT ![r].pc = "client", ![r].at = h3']
  /\ UNCHANGED <<cache, status, conn, world>>

-----------------------------------------------------------------------------
(* http3.Transport.client and the round trip over its connection.          *)

\* The request goes out over the live connection of its transport.
Sent(r, a) == req' = [req EXCEPT ![r].pc = "sent", ![r].via = a, ![r].sent = @ + 1]

Client(r) ==
  /\ At(r, "client")
  /\ LET i == req[r].at
     IN \/ status[i] = "closed" /\ LetGo(r, "failed", None)
        \/ status[i] # "closed" /\ conn[i] # None /\ Sent(r, conn[i])
        \/ status[i] # "closed" /\ conn[i] = None /\ Goto(r, "dial")
  /\ UNCHANGED <<cache, pool, world>>

\* altAuthority, called from the Dial that http.Transport gives its HTTP/3 transport.
DialTarget == IF capability.fresh THEN capability.authority ELSE Own

Dial(r) ==
  /\ At(r, "dial")
  /\ req' = [req EXCEPT ![r].pc = "dialing", ![r].via = DialTarget]
  /\ UNCHANGED <<cache, pool, world>>

\* A defect: only whether another caller was faster is looked at after the dial.
DialedUnchecked(r) ==
  LET i == req[r].at
      a == IF conn[i] # None THEN conn[i] ELSE req[r].via
  IN conn' = [conn EXCEPT ![i] = a] /\ Sent(r, a)

\* The second section of client: the transport may have been closed meanwhile, or
\* another caller's connection be there. Either way the new one is closed again.
Dialed(r) ==
  LET i == req[r].at
      a == IF conn[i] # None THEN conn[i] ELSE req[r].via
  IN IF status[i] = "closed"
     THEN LetGo(r, "failed", None) /\ UNCHANGED conn
     ELSE conn' = [conn EXCEPT ![i] = a] /\ Sent(r, a)

DialOk(r) ==
  /\ At(r, "dialing")
  /\ settled \in {None, req[r].via}
  /\ Dialed(r)
  /\ UNCHANGED <<cache, h3, made, status, world>>

DialFails(r) ==
  /\ At(r, "dialing")
  /\ settled # req[r].via
  /\ LetGo(r, "failed", req[r].via)
  /\ UNCHANGED <<cache, pool, world>>

Answered(r) ==
  /\ At(r, "sent")
  /\ ~req[r].lost
  /\ LetGo(r, "succeeded", None)
  /\ UNCHANGED <<cache, pool, world>>

\* The stream or the connection fails.
Breaks(r) ==
  /\ At(r, "sent")
  /\ settled = None \/ req[r].lost
  /\ LetGo(r, "failed", req[r].via)
  /\ UNCHANGED <<cache, pool, world>>

\* An error that is not fallbackEligible, or a context that has ended: RoundTrip
\* returns the error and marks nothing.
GivesUp(r) ==
  /\ settled = None
  /\ req[r].pc \in {"dialing", "sent", "failed"}
  /\ Return(r)
  /\ UNCHANGED <<cache, pool, world>>

-----------------------------------------------------------------------------
(* What RoundTrip makes of it.                                             *)

\* A defect: the mark of the failure before stays.
MarkHTTP3Only == capability' = Learned(Own) /\ UNCHANGED broken

\* MarkHTTP3: the entry names the origin itself, whatever was dialled.
MarkHTTP3 == capability' = Learned(Own) /\ broken' = None

Success(r) ==
  /\ At(r, "succeeded")
  /\ MarkHTTP3
  /\ Return(r)
  /\ UNCHANGED <<pool, world>>

\* markHTTP3Broken: the authority is what the cache holds now, an entry past its
\* time included, and the origin itself if it holds none.
MarkBroken ==
  /\ broken' = IF capability = Unknown THEN Own ELSE capability.authority
  /\ capability' = Unknown

\* The attempt failed: mark it and take the fallback, unless the mode forbids it or
\* the request cannot be sent again.
Failure(r) ==
  /\ At(r, "failed")
  /\ IF mode = "only"
     THEN Return(r) /\ UNCHANGED cache
     ELSE /\ MarkBroken
          /\ \/ req[r].kind = "tunnel" /\ Return(r)
             \/ req[r].kind # "tunnel" /\ Goto(r, "fallback")
  /\ UNCHANGED <<pool, world>>

\* GetBody fails: RoundTrip returns the error of HTTP/3.
ReplayFails(r) ==
  /\ At(r, "failed")
  /\ mode # "only" /\ req[r].kind = "plain" /\ settled = None
  /\ MarkBroken
  /\ Return(r)
  /\ UNCHANGED <<pool, world>>

\* The fallback answers; what a settled server advertises is where it is.
Fallback(r, header) ==
  /\ At(r, "fallback")
  /\ settled \in {None, header}
  /\ req' = [req EXCEPT ![r].pc = "observing", ![r].header = header, ![r].sent = @ + 1]
  /\ UNCHANGED <<cache, pool, world>>

FallbackFails(r) ==
  /\ At(r, "fallback")
  /\ settled = None
  /\ Return(r)
  /\ UNCHANGED <<cache, pool, world>>

\* The fallback of a request that was kept from HTTP/3 for its body: its answer's
\* Alt-Svc is not looked at.
Direct(r) ==
  /\ At(r, "direct")
  /\ Return(r)
  /\ UNCHANGED <<cache, pool, world>>

\* ObserveAltSvc, with ForgetHTTP3 and markHTTP3Alternative.
ObserveAltSvc(header) ==
  IF header = "nothing" \/ header = broken THEN UNCHANGED cache
  ELSE IF header = "clear" THEN capability' = Unknown /\ broken' = None
  ELSE capability' = Learned(header) /\ broken' = None

Observe(r) ==
  /\ At(r, "observing")
  /\ ObserveAltSvc(req[r].header)
  /\ Return(r)
  /\ UNCHANGED <<pool, world>>

-----------------------------------------------------------------------------
(* CloseIdleConnections, time and the peer.                                *)

\* A defect: t.h3 still points to the transport that is about to be closed.
DetachKept ==
  /\ h3 # 0 /\ made < MaxTransports /\ settled = None
  /\ status' = [status EXCEPT ![h3] = "detached"]
  /\ UNCHANGED <<cache, h3, made, conn, req, world>>

\* CloseIdleConnections takes t.h3 away ...
Detach ==
  /\ h3 # 0 /\ made < MaxTransports /\ settled = None
  /\ status' = [status EXCEPT ![h3] = "detached"]
  /\ h3' = 0
  /\ UNCHANGED <<cache, made, conn, req, world>>

\* The connection of transport i is gone for the requests that are on it.
Gone(i) ==
  /\ conn' = [conn EXCEPT ![i] = None]
  /\ req' = [r \in Requests |->
       [req[r] EXCEPT !.lost = @ \/ (req[r].pc = "sent" /\ req[r].at = i)]]

\* ... and then closes it, with the connection, idle or not.
Close(i) ==
  /\ status[i] = "detached"
  /\ status' = [status EXCEPT ![i] = "closed"]
  /\ Gone(i)
  /\ UNCHANGED <<cache, h3, made, world>>

ConnectionDies(i) ==
  /\ settled = None
  /\ conn[i] # None
  /\ Gone(i)
  /\ UNCHANGED <<cache, h3, made, status, world>>

\* Five minutes have passed since the last failure that was marked. No dial takes as
\* long as that once the server has settled.
CooldownEnds ==
  /\ broken # None
  /\ settled # None => \A r \in Requests : req[r].pc \notin Attempting \cup {"failed"}
  /\ broken' = None
  /\ UNCHANGED <<capability, pool, req, world>>

\* What was advertised is past its ma, or a success 24 hours old.
CapabilityExpires ==
  /\ settled = None
  /\ capability.fresh
  /\ capability' = [capability EXCEPT !.fresh = FALSE]
  /\ UNCHANGED <<broken, pool, req, world>>

\* From now on the server serves and advertises h3 at the alternative `a`, connections hold,
\* no request is given up, no entry expires and callers make ordinary requests. In
\* the other modes nothing is claimed of such a server.
Settle(a) ==
  /\ mode = "auto" /\ settled = None
  /\ settled' = a
  /\ UNCHANGED <<mode, cache, pool, req>>

Step(r) ==
  \/ Acquire(r) \/ Client(r) \/ Dial(r)
  \/ DialOk(r) \/ DialFails(r) \/ Answered(r) \/ Breaks(r) \/ GivesUp(r)
  \/ Success(r) \/ Failure(r) \/ ReplayFails(r)
  \/ \E header \in Headers : Fallback(r, header)
  \/ FallbackFails(r) \/ Direct(r) \/ Observe(r)

Next ==
  \/ \E r \in Requests :
       \/ \E kind \in Kinds : Start(r, kind)
       \/ Step(r)
  \/ Detach
  \/ \E i \in Transports : Close(i) \/ ConnectionDies(i)
  \/ CooldownEnds
  \/ CapabilityExpires
  \/ \E a \in Alternatives : Settle(a)

Spec == Init /\ [][Next]_vars

\* The runtime runs every goroutine, dials and round trips end, the cooldown
\* passes, and callers do not stop making ordinary requests.
Fairness ==
  /\ \A r \in Requests : WF_vars(Step(r))
  /\ WF_vars(\E r \in Requests : Start(r, "plain"))
  /\ WF_vars(\E i \in Transports : Close(i))
  /\ WF_vars(CooldownEnds)

FairSpec == Spec /\ Fairness

-----------------------------------------------------------------------------
(* Properties.                                                              *)

TypeOK ==
  /\ mode \in Modes
  /\ capability \in Capability
  /\ broken \in Authorities \cup {None}
  /\ h3 \in 0 .. made /\ made \in 0 .. MaxTransports
  /\ status \in [Transports -> {"open", "detached", "closed"}]
  /\ conn \in [Transports -> Authorities \cup {None}]
  /\ req \in [Requests -> Request]
  /\ settled \in Authorities \cup {None}

\* "Unreplayable request bodies are never consumed by a speculative attempt": a
\* request that cannot be sent again is handed to one transport at most, whatever
\* HTTP/3 does to it.
SentOnce == \A r \in Requests : req[r].kind \in {"once", "tunnel"} => req[r].sent <= 1

\* The two maps agree: an origin is not known to speak HTTP/3 and suppressed at
\* once, in whatever order outcomes of concurrent requests come in.
KnownOrBroken == capability = Unknown \/ broken = None

\* Once an HTTP/3 transport is closed it holds no connection, not even one whose
\* dial was under way when it was closed.
ClosedLeavesNothing == \A i \in Transports : status[i] = "closed" => conn[i] = None

\* A server that stays at one authority is found again: after any history of
\* failures, cooldowns and closed transports, a transport in Auto mode learns
\* where it is and keeps a connection to it.
BackToHTTP3 ==
  settled # None ~> h3 # 0 /\ conn[h3] # None /\ capability.fresh

\* README.md of the package: "A failed H3 alternative is suppressed for five
\* minutes, preventing an unchanged fallback Alt-Svc response from causing another
\* failed UDP probe on every request". It does not hold: markHTTP3Broken is not told
\* which authority failed and suppresses the one the cache holds by then, so the
\* answer to the very request that failed may bring the same alternative back while
\* the cooldown runs.
FailedIsSuppressed ==
  [][\A r \in Requests :
       Observe(r) /\ broken # None /\ req[r].via \in Alternatives /\ req[r].header = req[r].via
       => broken' # None]_vars
====
