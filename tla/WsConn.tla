------------------------------- MODULE WsConn -------------------------------
(***************************************************************************)
(* std/websocket: two connections joined by a transport, each with writer  *)
(* goroutines and the one goroutine that reads.                            *)
(*                                                                         *)
(* A frame goes out in two writes, its header and its body, under writeMu; *)
(* what an end has written is kept whole as `wire`, and the other end's    *)
(* reader is at some point of it.  The transport holds at most Capacity    *)
(* unread pieces, so a write may wait for the peer to read.                *)
(***************************************************************************)
EXTENDS Integers, Sequences

CONSTANTS
  Writers,     \* the goroutines of each end that call the write methods
  Reader,      \* the goroutine that calls ReadMessage, again and again
  Manual,      \* the ends with ManualControl, whose Pings go to the application
  Aborting,    \* the ends whose application may close the transport in the middle
  Capacity,    \* pieces the transport takes before a write waits
  MaxCalls     \* bound: calls of write methods per end

Ends == {"client", "server"}
Peer(e) == IF e = "client" THEN "server" ELSE "client"
Threads == Writers \cup {Reader}
Free == "free"

ASSUME WsAssumption ==
  /\ Reader \notin Writers
  /\ Free \notin Threads
  /\ Manual \subseteq Ends
  /\ Aborting \subseteq Ends
  /\ Capacity \in Nat \ {0}
  /\ MaxCalls \in Nat

Kinds  == {"data", "ping", "pong", "close"}    \* of frames; fragments are never sent
Pieces == [kind : Kinds, part : {"header", "body"}]

VARIABLES
  wire,       \* per end: every piece it has written, oldest first
  got,        \* per end: how many of its peer's pieces it has read
  closed,     \* per end: has it closed the transport?
  aborted,    \* history: has an end closed it in the middle?
  closeSent,  \* Conn.closeSent
  writeMu,    \* Conn.writeMu: the goroutine that holds it
  pc,         \* where each goroutine stands
  op,         \* the frame it is to write, or "none"
  calls       \* write calls begun by the application

transport == <<wire, got, closed, aborted>>
vars == <<transport, closeSent, writeMu, pc, op, calls>>

Go(e, t, l) == pc' = [pc EXCEPT ![e][t] = l]

\* Where a goroutine stands when its write returns: the reader is still in
\* ReadMessage's loop, or, its Close answered, done with the connection.  An
\* application that ReadMessage gave an error for a Ping reads on.
AfterWrite(e, t) ==
  IF t \in Writers THEN "idle" ELSE IF op[e][t] = "close" THEN "ended" ELSE "read"

Return(e, t) == Go(e, t, AfterWrite(e, t)) /\ op' = [op EXCEPT ![e][t] = "none"]

-----------------------------------------------------------------------------
(* Defects of the code, for the mutation runs.                              *)

\* closeSent is looked at before writeMu is locked, and not again.
LockUnchecked(e, t) ==
  /\ pc[e][t] = "lock"
  /\ writeMu[e] = Free
  /\ writeMu' = [writeMu EXCEPT ![e] = t]
  /\ Go(e, t, "header")
  /\ UNCHANGED <<transport, closeSent, op, calls>>

\* No writeMu: every write goes ahead at once.
LockNotTaken(e, t) ==
  /\ pc[e][t] = "lock"
  /\ IF op[e][t] # "close" /\ closeSent[e]
     THEN Return(e, t)
     ELSE Go(e, t, "header") /\ UNCHANGED op
  /\ UNCHANGED <<transport, closeSent, writeMu, calls>>

\* The Close of the peer is returned to the application and not answered.
ReceiveUnanswered(e, kind) ==
  IF kind = "close"
  THEN Go(e, Reader, "ended") /\ UNCHANGED op
  ELSE Go(e, Reader, "read") /\ UNCHANGED op

\* A write returns with writeMu locked.
UnlockNot(e, t) == Return(e, t) /\ UNCHANGED writeMu

-----------------------------------------------------------------------------
Init ==
  /\ wire = [e \in Ends |-> <<>>]
  /\ got = [e \in Ends |-> 0]
  /\ closed = [e \in Ends |-> FALSE]
  /\ aborted = FALSE
  /\ closeSent = [e \in Ends |-> FALSE]
  /\ writeMu = [e \in Ends |-> Free]
  /\ pc = [e \in Ends |-> [t \in Threads |-> IF t = Reader THEN "read" ELSE "idle"]]
  /\ op = [e \in Ends |-> [t \in Threads |-> "none"]]
  /\ calls = [e \in Ends |-> 0]

\* Begin(e, t, kind): goroutine t starts on a frame; a Close must claim
\* closeSent first.
Begin(e, t, kind) ==
  /\ op' = [op EXCEPT ![e][t] = kind]
  /\ Go(e, t, IF kind = "close" THEN "claim" ELSE "lock")

\* WriteMessage, WritePing, WriteClose and their like.
Call(e, w, kind) ==
  /\ pc[e][w] = "idle"
  /\ ~closed[e]
  /\ calls[e] < MaxCalls
  /\ calls' = [calls EXCEPT ![e] = @ + 1]
  /\ Begin(e, w, kind)
  /\ UNCHANGED <<transport, closeSent, writeMu>>

\* writeClose: the CompareAndSwap, which fails with net.ErrClosed.
Claim(e, t) ==
  /\ pc[e][t] = "claim"
  /\ closeSent' = [closeSent EXCEPT ![e] = TRUE]
  /\ IF closeSent[e] THEN Return(e, t) ELSE Go(e, t, "lock") /\ UNCHANGED op
  /\ UNCHANGED <<transport, writeMu, calls>>

\* writeFrameRSV1 locks, and refuses all but the Close once closeSent is set.
Refused(e, t) == op[e][t] # "close" /\ closeSent[e]

Lock(e, t) ==
  /\ pc[e][t] = "lock"
  /\ writeMu[e] = Free
  /\ IF Refused(e, t)
     THEN Return(e, t) /\ UNCHANGED writeMu
     ELSE Go(e, t, "header") /\ UNCHANGED op /\ writeMu' = [writeMu EXCEPT ![e] = t]
  /\ UNCHANGED <<transport, closeSent, calls>>

\* The transport takes one more piece of e's.
Room(e) == Len(wire[e]) - got[Peer(e)] < Capacity
Open(e) == ~closed[e] /\ ~closed[Peer(e)]

Put(e, t, part) ==
  /\ Open(e)
  /\ Room(e)
  /\ wire' = [wire EXCEPT ![e] = Append(@, [kind |-> op[e][t], part |-> part])]
  /\ UNCHANGED <<got, closed, aborted, closeSent, calls>>

WriteHeader(e, t) ==
  /\ pc[e][t] = "header"
  /\ Put(e, t, "header")
  /\ Go(e, t, "body")
  /\ UNCHANGED <<writeMu, op>>

Unlock(e, t) ==
  /\ writeMu' = [writeMu EXCEPT ![e] = Free]
  /\ Return(e, t)

WriteBody(e, t) ==
  /\ pc[e][t] = "body"
  /\ Put(e, t, "body")
  /\ Unlock(e, t)

\* A write to a transport that one of the ends has closed.
WriteFails(e, t) ==
  /\ pc[e][t] \in {"header", "body"}
  /\ ~Open(e)
  /\ Unlock(e, t)
  /\ UNCHANGED <<transport, closeSent, calls>>

\* readFrame: the header, then the payload.
Unread(e) == got[e] < Len(wire[Peer(e)])
NextPiece(e) == wire[Peer(e)][got[e] + 1]

ReadHeader(e) ==
  /\ pc[e][Reader] = "read"
  /\ Unread(e) /\ ~closed[e]
  /\ got' = [got EXCEPT ![e] = @ + 1]
  /\ Go(e, Reader, "payload")
  /\ UNCHANGED <<wire, closed, aborted, closeSent, writeMu, op, calls>>

\* The frame ReadMessage writes for one it has read: a Pong for a Ping, a
\* Close for a Close.
Answer(kind) == IF kind = "ping" THEN "pong" ELSE "close"

\* ReadMessage: what it does with a frame it has read.
Receive(e, kind) ==
  IF kind = "close" \/ (kind = "ping" /\ e \notin Manual)
  THEN Begin(e, Reader, Answer(kind))
  ELSE Go(e, Reader, "read") /\ UNCHANGED op

ReadPayload(e) ==
  /\ pc[e][Reader] = "payload"
  /\ Unread(e) /\ ~closed[e]
  /\ got' = [got EXCEPT ![e] = @ + 1]
  /\ Receive(e, NextPiece(e).kind)
  /\ UNCHANGED <<wire, closed, aborted, closeSent, writeMu, calls>>

\* The end itself has closed the transport, or the peer has and all is read:
\* an error that failProtocol lets pass.
ReadFails(e) ==
  /\ pc[e][Reader] \in {"read", "payload"}
  /\ closed[e] \/ (~Unread(e) /\ closed[Peer(e)])
  /\ Go(e, Reader, "failed")
  /\ UNCHANGED <<transport, closeSent, writeMu, op, calls>>

\* Conn.Close.
CloseTransport(e) ==
  /\ ~closed[e]
  /\ closed' = [closed EXCEPT ![e] = TRUE]
  /\ UNCHANGED <<wire, got, closeSent, writeMu, pc, op, calls>>

\* An application whose reader and writers have all returned, and one that
\* has had enough.
Leave(e) ==
  /\ pc[e][Reader] \in {"ended", "failed"}
  /\ \A w \in Writers : pc[e][w] = "idle"
  /\ CloseTransport(e)
  /\ UNCHANGED aborted

Abort(e) ==
  /\ e \in Aborting
  /\ CloseTransport(e)
  /\ aborted' = TRUE

Write(e, t) ==
  Claim(e, t) \/ Lock(e, t) \/ WriteHeader(e, t) \/ WriteBody(e, t) \/ WriteFails(e, t)
Read(e) == ReadHeader(e) \/ ReadPayload(e) \/ ReadFails(e)

Next ==
  \E e \in Ends :
    \/ \E w \in Writers, kind \in {"data", "ping", "close"} : Call(e, w, kind)
    \/ \E t \in Threads : Write(e, t)
    \/ Read(e)
    \/ Leave(e) \/ Abort(e)

Spec == Init /\ [][Next]_vars

\* Goroutines that are in a call get on with it; whether the application
\* calls a write method, and when it closes the transport, is its own affair.
Fairness ==
  \A e \in Ends :
    /\ \A t \in Threads : WF_vars(Write(e, t))
    /\ WF_vars(Read(e))

FairSpec == Spec /\ Fairness

-----------------------------------------------------------------------------
Places == {"idle", "claim", "lock", "header", "body", "read", "payload", "ended", "failed"}

\* The state of both ends has its type, and no reader is past what was written.
TypeOK ==
  /\ wire \in [Ends -> Seq(Pieces)]
  /\ got \in [Ends -> Nat]
  /\ closed \in [Ends -> BOOLEAN] /\ aborted \in BOOLEAN
  /\ closeSent \in [Ends -> BOOLEAN]
  /\ writeMu \in [Ends -> Threads \cup {Free}]
  /\ pc \in [Ends -> [Threads -> Places]]
  /\ op \in [Ends -> [Threads -> Kinds \cup {"none"}]]
  /\ calls \in [Ends -> 0 .. MaxCalls]
  /\ \A e \in Ends : got[e] <= Len(wire[Peer(e)])

\* "writes are serialized so frames never interleave" (conn.go): every piece
\* on the wire is a header followed by its own body.
FramesWhole ==
  \A e \in Ends : \A i \in 1 .. Len(wire[e]) :
    IF i % 2 = 1
    THEN wire[e][i].part = "header"
    ELSE wire[e][i] = [kind |-> wire[e][i - 1].kind, part |-> "body"]

\* Nothing follows a Close frame, and there is only one: whoever got past
\* closeSent before the Close was claimed is on the wire before it.
NothingAfterClose ==
  \A e \in Ends : \A i \in 1 .. Len(wire[e]) :
    wire[e][i] = [kind |-> "close", part |-> "header"] => Len(wire[e]) <= i + 1

\* As long as applications read on, and close the transport only when their
\* own calls have returned, no ReadMessage ends otherwise than with the peer's
\* Close: no connection ends unclean.
EndsClean == ~aborted => \A e \in Ends : pc[e][Reader] # "failed"

\* Both readers are waiting to write into a transport nobody reads: each
\* answers a Ping, or waits for the writeMu of a writer that is stuck as well.
Stuck(e) ==
  /\ ~Room(e)
  /\ \/ pc[e][Reader] \in {"header", "body"}
     \/ pc[e][Reader] = "lock" /\ writeMu[e] # Free
Jammed == \A e \in Ends : Stuck(e)

\* A closing handshake that was begun ends at both ends, with the peer's Close
\* or the end of the transport, unless the two ends block each other for good,
\* each with a full transport before it.
HandshakeEnds ==
  \A e \in Ends :
    closeSent[e] ~> (Jammed \/ \A d \in Ends : pc[d][Reader] \in {"ended", "failed"})

\* "Close handshake responses remain automatic" (conn.go): a ReadMessage that
\* has returned the peer's Close has had its own Close written.
CloseAnswered ==
  \A e \in Ends :
    pc[e][Reader] = "ended" /\ Open(e) =>
      \E i \in 1 .. Len(wire[e]) : wire[e][i] = [kind |-> "close", part |-> "body"]
=============================================================================
