---------------------------- MODULE WsConnProofs ----------------------------
(***************************************************************************)
(* For any number of writer goroutines, any capacity of the transport and  *)
(* any number of calls: frames are whole on the wire and nothing follows a *)
(* Close, however writes, answers, aborts and closes interleave; and until *)
(* somebody aborts, no read and no write fails.                            *)
(*                                                                         *)
(* What an end has on its wire depends on that end alone, but for the      *)
(* transport being open; the invariant is therefore stated per end.        *)
(***************************************************************************)
EXTENDS WsConn, TLAPS

CloseHeader == [kind |-> "close", part |-> "header"]
NoClose(e) == \A i \in 1 .. Len(wire[e]) : wire[e][i] # CloseHeader

\* writeMu is held by whoever is between a header and the end of its body.
Mutex(e) == \A t \in Threads : pc[e][t] \in {"header", "body"} <=> writeMu[e] = t

\* The opcode a goroutine holds, and where it may stand with it.
Ops(e) ==
  \A t \in Threads :
    /\ pc[e][t] \in {"lock", "header", "body"} => op[e][t] \in Kinds
    /\ pc[e][t] = "claim" => op[e][t] = "close"
    /\ pc[e][t] \in {"idle", "read", "payload", "ended", "failed"} => op[e][t] = "none"

\* The wire is torn only while a body is being written, and for good once the
\* transport is closed.
Whole(e) ==
  /\ \A i \in 1 .. Len(wire[e]) :
       IF i % 2 = 1
       THEN wire[e][i].part = "header"
       ELSE wire[e][i] = [kind |-> wire[e][i - 1].kind, part |-> "body"]
  /\ \A t \in Threads : pc[e][t] = "body" =>
       Len(wire[e]) % 2 = 1 /\ wire[e][Len(wire[e])].kind = op[e][t]
  /\ Open(e) /\ (\A t \in Threads : pc[e][t] # "body") => Len(wire[e]) % 2 = 0

\* The goroutine that won closeSent and whose Close is not complete.
InClose(e, t) == op[e][t] = "close" /\ pc[e][t] \in {"lock", "header", "body"}

Closing(e) ==
  /\ ~closeSent[e] => NoClose(e) /\ \A t \in Threads : ~InClose(e, t)
  /\ \A t, u \in Threads : InClose(e, t) /\ InClose(e, u) => t = u
  /\ \A t \in Threads :
       /\ InClose(e, t) /\ pc[e][t] # "body" => NoClose(e)
       /\ pc[e][t] \in {"header", "body"} /\ op[e][t] # "close" => NoClose(e)
       /\ InClose(e, t) /\ pc[e][t] = "body" =>
            \A i \in 1 .. Len(wire[e]) : wire[e][i] = CloseHeader => i = Len(wire[e])
  /\ \A i \in 1 .. Len(wire[e]) : wire[e][i] = CloseHeader => Len(wire[e]) <= i + 1

EndInv(e) == Mutex(e) /\ Ops(e) /\ Whole(e) /\ Closing(e)
IInv == TypeOK /\ \A e \in Ends : EndInv(e)

-----------------------------------------------------------------------------
LEMMA Peers == \A e \in Ends : Peer(e) \in Ends /\ Peer(e) # e /\ Peer(Peer(e)) = e
BY DEF Ends, Peer

LEMMA ThreadFacts == Reader \in Threads /\ Free \notin Threads /\ Reader \notin Writers
BY WsAssumption DEF Threads

\* An end that an action leaves alone, though its peer may close the transport.
LEMMA Elsewhere ==
  ASSUME NEW d \in Ends, EndInv(d),
         wire'[d] = wire[d], pc'[d] = pc[d], op'[d] = op[d],
         writeMu'[d] = writeMu[d], closeSent'[d] = closeSent[d],
         Open(d)' => Open(d)
  PROVE  EndInv(d)'
<1>1. Mutex(d)' BY DEF EndInv, Mutex
<1>2. Ops(d)' BY DEF EndInv, Ops
<1>3. Whole(d)' BY DEF EndInv, Whole
<1>4. Closing(d)' BY DEF EndInv, Closing, NoClose, InClose
<1> QED BY <1>1, <1>2, <1>3, <1>4 DEF EndInv

\* One goroutine of one end goes elsewhere, or takes another opcode.
LEMMA Going ==
  ASSUME TypeOK, NEW e \in Ends, NEW t \in Threads, NEW l \in Places, Go(e, t, l)
  PROVE  /\ pc' \in [Ends -> [Threads -> Places]]
         /\ pc'[e][t] = l
         /\ \A u \in Threads : u # t => pc'[e][u] = pc[e][u]
         /\ \A d \in Ends : d # e => pc'[d] = pc[d]
BY DEF TypeOK, Go

LEMMA Taking ==
  ASSUME TypeOK, NEW e \in Ends, NEW t \in Threads, NEW k \in Kinds \cup {"none"},
         op' = [op EXCEPT ![e][t] = k]
  PROVE  /\ op' \in [Ends -> [Threads -> Kinds \cup {"none"}]]
         /\ op'[e][t] = k
         /\ \A u \in Threads : u # t => op'[e][u] = op[e][u]
         /\ \A d \in Ends : d # e => op'[d] = op[d]
BY DEF TypeOK

LEMMA AfterWriteType ==
  ASSUME TypeOK, NEW e \in Ends, NEW t \in Threads
  PROVE  AfterWrite(e, t) \in {"idle", "ended", "read"}
BY DEF AfterWrite

LEMMA Returning ==
  ASSUME TypeOK, NEW e \in Ends, NEW t \in Threads, Return(e, t)
  PROVE  /\ pc' \in [Ends -> [Threads -> Places]]
         /\ op' \in [Ends -> [Threads -> Kinds \cup {"none"}]]
         /\ pc'[e][t] \in {"idle", "ended", "read"} /\ op'[e][t] = "none"
         /\ \A u \in Threads : u # t => pc'[e][u] = pc[e][u] /\ op'[e][u] = op[e][u]
         /\ \A d \in Ends : d # e => pc'[d] = pc[d] /\ op'[d] = op[d]
<1>1. AfterWrite(e, t) \in {"idle", "ended", "read"} /\ AfterWrite(e, t) \in Places
  BY AfterWriteType DEF Places
<1>2. Go(e, t, AfterWrite(e, t)) /\ op' = [op EXCEPT ![e][t] = "none"]
  BY DEF Return
<1>3. /\ pc' \in [Ends -> [Threads -> Places]]
      /\ pc'[e][t] = AfterWrite(e, t)
      /\ \A u \in Threads : u # t => pc'[e][u] = pc[e][u]
      /\ \A d \in Ends : d # e => pc'[d] = pc[d]
  BY <1>1, <1>2, Going
<1>4. /\ op' \in [Ends -> [Threads -> Kinds \cup {"none"}]]
      /\ op'[e][t] = "none"
      /\ \A u \in Threads : u # t => op'[e][u] = op[e][u]
      /\ \A d \in Ends : d # e => op'[d] = op[d]
  BY <1>2, Taking
<1> QED
  BY <1>1, <1>3, <1>4

\* A goroutine outside writeFrameRSV1 moves and writes nothing; l and k are
\* where it comes to stand and the opcode it then has.
LEMMA Outside ==
  ASSUME TypeOK, NEW e \in Ends, NEW t \in Threads, EndInv(e),
         wire'[e] = wire[e], writeMu'[e] = writeMu[e], closeSent'[e] = closeSent[e],
         Open(e)' = Open(e),
         \A u \in Threads : u # t => pc'[e][u] = pc[e][u] /\ op'[e][u] = op[e][u],
         pc[e][t] \notin {"header", "body"},
         \/ pc'[e][t] = "lock" /\ op'[e][t] \in Kinds \ {"close"}
         \/ pc'[e][t] = "claim" /\ op'[e][t] = "close"
         \/ pc'[e][t] \in {"idle", "read", "payload", "ended", "failed"} /\ op'[e][t] = "none"
  PROVE  EndInv(e)'
<1>1. Mutex(e)' BY DEF EndInv, Mutex
<1>2. Ops(e)' BY DEF EndInv, Ops
<1>3. Whole(e)' BY DEF EndInv, Whole
<1>4. \A u \in Threads : InClose(e, u)' => u # t /\ InClose(e, u)
  BY DEF InClose
<1>5. Closing(e)' BY <1>4 DEF EndInv, Closing, NoClose, InClose
<1> QED BY <1>1, <1>2, <1>3, <1>5 DEF EndInv

LEMMA Everywhere ==
  ASSUME NEW e \in Ends, EndInv(e)', \A d \in Ends : d # e => EndInv(d)', TypeOK'
  PROVE  IInv'
BY DEF IInv

-----------------------------------------------------------------------------
LEMMA Initially == Init => IInv
<1> SUFFICES ASSUME Init PROVE IInv
  OBVIOUS
<1> USE DEF Init
<1>1. TypeOK
  <2>1. wire \in [Ends -> Seq(Pieces)] /\ got \in [Ends -> Nat]
    OBVIOUS
  <2>2. pc \in [Ends -> [Threads -> Places]]
    BY DEF Places
  <2>3. op \in [Ends -> [Threads -> Kinds \cup {"none"}]]
    OBVIOUS
  <2>4. calls \in [Ends -> 0 .. MaxCalls]
    BY WsAssumption
  <2>5. \A e \in Ends : got[e] <= Len(wire[Peer(e)])
    BY Peers
  <2> QED
    BY <2>1, <2>2, <2>3, <2>4, <2>5 DEF TypeOK
<1>2. ASSUME NEW e \in Ends PROVE EndInv(e)
  <2>1. wire[e] = <<>> /\ Len(wire[e]) = 0
    OBVIOUS
  <2>2. \A t \in Threads : pc[e][t] \in {"read", "idle"} /\ op[e][t] = "none"
    OBVIOUS
  <2>3. Mutex(e)
    BY <2>2, ThreadFacts DEF Mutex
  <2>4. Ops(e) /\ Closing(e)
    BY <2>1, <2>2 DEF Ops, Closing, InClose, NoClose
  <2>5. Whole(e)
    BY <2>1, <2>2 DEF Whole
  <2> QED
    BY <2>3, <2>4, <2>5 DEF EndInv
<1> QED
  BY <1>1, <1>2 DEF IInv

LEMMA Called ==
  ASSUME IInv, NEW e \in Ends, NEW w \in Writers, NEW kind \in {"data", "ping", "close"},
         Call(e, w, kind)
  PROVE  IInv'
<1> USE DEF Call, Begin, transport
<1>0. TypeOK /\ EndInv(e) /\ w \in Threads /\ kind \in Kinds
  BY DEF IInv, Threads, Kinds
<1>1. /\ pc' \in [Ends -> [Threads -> Places]]
      /\ pc'[e][w] = IF kind = "close" THEN "claim" ELSE "lock"
      /\ \A u \in Threads : u # w => pc'[e][u] = pc[e][u]
      /\ \A d \in Ends : d # e => pc'[d] = pc[d]
  BY <1>0, Going DEF Places
<1>2. /\ op' \in [Ends -> [Threads -> Kinds \cup {"none"}]]
      /\ op'[e][w] = kind
      /\ \A u \in Threads : u # w => op'[e][u] = op[e][u]
      /\ \A d \in Ends : d # e => op'[d] = op[d]
  BY <1>0, Taking
<1>3. calls' \in [Ends -> 0 .. MaxCalls]
  BY <1>0, WsAssumption DEF TypeOK
<1>4. TypeOK'
  BY <1>0, <1>1, <1>2, <1>3 DEF TypeOK
<1>5. EndInv(e)'
  BY <1>0, <1>1, <1>2, Outside DEF Open, Kinds
<1>6. \A d \in Ends : d # e => EndInv(d)'
  BY <1>1, <1>2, Elsewhere DEF IInv, Open
<1> QED
  BY <1>4, <1>5, <1>6, Everywhere

LEMMA Claimed ==
  ASSUME IInv, NEW e \in Ends, NEW t \in Threads, Claim(e, t)
  PROVE  IInv'
<1> USE DEF Claim, transport
<1>0. TypeOK /\ EndInv(e) /\ op[e][t] = "close"
  BY DEF IInv, EndInv, Ops
<1>1. closeSent' \in [Ends -> BOOLEAN] /\ closeSent'[e] /\ \A d \in Ends : d # e => closeSent'[d] = closeSent[d]
  BY <1>0 DEF TypeOK
<1>2. CASE closeSent[e]
  <2>1. Return(e, t)
    BY <1>2
  <2>2. /\ pc' \in [Ends -> [Threads -> Places]]
        /\ op' \in [Ends -> [Threads -> Kinds \cup {"none"}]]
        /\ pc'[e][t] \in {"idle", "ended", "read"} /\ op'[e][t] = "none"
        /\ \A u \in Threads : u # t => pc'[e][u] = pc[e][u] /\ op'[e][u] = op[e][u]
        /\ \A d \in Ends : d # e => pc'[d] = pc[d] /\ op'[d] = op[d]
    BY <1>0, <2>1, Returning
  <2>3. TypeOK'
    BY <1>0, <1>1, <2>2 DEF TypeOK
  <2>4. EndInv(e)'
    <3>1. closeSent'[e] = closeSent[e]
      BY <1>0, <1>1, <1>2 DEF TypeOK
    <3> QED
      BY <1>0, <2>2, <3>1, Outside DEF Open
  <2>5. \A d \in Ends : d # e => EndInv(d)'
    BY <1>1, <2>2, Elsewhere DEF IInv, Open
  <2> QED
    BY <2>3, <2>4, <2>5, Everywhere
<1>3. CASE ~closeSent[e]
  <2>1. Go(e, t, "lock") /\ op' = op
    BY <1>3
  <2>2. /\ pc' \in [Ends -> [Threads -> Places]]
        /\ pc'[e][t] = "lock"
        /\ \A u \in Threads : u # t => pc'[e][u] = pc[e][u]
        /\ \A d \in Ends : d # e => pc'[d] = pc[d]
    BY <1>0, <2>1, Going DEF Places
  <2>3. TypeOK'
    BY <1>0, <1>1, <2>1, <2>2 DEF TypeOK
  <2>4. Mutex(e)'
    BY <1>0, <2>2 DEF EndInv, Mutex
  <2>5. Ops(e)' /\ Whole(e)'
    BY <1>0, <2>1, <2>2 DEF EndInv, Ops, Whole, Open, Kinds
  <2>6. NoClose(e) /\ \A u \in Threads : ~InClose(e, u)
    BY <1>0, <1>3 DEF EndInv, Closing
  <2>7. \A u \in Threads : InClose(e, u)' <=> u = t
    BY <1>0, <2>1, <2>2, <2>6 DEF InClose
  <2>8. Closing(e)'
    BY <1>0, <1>1, <2>1, <2>2, <2>6, <2>7 DEF EndInv, Closing, NoClose
  <2>9. \A d \in Ends : d # e => EndInv(d)'
    BY <1>1, <2>1, <2>2, Elsewhere DEF IInv, Open
  <2> QED
    BY <2>3, <2>4, <2>5, <2>8, <2>9, Everywhere DEF EndInv
<1> QED
  BY <1>2, <1>3

LEMMA Locked ==
  ASSUME IInv, NEW e \in Ends, NEW t \in Threads, Lock(e, t)
  PROVE  IInv'
<1> USE DEF Lock, transport
<1>0. TypeOK /\ EndInv(e) /\ op[e][t] \in Kinds
  BY DEF IInv, EndInv, Ops
<1>1. CASE Refused(e, t)
  <2>1. Return(e, t) /\ writeMu' = writeMu
    BY <1>1
  <2>2. /\ pc' \in [Ends -> [Threads -> Places]]
        /\ op' \in [Ends -> [Threads -> Kinds \cup {"none"}]]
        /\ pc'[e][t] \in {"idle", "ended", "read"} /\ op'[e][t] = "none"
        /\ \A u \in Threads : u # t => pc'[e][u] = pc[e][u] /\ op'[e][u] = op[e][u]
        /\ \A d \in Ends : d # e => pc'[d] = pc[d] /\ op'[d] = op[d]
    BY <1>0, <2>1, Returning
  <2>3. TypeOK'
    BY <1>0, <2>1, <2>2 DEF TypeOK
  <2>4. EndInv(e)'
    BY <1>0, <2>1, <2>2, Outside DEF Open
  <2>5. \A d \in Ends : d # e => EndInv(d)'
    BY <2>1, <2>2, Elsewhere DEF IInv, Open
  <2> QED
    BY <2>3, <2>4, <2>5, Everywhere
<1>2. CASE ~Refused(e, t)
  <2>1. Go(e, t, "header") /\ op' = op /\ writeMu' = [writeMu EXCEPT ![e] = t]
    BY <1>2
  <2>2. /\ pc' \in [Ends -> [Threads -> Places]]
        /\ pc'[e][t] = "header"
        /\ \A u \in Threads : u # t => pc'[e][u] = pc[e][u]
        /\ \A d \in Ends : d # e => pc'[d] = pc[d]
    BY <1>0, <2>1, Going DEF Places
  <2>3. /\ writeMu' \in [Ends -> Threads \cup {Free}] /\ writeMu'[e] = t
        /\ \A d \in Ends : d # e => writeMu'[d] = writeMu[d]
    BY <1>0, <2>1 DEF TypeOK
  <2>4. TypeOK'
    BY <1>0, <2>1, <2>2, <2>3 DEF TypeOK
  <2>5. \A u \in Threads : pc[e][u] \notin {"header", "body"}
    BY <1>0, ThreadFacts DEF EndInv, Mutex
  <2>6. Mutex(e)'
    BY <2>2, <2>3, <2>5 DEF Mutex
  <2>7. Ops(e)' /\ Whole(e)'
    <3>1. Ops(e)'
      BY <1>0, <2>1, <2>2 DEF EndInv, Ops
    <3>2. \A u \in Threads : pc'[e][u] # "body" /\ pc[e][u] # "body"
      BY <2>2, <2>5
    <3>3. Whole(e)'
      BY <1>0, <3>2 DEF EndInv, Whole, Open
    <3> QED
      BY <3>1, <3>3
  <2>8. \A u \in Threads : InClose(e, u)' <=> InClose(e, u)
    BY <2>1, <2>2 DEF InClose
  <2>9. op[e][t] # "close" => NoClose(e)
    BY <1>0, <1>2 DEF EndInv, Closing, Refused
  <2>10. op[e][t] = "close" => NoClose(e)
    BY <1>0 DEF EndInv, Closing, InClose
  <2>11. Closing(e)'
    BY <1>0, <2>1, <2>2, <2>5, <2>8, <2>9, <2>10 DEF EndInv, Closing, NoClose, InClose
  <2>12. \A d \in Ends : d # e => EndInv(d)'
    BY <2>1, <2>2, <2>3, Elsewhere DEF IInv, Open
  <2> QED
    BY <2>4, <2>6, <2>7, <2>11, <2>12, Everywhere DEF EndInv
<1> QED
  BY <1>1, <1>2

\* A piece at the end of a wire.
LEMMA AppendFacts ==
  ASSUME NEW S, NEW s \in Seq(S), NEW x \in S
  PROVE  /\ Append(s, x) \in Seq(S)
         /\ Len(s) \in Nat
         /\ Len(Append(s, x)) = Len(s) + 1
         /\ \A i \in 1 .. Len(s) : Append(s, x)[i] = s[i]
         /\ Append(s, x)[Len(s) + 1] = x
OBVIOUS

LEMMA Parity ==
  ASSUME NEW n \in Nat
  PROVE  (n % 2 = 0 <=> (n + 1) % 2 = 1) /\ (n % 2 = 1 <=> (n + 1) % 2 = 0)
OBVIOUS

LEMMA OddPositive ==
  ASSUME NEW n \in Nat, n % 2 = 1
  PROVE  n # 0
OBVIOUS

LEMMA EvenIndex ==
  ASSUME NEW n \in Nat, NEW i \in 1 .. n, i % 2 # 1
  PROVE  i - 1 \in 1 .. n
<1>1. i # 1
  OBVIOUS
<1> QED
  BY <1>1

\* What Put leaves behind, at the end that wrote and at the other.
LEMMA Putting ==
  ASSUME IInv, NEW e \in Ends, NEW t \in Threads, NEW part \in {"header", "body"},
         pc[e][t] \in {"header", "body"}, Put(e, t, part)
  PROVE  /\ wire' \in [Ends -> Seq(Pieces)]
         /\ \A d \in Ends : got[d] <= Len(wire'[Peer(d)])
         /\ \A d \in Ends : d # e => wire'[d] = wire[d]
         /\ Len(wire[e]) \in Nat /\ Len(wire'[e]) = Len(wire[e]) + 1
         /\ \A i \in 1 .. Len(wire[e]) : wire'[e][i] = wire[e][i]
         /\ wire'[e][Len(wire[e]) + 1] = [kind |-> op[e][t], part |-> part]
         /\ \A u \in Threads : u # t => pc[e][u] \notin {"header", "body"}
<1> DEFINE x == [kind |-> op[e][t], part |-> part]
<1>1. TypeOK /\ EndInv(e)
  BY DEF IInv
<1>2. x \in Pieces
  BY <1>1 DEF EndInv, Ops, Pieces
<1>3. wire[e] \in Seq(Pieces)
  BY <1>1 DEF TypeOK
<1>4. wire' = [wire EXCEPT ![e] = Append(@, x)]
  BY DEF Put
<1>5. wire' \in [Ends -> Seq(Pieces)] /\ wire'[e] = Append(wire[e], x)
      /\ \A d \in Ends : d # e => wire'[d] = wire[d]
  <2>1. Append(wire[e], x) \in Seq(Pieces)
    BY <1>2, <1>3, AppendFacts
  <2> QED
    BY <1>1, <1>4, <2>1 DEF TypeOK
<1>6. /\ Len(wire[e]) \in Nat /\ Len(wire'[e]) = Len(wire[e]) + 1
      /\ \A i \in 1 .. Len(wire[e]) : wire'[e][i] = wire[e][i]
      /\ wire'[e][Len(wire[e]) + 1] = x
  BY <1>2, <1>3, <1>5, AppendFacts
<1>7. \A d \in Ends : got[d] <= Len(wire'[Peer(d)])
  <2> SUFFICES ASSUME NEW d \in Ends PROVE got[d] <= Len(wire'[Peer(d)])
    OBVIOUS
  <2>1. got[d] <= Len(wire[Peer(d)]) /\ got[d] \in Nat /\ Peer(d) \in Ends
    BY <1>1, Peers DEF TypeOK
  <2>2. CASE Peer(d) = e
    BY <2>1, <2>2, <1>6
  <2>3. CASE Peer(d) # e
    BY <2>1, <2>3, <1>5
  <2> QED
    BY <2>2, <2>3
<1>8. \A u \in Threads : u # t => pc[e][u] \notin {"header", "body"}
  BY <1>1 DEF EndInv, Mutex
<1> QED
  BY <1>5, <1>6, <1>7, <1>8

LEMMA HeaderWritten ==
  ASSUME IInv, NEW e \in Ends, NEW t \in Threads, WriteHeader(e, t)
  PROVE  IInv'
<1>0. TypeOK /\ EndInv(e) /\ pc[e][t] = "header" /\ Put(e, t, "header")
      /\ Open(e) /\ op[e][t] \in Kinds
  BY DEF IInv, WriteHeader, Put, EndInv, Ops
<1>1. UNCHANGED <<got, closed, aborted, closeSent, calls, writeMu, op>> /\ Go(e, t, "body")
  BY DEF WriteHeader, Put
<1>2. /\ wire' \in [Ends -> Seq(Pieces)]
      /\ \A d \in Ends : got[d] <= Len(wire'[Peer(d)])
      /\ \A d \in Ends : d # e => wire'[d] = wire[d]
      /\ Len(wire[e]) \in Nat /\ Len(wire'[e]) = Len(wire[e]) + 1
      /\ \A i \in 1 .. Len(wire[e]) : wire'[e][i] = wire[e][i]
      /\ wire'[e][Len(wire[e]) + 1] = [kind |-> op[e][t], part |-> "header"]
      /\ \A u \in Threads : u # t => pc[e][u] \notin {"header", "body"}
  BY <1>0, Putting
<1>3. /\ pc' \in [Ends -> [Threads -> Places]]
      /\ pc'[e][t] = "body"
      /\ \A u \in Threads : u # t => pc'[e][u] = pc[e][u]
      /\ \A d \in Ends : d # e => pc'[d] = pc[d]
  BY <1>0, <1>1, Going DEF Places
<1>4. TypeOK'
  BY <1>0, <1>1, <1>2, <1>3 DEF TypeOK
<1>5. Mutex(e)'
  BY <1>0, <1>1, <1>3 DEF EndInv, Mutex
<1>6. Ops(e)'
  BY <1>0, <1>1, <1>3 DEF EndInv, Ops
<1>7. Whole(e)'
  <2>1. Len(wire[e]) % 2 = 0 /\ Len(wire'[e]) % 2 = 1
    BY <1>0, <1>2, Parity DEF EndInv, Whole
  <2>2. ASSUME NEW i \in 1 .. Len(wire'[e])
        PROVE  IF i % 2 = 1
               THEN wire'[e][i].part = "header"
               ELSE wire'[e][i] = [kind |-> wire'[e][i - 1].kind, part |-> "body"]
    <3>1. CASE i = Len(wire[e]) + 1
      BY <1>2, <2>1, <3>1
    <3>2. CASE i # Len(wire[e]) + 1
      <4>1. i \in 1 .. Len(wire[e])
        BY <1>2, <3>2
      <4>2. i % 2 # 1 => i - 1 \in 1 .. Len(wire[e])
        BY <1>2, <4>1, EvenIndex
      <4> QED
        BY <1>0, <1>2, <4>1, <4>2 DEF EndInv, Whole
    <3> QED
      BY <3>1, <3>2
  <2>3. \A u \in Threads : pc'[e][u] = "body" => u = t
    BY <1>2, <1>3
  <2>4. wire'[e][Len(wire'[e])].kind = op'[e][t]
    BY <1>1, <1>2
  <2> QED
    BY <1>3, <2>1, <2>2, <2>3, <2>4 DEF Whole
<1>8. \A u \in Threads : InClose(e, u)' <=> InClose(e, u)
  BY <1>0, <1>1, <1>3 DEF InClose
<1>9. NoClose(e)
  BY <1>0 DEF EndInv, Closing, InClose
<1>10. op[e][t] # "close" => NoClose(e)'
  BY <1>2, <1>9 DEF NoClose, CloseHeader
<1>11. \A i \in 1 .. Len(wire'[e]) : wire'[e][i] = CloseHeader => i = Len(wire'[e])
  BY <1>2, <1>9 DEF NoClose
<1>12. Closing(e)'
  <2>1. InClose(e, t) <=> op[e][t] = "close"
    BY <1>0 DEF InClose
  <2>2. (~closeSent[e] => NoClose(e) /\ \A u \in Threads : ~InClose(e, u))'
    BY <1>0, <1>1, <1>8, <1>10, <2>1 DEF EndInv, Closing
  <2>3. (\A u, v \in Threads : InClose(e, u) /\ InClose(e, v) => u = v)'
    BY <1>0, <1>8 DEF EndInv, Closing
  <2>4. ASSUME NEW u \in Threads
        PROVE  (/\ InClose(e, u) /\ pc[e][u] # "body" => NoClose(e)
                /\ pc[e][u] \in {"header", "body"} /\ op[e][u] # "close" => NoClose(e)
                /\ InClose(e, u) /\ pc[e][u] = "body" =>
                     \A i \in 1 .. Len(wire[e]) : wire[e][i] = CloseHeader => i = Len(wire[e]))'
    <3>1. CASE u = t
      BY <1>1, <1>3, <1>10, <1>11, <3>1
    <3>2. CASE u # t
      BY <1>0, <1>1, <1>2, <1>3, <1>8, <1>10, <2>1, <3>2 DEF EndInv, Closing
    <3> QED
      BY <3>1, <3>2
  <2>5. (\A i \in 1 .. Len(wire[e]) : wire[e][i] = CloseHeader => Len(wire[e]) <= i + 1)'
    BY <1>2, <1>11
  <2> QED
    BY <2>2, <2>3, <2>4, <2>5 DEF Closing
<1>13. \A d \in Ends : d # e => EndInv(d)'
  BY <1>1, <1>2, <1>3, Elsewhere DEF IInv, Open
<1> QED
  BY <1>4, <1>5, <1>6, <1>7, <1>12, <1>13, Everywhere DEF EndInv

LEMMA BodyWritten ==
  ASSUME IInv, NEW e \in Ends, NEW t \in Threads, WriteBody(e, t)
  PROVE  IInv'
<1>0. TypeOK /\ EndInv(e) /\ pc[e][t] = "body" /\ Put(e, t, "body")
      /\ Open(e) /\ op[e][t] \in Kinds /\ Return(e, t)
  BY DEF IInv, WriteBody, Put, EndInv, Ops, Unlock
<1>1. UNCHANGED <<got, closed, aborted, closeSent, calls>>
      /\ writeMu' = [writeMu EXCEPT ![e] = Free]
  BY DEF WriteBody, Put, Unlock
<1>2. /\ wire' \in [Ends -> Seq(Pieces)]
      /\ \A d \in Ends : got[d] <= Len(wire'[Peer(d)])
      /\ \A d \in Ends : d # e => wire'[d] = wire[d]
      /\ Len(wire[e]) \in Nat /\ Len(wire'[e]) = Len(wire[e]) + 1
      /\ \A i \in 1 .. Len(wire[e]) : wire'[e][i] = wire[e][i]
      /\ wire'[e][Len(wire[e]) + 1] = [kind |-> op[e][t], part |-> "body"]
      /\ \A u \in Threads : u # t => pc[e][u] \notin {"header", "body"}
  BY <1>0, Putting
<1>3. /\ pc' \in [Ends -> [Threads -> Places]]
      /\ op' \in [Ends -> [Threads -> Kinds \cup {"none"}]]
      /\ pc'[e][t] \in {"idle", "ended", "read"} /\ op'[e][t] = "none"
      /\ \A u \in Threads : u # t => pc'[e][u] = pc[e][u] /\ op'[e][u] = op[e][u]
      /\ \A d \in Ends : d # e => pc'[d] = pc[d] /\ op'[d] = op[d]
  BY <1>0, Returning
<1>4. /\ writeMu' \in [Ends -> Threads \cup {Free}] /\ writeMu'[e] = Free
      /\ \A d \in Ends : d # e => writeMu'[d] = writeMu[d]
  BY <1>0, <1>1 DEF TypeOK
<1>5. TypeOK'
  BY <1>0, <1>1, <1>2, <1>3, <1>4 DEF TypeOK
<1>6. Mutex(e)'
  BY <1>2, <1>3, <1>4, ThreadFacts DEF Mutex
<1>7. Ops(e)'
  BY <1>0, <1>3 DEF EndInv, Ops
<1>8. Whole(e)'
  <2>1. /\ Len(wire[e]) % 2 = 1 /\ Len(wire'[e]) % 2 = 0
        /\ wire[e][Len(wire[e])].kind = op[e][t]
    BY <1>0, <1>2, Parity DEF EndInv, Whole
  <2>2. ASSUME NEW i \in 1 .. Len(wire'[e])
        PROVE  IF i % 2 = 1
               THEN wire'[e][i].part = "header"
               ELSE wire'[e][i] = [kind |-> wire'[e][i - 1].kind, part |-> "body"]
    <3>1. CASE i = Len(wire[e]) + 1
      <4>1. Len(wire[e]) # 0
        BY <1>2, <2>1, OddPositive
      <4>2. Len(wire[e]) \in 1 .. Len(wire[e]) /\ i - 1 = Len(wire[e])
        BY <1>2, <3>1, <4>1
      <4>3. wire'[e][i - 1] = wire[e][Len(wire[e])]
        BY <1>2, <4>2
      <4>4. wire'[e][i] = [kind |-> wire'[e][i - 1].kind, part |-> "body"]
        BY <1>2, <2>1, <3>1, <4>3
      <4>5. i % 2 = 0
        BY <1>2, <2>1, <3>1
      <4> QED
        BY <4>4, <4>5
    <3>2. CASE i # Len(wire[e]) + 1
      <4>1. i \in 1 .. Len(wire[e])
        BY <1>2, <3>2
      <4>2. i % 2 # 1 => i - 1 \in 1 .. Len(wire[e])
        BY <1>2, <4>1, EvenIndex
      <4> QED
        BY <1>0, <1>2, <4>1, <4>2 DEF EndInv, Whole
    <3> QED
      BY <3>1, <3>2
  <2>3. \A u \in Threads : pc'[e][u] # "body"
    BY <1>2, <1>3
  <2> QED
    BY <2>1, <2>2, <2>3 DEF Whole
<1>9. \A u \in Threads : InClose(e, u)' <=> InClose(e, u) /\ u # t
  BY <1>0, <1>3 DEF InClose
<1>10. NoClose(e) => NoClose(e)'
  BY <1>2 DEF NoClose, CloseHeader
<1>11. Closing(e)'
  <2>1. InClose(e, t) <=> op[e][t] = "close"
    BY <1>0 DEF InClose
  <2>2. (~closeSent[e] => NoClose(e) /\ \A u \in Threads : ~InClose(e, u))'
    BY <1>0, <1>1, <1>9, <1>10 DEF EndInv, Closing
  <2>3. (\A u, v \in Threads : InClose(e, u) /\ InClose(e, v) => u = v)'
    BY <1>0, <1>9 DEF EndInv, Closing
  <2>4. ASSUME NEW u \in Threads
        PROVE  (/\ InClose(e, u) /\ pc[e][u] # "body" => NoClose(e)
                /\ pc[e][u] \in {"header", "body"} /\ op[e][u] # "close" => NoClose(e)
                /\ InClose(e, u) /\ pc[e][u] = "body" =>
                     \A i \in 1 .. Len(wire[e]) : wire[e][i] = CloseHeader => i = Len(wire[e]))'
    <3>1. pc'[e][u] \notin {"header", "body"}
      BY <1>2, <1>3
    <3>2. InClose(e, u)' => NoClose(e)
      BY <1>0, <1>2, <1>9 DEF EndInv, Closing, InClose
    <3> QED
      BY <3>1, <3>2, <1>10
  <2>5. \A i \in 1 .. Len(wire[e]) : wire[e][i] = CloseHeader => i = Len(wire[e])
    BY <1>0, <2>1 DEF EndInv, Closing, NoClose
  <2>6. (\A i \in 1 .. Len(wire[e]) : wire[e][i] = CloseHeader => Len(wire[e]) <= i + 1)'
    <3> SUFFICES ASSUME NEW i \in 1 .. Len(wire'[e]), wire'[e][i] = CloseHeader
                 PROVE  Len(wire'[e]) <= i + 1
      BY DEF CloseHeader
    <3>1. i # Len(wire[e]) + 1
      BY <1>2 DEF CloseHeader
    <3>2. i \in 1 .. Len(wire[e]) /\ wire[e][i] = CloseHeader
      BY <1>2, <3>1
    <3> QED
      BY <1>2, <2>5, <3>2
  <2> QED
    BY <2>2, <2>3, <2>4, <2>6 DEF Closing
<1>12. \A d \in Ends : d # e => EndInv(d)'
  BY <1>1, <1>2, <1>3, <1>4, Elsewhere DEF IInv, Open
<1> QED
  BY <1>5, <1>6, <1>7, <1>8, <1>11, <1>12, Everywhere DEF EndInv

LEMMA WritingFails ==
  ASSUME IInv, NEW e \in Ends, NEW t \in Threads, WriteFails(e, t)
  PROVE  IInv'
<1>0. TypeOK /\ EndInv(e) /\ pc[e][t] \in {"header", "body"} /\ ~Open(e) /\ Return(e, t)
  BY DEF IInv, WriteFails, Unlock
<1>1. UNCHANGED <<wire, got, closed, aborted, closeSent, calls>>
      /\ writeMu' = [writeMu EXCEPT ![e] = Free]
  BY DEF WriteFails, Unlock, transport
<1>2. \A u \in Threads : u # t => pc[e][u] \notin {"header", "body"}
  BY <1>0 DEF EndInv, Mutex
<1>3. /\ pc' \in [Ends -> [Threads -> Places]]
      /\ op' \in [Ends -> [Threads -> Kinds \cup {"none"}]]
      /\ pc'[e][t] \in {"idle", "ended", "read"} /\ op'[e][t] = "none"
      /\ \A u \in Threads : u # t => pc'[e][u] = pc[e][u] /\ op'[e][u] = op[e][u]
      /\ \A d \in Ends : d # e => pc'[d] = pc[d] /\ op'[d] = op[d]
  BY <1>0, Returning
<1>4. /\ writeMu' \in [Ends -> Threads \cup {Free}] /\ writeMu'[e] = Free
      /\ \A d \in Ends : d # e => writeMu'[d] = writeMu[d]
  BY <1>0, <1>1 DEF TypeOK
<1>5. TypeOK'
  BY <1>0, <1>1, <1>3, <1>4 DEF TypeOK
<1>6. Mutex(e)'
  BY <1>2, <1>3, <1>4, ThreadFacts DEF Mutex
<1>7. Ops(e)' /\ Whole(e)'
  <2>1. Ops(e)'
    BY <1>0, <1>3 DEF EndInv, Ops
  <2>2. ~Open(e)' /\ \A u \in Threads : pc'[e][u] # "body"
    BY <1>0, <1>1, <1>2, <1>3 DEF Open
  <2>3. Whole(e)'
    BY <1>0, <1>1, <2>2 DEF EndInv, Whole
  <2> QED
    BY <2>1, <2>3
<1>8. \A u \in Threads : InClose(e, u)' <=> InClose(e, u) /\ u # t
  BY <1>0, <1>3 DEF InClose
<1>9. Closing(e)'
  BY <1>0, <1>1, <1>2, <1>3, <1>8 DEF EndInv, Closing, NoClose
<1>10. \A d \in Ends : d # e => EndInv(d)'
  BY <1>1, <1>3, <1>4, Elsewhere DEF IInv, Open
<1> QED
  BY <1>5, <1>6, <1>7, <1>9, <1>10, Everywhere DEF EndInv

\* A reader takes one more piece, of those its peer has written.
LEMMA GotMore ==
  ASSUME TypeOK, NEW e \in Ends, Unread(e), got' = [got EXCEPT ![e] = @ + 1]
  PROVE  got' \in [Ends -> Nat] /\ \A d \in Ends : got'[d] <= Len(wire[Peer(d)])
<1>1. Len(wire[Peer(e)]) \in Nat /\ got[e] \in Nat
  BY Peers, AppendFacts DEF TypeOK
<1>2. got'[e] = got[e] + 1 /\ got'[e] <= Len(wire[Peer(e)])
  BY <1>1 DEF TypeOK, Unread
<1> QED
  BY <1>1, <1>2 DEF TypeOK

LEMMA HeaderRead ==
  ASSUME IInv, NEW e \in Ends, ReadHeader(e)
  PROVE  IInv'
<1> USE DEF ReadHeader
<1>0. TypeOK /\ EndInv(e) /\ Reader \in Threads /\ op[e][Reader] = "none"
  BY ThreadFacts DEF IInv, EndInv, Ops
<1>1. got' \in [Ends -> Nat] /\ \A d \in Ends : got'[d] <= Len(wire[Peer(d)])
  BY <1>0, GotMore
<1>2. /\ pc' \in [Ends -> [Threads -> Places]]
      /\ pc'[e][Reader] = "payload"
      /\ \A u \in Threads : u # Reader => pc'[e][u] = pc[e][u]
      /\ \A d \in Ends : d # e => pc'[d] = pc[d]
  BY <1>0, Going DEF Places
<1>3. TypeOK'
  BY <1>0, <1>1, <1>2 DEF TypeOK
<1>4. EndInv(e)'
  BY <1>0, <1>2, Outside DEF Open
<1>5. \A d \in Ends : d # e => EndInv(d)'
  BY <1>2, Elsewhere DEF IInv, Open
<1> QED
  BY <1>3, <1>4, <1>5, Everywhere

LEMMA PayloadRead ==
  ASSUME IInv, NEW e \in Ends, ReadPayload(e)
  PROVE  IInv'
<1> DEFINE kind == NextPiece(e).kind
<1>0. TypeOK /\ EndInv(e) /\ Reader \in Threads /\ op[e][Reader] = "none" /\ pc[e][Reader] = "payload"
  BY ThreadFacts DEF IInv, EndInv, Ops, ReadPayload
<1>1. /\ got' = [got EXCEPT ![e] = @ + 1] /\ Unread(e)
      /\ UNCHANGED <<wire, closed, aborted, closeSent, writeMu, calls>>
      /\ Receive(e, kind)
  BY DEF ReadPayload
<1>2. got' \in [Ends -> Nat] /\ \A d \in Ends : got'[d] <= Len(wire[Peer(d)])
  BY <1>0, <1>1, GotMore
<1>3. /\ pc' \in [Ends -> [Threads -> Places]]
      /\ op' \in [Ends -> [Threads -> Kinds \cup {"none"}]]
      /\ \/ pc'[e][Reader] = "lock" /\ op'[e][Reader] = "pong"
         \/ pc'[e][Reader] = "claim" /\ op'[e][Reader] = "close"
         \/ pc'[e][Reader] = "read" /\ op'[e][Reader] = "none"
      /\ \A u \in Threads : u # Reader => pc'[e][u] = pc[e][u] /\ op'[e][u] = op[e][u]
      /\ \A d \in Ends : d # e => pc'[d] = pc[d] /\ op'[d] = op[d]
  <2>1. CASE kind = "close" \/ (kind = "ping" /\ e \notin Manual)
    <3>1. /\ op' = [op EXCEPT ![e][Reader] = Answer(kind)]
          /\ Go(e, Reader, IF Answer(kind) = "close" THEN "claim" ELSE "lock")
      BY <1>1, <2>1 DEF Receive, Begin
    <3>2. Answer(kind) \in {"pong", "close"} /\ Answer(kind) \in Kinds
      BY DEF Answer, Kinds
    <3>3. /\ pc' \in [Ends -> [Threads -> Places]]
          /\ pc'[e][Reader] = IF Answer(kind) = "close" THEN "claim" ELSE "lock"
          /\ \A u \in Threads : u # Reader => pc'[e][u] = pc[e][u]
          /\ \A d \in Ends : d # e => pc'[d] = pc[d]
      BY <1>0, <3>1, Going DEF Places
    <3>4. /\ op' \in [Ends -> [Threads -> Kinds \cup {"none"}]]
          /\ op'[e][Reader] = Answer(kind)
          /\ \A u \in Threads : u # Reader => op'[e][u] = op[e][u]
          /\ \A d \in Ends : d # e => op'[d] = op[d]
      BY <1>0, <3>1, <3>2, Taking
    <3> QED
      BY <3>2, <3>3, <3>4
  <2>2. CASE ~(kind = "close" \/ (kind = "ping" /\ e \notin Manual))
    <3>1. Go(e, Reader, "read") /\ op' = op
      BY <1>1, <2>2 DEF Receive
    <3>2. /\ pc' \in [Ends -> [Threads -> Places]]
          /\ pc'[e][Reader] = "read"
          /\ \A u \in Threads : u # Reader => pc'[e][u] = pc[e][u]
          /\ \A d \in Ends : d # e => pc'[d] = pc[d]
      BY <1>0, <3>1, Going DEF Places
    <3> QED
      BY <1>0, <3>1, <3>2 DEF TypeOK
  <2> QED
    BY <2>1, <2>2
<1>4. TypeOK'
  BY <1>0, <1>1, <1>2, <1>3 DEF TypeOK
<1>5. EndInv(e)'
  BY <1>0, <1>1, <1>3, Outside DEF Open, Kinds
<1>6. \A d \in Ends : d # e => EndInv(d)'
  BY <1>1, <1>3, Elsewhere DEF IInv, Open
<1> QED
  BY <1>4, <1>5, <1>6, Everywhere

LEMMA ReadingFails ==
  ASSUME IInv, NEW e \in Ends, ReadFails(e)
  PROVE  IInv'
<1> USE DEF ReadFails, transport
<1>0. TypeOK /\ EndInv(e) /\ Reader \in Threads /\ op[e][Reader] = "none"
  BY ThreadFacts DEF IInv, EndInv, Ops
<1>1. /\ pc' \in [Ends -> [Threads -> Places]]
      /\ pc'[e][Reader] = "failed"
      /\ \A u \in Threads : u # Reader => pc'[e][u] = pc[e][u]
      /\ \A d \in Ends : d # e => pc'[d] = pc[d]
  BY <1>0, Going DEF Places
<1>2. TypeOK'
  BY <1>0, <1>1 DEF TypeOK
<1>3. EndInv(e)'
  BY <1>0, <1>1, Outside DEF Open
<1>4. \A d \in Ends : d # e => EndInv(d)'
  BY <1>1, Elsewhere DEF IInv, Open
<1> QED
  BY <1>2, <1>3, <1>4, Everywhere

LEMMA TransportClosed ==
  ASSUME IInv, NEW e \in Ends, CloseTransport(e), aborted' \in BOOLEAN
  PROVE  IInv'
<1> USE DEF CloseTransport
<1>1. TypeOK /\ closed' \in [Ends -> BOOLEAN] /\ \A d \in Ends : closed[d] => closed'[d]
  BY DEF IInv, TypeOK
<1>2. TypeOK'
  BY <1>1 DEF TypeOK
<1>3. \A d \in Ends : EndInv(d)'
  BY <1>1, Elsewhere, Peers DEF IInv, Open
<1> QED
  BY <1>2, <1>3 DEF IInv

LEMMA Inductive == IInv /\ [Next]_vars => IInv'
<1> SUFFICES ASSUME IInv, [Next]_vars PROVE IInv'
  OBVIOUS
<1>1. CASE UNCHANGED vars
  <2>1. UNCHANGED <<wire, got, closed, aborted, closeSent, writeMu, pc, op, calls>>
    BY <1>1 DEF vars, transport
  <2>2. TypeOK'
    BY <2>1 DEF IInv, TypeOK
  <2>3. \A d \in Ends : EndInv(d)'
    BY <2>1, Elsewhere DEF IInv, Open
  <2> QED
    BY <2>2, <2>3 DEF IInv
<1>2. CASE Next
  <2> PICK e \in Ends :
        \/ \E w \in Writers, kind \in {"data", "ping", "close"} : Call(e, w, kind)
        \/ \E t \in Threads : Write(e, t)
        \/ Read(e)
        \/ Leave(e) \/ Abort(e)
    BY <1>2 DEF Next
  <2>1. CASE \E w \in Writers, kind \in {"data", "ping", "close"} : Call(e, w, kind)
    BY <2>1, Called
  <2>2. CASE \E t \in Threads : Write(e, t)
    BY <2>2, Claimed, Locked, HeaderWritten, BodyWritten, WritingFails DEF Write
  <2>3. CASE Read(e)
    BY <2>3, HeaderRead, PayloadRead, ReadingFails DEF Read
  <2>4. CASE Leave(e) \/ Abort(e)
    <3>1. CloseTransport(e) /\ aborted' \in BOOLEAN
      BY <2>4 DEF Leave, Abort, IInv, TypeOK
    <3> QED
      BY <3>1, TransportClosed
  <2> QED
    BY <2>1, <2>2, <2>3, <2>4
<1> QED
  BY <1>1, <1>2

\* writeMu, closeSent and what is on the wire hold together at either end.
THEOREM Invariance == Spec => []IInv
BY Initially, Inductive, PTL DEF Spec

\* The state of both ends has its type, and no reader is ahead of its peer.
THEOREM TypeCorrect == Spec => []TypeOK
<1>1. IInv => TypeOK
  BY DEF IInv
<1> QED
  BY <1>1, Invariance, PTL

\* "writes are serialized so frames never interleave" (conn.go): with any
\* number of goroutines writing, a header is followed by its own body.
THEOREM FramesAreWhole == Spec => []FramesWhole
<1>1. IInv => FramesWhole
  BY DEF IInv, EndInv, Whole, FramesWhole
<1> QED
  BY <1>1, Invariance, PTL

\* No frame follows a Close frame, however the Close and other writes race for
\* writeMu: closeSent is looked at under the lock.
THEOREM NothingFollowsClose == Spec => []NothingAfterClose
<1>1. IInv => NothingAfterClose
  BY DEF IInv, EndInv, Closing, CloseHeader, NothingAfterClose
<1> QED
  BY <1>1, Invariance, PTL
-----------------------------------------------------------------------------
(* A connection that nobody aborts ends clean at both ends.                 *)

\* The last piece an end has written is the body of its Close.
CloseDone(e) ==
  Len(wire[e]) > 0 /\ wire[e][Len(wire[e])] = [kind |-> "close", part |-> "body"]

\* Only an end whose calls have all returned has closed the transport.
Quit(e) ==
  closed[e] => pc[e][Reader] = "ended" /\ \A w \in Writers : pc[e][w] = "idle"

\* Whoever claimed the Close is writing it, or has written it.
Claims(e) == closeSent[e] => CloseDone(e) \/ \E t \in Threads : InClose(e, t)

\* A reader that answers a Close, or has, was sent one, and its own end has
\* claimed the answer.
Heard(e) == op[e][Reader] = "close" \/ pc[e][Reader] = "ended" => CloseDone(Peer(e))
Replied(e) == pc[e][Reader] = "ended" => closeSent[e]

\* The reader is inside a frame exactly when it has read an odd number of
\* pieces, and a Close that it has not heard is still ahead of it.
Halfway(e) == pc[e][Reader] = "payload" <=> got[e] % 2 = 1
Ahead(e) ==
  CloseDone(Peer(e)) /\ op[e][Reader] # "close" /\ pc[e][Reader] # "ended" =>
    got[e] < Len(wire[Peer(e)])

Clean(e) ==
  /\ pc[e][Reader] # "failed"
  /\ Quit(e) /\ Claims(e) /\ Heard(e) /\ Replied(e) /\ Halfway(e) /\ Ahead(e)
CleanInv == ~aborted => \A e \in Ends : Clean(e)

LEMMA EvenBody ==
  ASSUME NEW n \in Nat, n > 0, n % 2 # 1
  PROVE  n % 2 = 0 /\ n - 1 \in 1 .. n /\ n - 1 # n /\ (n - 1) % 2 = 1
OBVIOUS

\* After its Close an end writes nothing, and nobody there is about to.
LEMMA AfterClose ==
  ASSUME IInv, NEW e \in Ends, CloseDone(e)
  PROVE  /\ Len(wire[e]) \in Nat /\ Len(wire[e]) % 2 = 0
         /\ \A t \in Threads : pc[e][t] \notin {"header", "body"} /\ ~InClose(e, t)
<1> DEFINE n == Len(wire[e])
<1>0. wire[e] \in Seq(Pieces) /\ n \in Nat /\ n \in 1 .. n /\ EndInv(e)
  BY DEF IInv, TypeOK, CloseDone
<1>1. wire[e][n].part = "body" /\ wire[e][n].kind = "close" /\ wire[e][n] # CloseHeader
  BY DEF CloseDone, CloseHeader
<1>2. n % 2 # 1 /\ wire[e][n] = [kind |-> wire[e][n - 1].kind, part |-> "body"]
  BY <1>0, <1>1 DEF EndInv, Whole
<1>3. n > 0 /\ n % 2 # 1
  BY <1>2 DEF CloseDone
<1>4. n % 2 = 0 /\ n - 1 \in 1 .. n /\ n - 1 # n /\ (n - 1) % 2 = 1
  <2> HIDE DEF n
  <2> QED
    BY <1>0, <1>3, EvenBody
<1>5. wire[e][n - 1] = CloseHeader
  <2>1. wire[e][n - 1].part = "header"
    BY <1>0, <1>4 DEF EndInv, Whole
  <2>2. wire[e][n - 1].kind = "close"
    BY <1>1, <1>2
  <2>3. wire[e][n - 1] \in Pieces
    BY <1>0, <1>4
  <2> QED
    BY <2>1, <2>2, <2>3 DEF Pieces, CloseHeader
<1>6. ~NoClose(e)
  BY <1>4, <1>5 DEF NoClose
<1>7. ASSUME NEW t \in Threads PROVE ~InClose(e, t)
  <2>1. CASE pc[e][t] = "body"
    BY <1>0, <1>4, <1>5, <2>1 DEF EndInv, Closing
  <2>2. CASE pc[e][t] # "body"
    BY <1>0, <1>6, <2>2 DEF EndInv, Closing
  <2> QED
    BY <2>1, <2>2
<1>8. ASSUME NEW t \in Threads PROVE pc[e][t] \notin {"header", "body"}
  BY <1>0, <1>6, <1>7 DEF EndInv, Closing, InClose
<1> QED
  BY <1>0, <1>4, <1>7, <1>8

\* An end that has closed the transport is idle, and its Close is written.
LEMMA QuitIsDone ==
  ASSUME IInv, NEW e \in Ends, Clean(e), closed[e]
  PROVE  /\ CloseDone(e) /\ CloseDone(Peer(e))
         /\ pc[e][Reader] = "ended" /\ \A w \in Writers : pc[e][w] = "idle"
<1>1. pc[e][Reader] = "ended" /\ \A w \in Writers : pc[e][w] = "idle"
  BY DEF Clean, Quit
<1>2. \A t \in Threads : ~InClose(e, t)
  BY <1>1 DEF InClose, Threads
<1> QED
  BY <1>1, <1>2 DEF Clean, Claims, Heard, Replied

\* An end that a step leaves alone, whose peer may write.
LEMMA CleanElsewhere ==
  ASSUME NEW d \in Ends, Clean(d), closed'[d] = closed[d], pc'[d] = pc[d],
         op'[d] = op[d], closeSent'[d] = closeSent[d], wire'[d] = wire[d],
         got'[d] = got[d],
         \/ wire'[Peer(d)] = wire[Peer(d)]
         \/ ~CloseDone(Peer(d)) /\ got[d] < Len(wire'[Peer(d)])
  PROVE  Clean(d)'
<1>1. (Quit(d) /\ Claims(d) /\ Replied(d) /\ Halfway(d))'
  BY DEF Clean, Quit, Claims, Replied, Halfway, CloseDone, InClose
<1>2. Heard(d)' /\ Ahead(d)'
  <2>1. CASE wire'[Peer(d)] = wire[Peer(d)]
    BY <2>1 DEF Clean, Heard, Ahead, CloseDone
  <2>2. CASE ~CloseDone(Peer(d)) /\ got[d] < Len(wire'[Peer(d)])
    BY <2>2 DEF Clean, Heard, Ahead
  <2> QED
    BY <2>1, <2>2
<1> QED
  BY <1>1, <1>2 DEF Clean

\* A goroutine of an open end moves, and reads nothing.
LEMMA CleanMove ==
  ASSUME NEW e \in Ends, NEW t \in Threads, Clean(e), ~closed[e],
         wire'[Peer(e)] = wire[Peer(e)], got'[e] = got[e], closed'[e] = closed[e],
         \A u \in Threads : u # t => pc'[e][u] = pc[e][u] /\ op'[e][u] = op[e][u],
         closeSent[e] => closeSent'[e],
         t = Reader => /\ pc[e][t] # "payload" /\ pc'[e][t] \notin {"payload", "failed"}
                       /\ op'[e][t] = op[e][t] \/ op[e][t] # "close" \/ pc'[e][t] = "ended"
                       /\ op'[e][t] = "close" => op[e][t] = "close"
                       /\ pc'[e][t] = "ended" =>
                            (op[e][t] = "close" \/ pc[e][t] = "ended") /\ closeSent'[e]
                       /\ pc[e][t] = "ended" => pc'[e][t] = "ended",
         closeSent'[e] => CloseDone(e)' \/ \E u \in Threads : InClose(e, u)'
  PROVE  Clean(e)'
<1>0. Reader \in Threads
  BY ThreadFacts
<1>1. Quit(e)' /\ Claims(e)'
  BY DEF Quit, Claims, CloseDone
<1>2. CASE t # Reader
  BY <1>0, <1>1, <1>2 DEF Clean, Heard, Replied, Halfway, Ahead, CloseDone
<1>3. CASE t = Reader
  BY <1>0, <1>1, <1>3 DEF Clean, Heard, Replied, Halfway, Ahead, CloseDone
<1> QED
  BY <1>2, <1>3

\* While nobody aborts, a goroutine that is in a call has both ends open
\* before it, when it is about to write.
LEMMA StillOpen ==
  ASSUME IInv, CleanInv, ~aborted, NEW e \in Ends, NEW t \in Threads,
         pc[e][t] \notin {"idle", "ended"}
  PROVE  ~closed[e] /\ (pc[e][t] \in {"header", "body"} => Open(e))
<1>0. Clean(e) /\ Peer(e) \in Ends /\ Clean(Peer(e)) /\ Peer(Peer(e)) = e
  BY Peers DEF CleanInv
<1>1. ~closed[e]
  BY <1>0, QuitIsDone DEF Threads
<1>2. ASSUME closed[Peer(e)] PROVE pc[e][t] \notin {"header", "body"}
  BY <1>0, <1>2, QuitIsDone, AfterClose
<1> QED
  BY <1>1, <1>2 DEF Open

LEMMA CleanInitially == Init => CleanInv
<1> SUFFICES ASSUME Init, NEW e \in Ends PROVE Clean(e)
  BY DEF CleanInv
<1>1. /\ Reader \in Threads /\ Peer(e) \in Ends
      /\ wire[e] = <<>> /\ wire[Peer(e)] = <<>> /\ got[e] = 0
      /\ ~closed[e] /\ ~closeSent[e]
      /\ pc[e][Reader] = "read" /\ op[e][Reader] = "none"
  BY ThreadFacts, Peers DEF Init
<1>2. ~CloseDone(Peer(e)) /\ got[e] % 2 # 1
  BY <1>1 DEF CloseDone
<1> QED
  BY <1>1, <1>2 DEF Clean, Quit, Claims, Heard, Replied, Halfway, Ahead

\* Where Return leaves a goroutine.
LEMMA ReturnsTo ==
  ASSUME IInv, NEW e \in Ends, NEW t \in Threads, Return(e, t)
  PROVE  /\ pc'[e][t] = AfterWrite(e, t) /\ op'[e][t] = "none"
         /\ \A u \in Threads : u # t => pc'[e][u] = pc[e][u] /\ op'[e][u] = op[e][u]
         /\ \A d \in Ends : d # e => pc'[d] = pc[d] /\ op'[d] = op[d]
BY DEF IInv, TypeOK, Return, Go

LEMMA MovesTo ==
  ASSUME IInv, NEW e \in Ends, NEW t \in Threads, NEW l, Go(e, t, l), UNCHANGED op
  PROVE  /\ pc'[e][t] = l /\ op'[e][t] = op[e][t]
         /\ \A u \in Threads : u # t => pc'[e][u] = pc[e][u] /\ op'[e][u] = op[e][u]
         /\ \A d \in Ends : d # e => pc'[d] = pc[d] /\ op'[d] = op[d]
BY DEF IInv, TypeOK, Go

LEMMA CleanBoth ==
  ASSUME NEW e \in Ends, Clean(e)', \A d \in Ends : d # e => Clean(d)'
  PROVE  CleanInv'
BY DEF CleanInv

LEMMA CleanCalled ==
  ASSUME IInv, CleanInv, ~aborted, NEW e \in Ends, NEW w \in Writers,
         NEW kind \in {"data", "ping", "close"}, Call(e, w, kind)
  PROVE  CleanInv'
<1>0. Clean(e) /\ w \in Threads /\ w # Reader /\ Peer(e) \in Ends
  BY ThreadFacts, Peers DEF CleanInv, Threads
<1>1. /\ pc[e][w] = "idle" /\ ~closed[e]
      /\ UNCHANGED <<wire, got, closed, closeSent>>
  BY DEF Call, transport
<1>2. /\ \A u \in Threads : u # w => pc'[e][u] = pc[e][u] /\ op'[e][u] = op[e][u]
      /\ \A d \in Ends : d # e => pc'[d] = pc[d] /\ op'[d] = op[d]
  BY DEF Call, Begin, Go, IInv, TypeOK
<1>3. closeSent'[e] => CloseDone(e)' \/ \E u \in Threads : InClose(e, u)'
  BY <1>0, <1>1, <1>2 DEF Clean, Claims, CloseDone, InClose
<1>4. Clean(e)'
  BY <1>0, <1>1, <1>2, <1>3, CleanMove
<1>5. \A d \in Ends : d # e => Clean(d)'
  BY <1>1, <1>2, CleanElsewhere DEF CleanInv
<1> QED
  BY <1>4, <1>5, CleanBoth

LEMMA CleanClaimed ==
  ASSUME IInv, CleanInv, ~aborted, NEW e \in Ends, NEW t \in Threads, Claim(e, t)
  PROVE  CleanInv'
<1>0. Clean(e) /\ Peer(e) \in Ends /\ ~closed[e] /\ op[e][t] = "close"
  BY StillOpen, Peers DEF CleanInv, Claim, IInv, EndInv, Ops
<1>1. /\ pc[e][t] = "claim" /\ UNCHANGED <<wire, got, closed>>
      /\ closeSent'[e] /\ \A d \in Ends : d # e => closeSent'[d] = closeSent[d]
  BY DEF Claim, transport, IInv, TypeOK
<1>2. CASE closeSent[e]
  <2>1. Return(e, t)
    BY <1>2 DEF Claim
  <2>2. /\ pc'[e][t] = AfterWrite(e, t) /\ op'[e][t] = "none"
        /\ \A u \in Threads : u # t => pc'[e][u] = pc[e][u] /\ op'[e][u] = op[e][u]
        /\ \A d \in Ends : d # e => pc'[d] = pc[d] /\ op'[d] = op[d]
    BY <2>1, ReturnsTo
  <2>3. t = Reader => pc'[e][t] = "ended"
    BY <1>0, <2>2, ThreadFacts DEF AfterWrite
  <2>4. closeSent'[e] => CloseDone(e)' \/ \E u \in Threads : InClose(e, u)'
    BY <1>0, <1>1, <1>2, <2>2 DEF Clean, Claims, CloseDone, InClose
  <2>5. Clean(e)'
    BY <1>0, <1>1, <2>2, <2>3, <2>4, CleanMove
  <2>6. \A d \in Ends : d # e => Clean(d)'
    BY <1>1, <2>2, CleanElsewhere DEF CleanInv
  <2> QED
    BY <2>5, <2>6, CleanBoth
<1>3. CASE ~closeSent[e]
  <2>1. Go(e, t, "lock") /\ UNCHANGED op
    BY <1>3 DEF Claim
  <2>2. /\ pc'[e][t] = "lock" /\ op'[e][t] = op[e][t]
        /\ \A u \in Threads : u # t => pc'[e][u] = pc[e][u] /\ op'[e][u] = op[e][u]
        /\ \A d \in Ends : d # e => pc'[d] = pc[d] /\ op'[d] = op[d]
    BY <2>1, MovesTo
  <2>3. InClose(e, t)'
    BY <1>0, <2>2 DEF InClose
  <2>4. Clean(e)'
    BY <1>0, <1>1, <2>2, <2>3, CleanMove
  <2>5. \A d \in Ends : d # e => Clean(d)'
    BY <1>1, <2>2, CleanElsewhere DEF CleanInv
  <2> QED
    BY <2>4, <2>5, CleanBoth
<1> QED
  BY <1>2, <1>3

LEMMA CleanLocked ==
  ASSUME IInv, CleanInv, ~aborted, NEW e \in Ends, NEW t \in Threads, Lock(e, t)
  PROVE  CleanInv'
<1>0. Clean(e) /\ Peer(e) \in Ends /\ ~closed[e]
  BY StillOpen, Peers DEF CleanInv, Lock
<1>1. pc[e][t] = "lock" /\ UNCHANGED <<wire, got, closed, closeSent>>
  BY DEF Lock, transport
<1>2. CASE Refused(e, t)
  <2>1. Return(e, t) /\ op[e][t] # "close"
    BY <1>2 DEF Lock, Refused
  <2>2. /\ pc'[e][t] = AfterWrite(e, t) /\ op'[e][t] = "none"
        /\ \A u \in Threads : u # t => pc'[e][u] = pc[e][u] /\ op'[e][u] = op[e][u]
        /\ \A d \in Ends : d # e => pc'[d] = pc[d] /\ op'[d] = op[d]
    BY <2>1, ReturnsTo
  <2>3. t = Reader => pc'[e][t] = "read"
    BY <2>1, <2>2, ThreadFacts DEF AfterWrite
  <2>4. closeSent'[e] => CloseDone(e)' \/ \E u \in Threads : InClose(e, u)'
    BY <1>0, <1>1, <2>1, <2>2 DEF Clean, Claims, CloseDone, InClose
  <2>5. Clean(e)'
    BY <1>0, <1>1, <2>1, <2>2, <2>3, <2>4, CleanMove
  <2>6. \A d \in Ends : d # e => Clean(d)'
    BY <1>1, <2>2, CleanElsewhere DEF CleanInv
  <2> QED
    BY <2>5, <2>6, CleanBoth
<1>3. CASE ~Refused(e, t)
  <2>1. Go(e, t, "header") /\ UNCHANGED op
    BY <1>3 DEF Lock
  <2>2. /\ pc'[e][t] = "header" /\ op'[e][t] = op[e][t]
        /\ \A u \in Threads : u # t => pc'[e][u] = pc[e][u] /\ op'[e][u] = op[e][u]
        /\ \A d \in Ends : d # e => pc'[d] = pc[d] /\ op'[d] = op[d]
    BY <2>1, MovesTo
  <2>3. \A u \in Threads : InClose(e, u) => InClose(e, u)'
    BY <2>2 DEF InClose
  <2>4. closeSent'[e] => CloseDone(e)' \/ \E u \in Threads : InClose(e, u)'
    BY <1>0, <1>1, <2>3 DEF Clean, Claims, CloseDone
  <2>5. Clean(e)'
    BY <1>0, <1>1, <2>2, <2>4, CleanMove
  <2>6. \A d \in Ends : d # e => Clean(d)'
    BY <1>1, <2>2, CleanElsewhere DEF CleanInv
  <2> QED
    BY <2>5, <2>6, CleanBoth
<1> QED
  BY <1>2, <1>3

\* A write of e: its peer has heard no Close yet, and has the new piece ahead.
LEMMA CleanOfPeer ==
  ASSUME IInv, CleanInv, ~aborted, NEW e \in Ends, NEW t \in Threads,
         NEW part \in {"header", "body"}, pc[e][t] \in {"header", "body"}, Put(e, t, part),
         \A d \in Ends : d # e => pc'[d] = pc[d] /\ op'[d] = op[d]
  PROVE  /\ ~CloseDone(e) /\ wire'[Peer(e)] = wire[Peer(e)]
         /\ \A d \in Ends : d # e => Clean(d)'
<1>1. ~CloseDone(e)
  BY AfterClose
<1>2. /\ \A d \in Ends : d # e => wire'[d] = wire[d]
      /\ Len(wire[e]) \in Nat /\ Len(wire'[e]) = Len(wire[e]) + 1
  BY Putting
<1>3. UNCHANGED <<got, closed, closeSent>>
  BY DEF Put
<1>4. ASSUME NEW d \in Ends, d # e PROVE Clean(d)'
  <2>1. Peer(d) = e
    BY <1>4 DEF Ends, Peer
  <2>2. got[d] \in Nat /\ got[d] <= Len(wire[e])
    BY <2>1 DEF IInv, TypeOK
  <2>3. got[d] < Len(wire'[e])
    BY <1>2, <2>2
  <2>4. Clean(d) /\ pc'[d] = pc[d] /\ op'[d] = op[d] /\ wire'[d] = wire[d]
    BY <1>2, <1>4 DEF CleanInv
  <2> QED
    BY <1>1, <1>3, <2>1, <2>3, <2>4, CleanElsewhere
<1> QED
  BY <1>1, <1>2, <1>4, Peers

LEMMA CleanHeaderWritten ==
  ASSUME IInv, CleanInv, ~aborted, NEW e \in Ends, NEW t \in Threads, WriteHeader(e, t)
  PROVE  CleanInv'
<1>0. Clean(e) /\ ~closed[e] /\ pc[e][t] = "header" /\ Put(e, t, "header")
  BY StillOpen DEF CleanInv, WriteHeader
<1>1. UNCHANGED <<got, closed, closeSent>>
  BY <1>0 DEF Put
<1>2. Go(e, t, "body") /\ UNCHANGED op
  BY DEF WriteHeader
<1>3. /\ pc'[e][t] = "body" /\ op'[e][t] = op[e][t]
      /\ \A u \in Threads : u # t => pc'[e][u] = pc[e][u] /\ op'[e][u] = op[e][u]
      /\ \A d \in Ends : d # e => pc'[d] = pc[d] /\ op'[d] = op[d]
  BY <1>2, MovesTo
<1>4. /\ ~CloseDone(e) /\ wire'[Peer(e)] = wire[Peer(e)]
      /\ \A d \in Ends : d # e => Clean(d)'
  BY <1>0, <1>3, CleanOfPeer
<1>5. \A u \in Threads : InClose(e, u) => InClose(e, u)'
  BY <1>3 DEF InClose
<1>6. closeSent'[e] => CloseDone(e)' \/ \E u \in Threads : InClose(e, u)'
  BY <1>0, <1>1, <1>4, <1>5 DEF Clean, Claims
<1>7. Clean(e)'
  BY <1>0, <1>1, <1>3, <1>4, <1>6, CleanMove
<1> QED
  BY <1>4, <1>7, CleanBoth

LEMMA CleanBodyWritten ==
  ASSUME IInv, CleanInv, ~aborted, NEW e \in Ends, NEW t \in Threads, WriteBody(e, t)
  PROVE  CleanInv'
<1>0. /\ Clean(e) /\ ~closed[e] /\ EndInv(e)
      /\ pc[e][t] = "body" /\ Put(e, t, "body") /\ Return(e, t)
  BY StillOpen DEF CleanInv, WriteBody, Unlock, IInv
<1>1. UNCHANGED <<got, closed, closeSent>>
  BY <1>0 DEF Put
<1>2. /\ pc'[e][t] = AfterWrite(e, t) /\ op'[e][t] = "none"
      /\ \A u \in Threads : u # t => pc'[e][u] = pc[e][u] /\ op'[e][u] = op[e][u]
      /\ \A d \in Ends : d # e => pc'[d] = pc[d] /\ op'[d] = op[d]
  BY <1>0, ReturnsTo
<1>3. /\ ~CloseDone(e) /\ wire'[Peer(e)] = wire[Peer(e)]
      /\ \A d \in Ends : d # e => Clean(d)'
  BY <1>0, <1>2, CleanOfPeer
<1>4. CloseDone(e)' <=> op[e][t] = "close"
  <2>1. /\ Len(wire[e]) \in Nat /\ Len(wire'[e]) = Len(wire[e]) + 1
        /\ wire'[e][Len(wire[e]) + 1] = [kind |-> op[e][t], part |-> "body"]
    BY <1>0, Putting
  <2> QED
    BY <2>1 DEF CloseDone
<1>5. closeSent'[e] => CloseDone(e)' \/ \E u \in Threads : InClose(e, u)'
  <2>1. CASE op[e][t] = "close"
    BY <1>4, <2>1
  <2>2. CASE op[e][t] # "close"
    BY <1>0, <1>1, <1>2, <1>3, <2>2 DEF Clean, Claims, InClose
  <2> QED
    BY <2>1, <2>2
<1>6. t = Reader => pc'[e][t] = IF op[e][t] = "close" THEN "ended" ELSE "read"
  BY <1>2, ThreadFacts DEF AfterWrite
<1>7. op[e][t] = "close" => closeSent[e]
  BY <1>0 DEF EndInv, Closing, InClose
<1>8. Clean(e)'
  BY <1>0, <1>1, <1>2, <1>3, <1>5, <1>6, <1>7, CleanMove
<1> QED
  BY <1>3, <1>8, CleanBoth

LEMMA OddBelowEven ==
  ASSUME NEW n \in Nat, NEW g \in 1 .. n, g % 2 = 1, n % 2 = 0
  PROVE  g < n
OBVIOUS

\* What a reader gains by one piece: it is inside a frame, or no longer.
LEMMA OneMorePiece ==
  ASSUME IInv, NEW e \in Ends, Unread(e), got' = [got EXCEPT ![e] = @ + 1]
  PROVE  /\ got[e] \in Nat /\ got'[e] = got[e] + 1 /\ \A d \in Ends : d # e => got'[d] = got[d]
         /\ got'[e] \in 1 .. Len(wire[Peer(e)]) /\ Len(wire[Peer(e)]) \in Nat
         /\ got[e] % 2 = 1 <=> got'[e] % 2 # 1
<1>1. got[e] \in Nat /\ Len(wire[Peer(e)]) \in Nat /\ got[e] < Len(wire[Peer(e)])
  BY Peers, AppendFacts DEF IInv, TypeOK, Unread
<1>2. got'[e] = got[e] + 1 /\ \A d \in Ends : d # e => got'[d] = got[d]
  BY DEF IInv, TypeOK
<1>3. got[e] % 2 = 1 <=> (got[e] + 1) % 2 # 1
  BY <1>1
<1> QED
  BY <1>1, <1>2, <1>3

LEMMA CleanHeaderRead ==
  ASSUME IInv, CleanInv, ~aborted, NEW e \in Ends, ReadHeader(e)
  PROVE  CleanInv'
<1>0. /\ Clean(e) /\ Reader \in Threads /\ Peer(e) \in Ends /\ op[e][Reader] = "none"
      /\ pc[e][Reader] = "read" /\ ~closed[e]
      /\ UNCHANGED <<wire, closed, closeSent>>
  BY ThreadFacts, Peers DEF CleanInv, ReadHeader, IInv, EndInv, Ops
<1>1. Go(e, Reader, "payload") /\ UNCHANGED op
  BY DEF ReadHeader
<1>2. /\ pc'[e][Reader] = "payload" /\ op'[e][Reader] = "none"
      /\ \A u \in Threads : u # Reader => pc'[e][u] = pc[e][u] /\ op'[e][u] = op[e][u]
      /\ \A d \in Ends : d # e => pc'[d] = pc[d] /\ op'[d] = op[d]
  BY <1>0, <1>1, MovesTo
<1>3. /\ got[e] \in Nat /\ got'[e] = got[e] + 1 /\ \A d \in Ends : d # e => got'[d] = got[d]
      /\ got'[e] \in 1 .. Len(wire[Peer(e)]) /\ Len(wire[Peer(e)]) \in Nat
      /\ got[e] % 2 = 1 <=> got'[e] % 2 # 1
  BY OneMorePiece DEF ReadHeader
<1>4. got'[e] % 2 = 1
  BY <1>0, <1>3 DEF Clean, Halfway
<1>5. CloseDone(Peer(e)) => got'[e] < Len(wire[Peer(e)])
  <2>1. CloseDone(Peer(e)) => Len(wire[Peer(e)]) % 2 = 0
    BY <1>0, AfterClose
  <2> QED
    BY <1>3, <1>4, <2>1, OddBelowEven
<1>6. (Quit(e) /\ Heard(e) /\ Replied(e) /\ Halfway(e) /\ Ahead(e))'
  BY <1>0, <1>2, <1>4, <1>5 DEF Quit, Heard, Replied, Halfway, Ahead, CloseDone
<1>7. Claims(e)'
  BY <1>0, <1>2 DEF Clean, Claims, CloseDone, InClose
<1>8. Clean(e)'
  BY <1>2, <1>6, <1>7 DEF Clean
<1>9. \A d \in Ends : d # e => Clean(d)'
  BY <1>0, <1>2, <1>3, CleanElsewhere DEF CleanInv
<1> QED
  BY <1>8, <1>9, CleanBoth

\* The body of a Close is the last piece its end has written.
LEMMA CloseIsLast ==
  ASSUME IInv, NEW e \in Ends, NEW i \in 1 .. Len(wire[e]), i % 2 # 1,
         wire[e][i].kind = "close"
  PROVE  i = Len(wire[e]) /\ CloseDone(e)
<1>0. EndInv(e) /\ wire[e] \in Seq(Pieces) /\ Len(wire[e]) \in Nat
  BY AppendFacts DEF IInv, TypeOK
<1>1. wire[e][i] = [kind |-> wire[e][i - 1].kind, part |-> "body"]
  BY <1>0 DEF EndInv, Whole
<1>2. i \in Nat /\ i > 0 /\ i - 1 \in 1 .. Len(wire[e]) /\ (i - 1) % 2 = 1
  <2>1. i \in Nat /\ i > 0
    BY <1>0
  <2>2. i - 1 \in 1 .. i /\ i - 1 # i /\ (i - 1) % 2 = 1
    BY <2>1, EvenBody
  <2> QED
    BY <1>0, <2>1, <2>2
<1>3. wire[e][i - 1] = CloseHeader
  <2>1. wire[e][i - 1].part = "header"
    BY <1>0, <1>2 DEF EndInv, Whole
  <2>2. wire[e][i - 1].kind = "close" /\ wire[e][i - 1] \in Pieces
    BY <1>0, <1>1, <1>2
  <2> QED
    BY <2>1, <2>2 DEF Pieces, CloseHeader
<1>4. Len(wire[e]) <= i
  <2>1. Len(wire[e]) <= (i - 1) + 1
    BY <1>0, <1>2, <1>3 DEF EndInv, Closing
  <2> QED
    BY <1>0, <1>2, <2>1
<1>5. i = Len(wire[e])
  BY <1>0, <1>4
<1> QED
  BY <1>0, <1>1, <1>2, <1>5 DEF CloseDone

LEMMA CleanPayloadRead ==
  ASSUME IInv, CleanInv, ~aborted, NEW e \in Ends, ReadPayload(e)
  PROVE  CleanInv'
<1> DEFINE kind == NextPiece(e).kind
<1>0. /\ Clean(e) /\ Reader \in Threads /\ Peer(e) \in Ends /\ op[e][Reader] = "none"
      /\ pc[e][Reader] = "payload" /\ ~closed[e] /\ Receive(e, kind)
      /\ UNCHANGED <<wire, closed, closeSent>>
  BY ThreadFacts, Peers DEF CleanInv, ReadPayload, IInv, EndInv, Ops
<1>1. /\ got[e] \in Nat /\ got'[e] = got[e] + 1 /\ \A d \in Ends : d # e => got'[d] = got[d]
      /\ got'[e] \in 1 .. Len(wire[Peer(e)]) /\ Len(wire[Peer(e)]) \in Nat
      /\ got[e] % 2 = 1 <=> got'[e] % 2 # 1
  BY OneMorePiece DEF ReadPayload
<1>2. got'[e] % 2 # 1
  BY <1>0, <1>1 DEF Clean, Halfway
<1>3. kind = wire[Peer(e)][got'[e]].kind
  BY <1>1 DEF NextPiece
<1>4. /\ IF kind = "close" THEN pc'[e][Reader] = "claim" /\ op'[e][Reader] = "close"
         ELSE pc'[e][Reader] \in {"lock", "read"} /\ op'[e][Reader] # "close"
      /\ \A u \in Threads : u # Reader => pc'[e][u] = pc[e][u] /\ op'[e][u] = op[e][u]
      /\ \A d \in Ends : d # e => pc'[d] = pc[d] /\ op'[d] = op[d]
  <2>1. CASE kind = "close" \/ (kind = "ping" /\ e \notin Manual)
    <3>1. /\ op' = [op EXCEPT ![e][Reader] = Answer(kind)]
          /\ Go(e, Reader, IF Answer(kind) = "close" THEN "claim" ELSE "lock")
      BY <1>0, <2>1 DEF Receive, Begin
    <3> QED
      BY <1>0, <2>1, <3>1 DEF Go, Answer, IInv, TypeOK
  <2>2. CASE ~(kind = "close" \/ (kind = "ping" /\ e \notin Manual))
    <3>1. Go(e, Reader, "read") /\ UNCHANGED op
      BY <1>0, <2>2 DEF Receive
    <3>2. /\ pc'[e][Reader] = "read" /\ op'[e][Reader] = op[e][Reader]
          /\ \A u \in Threads : u # Reader => pc'[e][u] = pc[e][u] /\ op'[e][u] = op[e][u]
          /\ \A d \in Ends : d # e => pc'[d] = pc[d] /\ op'[d] = op[d]
      BY <1>0, <3>1, MovesTo
    <3> QED
      BY <1>0, <2>2, <3>2
  <2> QED
    BY <2>1, <2>2
<1>5. kind = "close" => CloseDone(Peer(e))
  BY <1>0, <1>1, <1>2, <1>3, CloseIsLast
<1>6. CloseDone(Peer(e)) /\ kind # "close" => got'[e] < Len(wire[Peer(e)])
  BY <1>1, <1>3 DEF CloseDone
<1>7. (Quit(e) /\ Heard(e) /\ Replied(e) /\ Halfway(e) /\ Ahead(e))'
  BY <1>0, <1>2, <1>4, <1>5, <1>6 DEF Quit, Heard, Replied, Halfway, Ahead, CloseDone
<1>8. Claims(e)'
  <2>1. ~InClose(e, Reader)
    BY <1>0 DEF InClose
  <2> QED
    BY <1>0, <1>4, <2>1 DEF Clean, Claims, CloseDone, InClose
<1>9. Clean(e)'
  BY <1>4, <1>7, <1>8 DEF Clean
<1>10. \A d \in Ends : d # e => Clean(d)'
  BY <1>0, <1>1, <1>4, CleanElsewhere DEF CleanInv
<1> QED
  BY <1>9, <1>10, CleanBoth

\* Nobody's write or read fails before somebody aborts.
LEMMA NothingFails ==
  ASSUME IInv, CleanInv, ~aborted, NEW e \in Ends
  PROVE  ~ReadFails(e) /\ \A t \in Threads : ~WriteFails(e, t)
<1>0. /\ Clean(e) /\ Peer(e) \in Ends /\ Clean(Peer(e)) /\ Peer(Peer(e)) = e
      /\ Reader \in Threads /\ Len(wire[Peer(e)]) \in Nat
  BY Peers, ThreadFacts, AppendFacts DEF CleanInv, IInv, TypeOK
<1>1. \A t \in Threads : ~WriteFails(e, t)
  BY StillOpen DEF WriteFails
<1>2. ASSUME ReadFails(e) PROVE FALSE
  <2>1. pc[e][Reader] \in {"read", "payload"} /\ op[e][Reader] = "none" /\ ~closed[e]
    BY <1>0, <1>2, StillOpen DEF ReadFails, IInv, EndInv, Ops
  <2>2. closed[Peer(e)] /\ ~Unread(e)
    BY <1>2, <2>1 DEF ReadFails
  <2>3. CloseDone(Peer(e))
    BY <1>0, <2>2, QuitIsDone
  <2>4. got[e] < Len(wire[Peer(e)])
    BY <1>0, <2>1, <2>3 DEF Clean, Ahead
  <2> QED
    BY <2>2, <2>4 DEF Unread
<1> QED
  BY <1>1, <1>2

LEMMA CleanLeft ==
  ASSUME IInv, CleanInv, ~aborted, NEW e \in Ends, Leave(e)
  PROVE  CleanInv'
<1>0. /\ Clean(e) /\ UNCHANGED <<wire, got, closeSent, pc, op>>
      /\ \A d \in Ends : d # e => closed'[d] = closed[d]
  BY DEF CleanInv, Leave, CloseTransport, IInv, TypeOK
<1>1. pc[e][Reader] = "ended" /\ \A w \in Writers : pc[e][w] = "idle"
  BY <1>0 DEF Leave, Clean
<1>2. Clean(e)'
  BY <1>0, <1>1 DEF Clean, Quit, Claims, Heard, Replied, Halfway, Ahead, CloseDone, InClose
<1>3. \A d \in Ends : d # e => Clean(d)'
  BY <1>0, CleanElsewhere DEF CleanInv
<1> QED
  BY <1>2, <1>3, CleanBoth

LEMMA CleanStep == IInv /\ CleanInv /\ [Next]_vars => CleanInv'
<1> SUFFICES ASSUME IInv, CleanInv, [Next]_vars PROVE CleanInv'
  OBVIOUS
<1>1. CASE aborted
  <2>1. aborted'
    BY <1>1 DEF Next, Call, Write, Claim, Lock, WriteHeader, WriteBody, Put, WriteFails, Read,
       ReadHeader, ReadPayload, ReadFails, Leave, Abort, vars, transport
  <2> QED
    BY <2>1 DEF CleanInv
<1>2. CASE ~aborted /\ UNCHANGED vars
  BY <1>2, CleanElsewhere DEF CleanInv, vars, transport
<1>3. CASE ~aborted /\ Next
  <2> PICK e \in Ends :
        \/ \E w \in Writers, kind \in {"data", "ping", "close"} : Call(e, w, kind)
        \/ \E t \in Threads : Write(e, t)
        \/ Read(e)
        \/ Leave(e) \/ Abort(e)
    BY <1>3 DEF Next
  <2>1. CASE \E w \in Writers, kind \in {"data", "ping", "close"} : Call(e, w, kind)
    BY <1>3, <2>1, CleanCalled
  <2>2. CASE \E t \in Threads : Write(e, t)
    BY <1>3, <2>2, CleanClaimed, CleanLocked, CleanHeaderWritten, CleanBodyWritten,
       NothingFails DEF Write
  <2>3. CASE Read(e)
    BY <1>3, <2>3, CleanHeaderRead, CleanPayloadRead, NothingFails DEF Read
  <2>4. CASE Leave(e)
    BY <1>3, <2>4, CleanLeft
  <2>5. CASE Abort(e)
    BY <2>5 DEF Abort, CleanInv
  <2> QED
    BY <2>1, <2>2, <2>3, <2>4, <2>5
<1> QED
  BY <1>1, <1>2, <1>3

\* As long as applications close the transport only when their own calls have
\* returned, no ReadMessage ends otherwise than with the peer's Close: each
\* end's Close is on the wire, and read, before its transport goes.
THEOREM NoUncleanEnd == Spec => []EndsClean
<1>1. CleanInv => EndsClean
  BY DEF CleanInv, Clean, EndsClean
<1> QED
  BY <1>1, CleanInitially, CleanStep, Invariance, PTL DEF Spec

=============================================================================
