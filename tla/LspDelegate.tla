----------------------------- MODULE LspDelegate -----------------------------
(***************************************************************************)
(* internal/lsp: the two conversations of the language server.  On stdout  *)
(* the main loop answers requests while a generation publishes; towards    *)
(* gopls the main loop forwards queries (Forward, request) while a         *)
(* generation pushes its outputs (syncOutputs) under goplsClient.mu.       *)
(*                                                                         *)
(* conn.write is two writes, header and body, with no lock of its own.     *)
(* Generations are numbered; a source map, a gopls document and an answer  *)
(* carry the number of the generation they come from.                      *)
(*                                                                         *)
(* The names differ from those of LspDiagnostics: LspProofs extends both.  *)
(***************************************************************************)
EXTENDS Integers, Sequences, FiniteSets

CONSTANTS
  Outputs,     \* the generated files
  MaxGens,     \* bound on generations
  MaxQueries,  \* bound on the editor's requests
  MaxPipe,     \* bound on unread messages gopls sends of its own accord
  GoplsAsks    \* does gopls send requests to its client?

ASSUME DelegateAssumption ==
  /\ IsFiniteSet(Outputs)
  /\ MaxGens \in Nat /\ MaxQueries \in Nat /\ MaxPipe \in Nat
  /\ GoplsAsks \in BOOLEAN

Writers == {"main", "gen"}
Nobody  == "nobody"

\* A pipe the server writes to: whose body is due, and whether the parts of
\* two messages have been mixed.
Pipes == [due : Writers \cup {Nobody}, torn : BOOLEAN]

VARIABLES
  stdout,    \* the pipe to the editor
  stdin,     \* the pipe to gopls
  mainPc,    \* main loop
  dirty,     \* a debounce timer is pending
  query,     \* the query in hand: its number and what Forward has gathered
  queries,   \* queries received so far
  gopls,     \* s.gopls and its process: "nil", "up" or "dead"
  cmu,       \* the holder of goplsClient.mu
  next,      \* goplsClient.next
  toGopls,   \* messages gopls has yet to process
  fromGopls, \* messages the client has yet to read
  docs,      \* inside gopls: the generation of each open document, 0 if none
  asked,     \* inside gopls: how many requests it has sent
  gen,       \* the generation goroutine that holds genMu: where it stands
  gens,      \* how many generations have started
  toSync,    \* local to syncOutputs: outputs still to push
  maps,      \* the generation s.maps was built from, 0 before the first
  holed      \* s.holes is not empty

delegateVars ==
  <<stdout, stdin, mainPc, dirty, query, queries, gopls, cmu, next, toGopls,
    fromGopls, docs, asked, gen, gens, toSync, maps, holed>>

mainVars  == <<mainPc, dirty, query, queries, next>>
genVars   == <<gen, gens, toSync, maps, holed>>
goplsVars == <<gopls, toGopls, fromGopls, docs, asked>>

Intact  == [due |-> Nobody, torn |-> FALSE]
NoQuery == [id |-> 0, fwd |-> 0, taken |-> "nothing", on |-> {}, back |-> 0]

MainStages == {"start", "read", "map", "lock", "header", "body", "await", "back",
               "reply", "replyBody", "exited"}
GenStages  == {"idle", "publish", "publishBody", "install", "lock", "header", "body",
               "over"}

\* conn.write, first and second write.
Header(pipe, who) == [due |-> who, torn |-> pipe.torn \/ pipe.due # Nobody]
Body(pipe, who)   == [due |-> Nobody, torn |-> pipe.torn \/ pipe.due # who]

-----------------------------------------------------------------------------
(* Defects of the code, for the mutation runs.                             *)

\* syncOutputs does not take goplsClient.mu.
SyncLockDropped ==
  /\ gen = "lock"
  /\ gen' = "header"
  /\ UNCHANGED <<stdout, stdin, mainVars, goplsVars, cmu, gens, toSync, maps, holed>>

\* syncOutputs returns with goplsClient.mu held.
SyncReturnKeepsLock ==
  /\ gen = "header"
  /\ toSync = {}
  /\ gen' = "idle"
  /\ UNCHANGED <<stdout, stdin, mainVars, goplsVars, cmu, gens, toSync, maps, holed>>

\* The maps are built once and not replaced by later generations.
InstallMapsOnce ==
  /\ gen = "install"
  /\ maps' = IF maps = 0 THEN gens ELSE maps
  /\ gen' = IF gopls = "nil" THEN "idle" ELSE "lock"
  /\ toSync' = IF gopls = "nil" THEN {} ELSE Outputs
  /\ UNCHANGED <<stdout, stdin, mainVars, goplsVars, cmu, gens, holed>>

\* request takes whatever arrives first for its response.
IsResponseAny(m) == TRUE

-----------------------------------------------------------------------------
DelegateInit ==
  /\ stdout = Intact
  /\ stdin = Intact
  /\ mainPc = "start"
  /\ dirty = FALSE
  /\ query = NoQuery
  /\ queries = 0
  /\ gopls = "nil"
  /\ cmu = Nobody
  /\ next = 1
  /\ toGopls = <<>>
  /\ fromGopls = <<>>
  /\ docs = [o \in Outputs |-> 0]
  /\ asked = 0
  /\ gen = "idle"
  /\ gens = 0
  /\ toSync = {}
  /\ maps = 0
  /\ holed = FALSE

\* The main loop ------------------------------------------------------------

\* initialize: startGopls finds no gopls, or has it answer request 1; nothing
\* else runs yet, so that exchange is one step.
Initialize ==
  /\ mainPc = "start"
  /\ mainPc' = "reply"
  /\ \/ gopls' = "up" /\ next' = 2
     \/ UNCHANGED <<gopls, next>>
  /\ UNCHANGED <<stdout, stdin, dirty, query, queries, cmu, toGopls, fromGopls, docs,
                 asked, genVars>>

\* didOpen, didChange, didSave: the buffers change and a timer is armed.
Edited ==
  /\ mainPc = "read"
  /\ dirty' = TRUE
  /\ UNCHANGED <<stdout, stdin, mainPc, query, queries, next, cmu, goplsVars, genVars>>

Receive(label) ==
  /\ mainPc = "read"
  /\ queries < MaxQueries
  /\ queries' = queries + 1
  /\ mainPc' = label
  /\ UNCHANGED <<stdout, stdin, dirty, query, next, cmu, goplsVars, genVars>>

\* shutdown, and every method that is not supported: a reply and nothing else.
Other == Receive("reply")

\* HoverHole finds a hole at the position: answered from s.holes.
HoverHole == holed /\ Receive("reply")

\* hover that is not on a hole, definition, completion.
Forward == Receive("map")

\* Forward reads its map under s.mu; without gopls, without a map, or at a
\* position that was not generated, there is no answer.
ReadMap ==
  /\ mainPc = "map"
  /\ \/ /\ gopls # "nil" /\ maps # 0
        /\ mainPc' = "lock"
        /\ query' = [query EXCEPT !.fwd = maps]
     \/ mainPc' = "reply" /\ UNCHANGED query
  /\ UNCHANGED <<stdout, stdin, dirty, queries, next, cmu, goplsVars, genVars>>

RequestLock ==
  /\ mainPc = "lock"
  /\ cmu = Nobody
  /\ cmu' = "main"
  /\ query' = [query EXCEPT !.id = next]
  /\ next' = next + 1
  /\ mainPc' = "header"
  /\ UNCHANGED <<stdout, stdin, dirty, queries, goplsVars, genVars>>

\* request returns, with a result or an error, and unlocks.
RequestReturn(label) ==
  /\ cmu' = Nobody
  /\ mainPc' = label

RequestHeader ==
  /\ mainPc = "header"
  /\ stdin' = Header(stdin, "main")
  /\ mainPc' = "body"
  /\ UNCHANGED <<stdout, dirty, query, queries, next, cmu, goplsVars, genVars>>

RequestBody ==
  /\ mainPc = "body"
  /\ stdin' = Body(stdin, "main")
  /\ toGopls' = IF gopls = "up"
                THEN Append(toGopls, [kind |-> "request", id |-> query.id]) ELSE toGopls
  /\ mainPc' = "await"
  /\ UNCHANGED <<stdout, dirty, query, queries, next, cmu, gopls, fromGopls, docs, asked, genVars>>

\* m.ID is this request's, whatever else the message is.
IsResponse(m) == m.kind # "note" /\ m.id = query.id

\* The read loop of request: skip, or take the message and return.
RequestRead ==
  /\ mainPc = "await"
  /\ fromGopls # <<>>
  /\ fromGopls' = Tail(fromGopls)
  /\ LET m == Head(fromGopls) IN
       IF IsResponse(m)
       THEN /\ RequestReturn("back")
            /\ query' = [query EXCEPT !.taken = m.kind,
                                      !.on = IF m.kind = "response" THEN m.on ELSE {}]
       ELSE UNCHANGED <<mainPc, cmu, query>>
  /\ UNCHANGED <<stdout, stdin, dirty, queries, next, gopls, toGopls, docs, asked, genVars>>

\* gopls is gone: a write or the read fails and there is no answer.
RequestFails ==
  /\ gopls = "dead"
  /\ mainPc \in {"header", "body", "await"}
  /\ mainPc = "await" => fromGopls = <<>>
  /\ RequestReturn("reply")
  /\ query' = NoQuery
  /\ stdin' = Intact
  /\ UNCHANGED <<stdout, dirty, queries, next, goplsVars, genVars>>

\* mapBackLocation looks the map up again, under s.mu.
MapBack ==
  /\ mainPc = "back"
  /\ mainPc' = "reply"
  /\ query' = [query EXCEPT !.back = maps]
  /\ UNCHANGED <<stdout, stdin, dirty, queries, next, cmu, goplsVars, genVars>>

ReplyHeader ==
  /\ mainPc = "reply"
  /\ stdout' = Header(stdout, "main")
  /\ mainPc' = "replyBody"
  /\ UNCHANGED <<stdin, dirty, query, queries, next, cmu, goplsVars, genVars>>

ReplyBody ==
  /\ mainPc = "replyBody"
  /\ stdout' = Body(stdout, "main")
  /\ mainPc' = "read"
  /\ query' = NoQuery
  /\ UNCHANGED <<stdin, dirty, queries, next, cmu, goplsVars, genVars>>

\* exit: gopls is killed and the process ends, whatever a generation is doing.
Exit ==
  /\ mainPc = "read"
  /\ mainPc' = "exited"
  /\ gen' = "over"
  /\ gopls' = IF gopls = "up" THEN "dead" ELSE gopls
  /\ UNCHANGED <<stdout, stdin, dirty, query, queries, next, cmu, toGopls, fromGopls,
                 docs, asked, gens, toSync, maps, holed>>

\* A generation: what of runDiagnostics reaches the pipes -------------------

\* The timer has fired and goml.Run came back; its holes replace s.holes before
\* anything is published.  With no file open and nothing found nothing is.
Generated ==
  /\ gen = "idle"
  /\ dirty
  /\ dirty' = FALSE
  /\ gens < MaxGens
  /\ gens' = gens + 1
  /\ \/ gen' = "publish" /\ holed' \in BOOLEAN
     \/ gen' = "install" /\ holed' = FALSE
  /\ UNCHANGED <<stdout, stdin, mainPc, query, queries, next, goplsVars, cmu, toSync, maps>>

PublishHeader ==
  /\ gen = "publish"
  /\ stdout' = Header(stdout, "gen")
  /\ gen' = "publishBody"
  /\ UNCHANGED <<stdin, mainVars, goplsVars, cmu, gens, toSync, maps, holed>>

\* The last notification of a clean generation is followed by the install; a
\* hole is a diagnostic, so a generation with holes is not clean.
PublishBody ==
  /\ gen = "publishBody"
  /\ stdout' = Body(stdout, "gen")
  /\ \/ gen' \in {"publish", "idle"}
     \/ ~holed /\ gen' = "install"
  /\ UNCHANGED <<stdin, mainVars, goplsVars, cmu, gens, toSync, maps, holed>>

\* s.outputs and s.maps are replaced under s.mu.
InstallMaps ==
  /\ gen = "install"
  /\ maps' = gens
  /\ gen' = IF gopls = "nil" THEN "idle" ELSE "lock"
  /\ toSync' = IF gopls = "nil" THEN {} ELSE Outputs
  /\ UNCHANGED <<stdout, stdin, mainVars, goplsVars, cmu, gens, holed>>

SyncLock ==
  /\ gen = "lock"
  /\ cmu = Nobody
  /\ cmu' = "gen"
  /\ gen' = "header"
  /\ UNCHANGED <<stdout, stdin, mainVars, goplsVars, gens, toSync, maps, holed>>

SyncHeader ==
  /\ gen = "header"
  /\ toSync # {}
  /\ stdin' = Header(stdin, "gen")
  /\ gen' = "body"
  /\ UNCHANGED <<stdout, mainVars, goplsVars, cmu, gens, toSync, maps, holed>>

\* didOpen or didChange with the output's text; write errors are ignored.
SyncBody ==
  /\ gen = "body"
  /\ stdin' = Body(stdin, "gen")
  /\ gen' = "header"
  /\ \E o \in toSync :
       /\ toSync' = toSync \ {o}
       /\ toGopls' = IF gopls = "up"
                     THEN Append(toGopls, [kind |-> "text", file |-> o, gen |-> gens])
                     ELSE toGopls
  /\ UNCHANGED <<stdout, mainVars, cmu, gopls, fromGopls, docs, asked, gens, maps, holed>>

SyncReturn ==
  /\ gen = "header"
  /\ toSync = {}
  /\ cmu' = Nobody
  /\ gen' = "idle"
  /\ UNCHANGED <<stdout, stdin, mainVars, goplsVars, gens, toSync, maps, holed>>

\* gopls --------------------------------------------------------------------

\* gopls takes its messages in order: a text replaces the document, a request
\* is answered on the documents as they are.
GoplsProcess ==
  /\ gopls = "up"
  /\ toGopls # <<>>
  /\ toGopls' = Tail(toGopls)
  /\ LET m == Head(toGopls) IN
       IF m.kind = "text"
       THEN docs' = [docs EXCEPT ![m.file] = m.gen] /\ UNCHANGED fromGopls
       ELSE /\ fromGopls' = Append(fromGopls,
                 [kind |-> "response", id |-> m.id, on |-> {docs[o] : o \in Outputs}])
            /\ UNCHANGED docs
  /\ UNCHANGED <<stdout, stdin, mainVars, genVars, cmu, gopls, asked>>

\* publishDiagnostics, progress and log messages.
GoplsNotifies ==
  /\ gopls = "up"
  /\ Len(fromGopls) < MaxPipe
  /\ fromGopls' = Append(fromGopls, [kind |-> "note"])
  /\ UNCHANGED <<stdout, stdin, mainVars, genVars, cmu, gopls, toGopls, docs, asked>>

\* A server-to-client request, numbered by gopls from 1.
GoplsRequests ==
  /\ GoplsAsks
  /\ gopls = "up"
  /\ Len(fromGopls) < MaxPipe
  /\ asked < MaxQueries + 1
  /\ asked' = asked + 1
  /\ fromGopls' = Append(fromGopls, [kind |-> "ask", id |-> asked + 1])
  /\ UNCHANGED <<stdout, stdin, mainVars, genVars, cmu, gopls, toGopls, docs>>

GoplsDies ==
  /\ gopls = "up"
  /\ gopls' = "dead"
  /\ toGopls' = <<>>
  /\ UNCHANGED <<stdout, stdin, mainVars, genVars, cmu, fromGopls, docs, asked>>

-----------------------------------------------------------------------------
Request == RequestLock \/ RequestHeader \/ RequestBody \/ RequestRead \/ RequestFails

\* The steps of a call that has been received.
Answering == ReadMap \/ Request \/ MapBack \/ ReplyHeader \/ ReplyBody

Main == Initialize \/ Edited \/ Other \/ HoverHole \/ Forward \/ Answering \/ Exit

Publication == PublishHeader \/ PublishBody
Sync == SyncLock \/ SyncHeader \/ SyncBody \/ SyncReturn
Generation == Generated \/ Publication \/ InstallMaps \/ Sync

Gopls == GoplsProcess \/ GoplsNotifies \/ GoplsRequests \/ GoplsDies

DelegateNext == Main \/ Generation \/ Gopls

DelegateSpec == DelegateInit /\ [][DelegateNext]_delegateVars

\* A call that was received runs on, a generation that holds goplsClient.mu
\* returns, and a live gopls works through its messages.  The lock is granted
\* to a goroutine that keeps asking.
DelegateFairSpec ==
  /\ DelegateSpec
  /\ WF_delegateVars(Answering)
  /\ SF_delegateVars(RequestLock)
  /\ WF_delegateVars(Sync)
  /\ WF_delegateVars(GoplsProcess)

-----------------------------------------------------------------------------
ToGoplsMessages ==
  [kind : {"request"}, id : Nat] \cup [kind : {"text"}, file : Outputs, gen : Nat]

FromGoplsMessages ==
  [kind : {"note"}] \cup [kind : {"ask"}, id : Nat]
    \cup [kind : {"response"}, id : Nat, on : SUBSET Nat]

\* Both conversations carry only messages of their protocols.
DelegateTypeOK ==
  /\ stdout \in Pipes /\ stdin \in Pipes
  /\ mainPc \in MainStages /\ gen \in GenStages /\ dirty \in BOOLEAN
  /\ query \in [id : Nat, fwd : Nat, taken : {"nothing", "response", "ask"},
                on : SUBSET Nat, back : Nat]
  /\ queries \in Nat /\ next \in Nat /\ asked \in Nat /\ gens \in Nat /\ maps \in Nat
  /\ gopls \in {"nil", "up", "dead"}
  /\ cmu \in Writers \cup {Nobody}
  /\ toGopls \in Seq(ToGoplsMessages)
  /\ fromGopls \in Seq(FromGoplsMessages)
  /\ docs \in [Outputs -> Nat]
  /\ toSync \in SUBSET Outputs
  /\ holed \in BOOLEAN

\* Messages to gopls are never mixed: goplsClient.mu covers a request from its
\* header to its response and syncOutputs from its first text to its last.
FramesToGoplsWhole == ~stdin.torn

\* gopls answers on the texts of one generation, never on a workspace of which
\* only some files have been replaced: the same lock keeps requests out of the
\* middle of syncOutputs.
AnswersOnOneGeneration == Cardinality(query.on) <= 1

\* What Forward answers is the response to the request it sent ("reads until
\* its response arrives").
AnswersOwnRequest == query.taken \in {"nothing", "response"}

\* gopls is never ahead of the maps: a location in its answer can be mapped
\* back through a generation at least as new.
MapsCoverAnswers ==
  mainPc = "reply" /\ query.taken = "response" => \A g \in query.on : g <= query.back

\* conn frames messages: what the editor reads is one message after another.
FramesToEditorWhole == ~stdout.torn

\* Forward "maps a .gp position through the latest generation, asks gopls, and
\* maps result positions back": one generation from end to end.
OneGenerationPerAnswer ==
  mainPc = "reply" /\ query.taken = "response" =>
    query.on \subseteq {0, query.fwd} /\ query.back = query.fwd

\* Every query is answered, whether gopls answers, is busy with a generation's
\* texts, sends other messages first, or dies.
QueriesAnswered == mainPc = "map" ~> mainPc \in {"read", "exited"}

=============================================================================
