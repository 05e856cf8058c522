# A TLA+ verification of goplus

TLA+ models of the parts of goplus that keep state while something else moves
(the language server, the generation driver, the concurrent and durable packages
of the standard library) and of the part of the compiler whose mistakes would
reach running programs without a word: pattern matching. TLC checks them on small
instances, TLAPS proves the safety of most of them for every instance. `PROJECT.json` gives, for
every definition, the source lines it stands for, and lists the runs, the
hazards and the theorems.

## The system

goplus compiles `.gp` files (Go with enums, pattern matching, dependent types,
laws and proofs) to plain Go written beside them, and ships a standard library
that is itself written in Go+. What it consists of:

| Part | Source | State | Operations | What must hold |
|---|---|---|---|---|
| Language server, diagnostics | `internal/lsp/server.gp`, `handlers.gp` | overlays, debounce timer, `s.holes`, `genMu` | didOpen/Change/Save/Close, the debounced generation, publication | what is shown is never older than what was, agrees with hover, and comes to reflect the buffers |
| Language server, delegation | `internal/lsp/goplsclient.go`, `transport.go` | the pipe to the editor, the pipe to gopls, its request numbers, `s.maps` | `Forward`, `request`, `syncOutputs`, `write` | frames are whole; an answer rests on one generation; every query is answered |
| Generation driver | `internal/gen/gen.go`, `internal/emit` | outputs on disk, orphans, the git index | `gen.Run` in the modes write, `-check`, `-stage` | hand-written files survive; success means current; nothing torn is staged |
| Artifact sync | `internal/artifactio` | artifact tree, manifest | `Sync` | what the manifest owned and no longer holds is removed, after crashes too |
| Sagas | `std/workflow`, `std/fsatomic` | the journal file, the effects of steps | `Run`, `Compensate`, `FileJournal` | a journaled step is not repeated; the journal is true; resuming completes |
| WebSocket connection | `std/websocket/conn.go` | `closeSent`, `writeMu`, the wire | `ReadMessage`, the write methods, `WriteClose`, `Close` | frames are whole; nothing follows a Close; the closing handshake ends |
| Memory arena | `std/memory/memory.gp`, `group.gp` | bytes, free list, allocations, order, generation; a group's handles | `Allocate`, `Write`, `Zero`, `Delete`, `Checkpoint`, `Rollback`, `Reset`, `Close`; `Group.Allocate`, `Reset`, `Release` | no byte has two owners; nothing released can be read; an invalid handle stays so; a group leaves nothing behind |
| HTTP transport | `std/http/transport.go`, `std/http3/transport.go` | the Alt-Svc cache, the broken alternatives, the HTTP/3 transport and its connections | `RoundTrip`, `ObserveAltSvc`, `MarkHTTP3`, `CloseIdleConnections`, `client`, `Close` | a request that cannot be replayed is sent once; the cache does not contradict itself; closed transports hold nothing; HTTP/3 is found again |
| Match resolution | `internal/resolve/match.go`, `useful.go`, `chain.go` | analysis of the arms, the matrix, the step budget | `matchCandidate`, `useful`, `chainEmit` | what is accepted runs its first matching arm; what is refused is refused for a reason |
| Latch | `std/latch` | a counter, a trip switch, two once-guards, `Done` | `Inc`, `Dec`, `Trip` | no rendezvous is lost; `Done` closes once, after `Trip` |
| Fake clock | `std/clock` | now, registrations of two shapes | `After`, `AfterFunc`, `Stop`, `Advance` | deliveries in deadline order, each once; time never goes back |
| Retry; memo, closeonce, guarded | `std/retry`, `std/memo`, ... | attempts and delay; a published value, a guard, a lock | `Do`, `Wait`; `Do`, `Close`, `With` | attempts are bounded; callers see one value |
| Schedule | `std/schedule` | none | next occurrence | the least matching instant, across changes of the local time |
| The rest of the resolver, kernel, lowering | `internal/resolve`, `internal/core`, `internal/lower` | edits of a pass | `Fixpoint`, evaluation, unification | a fixpoint or an error; sound judgements |
| Front ends, Java backend, solvers, encoders | `internal/cli`, `internal/goml`, `internal/javabackend`, `std/smt`, ... | none between calls | pure functions of their input | |

How they interact: `goplus gen` and the language server both call the
generation driver; the server calls it through `goml.Run` with the editor's
buffers as overlays and writes nothing to disk, but pushes the outputs to gopls.
`std/workflow` persists through `std/fsatomic`. `std/retry` and other packages
take the clock as a capability, and `std/clock`'s Fake is what tests give them
(`std/retry` waits on a `time.Timer` of its own).
`std/http` makes an `std/http3` transport when it first needs one, gives it a dial
function that consults the Alt-Svc cache, and may close it under requests that use
it. The generation driver calls the resolver for every source; a match it accepts
becomes a type switch or a chain of assertions in the generated Go.

Which behaviours are hard: the server's main loop, its timers and its generation
goroutines share buffers, holes, maps and two pipes under three locks; a
generation run may be killed between any two of its file operations, and so may
a saga, whose renames may moreover be undone by a power loss; a WebSocket
connection has several writers, answers from its read loop, and a transport that
blocks; a latch is four atomic variables and no lock; a group of allocations takes
the arena's lock for one handle at a time; an HTTP request learns how it fared only
after other requests, a closed transport or the clock have changed the cache it
writes its outcome to; and whether a match covers every value depends on patterns
inside patterns, on guards, on constructors that cannot occur, and on a budget.

## Modules

A module's actions are the steps between which others may act: an atomic
operation, a critical section, one write to a pipe or one file operation. What
runs under one lock is one action. Every module lists first its constants with
their assumptions, then its state, then the *defects*: mutated forms of its
actions with which each property has been seen to fail. Variables marked
`history` do not exist in the code; actions never depend on them.

| Module | Models | State in the code |
|---|---|---|
| `Latch` | `latch.gp`, each atomic operation a step | `tripped`, `inflight`, `done`, `tripOnce`, `closeOnce`; `pc` is where each goroutine stands in `Inc`, `Dec` or `Trip`; `owed` and `closes` are history |
| `LspDiagnostics` | editor, `Serve`, `SetOverlay`, `DropOverlay`, `ScheduleDiagnostics`, `runDiagnostics` | `overlays`, `debounce`, `holes`, `genMu` are the Server's fields; `inbox` is stdin; `shown` is what the editor displays; `snap`, `verdict`, `pending` are locals of `runDiagnostics` |
| `FreshView` | the abstract promise of a view that may lag and never goes back | implemented by `LspDiagnostics` with `current <- rev, view <- seen` |
| `LspDelegate` | `conn.write`, `request`, `syncOutputs`, `Forward`, `HoverHole`, `mapBack`, with gopls as an external process | `stdout`, `stdin` say whose body is due; `cmu` is `goplsClient.mu`; `next`, `maps`, `gopls` are fields; `toGopls`, `fromGopls`, `docs`, `asked` are gopls and its pipes |
| `FakeClock` | `After`, `AfterFunc`, `Stop`, `Advance` of the Fake | `now`; `regs` holds the two slices in insertion order, with the state of each registration; `target` is `Advance`'s local |
| `GenRun`, `MCGenRun` | `gen.Run`: what it reads (`Load`), where it looks for orphans (`ListOrphans`), its return on diagnostics, the pass over outputs, refusals, orphans, `git add` | `src`, `out`, `index` are files on disk and in git; `view`, `authored`, `todo`, `orphans`, `touched`, `diags`, `stale` are Run's locals |
| `Saga` | `workflow.Run`, `Compensate`, `FileJournal`, `fsatomic.WriteFile` | `seen` is the record as `Load` reads it, `disk` the set of records a power loss may leave; `rec`, `at` are locals; `inPlace` is what steps have done outside |
| `WsConn` | two `Conn`s and the transport between them | `closeSent`, `writeMu` are fields; `wire` is all an end has written, `got` how much of it the peer has read |
| `Arena` | `memory.gp` and `group.gp`; a call on the arena is one action, a group's loop one action per `Delete` | `storage`, `cursor`, `free`, `allocations`, `order`, `nextID`, `generation`, `used`, `live` are the Arena's fields, `members`, `released` a Group's; `loop` is where `releaseHandles` stands; `points` and `issued` are what callers hold |
| `AltTransport` | `RoundTrip` with everything it does to the cache, `client` and `Close` of the HTTP/3 transport; each section under a lock and each wait for the network a step | `capability`, `broken`, `h3` are fields, for one origin; `status`, `conn` belong to each `http3.Transport`; `req` is where each request stands; `settled` is the server from a point on, for liveness |
| `Match`, `MCMatch` | `matchCandidate` from arms to emitted Go, and that Go run on a value | `clauses`, `arms`, `rows`, `steps`, `errors` are its locals and `usefulCtx`, `at` the counters of its loops; `value`, `next`, `outcome` belong to the emitted Go |
| `LatchProofs`, `LspProofs`, `FakeClockProofs`, `SagaProofs`, `WsConnProofs`, `ArenaProofs`, `AltTransportProofs`, `CompilerProofs` (of `GenRun` and `Match`) | the theorems | |

What is abstracted. A text is what generation makes of it: clean, a typed hole,
or an error that hides every other file's holes (`Diagnose`). A source is a
member of a small set, and an output is the view of all sources it was computed
from, since uses are resolved across packages. A message is its kind and the
generation it belongs to. A frame is its kind, in two pieces. A step of a saga
is in place or not. A byte of an arena holds the allocation that last wrote it, or
zero. An authority is a model value, and an Alt-Svc header says nothing, clears, or
names one. Which constructors a column of a match admits is given as data,
since the type and index unification that decides it is not modelled; patterns, the
witness and the budget are kept as the code has them. The matrix is a set of rows,
since `useful` depends neither on their order nor on repetitions, and its recursion
is one function, `UsefulFor`: a search has a problem, the heads of its first column
still to try (one constructor, all that can occur, or 0 for the default matrix) and
the calls made so far. The recursive calls of the code and its loop over the
possible constructors are the two recursive uses.

## Runs

| Run | Instance | Distinct states | Shows |
|---|---|---|---|
| `latch` | 3 workers, 2 trippers | 3 207 | `RendezvousNotLost`, `FiresOnceAfterTrip`, `TrippedEventuallyFires` |
| `latch_waits` | 2 workers, 1 tripper | violated | `WaitsForInflight` (finding 1) |
| `lsp_diagnostics` | 2 files, 3 timers, 3 editor actions | 414 075 | `HolesAreShown`, refinement of `FreshView`, `OpenFilesConverge` |
| `lsp_delegate` | 2 outputs, 2 generations, 2 queries, gopls talks, asks and dies | 374 059 | `FramesToGoplsWhole`, `AnswersOnOneGeneration`, `MapsCoverAnswers`, `QueriesAnswered` |
| `fake_clock` | 3 registrations, time up to 2, durations and steps 0 to 2 | 179 315 | `FiresInOrder`, `DeliveredOnce`, `NothingOverdue`, `AdvanceReturns` |
| `gen_run` | a source and a test source, 2 texts (symmetric), 3 moves of the user, crashes | 9 750 287 | `EndsCurrent`, `StagedIsComplete`, `HandWrittenKept`, `CheckOnlyReads` |
| `saga` | 3 steps, 2 with a compensation, 6 faults | 46 547 | `JournaledNotRepeated`, `JournalIsTrue`, `OnlyTheStepInFlightIsLeft`, `ResumeCompletes` |
| `ws_conn` | 2 ends, a writer and a reader each, 2 calls each, a transport of 2 pieces | 327 230 | `FramesWhole`, `NothingAfterClose`, `EndsClean`, `HandshakeEnds` |
| `arena` | 3 bytes, 4 allocations of 1 or 2 bytes at alignment 1 or 2, a checkpoint, a reset, a group | 1 540 249 | `SpansDisjoint`, `AccountsAgree`, `NothingLeftToRead`, `HandlesNotRevived`, `RollbackUndoes`, `GroupLeavesNothing` |
| `alt_transport` | 2 requests, 1 alternative, 2 HTTP/3 transports | 933 565 | `SentOnce`, `KnownOrBroken`, `ClosedLeavesNothing`, `BackToHTTP3` |
| `alt_suppressed` | 1 request at a time | violated | `FailedIsSuppressed` (finding 2) |
| `match` | up to 4 of 22 arms over a GADT at `int`, a budget of 30, every value and nil | 1 722 350 | `RunsFirstArm`, `RejectsWithReason`, `DeadArmsRejected` |

Type correctness is proved (below) for every module but two: the invariants of `Arena`
and `Match` carry as much of the types as their proofs need. The run of `LspDelegate` checks it as well (`DelegateTypeOK`), since what its two pipes
may carry is its protocol.

### Bounds, and why they are enough

- `latch`: the races are between one goroutine that brings the counter to zero,
  one that arms the latch and one that is admitted in between; the third worker
  and the second tripper let each role be contended. Calls are not bounded.
- `lsp_diagnostics`: `MaxEdits` counts the editor's actions. Three timers are one
  generating, one waiting for `genMu` and one armed; two files let a publication
  be cut between files. Three actions are an edit on either side of a generation
  and one more, of another kind or of the other file.
- `lsp_delegate`: two generations make an old one and a new one; two queries make
  one under way and one after; `MaxPipe` = 1 bounds only what gopls sends of its
  own accord, so that one message always can come before a response.
- `fake_clock`: three registrations are one that fires, one it makes in its
  callback and one of another goroutine, in every order of deadlines with ties.
  `MaxNow` bounds the targets: at most two drains move the clock, and drains of
  length 0 are not bounded.
- `gen_run`: the number of runs is not bounded, only the user's moves between and
  during them. Two sources are one that is passed and one that is ahead; one of them
  is a test source, whose output `loadDir` never parses, so that a cut output may end
  the next run in a diagnostic or be refused by it. Three moves are a source that is
  there, one that comes or goes while a run is under way, and a hand-written file.
- `saga`: `MaxFaults` counts failures, kills, power losses and compensations; the
  number of calls of `Run` is not bounded. Three steps with the middle one without
  a compensation cover the first, the last and one that is skipped backwards.
- `ws_conn`: with a transport of two pieces, one frame fills it, so every write
  may have to wait; two calls per end are a data frame or a Ping and a Close.
  `MaxCalls` bounds calls only: the answers of the read loop are not bounded.

- `arena`: three bytes hold one allocation of each size, or three of one byte, so
  that padding, a split span, coalescing and reuse at the same place and length all
  happen; four allocations are one more than fit, so one must have been released.
  `MaxGeneration` = 2 gives one Reset with life before and after it.
- `alt_transport`: two requests give an outcome recorded after another's, a dial
  that loses its race and a connection shared. Two transports are one that is
  closed with requests on it and its successor; requests are not bounded.
- `match`: every sequence of up to four arms out of 22, of every kind the analysis
  tells apart. Patterns look two levels into a value (`Depth`), which is one level
  below the switch: the specialisation of a nested column and its return are the
  recursive step of `useful`. `Budget` stands for 100 000 and is such that some of
  these matches exceed it and most do not; without a wildcard, complete nested
  matches of this instance need up to 35 steps.

Deadlock is not checked where the system may rightly stop: when the editor, the
goroutines, the applications or the callers have nothing more to do, or the match is over. `GenRun` and `Saga` can
always be run again, and are checked for deadlock.

### Fairness

Fairness is asked of what the code's own scheduling provides, and never of users.

- `Latch`: a call that has begun goes on, and admitted work ends; nobody need
  call `Inc` or `Trip`.
- `LspDiagnostics`: the main loop and the generation goroutines are scheduled and
  timers expire; the editor may stop at any time. `genMu` needs no strong
  fairness: a goroutine that waits is one of finitely many timers, and the editor's
  actions are bounded.
- `LspDelegate`: a received call runs on; `goplsClient.mu` is granted to who keeps
  asking (`sync.Mutex` hands a starving waiter the lock, hence the strong fairness
  of `RequestLock`); a live gopls works through its messages. gopls may die instead.
- `FakeClock`: the goroutine in `Advance` runs on. That `Advance` returns needs the
  bound on registrations: a callback that re-registers for ever keeps it in its
  loop, which is what the code does.
- `Saga`: calls that have begun go on and the caller calls `Run` again and again;
  `ResumeCompletes` then needs the bound on faults.
- `WsConn`: goroutines in a call go on; whether the application writes, closes or
  aborts is its own affair.
- `AltTransport`: every request goes on, dials and round trips end, a detached
  transport is closed, the cooldown passes, and callers do not stop making ordinary
  requests. `BackToHTTP3` claims nothing of a server that comes and goes: it speaks
  of one that stays at its alternative from some point on (`Settle`), in Auto mode.
- `Arena` and `Match` have no liveness: the arena's calls end, and the analysis and
  the code it emits are loops over finite sequences.

## What is proved

TLAPS proves the following for every value of the constants, from the
assumptions the modules state about them (`ThreadsAssumption`, `LspAssumption`,
`ClockAssumption`, `GenAssumption`, `SagaAssumption`, `WsAssumption`,
`ArenaAssumption`, `AltAssumption`, `MatchAssumption`: sets of goroutines are disjoint and finite where they are counted, bounds are natural
numbers). In particular the bounds above are arbitrary in the theorems. Of matches,
`MatchAssumption` says besides that the constructors of a column have names of their
own, that `_` and the names the module gives to a nil and to a value that is not of
an enum are not among them, and that an arm has a pattern and `_` no alternatives,
which `parseMatchCase` sees to (`internal/syntax/parser/goplus.go:402`).

| Module | Theorems | Argument |
|---|---|---|
| `LatchProofs` | `TypeCorrect`, `NoLostRendezvous`, `FiresOnce` | `inflight` is the cardinality of the workers between `Inc` and `Dec`, so it is never negative and no `Inc` brings it to zero; whoever does bring it to zero, or stores `tripped`, is `Responsible` until it has seen `Done` closed; `closeOnce` admits one closer |
| `LspProofs`, of `LspDiagnostics` | `TypeCorrect`, `DebounceIsSingle`, `HoverAgreesWithDiagnostics`, `ShowsFreshView` | only the holder of `genMu` is past the lock (`LockInv`); its copy is no older than anything published (`FreshInv`), so a publication is a `Refresh` of `FreshView`, a write of `s.overlays` a `Change`, and everything else a stutter; what it publishes is what it put into `s.holes` (`SameInv`) |
| `LspProofs`, of `LspDelegate` | `ConversationsTyped`, `GoplsReadsWholeMessages`, `AnswersKnowOneGeneration`, `MapsNotBehindAnswers` | whoever is between a header and its body holds `goplsClient.mu` (`ClientMuInv`). What gopls will know once it has processed the first messages of the pipe is stated of the documents it has and of those messages (`TextAfter`): at every request in the pipe that is one generation, and while `syncOutputs` runs it is the new one for the outputs already pushed (`TextsInv`). Whatever comes from gopls, or is still on its way, is no newer than the maps (`MapsInv`) |
| `FakeClockProofs` | `TypeCorrect`, `DeliversInOrder`, `DeliversOnce`, `LeavesNothingOverdue`, `TimeNeverGoesBack` | whatever is live is due no earlier than now and comes after all that was delivered (`LiveIsLater`); a new registration takes a number larger than any delivered; only the step that finds nothing due ends a drain. Hypothesis `NoPast`: no caller asks for a negative duration. With one, `AfterFunc` registers in the past and the next `Advance` sets `now` back |
| `CompilerProofs`, of `GenRun` | `TypeCorrect`, `SuccessMeansCurrent`, `NothingHalfStaged`, `HandWrittenSurvives`, `CheckNeverWrites` | what a run has passed is settled (`BehindInv`): as generated, or refused and the run knows it, or the run is a check and knows it is stale, or its source came or went before the orphans were listed (`raced`); what it has touched it never truncates again (`TouchedInv`), and what it is about to do is safe (`AheadInv`) |
| `CompilerProofs`, of `Match` | `UsefulSays`, `MatchRunsFirstArm`, `MatchErrorsGrounded` | a vector of values that a head of the first column can build is matched by a row exactly if both match when they are expanded (`RowExpanding`), and the heads that are tried leave out only what has no values or is left to the default matrix (`CoveredByHeads`). By induction on the calls left, a search that ends within its budget either covers the query or has a witness that no row matches (`SearchSays`). The rows are the alternatives above that no guard can turn away (`RowsAreArms`), so an accepted match is exhaustive over values (`Exhaustive`); what the emitted tests look at is all there is in the patterns of the lowering that was chosen (`LoweredAsFits`), and an arm that was passed has a guard or does not match (`Passed`) |
| `SagaProofs` | `TypeCorrect`, `NeverTwice`, `JournalTrue`, `CompensatesAll` | every record a power loss may leave covers the settled steps (`SettledIsDurable`), and until a compensation begins claims only steps in place (`Truthful`); while every `Run` went on from a certain record, each such record is at most one step behind what is in place (`LeftInv`) |
| `WsConnProofs` | `TypeCorrect`, `FramesAreWhole`, `NothingFollowsClose`, `NoUncleanEnd` | stated per end, since an end's wire depends on that end alone: `writeMu` is held exactly between a header and its body (`Mutex`); the wire is torn only meanwhile or when the transport is closed (`Whole`); the one goroutine that won `closeSent` writes its Close when no other frame can follow (`Closing`). Until somebody aborts, an end closes its transport only once it has both written its own Close and read its peer's, so whoever still reads has a Close ahead of it (`Ahead`) and no write or read fails (`CleanInv`) |
| `ArenaProofs`, the handles | `NeverRevived`, `GroupsLeaveNothing` | `nextID` only grows and a handle carries the generation it was issued in (`HandlesInv`), so a step may end a handle and not begin one (`Monotone`); whatever a group's loop has passed no longer resolves (`GroupInv`), and by the former stays so while others use the arena. Nothing here depends on where `takeFree` and `coalesce` put things |
| `ArenaProofs`, the bytes | `NeverShared`, `AccountsHold`, `NothingLeft`, `RollbacksUndo`, `CoalescedKeeps`, `PlacementKeeps` | `CoalescedKeeps`: `coalesce` covers the same bytes with spans that stay apart, whatever list it is given. `PlacementKeeps`: what Allocate takes is free or was never allocated, and padding and tail go back. With these the layout, the order of the ids, the accounts and what a byte holds are one inductive invariant (`ArenaInv`); `PointsInv` says what a checkpoint has above and below it, which is what makes Rollback release exactly the later allocations |
| `AltTransportProofs` | `TypeCorrect`, `NeverSentTwice`, `NeverBoth`, `NothingLeftOpen` | a request that cannot be replayed and is still on its way has been handed to nobody, and in a mode with a fallback one with such a body is never near HTTP/3 (`RequestOk`); whichever outcome is recorded last writes both maps (`CacheInv`); a transport is closed and loses its connection in one section, and no later section gives it one (`PoolInv`) |

None of the properties is inductive by itself. `NothingAfterClose`, for
instance, says nothing of a Close that is claimed and not yet written; `Closing`
says that there is one such goroutine, and that until it has written its header
there is no Close on the wire, which is what makes the check of `closeSent`
under `writeMu` sufficient. Each invariant was checked by TLC before it was
proved (`Match`'s without `MatchTypes`, whose sets are infinite).

Three operators of `Arena` are recursive, over data of any length: `coalesce`'s two
loops, Rollback's loop, and the sums of the accounts. The library's induction
theorems take an operator as a parameter and cannot be used, so the induction is
made from well-foundedness instead: `ByRank` says that a set which contains x
whenever it contains everything of smaller rank is everything, because a least
element outside it would be a contradiction; and `Recursion` that a recursion in
which every step descends in rank defines a function. `CoalesceUnfolds`,
`LaterUnfolds` and `SumsUnfold` apply the latter to the three recursions, and what they compute is
proved by the former. The rank of `coalesce` is the square of the number of spans,
since its inner loop starts again after each step of the outer one.

`Match` recurses over patterns, whose rank is their depth (`Terms`), over the depth
of values, and over searches, whose rank is the budget that is left; `Norm`,
`Matched`, `Resolving`, `Values` and `UsefulFor` are therefore functions with sets of
patterns, depths and searches as their domains, and `NormUnfolds`, `MatchedUnfolds`,
`ResolvingUnfolds`, `ValuesUnfold` and `UsefulForUnfolds` say that they compute what
their definitions say, for patterns of any depth and any budget. The budget is what
makes `useful` end, and that it was not exceeded is what makes its answer true, as in
the code.

Only model-checked: all liveness (`TrippedEventuallyFires`, `OpenFilesConverge`,
`QueriesAnswered`, `AdvanceReturns`, `ResumeCompletes`, `HandshakeEnds`,
`BackToHTTP3`), since fairness and ENABLED are beyond the prover; `DeadArmsRejected`;
and the second half of `RejectsWithReason`, that there are values of which a witness
speaks. `MatchErrorsGrounded` is the other half. Both need more than `MatchAssumption`:
a constructor with a field that nothing can build has no values, and the code asks for
an arm for it nevertheless; and a witness may look one level further into a value than
the arms do, where the values of the model end.

## Findings

1. **A latch may close `Done` with work in flight** (`latch_waits`). `Dec`'s
   decrement and its load of `tripped` (`std/latch/latch.gp:47-48`) are two atomic
   operations. A `Dec` that reached zero before `Trip`, and loads `tripped` after an
   admitted `Inc` and the `Trip`, closes `Done` under that worker. The package
   comment says "the moment the counter reaches zero".
2. **A failure is charged to the wrong authority** (`alt_suppressed`).
   `markHTTP3Broken` (`std/http/transport.go:279`) suppresses the authority the cache
   holds by then, not the one that was dialled. A success over an alternative has made
   `MarkHTTP3` rewrite the cached authority to the origin's own (line 224), so when the
   alternative fails next, the origin is suppressed, the unchanged Alt-Svc of the
   fallback's answer brings the alternative back, and the next request probes it
   again. The package's README promises five minutes without.

Divergences that the modules state and no run is spent on. Each was found by TLC
on a small instance of its module:

- **Messages to the editor may be mixed** (`FramesToEditorWhole` in `LspDelegate`).
  `conn.write` (`internal/lsp/transport.go:82`) writes header and body apart and
  without a lock; the main loop's replies and a generation's publications share stdout.
- **A failed `-stage` run is never made up for** (`StagesWhatItChanged` in `GenRun`).
  `git add` of a deleted orphan that was never tracked fails as a whole
  (`internal/gen/gen.go:432`); the outputs it wrote are current by the next run,
  which touches nothing, stages nothing and succeeds.
- **A successful run may delete what it has just written** (`SuccessIsWhatWasRead` in
  `GenRun`). The sources are read at `internal/gen/gen.go:145`, the orphans looked for
  at line 222. A source that is deleted in between is an output (written at 406) and an
  orphan (removed at 422); one that is created in between is neither, and a generated
  file of old stays at its output path. The run reports success. `EndsCurrent` shows
  that this befalls those sources only. A next run during which none comes or goes
  makes it good.
- **A write that is cut is not made good by the next run** of a source that is no test.
  `loadDir` parses every Go file without a goplus header (line 513), so a prefix that
  ends inside the header line is a parse error and the run writes nothing, until somebody
  deletes the file; of a test source it is refused, as a hand-written file would be.
- **A deleted journal record may come back** (`DeletedStaysDeleted` in `Saga`).
  `FileJournal.Delete` does not sync the directory
  (`std/workflow/filejournal.go:71`), `Save` does; after a power loss the next `Run`
  takes the steps of a compensated saga for done.
- **A peer's Close is returned before ours is written** (`CloseAnswered` in `WsConn`).
  `writeClose` claims `closeSent` before it writes (`std/websocket/conn.go:335`), and
  `ReadMessage` drops the error it then gets. An application that closes the
  transport as soon as `ReadMessage` has returned `io.EOF` leaves its peer without
  a Close.
- **A group may never release what it holds** (`GroupCallsReleaseMembers` in
  `Arena`). A member that was deleted through its handle, or rolled back, ends
  `releaseHandles` (`std/memory/group.gp:43`) with InvalidHandle, every time it is
  called, and the members before it stay allocated until the arena is reset.

- `ClosedBuffersForgotten` (`LspDiagnostics`) does not hold: closing a buffer
  changes what generation reads and schedules no generation
  (`internal/lsp/handlers.gp:24`). `OpenFilesConverge` therefore waits for the next
  notification that does schedule one after a buffer was dropped or a generation
  failed (history variable `stale`).
- `OneGenerationPerAnswer` (`LspDelegate`) does not hold: `Forward` reads `s.maps`
  before and after it waits for gopls. `AnswersOwnRequest` does not hold when gopls
  sends requests of its own whose number is the one awaited
  (`internal/lsp/goplsclient.go:80`).
- `StoppedRemovedLazily` (`FakeClock`) does not hold: stopped timers are skipped and
  stay in the slice, although `TimerLen`'s comment says they are removed.
- `Chronological` (`FakeClock`) does not hold with negative durations.
- `OnlyTheStepInFlightIsLeft` (`Saga`) is false without its condition `~unsynced`:
  a `Run` that resumes from a record that was renamed into place and not synced may
  lose that record after it has begun the next step.
- `WsConn`'s applications read on when a Ping that came after their own Close makes
  `ReadMessage` return `net.ErrClosed` (`std/websocket/conn.go:141`). One that stops
  there never reads the peer's Close.
- Two ends that ping each other over full transports stop reading for good, each
  writing a Pong from its read loop (`Jammed`). It is reachable, and
  `HandshakeEnds` shows that nothing else keeps a closing handshake from ending.
- Of the arena: a checkpoint below which a Rollback has cut the order is accepted
  again once the order has grown past it (`std/memory/memory.gp:308`), and then undoes
  less than was allocated since, which `RollbackUndoes` says. `SpansApart` does not
  hold: `coalesce` leaves adjacent spans apart when the left one grows late
  (`memory.gp:450`), and the padding before an allocation placed at the cursor
  belongs to nobody until Reset; an allocation may then be refused that would fit.
  A handle does not name its arena.
- Of the HTTP transport: a success extends what was advertised to 24 hours, whatever
  its `ma` said; a success that comes late clears the mark of a failure after it; an
  answer's Alt-Svc is not looked at when the body kept the request from HTTP/3
  (`Direct`). `CloseIdleConnections` closes connections that are in use, and the
  requests on them mark a healthy origin as broken; `BackToHTTP3` shows that this is
  made good. With PriorKnowledge, two requests may keep undoing each other for ever,
  which is why `BackToHTTP3` is about Auto.
- Of matching: a pattern that names an impossible constructor below its head is
  accepted, although `features/enums/exhaustiveness.feature:4-5` calls GADT-impossible
  patterns hard errors; `DeadArmsRejected` leaves such patterns out. "Too complex ...
  add a `case _:` arm" need not help, since the rows of the other arms still cost
  steps. A nil of the enum's interface type matches no constructor: it gets to the
  panic, or falls through silently to the statement after the match when the panic
  is left out (`chain.go:90`), so `RunsFirstArm` promises an arm only for what a
  constructor has built. A field whose enum is of another package is an opaque
  column (`chain.go:267`), where the bare name of a nullary constructor is taken for
  a binder and matches anything.

## Not modelled

The rest of the compiler (parsing, the other passes of resolution, lowering, the
kernel, the Java backend) and the solvers and encoders of the library are pure
functions of unbounded inputs: their control is recursion over data, which bounded
runs reach thinly and the prover not at all; together they are most of the
repository's lines. `std/internal/quic` is a fork of `golang.org/x/net/quic`; of
`std/http3`, which builds on it, the pool of connections is modelled and the
protocol is not. `process` and the configuration packages keep no state of their
own between calls or own it linearly. Within the modelled parts:

- `GenRun` takes what a run generates as a function of the sources and the
  hand-written files of the package, or diagnostics; parsing, resolution, law-test
  planning and residue checks are inside that function. What packages.Load finds on
  disk beside the outputs (a torn orphan, say) may make resolution fail:
  `EndInDiagnostics` may happen whenever a run has been loaded. The user touches the
  output paths only between runs: a file written there between `CheckOverwrite` and
  the write, or between the listing of an orphan and its removal, would be lost, and
  `HandWrittenKept` does not speak of those. Permissions and symbolic links are left out.
- `LspDelegate` bounds neither pipe: whether gopls stops reading while it cannot
  write is a property of gopls. Shutdown is the exit of the main loop.
- `Saga` has one caller: the journal has no lock, and the package promises none.
- `WsConn` leaves out fragments, which a `Conn` never sends, compression, protocol
  violations of a foreign peer, and write deadlines, under which half a frame may
  stay on the wire (`std/websocket/conn.go:310`).

- `Arena` leaves out calls that are refused, which change nothing, `Peak`, which only
  `Stats` reports, and the buffers and builders other packages put on top.
- `AltTransport` has one origin and one connection per origin
  (`MaxConnectionsPerOrigin` above one is left out), and neither plain http nor the
  mode HTTP2Or1Only, which use the fallback alone. Dead connections stay in the pool
  of `http3.Transport` and are skipped; they are left out.
- `Match` leaves out refinement carriers, the erased companion of a generic
  scrutinee, scalar matches, boxed enums and the text of bindings; a guard may be
  true or false at will.

## Plan

In the order of their importance:

1. `ArtifactSync`: `internal/artifactio` `Sync` across crashes. The manifest is written
   with the outputs, before the orphans it no longer owns are removed
   (`artifactio.go:83`); an abstract specification of a tree that is exactly what its
   last successful `Sync` was given, and what of it survives a crash.
2. The websocket `Assembler` (`message.go:86-218`) as a function on frames, against a
   reference on whole messages; then as a part of `WsConn`'s reader.
3. `AltTransport` with several connections per origin, and the abstract promise of a
   cache that lags behind the server and does not contradict itself.
4. `Match`: the erased companion of a generic scrutinee and scalar matches, and
   index terms as data that narrows the columns.
5. `std/retry`: attempts, delays and cancellation; `memo`, `closeonce`, `guarded` in one
   module of shared values.
6. `std/schedule`'s next occurrence against the least matching instant, around a
   change of the local time; `std/semver`'s order; both as operators over bounded
   inputs.
7. `resolve.Fixpoint`: the bounded iteration (`resolve.go:35`) over an abstract
   rewriting relation.
8. Proofs: `DeadArmsRejected` and the witnesses of `RejectsWithReason`, for signatures
   in which every column has values and with values one level deeper than the arms.
