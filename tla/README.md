# A verification project for lib_litert_lm

`lib_litert_lm` is a Dart package that runs the LiteRT-LM inference runtime on
Android.  A model is loaded and generates in a *worker isolate*; the runtime's own
threads deliver its texts through a small C++ *bridge*; the *main isolate* talks to
the worker over ports; *public handles* and an *OpenAI-style HTTP server* are built on
that.  What is hard about it is what happens between these parts: callbacks on native
threads, cancels that cross completions, handles that go while somebody uses them, a
worker that dies, a server that closes under its requests.  Two Python tools decide
whether a build may be released: one verifies native bundles and packages, one collects
evidence from a real device.  They are hard for other reasons: files that change under
them, devices and processes that fail half-way, verdicts that must not be too kind.

The modules here model that, TLC checks them on small instances, and TLAPS proves every
safety property the runs check, of the callback bridge, the worker, the token budget, the
client, the handles, the server's lifecycle, the device collector and the bundle verifier, for
every size.  `PROJECT.json` lists components,
runs, mutants (a plausible bug for every property, which the property's run must find),
the source lines of every definition, findings, hazards and theorems.

Run a check with `tlc -config LrlmBridge.cfg LrlmBridge.tla` and a proof with
`tlapm LrlmBridgeProofs.tla`.  Paths below are relative to the repository.

## 1. Inventory

| Component | Source | State it keeps | Operations |
|---|---|---|---|
| Callback bridge | `native/litert_lm_bridge.cc` | id counter, registry of operations, per operation a bounded queue with its byte count and five flags, count of live events | create, start, cancel, needs_cancel, is_final, take, delete, event delete; `Callback` on native threads |
| Native worker isolate | `lib/src/native_backend.dart`, `_NativeWorker` | engines, sessions (native handle, committed history, preface, phase), running operations, timer | load/dispose engine, create/dispose session, generate, credit, cancel, budget, metrics, close; the 2 ms pump |
| Token budget and metrics | `native_backend.dart` `_budget`, `_metrics`, `_loadEngine`; `native/litert_lm_model_bridge.cc` | effective context, the native cache, benchmark counters | admission of a request, budget queries, counting |
| Main-isolate client | `native_backend.dart`, `NativeLiteRtLmBackend` | pending requests, registered streams with their controllers, closing/closed | requests, streams with listen, pause, resume, cancel, close; receiving; the worker's end |
| Public handles | `lib/src/types.dart` | a tree of `_HandleState`: closed flag, dispose future | create, dispose, and what values look like |
| HTTP server | `lib/src/openai_server.dart` | the HttpServer, the close future, requests, registered cancels | bind, close, serve, four completion handlers |
| Fake backend | `lib/src/fake_backend.dart` | ids, cancelled runs | a test double of the backend |
| Example app | `example/lib/main.dart` | a screen over one client, engine and conversation | load, generate, cancel, new conversation, dispose |
| Validation tool | `tool/android_validate.py` | a plan with digests, files on a device, child processes, a sampler thread, a folder of evidence per run | plan, query, install, deploy, run a native test, sample, stop, evaluate, conclude |
| Bundles and builds | `tool/verify_android_bundle.py`, `tool/build_litert_lm_android.sh` | the bundle with its provenance, a checkout, a stage | check out, build, record provenance, install; verify a directory, an APK, an AAB |
| CI, bindings | `.github`, `lib/src/bindings` | none | generated code |

**How they interact.**  A handle calls the backend; the backend sends a command over a
port and completes a future, or feeds a stream controller, from the messages that come
back.  The worker handles one command or timer tick at a time; inside a handler it makes
native calls, among them destructors that join the runtime's threads.  Those threads
call `Callback`, which looks an operation up by number, keeps a `shared_ptr`, and
queues an event under the operation's mutex.  The pump takes at most one event per
operation and tick, and a text only when the consumer has given credit.  The server
creates a session per request and disposes it in a `finally`.  The tools are apart from
that: the build script and the verifier share a stage directory and the bundle; the
collector drives `adb` and `flutter` as child processes, and its main thread, a sampler
thread, `logcat` and the native test meet in one evidence folder.

**What is hard, and what makes each part correct.**

* *Bridge*: late and concurrent callbacks, both limits of the queue, a cancel around the
  final chunk.  Correct: bounded, exactly one terminal, no gap before a `complete`, exact
  accounting, ids never used again.
* *Worker*: native threads between any two calls of a handler, poisoned handles, failures
  half-way.  Correct: no use after delete, no producer without its operation, tables that
  agree, history = completed turns, handlers and streams that end, a clean exit.
* *Token budget*: handles that are rebuilt and temporary handles.  Correct: what is
  admitted fits, a budget is the same on every handle, metrics add up.
* *Client*: port messages crossing calls, the worker's death.  Correct: everything asked
  comes to its end, a cancel's future means cleaned up, no text dropped, no starvation.
* *Handles*: disposal while creating.  Correct: no leak, an open handle is alive, a
  completed dispose means gone.
* *Server*: bind, close and handlers interleaving at every `await`.  Correct: close
  cancels, completes, and leaves nothing running.
* *Validation tool*: uploads that are cut off, devices that keep old files, tests that
  ignore signals, logs with older lines, interrupts and kills anywhere.  Correct: a test
  only sees files whose digest was checked, a pass is earned, an attempt ends and leaves
  nothing behind.
* *Bundles*: sources edited during a build, stripped, cached and exchanged libraries,
  alignments.  Correct: what is accepted is current, whole, linkable and loadable.

The hazards behind these, each at its line and with the properties that would catch it,
are in `PROJECT.json`.

## 2. Modules

| Module | Models | Notes |
|---|---|---|
| `EventStream` | what a consumer of one operation is promised | abstract: numbered texts, a seal, one terminal |
| `LrlmBridge` | the C++ bridge | implements `EventStream` |
| `LrlmBridgeProofs` | | theorems about `LrlmBridge` |
| `NativeWorker` | the worker isolate over the bridge | `INSTANCE LrlmBridge`; `MCNativeWorker` adds fairness |
| `NativeWorkerProofs` | | theorems about `NativeWorker`, over an instance of `LrlmBridgeProofs` |
| `TokenBudget` | context, budgets, admission, metrics | `MCTokenBudget` gives the artifacts |
| `TokenBudgetProofs` | | theorems about `TokenBudget` |
| `ClientPort` | the main isolate's backend, its two ports and as much of the worker as they show | `MCClientPort` adds fairness |
| `ClientPortProofs` | | theorems about `ClientPort` |
| `HandleTree` | the public handles over a backend that answers in order | `HandleTreeProofs` |
| `OpenAiServer` | the server's lifecycle and its handlers | `OpenAiServerProofs` |
| `RunEvaluation` | what reports in an output show | operators; `AndroidValidate` extends it |
| `AndroidValidate` | the device collector | `MCAndroidValidate` gives runs, reports and contents |
| `AndroidValidateProofs` | | theorems about the deployment, about what is left and about the verdict |
| `ElfLayout` | the layout and identity of a library | operators; `BundleVerifier` extends it |
| `BundleVerifier` | building, packaging and verifying native libraries | `MCBundleVerifier` gives layouts and notes |
| `BundleVerifierProofs` | | theorems about what is accepted |

### LrlmBridge

`object[id]` is an `Operation`, `operations` the registry, `callback[t]` the `shared_ptr`
a native thread holds between `Find` and the mutex: `CallbackFind` and `CallbackRun` are
two actions, so a delete, a cancel or another callback may come between.  The worker is
one thread, and only it erases from the registry, so each of its calls is one action;
a native start is two (`StartBegin`, then `StartOk` or `StartFailed`) with callbacks in
between.  A text is its number and its size; an `LrlmEvent` is destroyed with the last
owner of its queue (`Release`).  `texts`, `read` and `outcome` are history: what the
runtime produced and what the worker took.

### NativeWorker

A handler of the event loop is a list of steps `todo`, each at most one native call;
the next command or tick is taken when it is empty.  A step may put further ones in front: a
loop over a copy of a map's keys is a step that holds what is left of the copy
(`PumpStep(ks)`, `EngineStep(e, ss)`, `CloseStep(es)`).  `completed` is history: the messages
of the turns each session reported complete.  Between two steps the runtime's
threads act (`RuntimeFind`, `RuntimeRun`, `RuntimeEnd`), one thread per session handle.
`DeleteHandle` waits for the thread, as the destructor does.  A native handle is modelled
by the messages it knows (`preface`, `said`), which is what a poisoned or rebuilt handle
is about; a conversation begins with its configured messages (`Prompt`) or without any.
The artifact's checks and the validation of messages are "refused or goes on".  Once a batch
was rebuilt for, its start can still fail: no operation id is left (`IdsExhausted`), or a call
throws (`StartThrows`).  The handle then holds the prefix of a batch that was never sent;
`leftover` remembers it.  After `testCrash` events are suppressed; after `exit` nothing runs.

### TokenBudget

One engine, one session, and a list of messages is its number of tokens.  The model
assumes what the code calls "exact": counts are additive, and rendering a committed
history again costs what it cost the first time.  `kv` is what the native cache holds.
`prefillOnInit` is the runtime's choice whether a preface is prefilled when a handle is
opened; no source here tells it, so both are checked and proved.

### ClientPort

`inbox` and `outbox` are the two ports, in order; `consumer[k]` is a stream controller
with its listener.  A listener may pause or cancel while it hears an event (`React`),
which is how `controller.add` re-enters the backend's callbacks.  The death notice
(`onExit`, `onError`) is a separate action that may overtake messages.  Buffered events
are delivered by `Flush`, interleaved with everything else.  The worker is reduced to:
answers requests, runs streams by credit, ends them, is told, closes, dies.

### HandleTree and OpenAiServer

`HandleTree` keeps `_closed` and the dispose futures of a tree of handles; the backend
takes requests in order, some time later.  `engine.generate` (create, generate, dispose)
is a sequence of its actions.  `OpenAiServer` cuts `bind`, `close` and the handlers at
their awaits.  Reading and checking a request is `Refused` or `_handle`; a connection may
fail at any write; the end of a peer is told at any time after the server listens for it.
`bind` and `close` may be called at any time, also during each other; `overlapped` is history:
a `bind`, or a `close` that is not answered with an earlier future, was called during a `bind`.

### RunEvaluation and AndroidValidate

`RunEvaluation` is `parse_reports`, `evaluate_run` and the status that `execute` derives
from them, over reports that are records of what is asked of them.  `AndroidValidate` is
`--run`.  `main.at` is the place of the main thread, one for each statement that can fail,
wait, be interrupted or be seen by another actor; `Handler` says where an exception goes
from there, so that every `try`, `finally` and `except` of `deploy_file`, `run_logged`,
`execute` and `main` is in one definition.  `host[f]` and `device[f]` are contents, known
by their digests; `partial` is the upload under its temporary name.  Beside the main thread
act the sampler (`Sample`, cut where it looks at `stopped`), the child processes
(`ProcessEnds`; `stop_process` is SIGTERM, a wait, SIGKILL, a wait), whoever edits the
host's files, a device that goes, a user's interrupt, and whoever kills the collector and
starts it again (`Crash`, `Again`): only the host's files and the final names on the device
outlive it.  The native test is what it prints (`Outputs`), after
`example/integration_test/native_model_test.dart`: the reports of `Harness` in their order, or
one thing wrong with them.  `HarnessAssumption` says of `Harness` only what that program does:
it prints reports of the kinds in `Wanted`, none twice.

### ElfLayout and BundleVerifier

`verify_elf` is arithmetic over segments; `binary_identity` is the build ID, which stripping
keeps, or the whole file.  `contract` is what is in the repository now (bridge, bindings,
pinned revision), `build` the build script from checkout to stage, `bundle` the directory
with its manifest.  A library remembers what it was built from (`built`), which the verifier
does not see and the properties talk about.  Edits come between any two steps of a build.
The build stages the libraries it made and then, over them, what the vendor directories hold
(`Found`, whatever that is); `vendored` is history, and no check reads it.
Gradle is external: a package is any member of `Packages`, the bundle as it is or stripped,
less a library, with another main library from a cache, or with one entry more.  `accepted`
is what the verifier said yes to in the last step.

## 3. Runs

| Run | Question | Instance |
|---|---|---|
| `bridge` | Do the queue's limits, counts, terminals and ids survive every interleaving, and is the bridge an event stream? | 1 id, 2 threads, 4 slots, 4 bytes, texts of 1, 2 and 5 (too long), errors of 2 and 5 |
| `worker_session` | Does one conversation stay consistent through cancels, failures, batches and disposal? | 1 session of either kind, created with messages, 3 generations, 2 slots |
| `worker_live` | Do streams and handlers end without credit and with endless generations, is no text lost, and does nothing stay behind? | 2 conversations of an engine, 2 generations, 1 operation id |
| `token_budget` | Does what is admitted fit, on whichever handle it is counted? | fixed and dynamic artifacts up to 9 tokens |
| `client` | Is everything asked of the backend settled, in every order of messages, calls and death? | 1 stream, 1 request, 2 texts |
| `handle_tree` | Does disposal in every order leak nothing and complete? | 2 engines, 2 sessions |
| `server_lifecycle` | Does close cancel, complete and leave nothing, whatever overlaps? | 2 binds, 1 close, a streaming and a plain request |
| `collector` | Does a collector test the planned files only, pass only what earned it, clean up, and end? | 2 files, 2 contents, 2 test runs, 1 interrupt per attempt, kills and restarts without limit |
| `bundle` | Is everything the verifier accepts current, whole, linkable and loadable? | 2 versions, 2 revisions, 2 libraries, 11 layouts, 3 note sections, 3 vendor directories |
| `server_disconnect`, `server_overlap`, `collector_timeout` | findings, see section 6 | |

**Bounds, and why they are enough.**

* `bridge`: four slots and four bytes let either limit be the one that is hit, with texts
  queued before; a text and an error longer than `MaxBytes` are truncated or refused; two
  threads are enough for one to be late and one to be current.  `MaxId = 1` is the
  boundary: the first id is also the last, so a wrong counter hands it out again while a
  callback of its deleted operation is under way.  Operations share nothing but the
  counter, the registry and the worker's hand; several ids are checked under
  `worker_session` and proved.  `MaxTexts = 5` fills the queue and overruns it.
* `worker_session`: three generations are a turn that commits or not, one that runs on the
  handle it left (kept, poisoned, rebuilt for a batch), and one that shows what was kept.
  Two sessions share only the engine, the map of operations and the ids: `worker_live`,
  where the one id is used up by the first generation.
* `token_budget`: the context is full after a few turns; the count limit lies below the
  largest count, so counts fail; the engine may report any context around the artifact's.
* `client`: `MaxInbox` bounds commands under way only where a caller could add credits
  without end; two texts are enough to drop, repeat or reorder one.
* `handle_tree`: a sibling at each level tells a disposal of a subtree from one of all.
* `server_lifecycle`: two binds and a close are a server that is closed and bound again with
  requests of the first still there, a bind that waits for a close, one that a close overtakes,
  and two that overlap.  Any number of each is proved.
* `collector`: two contents are the pinned one and another; the model may be either at any
  time until the tests begin, the image is one more file after it.  Two test runs are a
  first one that leaves its mark in the device's log and a last one; only the last one's
  output may be flawed (`Unsure`), as nothing a run leaves is read by the next.  A flaw is
  one report, one missing or one broken line: each check of `evaluate_run` is reached by one.
  `MaxSamples = 1` is a row before or after the count.  One interrupt in an attempt
  (`MaxInterrupts`) reaches every place; a second one would only hit handlers, where
  `exposed` already gives up what they promise.
* `bundle`: a page is four units and a header one, with a layout for every reason to reject
  one and a stored entry on and off a page.  `Unsigned` says that ELF's fields and offsets are
numbers, `PageAssumption` that `PAGE_SIZE` is a power of two, as 16384 is.  Two libraries are the main one and one that a
  release also needs.  `BuiltOverBuilt` leaves out builds that begin while the bundle's files
  are exchanged, in part or a vendor's: they replace it as a whole or keep it.
  `VendorsOfReleases` follows a stage with a vendor's files only if it is a release's.  Revisions are symmetric.

All other runs say `CHECK_DEADLOCK FALSE` (`bundle` has no such line): the systems stop
by design, when a worker has exited,
a backend or a tree is closed, or a bound is used up.  That nothing stops earlier is what
the liveness properties are for.

**Fairness.**

* Worker: the loop goes on with a handler that began (weak) and the timer fires between
  commands, however many arrive (strong: it is disabled while a handler runs).  A native
  thread that was asked to stop says its last word some time; one that was not may go on
  for ever.  Nothing is assumed of the consumer.
* Client: both event loops run, a final generation is ended by the worker, every
  generation becomes final, a dead worker's notice arrives.  Nothing of the callers.
* Handles: the backend works through its commands and its answers arrive.
* Server: futures complete and writes end; a cancelled generation ends, one that was not
  cancelled need not.  A peer that stays connected and never reads is outside that (it is
  listed as a hazard).
* Collector: the main thread goes on (`WF_vars(Main)`), because every command it runs and
  every wait of it has a time limit.  Nothing is assumed of processes, sampler and device.
* Bundles: none; they are not about time.

## 4. Properties

Each is stated in a comment above its definition.  Type invariants are conjuncts of an
invariant that needs them (`WithinBounds`, `TablesAgree`, `NobodyWaits`, `HandlesSafe`,
`CloseMeansQuiet`, `ContextHolds`, `Consistent`); the properties relate several pieces of
state or several steps.  Among them:

* `KeepsPromise`: the bridge implements `EventStream`: texts arrive in order without a gap,
  `complete` means that nothing was lost, `cancelled` and `backpressure` admit that
  something may be, and nothing follows a terminal.
* `HistoryIsCompletedTurns`: the committed history is what the conversation was created with
  and the turns reported complete, and the native context of an idle session is that history,
  whatever was cancelled or failed between; with one exception, which it names: the prefix of
  a batch whose start failed after the handle was rebuilt for it (`leftover`).
* `NoUseAfterDelete`, `NoOrphanedProducer`, `HandlersEnd`: the worker's three duties to the
  native library (never a deleted handle, never a producer without its operation, never a
  join that waits for itself).
* `ContextHolds` (with `KvFits`), `RequiredIsWhole`: admission in `_generate` is
  sufficient, and a budget does not depend on the handle it was counted on.
* `CancelMeansCleaned`, `NobodyWaits`, `NeverStarved`: the client's futures and credits.
* `CloseMeansQuiet`, `CloseCancels`: what a completed and a running `close` promise as long as
  no call overlapped with a `bind`; `ShutdownCancels`, what the README says of every close.
* `DeployedIsPinned`, `FinalIsVerified`: while a native test runs the device holds exactly the
  planned files, and a final name never shows anything that was not verified, whatever was
  cut off, edited, killed or found there.
* `PassedIsEarned`: the file and the exit code say passed only if every report of every run,
  from the test's own output, is as it should be.
* `NothingIsLeft`, `CollectorEnds`: an attempt comes to its end and cleans up, except where an
  interrupt hits a place that nothing protects (`Exposed`), or the command that removes an
  unfinished upload was sent and failed (`main.unremoved`), which the code does not look at.
* `AcceptedIsCurrent`, `ReleaseIsComplete`, `SymbolsResolve`, `LoadableLayout`: what the
  verifier's yes means for the application and for the loader of a device.  The first two
  except libraries that a vendor directory held: they are recorded like built ones.

## 5. Proofs

For all values of the constants that the modules' assumptions allow.

**`LrlmBridgeProofs`** (`BoundsAssumption`: at least one id and one slot; the fixed message
fits).  `TypeOK` is not inductive: nothing in it says that a `take` leaves the byte count
non-negative.  The invariant `Inv` adds, for every operation, `Sound`: the count is the last
of the queue's partial sums (`Sized`, a function of the queue's positions) and a slot is left while it is not final (`Fits`);
and `Story`, which relates queue and flags to what was produced and read.  Lemmas say what
`Clear`, `Push`, `Finish`, `Offer` and `TakenOperation` do to one operation; each action is
then a few steps.  From `Inv`: `StaysWithinBounds`, `ExactlyOneTerminal`,
`NothingSkipped`, `IdsNeverReused`, and `BridgeKeepsPromise`, the refinement of
`EventStream`.

The accounts need sums.  `SumOf` is a recursive function on `0 .. n`; that it exists, adds
its last number and changes by what one number changes is proved by induction over `Nat`, from
the well-foundedness of `<` (`Induction`): the set of the numbers for which a fact holds
stands for the predicate that no prover here can instantiate.  `EventsAccounted` is not
inductive: `Ledger` adds that what was erased and is in nobody's hand holds no event
(`Released`), what counts as live (`Counted`), that an operation produces only once it was
begun (`Begun`), and that all its texts were read when it said that it completed (`AllRead`,
which the worker's proof needs).  From it: `BytesAreExact` and `EventsAreAccounted`.

**`NativeWorkerProofs`** (`WorkerBounds`: the caps are numbers, and texts and errors fit them or not).  The
worker calls the bridge, so the bridge's invariant and ledger are carried along, by citing the
bridge's own lemmas (`P == INSTANCE LrlmBridgeProofs`) for each of its calls
(`WorkerKeepsAccounts`); what a call leaves behind (`CreateCall`, `TakeCall` and so on) is
proved there too and taken over under the worker's names by `SameCalls`.  The worker's properties speak of the moments
between two handlers, or of the step that is next.  In the middle of a handler the tables do
not agree, so the invariant `WInv` says what the steps that are left will do about it.
`StepsInv`: their order (`Ordered`), one session or engine a handler (`OneSubject`), their
subjects exist (`StepsLive`) and are in the state the step expects (`StepsSound`,
`BeginningSound`).  `TablesInv`: the tables agree but for the subject of a step that is left
(`OperationsKnown`, `SessionsKnown`, `Registered`, `Streams`).  `ThreadsInv`: whose thread may
still speak, and for which operation (`Producers`, `Held`).  `Gone`: after `exit` nothing is
left.  One lemma per action.  From it: `TablesAlwaysAgree`, `NeverUsedAfterDelete`,
`ProducersNeverOrphaned`, `CancelledStaysCancelled` and `ExitIsClean`.

Two more invariants are proved on top of it.  `Tallies` follows the texts of a stream from the
bridge to the port: what was forwarded is what was read (`AllForwarded`), and a stream that
ended complete was read to its end (`EndedWhole`); it gives `CompleteForwardsAll`.  `Told`
follows a conversation: what its native handle knows at each point of a turn (`IdleTold`,
`BusyTold`), what of it is in the committed history, and that a handle that knows anything
else, but for the prefix of a batch that did not start, is poisoned and rebuilt before it is
used (`RetireTold`).  It gives
`HistoryIsWhatWasCompleted`, for every sequence of turns, batches, cancels, failures and
deletions.

**`TokenBudgetProofs`** (`BudgetAssumption`).  The invariant `BudgetInv` says what the cache
of the native handle holds: nothing, or the first input's extra tokens, the preface and what
was said (`Cached`), and during a turn the question and the tokens produced, with the budget
that admitted it still ahead (`RunningInv`).  `InputIsCost` is the heart: the model bridge
counts what the runtime will take, and that is what is missing from the cache.  From it:
`ContextAlwaysHolds` and `BudgetsAreWhole`.  `MetricsAddUp` says nothing of a turn that runs;
`MetricsInv` adds what is not reported yet: one or two chunks of prefill, which add up to the
cost of the message (`ChunksAreCost`), and the tokens produced.  As no more than two turns are
ever left to report, their sum is unfolded (`SumOfLast`) without induction.  It gives
`MetricsReportAll`.

**`ClientPortProofs`** (`PortBounds`: close is no request, the caps are numbers).  Its
properties speak of ends, so the invariant `PortInv` says what the messages in the two ports
stand for.  Lemmas first: what `In`, `Behind` and `Count` say of a sequence of messages when
one is added, taken, or a whole close is.  Then its parts.  `Lives`: the stages of backend and
worker.  `CloseIsLast`: nothing is asked behind a close, and its reply is the last word.
`RepliesCome` and `EndsCome`: what is pending or registered has its command, its operation or
its answer somewhere, or the worker died and will not reply to a close (`Lost`).
`Registered` and `Once`: a stream is registered from its listen to its end, is started once,
and says nothing behind its end.  `Texts`: what a consumer heard, has in its controller's
buffer and has in the port adds up to what was sent (the texts are counted).  `Fed`: the credits.  None of
the four properties is inductive alone: that a cancel's future means cleaned up, for one,
needs that a stream's end is never in one port while its generate is still in the other.
One lemma per action.  From it: `NobodyIsLeftWaiting`, `CancelAlwaysCleans`,
`TextsAreNotDropped` and `ConsumersAreNeverStarved`.

**`HandleTreeProofs`** (`HandlesDiffer`).  The state's safety is about what is still in the
two queues, so the invariant `HandleInv` says what each entry stands for.  `AskedOnce` and
`AnsweredOnce`: a creation is under way exactly once, for a handle that is "asked", and a
positive answer names an object that lives or whose handle is closed.  `DisposedOnce`: a
disposal that the backend has not reached is waited for.  `GoneOrGoing` and `ClosedGoes`:
what is below a disposed handle is gone, or a disposal is queued behind which no creation
can slip; the tree's lemmas (`ClosedWithParent`, `AboveIsAbove`) carry that from a parent to
an object that is created after the parent's dispose was asked for.  One lemma per action.
From it: `HandlesAreSafe` and `DisposedMeansGone`.

**`OpenAiServerProofs`** (`ServerConstants`).  `CloseMeansQuiet` speaks of the moment a close
is done; the invariant `ServerInv` follows a close from its start.  Whatever the calls are,
handlers generate nothing before they looked whether the server closes (`NothingRuns`).  Until
calls overlapped with a bind there is one bind or close at a time, and a bind that waits for the
close the server remembers (`TakeTurns`), one server that listens (`OneListens`), and a close
that, once it stopped listening, waits for every handler there is (`WaitsForAll`).
`StoppedIsSilent`: behind a close nothing can come in.  From it: `ClosedIsQuiet` and `RememberedClosesCancel`.

**`AndroidValidateProofs`** (`CollectorAssumption`, and `HarnessAssumption` for the verdict).
`DeployedIsPinned` says nothing of the
time before the test, so the invariant `DeployInv` follows a file from the plan on:
`FileInHand` ties the place of the main thread to the upload (what is renamed is the planned
file), `PlanHolds` says that files that are done are the planned ones and stay so, and that
the places after the deployment are reached with all files done, `TestHasPlan` that a test
that still runs belongs to such an attempt.  From it: `TestsUsePinnedFiles` and
`FinalNamesAreVerified`, through every failure, interrupt, kill and restart.

The cleaning up takes `DeployInv` for granted and adds `CleanupInv`: a process that
runs is the one the main thread waits for, at a place between its `Popen` and its signal, or
the logcat of the run it is in (`ProcessesHeld`); an upload is in the hands of `deploy_file`
(`UploadHeld`), or the command that removes it failed (`main.unremoved`); both unless an
interrupt hit a place of `Exposed`.  From it: `NothingStaysBehind`.

The verdict has two halves.  The first is about `evaluate_run` alone: lemma `PassIsEarned` says
that an output gets the status "passed" only if it earned it, by what can be wrong with it.
A report that is missed leaves its place empty, because every report is known by its scenario,
phase and position (`ReportOnce`, `RemovedFails`); one with a flaw is among the relevant rows,
so `Problems` or `MediaMissing` sees it, but for a media file that the artifact does not
support (`ReplacedEarns`; a budget of 0 fails because 97 % of a context above 1 is at least 1).
The second is the invariant `EvidenceInv`, which follows that status to the exit code.
`Consistent` and `PassedIsEarned` alone are not inductive: they do not say that a result is of
the run in hand, or that the sampler is through when its rows are counted.  `InRun`: the main
thread's run has no result before `Evaluate`, and what has one is recorded.  `Sampled`: the
sampler writes for that run only, and has ended where it is evaluated.  `Passing`: from the
output of each run over the status to `validation.json` and the code.  From it:
`EvidenceIsConsistent` and `PassesAreEarned`.

**`BundleVerifierProofs`** (`BundleAssumption`).  `BundleInv` adds to the properties that a
stage was built from what the build copied (`StageIsBuilt`) and that manifests do not lie
(`RecordsAreHonest`), both but for what vendor directories held (`FoundAssumption`: any
libraries); `SameBinaryIsSameBuild` and `ProvenanceIsCurrent` say what the
verifier's checks mean.  From it: `AcceptedLibrariesAreCurrent`, `AcceptedSymbolsResolve`,
`AcceptedReleasesAreComplete`.  `LoadableLayout` is arithmetic: of two powers of two the larger
is a multiple of the other (`PowerDivides`, by the same induction over `Nat`), so what agrees
modulo a segment's alignment agrees modulo every smaller page, also when it is moved by whole
pages (`CongruentBelow`).  With `LayoutInv` (what is built, bundled and packaged has unsigned
headers) it gives `AcceptedLibrariesLoad`.

**Model-checked only.**  Liveness (`HandlersEnd`, `StreamEnds`, `CallersAnswered`,
`DisposeCompletes`, `CloseCompletes`, `CollectorEnds`), as the provers have neither fairness nor
ENABLED.  The findings, which are
violations.  Every other property of a passing run is the statement of a theorem.  What
the proofs do not tell is whether a definition translates the code; the mutants show that a
property would notice if one did not.

## 6. Findings

Each is a run whose property states what a document or a comment says and which the code
violates; the lines are quoted in `PROJECT.json`.

* `server_disconnect`: a streaming peer that goes while it is greeted cancels nothing, and its
  generation is started afterwards.
* `server_overlap`: a `bind` that is called just before `close`, on a server that is bound,
  makes the server forget that close; a handler then starts a generation that nobody cancels,
  and close waits for it.
* `collector_timeout`: a native test that overruns its time limit and ends with 0 just then, or
  in answer to the signal, is recorded as timed out and may pass; the document says that a
  timeout is a failure.

Four smaller disagreements are listed among the hazards, each with its lines: a pause and a
resume add a credit to one that is under way (`native_backend.dart:203`); a child that is
disposed while its parent's dispose is under way is told at once (`types.dart:247`); a batch
whose start fails leaves its prefix in the conversation's handle
(`native_backend.dart:1032`), though the document says that a handle is discarded on an error;
a vendor's library takes the place of one that was built, and is recorded like it
(`build_litert_lm_android.sh:391`).

## 7. Plan

Done: the bridge with its promise, the worker over the bridge, the client, the handles, the
server's lifecycle, the token budget, the device collector and the bundle verifier, each with
the proofs of its safety properties.  What is left are the pure algorithms against reference
definitions: the server's parameters and messages, the failure map's round trip between the
isolates, `_classify`, content normalization.  They keep no state and unit tests reach them.

**Not modelled, and why.**  The generated bindings (they forward), `third_party` (the runtime:
external, modelled from its use), CI and `test_native.sh` (workflows), and the
wording of errors and responses.  The fake backend (a test double for what `HandleTree`
models as the backend) and the example application (a screen over the public handles).  Of the collector: argument parsing, names and command
lines, the journal of commands, the values of memory counters, and `--plan`, which prints what
`make_plan` returns.  Of the verifier: reading text (`nm`, `git`, JSON, C and Dart
declarations, ZIP headers), modelled as its result, and edits within one call of it.
