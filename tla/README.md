# mpvqml in TLA+

mpvqml is a Qt Quick item (`MpvPlayer`) around libmpv. Its difficulty is not in
playing media but in four threads that share native objects with strict
lifetimes: Qt's GUI thread, the scene graph's render threads, a worker thread
for each player and libmpv's own threads. This directory models the parts of
the library where those threads meet, checks the models with TLC, and proves
their safety properties with TLAPS. Line numbers refer to the files in `src/`.

## 1. Inventory

| part | source | state | operations | talks to |
|---|---|---|---|---|
| core retirement service | `mpvrenderbridge.cpp` 29-224 | 32 slots (state, handle), semaphore, stop flag, two workers | `bootstrap`, `reserve`, `retire`, `drain` | every lease; `mpv_terminate_destroy` |
| core lease | `mpvrenderbridge.cpp` 186-276 | reservation, handle, render owner, token counter, source intent, retirement marker | `publish`, `claimRenderer`, `releaseRenderer`, `allocateNativeToken`, `markContextRetiring`, `retiringContext` | shared by GUI, worker and render threads |
| render dispatcher | `mpvrenderbridge.cpp` 278-321 | pending redraw | `postRedraw`, `postStatus`, `postContextRetiring` | renderer to player, by the GUI thread's queue |
| renderer | `mpvrenderer.cpp` 233-403 | snapshot, context, attempted, failed, ready | `synchronize`, `createFramebufferObject`, `render`, destructor | lease, dispatcher, libmpv's render API |
| controller | `mpvcontroller.cpp` 231-757 | wakeup token, playback, recovery, outstanding recovery requests, revisions | submissions, renderer notices, `drain`, `shutdown` | libmpv; the adapter, by signals |
| backend worker, reaper | `mpvcontroller.cpp` 759-872 | thread, registry of workers | `initialize`, `post`, `shutdown`, `reapWorker` | controller's thread |
| adapter | `mpvcontroller_adapter.cpp` | requests by native token, next public id, generation | `admit`, `receive`, `finish`, `settleRequests`, `shutdown` | player and backend worker |
| player | `mpvplayer.cpp` | requests by public id, renderer status, property intents, deferred operations | asynchronous calls, `complete`, `rendererStatus`, setters, `syncProperties`, `shutdown` | all of the above, QML |
| log client, hook manager | `mpvlogclient.cpp`, `mpvhookmanager.cpp` | native client, wakeup token, generation, draining, redrain | setup, `shutdown`, callback, drain | libmpv, by a client of their own |

What makes them correct, and where that is hard:

* **Retirement.** A core must be destroyed exactly once, by somebody who may
  block, and the thread that drops the last reference may neither allocate nor
  wait. Slots are exchanged by atomic operations while the workers scan them,
  and the semaphore counts what the scan must find.
* **Requests.** Every positive id gets exactly one terminal signal, although
  answers, refusals, the loss of the core and shutdown overtake each other in
  two event queues.
* **Recovery.** A lost render context ends the file. The recovery plays it
  again, once, with its position and pause state, and must lose against
  everything the user or libmpv does meanwhile. The loss is reported twice, in
  either order, and the answers to its requests come late.
* **Helper clients.** libmpv calls back on its own thread while the helper is
  drained, shut down, set up again or deleted by a handler of the signal the
  drain itself has emitted.
* **Renderers.** Moving the item or hiding its window leaves renderers of
  several generations, on several threads, that share one core and one player.
* **Intents.** Until the renderer is ready the player keeps property values and
  operations, and then hands them to the core. Each submission may fail and
  each failure is a signal, so that handlers change, in the middle of this, the
  very properties and deferred operations it walks through.
* **Backend threads.** No facade waits for its thread to end. A thread that runs
  on after its player is gone needs its control block, its controller, its core
  and its wakeup token; a registry and a reaper keep them, and give them up.
* **Lock-free state.** Token counter, retirement marker and redraw flag are
  written by one thread while another reads them.

## 2. Modules

| module | what it is |
|---|---|
| `CoreLifecycle` | abstract: the life of a native core |
| `CoreRetirement` | the retirement service and the leases, one action per shared access |
| `RequestContract` | abstract: the contract of `API.md` 316-321 for asynchronous calls |
| `AsyncRequests` | player, adapter, worker and controller as far as requests go |
| `Recovery` | controller, renderer and libmpv as far as recovery goes |
| `HelperClient` | a log client or a hook manager |
| `RendererLifecycle` | the renderers of one player and what the player learns of them |
| `PlayerIntents` | the player's property intents and deferred operations |
| `BackendLifetime` | worker threads, controllers with their wakeup, the reaper |
| `RenderBridge` | tokens, marker, redraw flag and dispatcher, one shared access per step |
| `...Proofs` | the theorems about a module: each of the eight from `CoreRetirement` to `RenderBridge` that models the code has one |
| `MC...` | instances for TLC: values that a `.cfg` cannot write, and symmetry where no liveness is checked; `BackendLifetime` and `RenderBridge` are run as they are |

`CoreRetirement` implements `CoreLifecycle` and `AsyncRequests` implements
`RequestContract`, each by `INSTANCE ... WITH` and the abstract specification
as a property. `AsyncRequests` takes from `Recovery` only that it sends native
requests with tokens of the same counter; `Recovery` takes from
`RendererLifecycle` the order of retirement and readiness notices, which is the
invariant `RetiringBeforeReady` there. `RenderBridge` justifies what these two
and `AsyncRequests` take as one step each, the token counter and the marker.
`BackendLifetime` drops leases, and `CoreRetirement` says what becomes of them.

Definitions written above the one they would replace, with a comment that
begins `Mutant:`, are plausible mistakes in the code. No specification uses
them: they exist to show that a property notices the mistake.

### How state and actions correspond to the code

* **CoreRetirement.** `once`, `started`, `posted`, `stop` are the progress of
  `call_once`; `sem`, `state` and `handle` are the members of the service;
  `wpc`, `wpos` and `opc`, `opos`, `lease` are the program counter, the loop
  index and the locals of each thread. Every access to shared memory is one
  action: `ScanHit` and `ScanMiss` are the two outcomes of the compare-exchange
  at 155, `StoreHandle`, `StoreQueued` and `PostWork` the three statements of
  `retire()`. The accesses are acquire-release, and the plain writes to
  `slot.handle` are ordered by them, so sequential consistency is faithful.
  `live` is what libmpv holds; an address may be handed out again once its core
  is destroyed.
* **AsyncRequests.** Queued signals and closures are messages of two FIFO
  queues, one handler is one action. The settlement of several requests at once
  takes them in any order, as iteration over a `QHash` does.
* **Recovery.** The records have the names of the members. `drain()` is a loop
  that other threads run beside but no other worker handler interrupts
  (`draining`), one action per kind of event. libmpv is external: commands are
  executed in order, events are queued, property changes are reported when no
  event is queued and only with their latest value. Variables under "History"
  record what happened for properties alone. `scenario` is what happens around
  the losses, chosen once for a behaviour.
* **HelperClient.** `pc` is the place of the helper's thread, which matters as
  handlers of a signal may run a nested event loop (`DrainBegins` while `pc` is
  `"signal"`) or call any operation. The callback is two steps, the exchange of
  the flag and the post. libmpv holds a lock in the callback, and unregistering
  waits for it (`FinishShutdown`). `world` says, once for a behaviour, whether
  libmpv calls back without need and whether posting may fail.
* **RendererLifecycle.** What the render thread does while Qt blocks the GUI
  thread (`synchronize`, `createRenderer`) is one action. Leftover renderers
  are deleted at the next frame of their own window, one by one and the oldest
  first. The destructor is taken in three steps: the retirement is announced and
  the context freed (`Retire`), the slot given up (`GiveUpSlot`), the loss of
  readiness told (`Vanish`). Other render threads may run between the nodes and
  between these steps, and may claim the slot as soon as it is free. All messages
  go through one queue.
* **PlayerIntents.** All of it runs on one thread, but as a stack of calls, each
  of which can be interrupted where it emits a signal. `stack` holds what each
  of them has left to do; a frame `"signal"` is a handler, which may call the
  player, run an event loop (in which statuses and reports are delivered) or
  return. `ops`, `sent` and `rejected` record the deferred operations called,
  submitted and refused.
* **BackendLifetime.** A control block is named like its player. `holders` are
  the references to a lease; the last one to go frees the slot, some time later.
  `step` is where the worker is if not between two messages, and its value
  `"unregister"` the barrier of `unregisterWakeup()`. `need` is a wakeup libmpv
  owes. `initialize()` blocks the GUI thread (`"initializing"`), unless its call
  is refused (840): then a thread runs until shutdown without anything to do.
* **RenderBridge.** `call` is the call each thread is in, with its locals: a
  failed compare-exchange, a first read of the sequence, each of the words. The
  destructor of the renderer with the context writes the marker in the order
  of 262-265 (`renderer.at`). `marks` records what was written for properties
  alone.

## 3. Runs

| run | configuration | states | shows |
|---|---|---|---|
| `retirement` | 2 slots, 2 workers, 3 owners, 3 addresses | 154 thousand | slots and cores have one holder, queued cores are accounted for, bootstrap is all or nothing, no woken worker searches in vain, retired cores are destroyed: all that `CoreLifecycle` promises |
| `requests` | 2 ids, 3 tokens, 3 kinds | 264 thousand | one path and one terminal for each request, no collision with recovery, `RequestContract` with its liveness |
| `recovery` | one loss and one user operation, or two losses with refusals and failures | 570 thousand | one request at a time and acknowledgements that are true, a cancelled recovery is silent, one replay for a loss and after a newer context, playback starts again |
| `helper` | 2 addresses, 3 shutdowns, 2 or 3 events; three worlds | 161 thousand | no dangling pointer, no leak, no flag that swallows wakeups, at most three drains queued, no event left behind |
| `renderer_safety` | 2 windows, 3 renderers, shutdown | 189 thousand | one context for a core; readiness follows the newest renderer; retirement is told first |
| `intents` | `fillMode`, the screenshot directory, loads, one track; 3 calls, or fewer with more events | 845 thousand | the core ends with the values the player shows, no deferred operation is lost, repeated or outlives its media interest |
| `backend` | 2 players on 1 slot, 2 operations, 2 events | 10 thousand | threads and callbacks find what they use, closed players are reaped, events are drained |
| `bridge` | 2 tokens, 2 contexts, 1 change of source | 315 thousand | tokens are unique up to exhaustion, the marker is never torn, no redraw is lost, the dispatcher outlives its callbacks |
| `recovery_pause`, `recovery_entry`, `renderer_recreation`, `renderer_shutdown` | | | counterexamples, section 5 |

### Bounds, and why they are enough

* **Retirement.** The proofs have no bounds. In the runs, three owners on two
  slots are enough for a dropped core to be still Queued or Destroying
  while its owner reserves again, for `reserve()` to find no slot, for a slot to
  be refilled behind a scan, and for an address to recur.
* **Requests.** Two ids let one request be settled while another is admitted,
  and exhaust `INT_MAX`; three tokens let recovery take one of them and still
  exhaust the counter. Kinds differ only in how they are answered
  (asynchronously, synchronously, also with no core), and all of those are in
  the run.
* **Recovery.** `maxGeneration` bounds the contexts: two for one loss, three for
  two. `MaxEvents` bounds libmpv's queue: it waits when two events are there,
  which libmpv does, too, with a longer queue. One user operation is placed at
  every point of a recovery; an operation is one that changes a revision or the
  source intent, or edits the playlist.
* **Helpers.** Two addresses make a new client get the address of the old one,
  or another. Three shutdowns nest once more than there are clients. libmpv
  calls back only for the first event after a drain has found none, or also
  without need, which clients have to expect.
* **Renderers.** A third renderer is needed for an old status to meet both a
  lost and a recreated one. The number of renderers is bounded by
  `MaxGeneration`; the queue has no bound of its own, as a renderer posts four
  messages at most.
* **Intents.** `fillMode` is the setter of two properties, one of which can fail
  after the other, and has an intent from the constructor; the screenshot
  directory is one the core reports and synchronization skips when empty: the
  other setters are like one of these. A handler inside of a handler meets the
  same frames again (`MaxDepth`). Three calls are a deferred one, one by a
  handler while it is submitted, and one more; a refusal starts the handlers. One
  call and four events let a failure overtake a readiness, and a report of an
  older value arrive between a setter and its submission.
* **Backend.** The second player needs the slot of the first one, whose thread
  still runs. Three players on two slots (4.8 million states, safety only) show
  nothing else. Two events are one drained and one that arrives meanwhile.
* **Bridge.** Two tokens are one for each thread, or one noted that another has
  allocated, and then exhaustion; three (1.2 million states) show nothing else.
  Two retirements are what a reader needs to see the words of both.

Deadlock is checked in `retirement`. The other systems really stop: after
shutdown, deletion or a crash, or when a bound is used up.

### Fairness

* Retirement: a worker thread that can go on does; an owner that has begun to
  drop its lease finishes; native destruction returns. No owner has to drop a
  lease. `sem_wait` may fail for good, although it does not on a valid
  semaphore: what is promised then needs one worker that is left.
* Requests: both event loops and `drain()` run, libmpv answers what it accepted
  or quits. Nobody has to call anything.
* Recovery: the worker's loop and `drain()` run, libmpv executes accepted
  commands and switches files. No context has to be lost, created or kept, no
  file has to end.
* Helpers: the callback returns, the helper's thread goes on, handlers return.
* Backend: threads, timers and callbacks go on. Drains are unbounded loops
  behind which `shutdown()` is queued: libmpv does not add events for ever as
  fast as they are taken (strong fairness of the last take). No caller does
  anything, and no lease held elsewhere is given up.
* Bridge: the GUI thread allocates, delivers and emits; callbacks return. What
  is queued is delivered although the GUI thread also has other things to do
  (strong fairness).
* Intents: none. `Settled` says what holds whenever nothing is under way.

All of it is fairness of an operating system's scheduler and of event queues, or
a documented promise of libmpv (that it answers each asynchronous request and
never blocks in the callback).

## 4. Proofs

Each theorem holds for every value of the constants; `Invariance` in each module
is the inductive invariant, `TypeCorrect` its type invariant.

| module | theorems | what they state |
|---|---|---|
| `CoreRetirementProofs` | `SlotsAreExclusive`, `NoLostRetirement`, `BootstrapIsAtomic` | the invariants of the run `retirement` |
| | `NoLeakNoDoubleDestroy`, `NoSearcherIsDeceived` | two more, of the handles and of the searchers' positions, which the run leaves to the proof |
| | `OneScanSuffices` | the action property `TokenNeverWasted` |
| | `ImplementsLifecycle` | the refinement of `CoreLifecycle`, without its liveness |
| `AsyncRequestsProofs` | `EachRequestUnderway`, `OneTerminalEach`, `RecoveryIsolated` | the invariants of the run `requests` |
| | `NoLateResults` | the action property `NoNativeResultAfterShutdown` |
| | `ContractSteps` | the refinement of `RequestContract`, without its liveness |
| `RendererLifecycleProofs` | `SlotIsExclusive`, `PlayerAgrees`, `WorkerHearsInOrder` | the invariants of the run `renderer_safety` |
| `RecoveryProofs` | `StepsSound` | the invariant of the run `recovery` |
| | `CancelledForGood`, `ReplayedOnce` | its action properties, `CancelledStaysCancelled` and `OneReplayPerLoss` |
| `HelperClientProofs` | `PointersFollowed`, `DrainsBounded` | the invariants of the run `helper` |
| `BackendLifetimeProofs` | `UsersOutlived` | the invariant of the run `backend` |
| `RenderBridgeProofs` | `DispatcherOutlivesCallbacks` | the invariant of the run `bridge` |
| | `NoTokenTwice`, `MarkerIsRead` | its action properties, `TokensAreNeverReused` and `MarkerIsCoherent` |
| `PlayerIntentsProofs` | `ShownIsSet`, `Accounted` | the invariants `Settled` and `NothingForgotten` of the run `intents` |
| | `SentForThisMedia` | its action property `SupersededNeverSent` |

The assumptions are those of the modules: bounds are numbers and not zero where
nothing could happen otherwise, sets of threads and addresses are finite where
they are counted, and a null (`NoHandle`, `NoPlayer`, `NoWindow`, `NoClient`,
`NoKey`) is none of the things it stands in for. `PlayerIntents` also has a value
that the core refuses ("invalid"), one that synchronization skips (`Empty`) and
setters of at least one property, each of them one of the properties' names; no
two setters set the same property, and one that the core reports has a setter of
its own, as `fillMode` is the only setter of two and neither is observed.
TLC evaluates all of them in the runs.

### The arguments

**CoreRetirement.** The inductive invariant is a conjunction of

* `TypeOK`;
* `BootInv`: which phase of `bootstrap()` goes with which threads, and that
  leases exist in the last one only;
* `HolderInv`: each slot's state determines the one thread that holds it;
* `ScanStartInv`: a worker that is not scanning starts at the first slot, which
  the count below needs when it takes a token;
* `LeaseInv`: what the locals of an owner hold at each of its steps;
* `HandleHasOneHolder`: what is alive is in one place;
* `CountInv`: `QueueIsAccounted` and `SearchersWillFind`.

`SearchersWillFind` is the heart. `QueueIsAccounted` alone is not inductive:
that there are as many queued slots as tokens, posters and searchers does not
say that a searcher in the middle of its scan has one *ahead* of it. The
stronger statement, for every position the searchers at or behind it are no
more than the queued slots there, is kept by a first-fit scan because a worker
takes the first queued slot it meets (which is counted for its own position and
all before it), and because passing a slot that is not queued moves a searcher
to a position with the same queued slots. `OneScanSuffices` follows: a searcher
at the last slot must find it queued.

**AsyncRequests.** `RequestIsUnderway` and `ExactlyOneTerminal` count; the
invariant says the same of each id without counting, so that a handler that
touches one id leaves the others alone. `PathInv(i)`: between the adapter's
entry, a queued `finish` and a queued `complete`, there is one for an id the
facade owns and one at most for any other. `TerminalInv(i)`: ownership, a queued loss and a
delivered terminal exclude each other. `PhaseInv` connects what the three
objects believe of shutdown and of the core, which is what makes the
comparisons of generations in `receive()` and `finish()` do their work:
without it an entry of an old generation could be left behind. Each id is in one
phase of the contract (`PathInv` and `TerminalInv` decide which), and each step
takes at most one of them on, or all pending ones to their end.

**RendererLifecycle.** The steps of render threads are reduced to a few kinds (a
renderer that fails or gets ready at once, one that is kept, one that fails
later, one that is deleted step by step), and each part of the invariant is shown
for each kind. The difficulty is `StatusInv`: `ReadinessSettles` speaks of an empty
queue only, so the invariant says what the *last* message in the queue that the
player will not ignore makes it believe. `FailureInv` is needed there, as one
failure of a generation hides the next: it says that the one queued is the first.
`OrderInv`: while a renderer has its context, none newer than it is ready. It has
the slot as long (`SlotInv`), and its destructor puts the retirement in the queue
before another renderer can have it.

**Recovery.** What several actors change at once is the recovery, the set of its
requests and libmpv's two queues. `Fits` says that a valid recovery is for the
present source intent and for a context lost under it, how far its flags and the
requests that are out can have come (`Progressing`), and that what it holds for
acknowledged was done (`Acknowledged`). `Matched`: there is one request at most,
and one command or one reply for it at most. A handler changes the recovery and
then goes on as `tryRecoverPlayback()` or `tryRestorePosition()` do, which is one
of a few moves (`Move`): nothing, giving up, asking for one step. So the moves are
treated once, and each handler only for what it does before; an answer to an
older recovery leaves the new one as it was. `CancelledForGood` follows from
`Fits`.

`ReplayedOnce` is about contexts. `RenderInv` relates the marker to the newest
context and source intent, `NoticeInv` and `ReadyInv` say that notices come in the
order of contexts, the retirement of one before the readiness of the next.
`OlderInv`: a context for which a replay was sent is older than the newest, and
no notice of its loss is left. The loss is also told by the end of the file, and
`PlayedInv` says why that does not start a second recovery: until the reply to the
replay, the recovery is there and is replaying; after it no such end is queued,
or the marker is that of another context by then.

**HelperClient.** `ClientInv` ties client, token and generation of the helper to
what libmpv has and to the shutdown under way; `FlagInv` finds a drain for each
flag that is set. `DrainsAreCounted` is not inductive, as it does not say where
another drain may come from. `CountInv` counts everything that can still become a
queued drain of this generation: the queued ones, the redrain noted, the callback
under way, the callback libmpv may make, and the drain under way itself, whose end
asks libmpv for another. Each step moves a unit from one place to another or
drops it, and none adds one, so that there are never more than three.

**BackendLifetime.** For each player: `FacadeInv` and `InboxInv` say what is
posted in each phase of the facade, `initialize` alone and one `shutdown` and one
`drain` at most, the latter remembered by the token (which bounds the queue);
`TokenInv` that libmpv calls back only for a registered token, whose controller
lives. `LeaseInv` is the chain behind `UsersAreOutlived`: a thread that has not
ended is in the registry under the slot of its own lease, which the control block
there still holds; `SlotInv` says that no other player has that slot.

**RenderBridge.** `TokenInv`: until it is exhausted, the counter is above
every token given or noted, and above their number. `MarkInv`
gives, for each place of the destructor, what the three words hold in terms of
the marks completed so far; `ReadInv` says that what a reader has loaded is of
the last mark *unless the sequence has moved since*. The second read of the
sequence settles which. `LifeInv` counts the references to the dispatcher.

**PlayerIntents.** An operation is in one place: deferred, held by a frame of the
stack, submitted or refused (`OnceInv`); one that is in none of these is
superseded, and stays so (`KnownInv`); and where it waits, it still has the key and
the media revision it was called with, and no two wait for one state
(`WaitInv`). The stack grows and shrinks
while lists are walked through; that the frames hold disjoint operations is what
keeps a handler that defers, retries or drops some of them from touching those
an outer frame has taken out of the list already. `SentForThisMedia` follows as both
submission and retry compare the media revision.

`ShownIsSet` speaks of states in which nothing is under way. `NameInv(n)` says where
the newest intent of a property is at any other time: pending, held by a
synchronization that has not come to it yet (`Holds`), or `Passed`, which is to say the
last command of the name or what the core has. In each of these places is the value
the player shows, unless that is not the intent's any more: `Owed(n)`, a report on its
way will have the player show what the core has, it does already, or the report that
would have is the one ignored. Where the intent is pending or held is decided by
`RevisionInv`: a synchronization inside of another, or a setter called by a handler, has
made the revision which the outer one remembers an old one. `ReportInv`, the last
report of a property is of the value in the core, settles what is left when no
report is queued. `ReadyInv` is the other half, that nothing waits: while the renderer
is initialized, what is pending is about to be flushed by the frame of its setter, or
a synchronization is still to come, or was missed (`Resync`); what is deferred waits
for a synchronization under way. The history variables `unshown` and `unsynced` name
the two exceptions the code really has (section 6). No guard reads them.

### Only model-checked

* Everything under fairness, which the prover does not support:
  `QuiescenceDrains`, `KeepsDestroying`, the liveness of the two abstract
  specifications, `PlaybackResumes`, `EventsAreTaken`, `ClosedIsReaped`,
  `EventsAreDrained`, `RedrawIsDelivered`. Every invariant and every action
  property of a passing run is proved.

## 5. What the counterexamples show

Each of these runs states a sentence of the documentation and ends in a
violation.

* `recovery_pause` (`Architecture.md` 79: "newer pause/seek intent supersede
  saved state"). The user pauses; the submission counts the pause revision up.
  A start or load event, or an observation of the old state, that is drained
  before the core has changed the property stamps the *old* state with the new
  revision. The context is lost, and the recovery takes the old state for the
  newest and sets it again. Observations of the position and the seek revision
  (462-463) have the same form.
* `recovery_entry` (`Architecture.md` 77: "one same-entry playlist replay").
  The replay addresses the entry by its index in the cached playlist. A
  `playlist-remove` under way shifts it.
* `renderer_recreation` (`API.md` 121: "`ready()` marks successful renderer
  readiness, including successful recreation"). The old renderer's not-ready
  status is dropped once `createRenderer()` has counted the generation up; the
  player still believes to be ready and keeps silent when the new renderer is.
  The controller then never hears of the new context.
* `renderer_shutdown` (`mpvplayer.cpp` 211: the renderer "keeps its own
  core/dispatcher lease until its GL-thread cleanup"). After `shutdown()` the
  supplier hands out no core, and the next synchronization overwrites the one
  the renderer's context belongs to.

## 6. Limits of the models

* `Recovery` assumes that every new context is reported to the controller,
  which `renderer_recreation` shows not to be so always: `PlaybackResumes` says
  what the controller makes of the notices it gets. It promises nothing while
  libmpv's playlist differs from the cached one, where `recovery_entry` applies.
  A load is matched by its entry id alone (694-696), so that after two losses
  the position can be restored into the load of the first replay.
* `Due`, what `PlaybackResumes` is about, leaves out a loss that is followed by a
  newer one. A second loss, of an entry the core has advanced to and ended
  while the first recovery waited for its pause state, replaces that recovery
  (476): the new one is never terminated and nothing is replayed. A loss whose
  last synchronization saw an older source intent is not recovered, by design of
  the marker.
* Marker and token counter are one step each in `Recovery` and `AsyncRequests`;
  `RenderBridge` takes them apart. `admit()` is one step in `AsyncRequests`: what
  it posts is answered by a later message to the thread it runs on. The claim of the render slot is one
  compare-exchange in the code, too.
* Playback time stands still; positions are those of loads and seeks. A property
  that is asked for also updates the cached playback values (664-665); in
  `Recovery` only observations do.
* Queued drains of a helper are bounded only if libmpv does not call back
  before it was asked for more events: a drain clears the flag first, so that
  in a nested event loop each spurious callback could queue one more
  (`spuriousBelow` bounds that in a world of the run `helper`).
* In `RendererLifecycle` a public `shutdown()` called by a handler of a signal
  is taken right after the handler. Renderers that never get a context touch
  nothing that `RenderBridge` models and are not in it.
* A redraw whose post fails gives up its frame, and a drain of the controller
  whose post fails gives up every later wakeup: `RedrawIsDelivered` and
  `EventsAreDrained` (`PostFailed`) except that.
* `PlayerIntents` holds with these peculiarities of the code, which its
  properties name or allow:
  an empty screenshot directory or shader list is not synchronized (440), so
  that an older value stays in the core (`SkipsEmpty`);
  a handler of `rendererReadyChanged` (163) submits its operation before the
  older deferred ones, which then win;
  readiness that is lost in an event loop of a failure handler, while deferred
  operations are retried, defers an older state again and erases a newer one;
  a synchronization inside of another takes pending values away, and the outer
  one then submits an invalid value, which the core refuses (`NoValue`);
  a report of the core from before a setter's call overwrites the member, until
  the report of the newer value comes; if that one is ignored (115), since readiness
  was lost meanwhile and a value is pending, and the player does not show what it is
  about to submit, the player may go on showing another value than the core has
  (`unshown`);
  a readiness that a failure overtakes is not synchronized (`unsynced`): after a
  failure a ready status clears the error, a handler of `renderErrorChanged` (258)
  runs an event loop, and a newer failure is delivered in it; the outer
  `rendererStatus()` still emits `ready()` (274), whose slot sets
  `m_rendererInitialized` (161), but `syncProperties()` returns at once (417), and
  the next ready status finds the renderer initialized already (273). Then the
  intents wait until a readiness is lost and gained again, although `API.md` 127
  says that they "apply on the next successful renderer generation".
* The order of deferred operations among each other is not a property of
  `PlayerIntents`: handlers and nested synchronizations change it.
* `sendMousePosition()` submits its two coordinates one after the other, with a
  handler possibly in between (`mpvplayer.cpp` 596-597); in `PlayerIntents` that
  is one submission.
* Not in `PlayerIntents`: `loadDirectory()` once it is deferred, the reload after
  the choice of a video track with the seek it leaves for `fileLoaded` (122-129,
  551, 578; only `stop()` clears that seek), deletion of the player by a handler,
  and the comparison of a status with the one before (248-252).
* Drains in `BackendLifetime` are not nested, as no handler of the controller's
  signals runs on its thread: the redrain flag (619-621, 752-756) is left out.

Not modelled: drawing, the guard of texture uploads and render parameters (data
within one call), the conversion of nodes, wording of errors, statistics
sampling, the loading and pinning of modules beyond success and failure, QML
examples, scripts and tests.

## 7. Plan

Done, in this order: retirement with its proofs, requests, recovery, helper
clients, renderers, intents, backend threads, the lock-free state; then the
proofs of all of these. Next:

1. The reload after the choice of a video track and `loadDirectory()` in
   `PlayerIntents`.
2. The position restored after two losses, as a property of `Recovery`.
