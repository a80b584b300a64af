--------------------------- MODULE BackendLifetime ---------------------------
(***************************************************************************)
(* The life of a player's backend: MpvBackendWorker, the MpvController on  *)
(* its thread with the wakeup of libmpv, and the reaper that outlives them.*)
(* No facade ever waits for a thread to end.                               *)
(*                                                                         *)
(* Each player has one control block, named like the player. A lease is    *)
(* given up by several holders on several threads; what then becomes of the*)
(* core is CoreRetirement's, and just takes its time here. libmpv and Qt   *)
(* are external. Drains are not nested: handlers of the controller's       *)
(* signals run on other threads.                                           *)
(***************************************************************************)
EXTENDS Integers, Sequences, SequencesExt

CONSTANTS
  Players, NoPlayer,
  Slots,           (* of leases, 32 in the code                              *)
  MaxOps,          (* bound: operations posted to a worker at a time         *)
  MaxEvents        (* bound: events a core queues before libmpv waits        *)

ASSUME ConstantsAssumption ==
  NoPlayer \notin Players /\ Slots \in Nat \ {0} /\ MaxOps \in Nat /\ MaxEvents \in Nat \ {0}

VARIABLES
  (* GUI thread *)
  facade,          (* "none", "refused", "constructed", "initializing",      *)
                   (* "open", "closed"                                       *)
  success,         (* m_result.success                                       *)
  registry,        (* workers().controls: slot -> player                     *)
  notices,         (* reapWorker() calls queued or due by a timer            *)
  (* Leases *)
  slot,            (* reservation(), 0 for none                              *)
  holders,         (* of the lease: "control", "controller", "player",       *)
                   (* "renderer"                                             *)
  (* Threads and controllers *)
  thread,          (* "none", "running", "quitting", "finishing", "ended"    *)
  controller,      (* "none", "alive", "deleted"                             *)
  inbox,           (* what is posted to the controller                       *)
  step,            (* of the worker: "idle", "drain", or "unregister" for    *)
                   (* the barrier of unregisterWakeup()                      *)
  closing,         (* m_closing                                              *)
  available,       (* m_available                                            *)
  (* libmpv *)
  wakeup,          (* [live, registered, pending] of m_wakeup                *)
  callback,        (* "none", "exchange", "post" on a thread of libmpv       *)
  events, need     (* queued events; is a wakeup outstanding?                *)

guiVars    == <<facade, success, registry, notices>>
leaseVars  == <<slot, holders>>
workerVars == <<controller, inbox, step, closing, available>>
nativeVars == <<wakeup, callback, events, need>>
vars == <<guiVars, leaseVars, thread, workerVars, nativeVars>>

All(v) == [p \in Players |-> v]
NoWakeup == [live |-> FALSE, registered |-> FALSE, pending |-> FALSE]

Init ==
  /\ facade = All("none") /\ success = All(FALSE)
  /\ registry = [s \in 1 .. Slots |-> NoPlayer] /\ notices = {}
  /\ slot = All(0) /\ holders = All({})
  /\ thread = All("none") /\ controller = All("none") /\ inbox = All(<<>>)
  /\ step = All("idle") /\ closing = All(FALSE) /\ available = All(FALSE)
  /\ wakeup = All(NoWakeup) /\ callback = All("none") /\ events = All(0) /\ need = All(FALSE)

-----------------------------------------------------------------------------
(* GUI thread. It waits while a worker initializes its controller.           *)

Gui == \A p \in Players : facade[p] # "initializing"
FreeSlots == {s \in 1 .. Slots : \A p \in Players : slot[p] # s}

\* MpvBackendWorker(): the lowest free slot, or no control block.
Construct(p) ==
  /\ Gui /\ facade[p] = "none"
  /\ IF FreeSlots = {}
     THEN facade' = [facade EXCEPT ![p] = "refused"] /\ UNCHANGED <<slot, holders, controller>>
     ELSE /\ facade' = [facade EXCEPT ![p] = "constructed"]
          /\ slot' = [slot EXCEPT ![p] = CHOOSE s \in FreeSlots : \A t \in FreeSlots : s <= t]
          /\ holders' = [holders EXCEPT ![p] = {"control", "controller", "player"}]
          /\ controller' = [controller EXCEPT ![p] = "alive"]
  /\ UNCHANGED <<success, registry, notices, thread, inbox, step, closing, available, nativeVars>>

\* Neither the controller nor the thread was ever used: both are deleted here,
\* and the control block goes with its last owner, the facade.
Discard(p) ==
  /\ controller' = [controller EXCEPT ![p] = "deleted"]
  /\ holders' = [holders EXCEPT ![p] = @ \ {"control", "controller"}]
  /\ facade' = [facade EXCEPT ![p] = "closed"]
  /\ UNCHANGED <<registry, thread, inbox>>

\* initialize(): the thread starts, or not. The controller is told to initialize,
\* or its queue refuses the call: the thread stays, with nothing to do.
Initialize(p) ==
  /\ Gui /\ facade[p] = "constructed"
  /\ \/ Discard(p)
     \/ /\ thread' = [thread EXCEPT ![p] = "running"]
        /\ registry' = [registry EXCEPT ![slot[p]] = p]
        /\ \/ /\ inbox' = [inbox EXCEPT ![p] = Append(@, "initialize")]
              /\ facade' = [facade EXCEPT ![p] = "initializing"]
           \/ facade' = [facade EXCEPT ![p] = "open"] /\ UNCHANGED inbox
        /\ UNCHANGED <<controller, holders>>
  /\ UNCHANGED <<success, notices, slot, step, closing, available, nativeVars>>

\* post(), by admit(), observeProperty(), contextRetiring() and contextReady().
Post(p) ==
  /\ Gui /\ facade[p] = "open" /\ success[p] /\ thread[p] = "running"
  /\ Len(inbox[p]) < MaxOps
  /\ inbox' = [inbox EXCEPT ![p] = Append(@, "operation")]
  /\ UNCHANGED <<guiVars, leaseVars, thread, controller, step, closing, available, nativeVars>>

ShutdownEffect(p) == facade' = [facade EXCEPT ![p] = "closed"] /\ inbox' = [inbox EXCEPT ![p] = Append(@, "shutdown")]
\* Mutant: the destructor shuts down again.
ShutdownAgain(p) ==
  /\ Gui /\ facade[p] \in {"open", "closed"} /\ thread[p] = "running" /\ Len(inbox[p]) < 6 /\ ShutdownEffect(p)
  /\ UNCHANGED <<success, registry, notices, leaseVars, thread, controller, step, closing, available, nativeVars>>
\* shutdown(), and the destructor.
Shutdown(p) ==
  /\ Gui
  /\ \/ facade[p] = "constructed" /\ Discard(p)
     \/ facade[p] = "open" /\ ShutdownEffect(p) /\ UNCHANGED <<registry, thread, controller, holders>>
  /\ UNCHANGED <<success, notices, slot, step, closing, available, nativeVars>>

Reaped(p) ==
  /\ notices' = notices \ {p}
  /\ registry' = [registry EXCEPT ![slot[p]] = NoPlayer]
  /\ holders' = [holders EXCEPT ![p] = @ \ {"control"}]
  /\ UNCHANGED <<facade, success, slot, thread, workerVars, nativeVars>>

\* Mutant: the thread is taken to be over once it has announced that.
ReapAtOnce(p) == Gui /\ p \in notices /\ Reaped(p)
\* Mutant: a thread found running is not tried again.
ReapOnce(p) ==
  /\ Gui /\ p \in notices
  /\ IF thread[p] = "ended" THEN Reaped(p)
     ELSE /\ notices' = notices \ {p}
          /\ UNCHANGED <<facade, success, registry, leaseVars, thread, workerVars, nativeVars>>
\* reapWorker(): tried again by a timer until the thread has really ended.
Reap(p) == Gui /\ p \in notices /\ thread[p] = "ended" /\ Reaped(p)

\* The player's own lease, and the one of a renderer, taken while there is a
\* player to synchronize with.
LeasesElsewhere(p) ==
  /\ \/ Gui /\ facade[p] = "closed" /\ holders' = [holders EXCEPT ![p] = @ \ {"player"}]
     \/ "player" \in holders[p] /\ facade[p] = "open"
          /\ holders' = [holders EXCEPT ![p] = @ \cup {"renderer"}]
     \/ holders' = [holders EXCEPT ![p] = @ \ {"renderer"}]
  /\ holders' # holders
  /\ UNCHANGED <<guiVars, slot, thread, workerVars, nativeVars>>

\* The retirement service has destroyed the core.
FreeSlot(p) ==
  /\ slot[p] # 0 /\ holders[p] = {}
  /\ slot' = [slot EXCEPT ![p] = 0]
  /\ UNCHANGED <<guiVars, holders, thread, workerVars, nativeVars>>

-----------------------------------------------------------------------------
(* The thread of a worker.                                                   *)

Takes(p, what) ==
  /\ thread[p] \in {"running", "quitting"} /\ step[p] = "idle"
  /\ inbox[p] # <<>> /\ Head(inbox[p]) = what
  /\ inbox' = [inbox EXCEPT ![p] = Tail(@)]

\* MpvController::initialize(): it fails, without or with a wakeup token, or the
\* core is published and the callback registered, which may run at once. The GUI
\* thread goes on.
InitializeController(p) ==
  /\ Takes(p, "initialize")
  /\ facade' = [facade EXCEPT ![p] = "open"]
  /\ \/ /\ \E live \in BOOLEAN : wakeup' = [wakeup EXCEPT ![p].live = live]
        /\ UNCHANGED <<success, available, callback, need>>
     \/ /\ success' = [success EXCEPT ![p] = TRUE] /\ available' = [available EXCEPT ![p] = TRUE]
        /\ wakeup' = [wakeup EXCEPT ![p] = [live |-> TRUE, registered |-> TRUE, pending |-> FALSE]]
        /\ \E c \in {"none", "exchange"} : callback' = [callback EXCEPT ![p] = c]
        /\ need' = [need EXCEPT ![p] = callback'[p] # "none"]
  /\ UNCHANGED <<registry, notices, leaseVars, thread, controller, step, closing, events>>

\* An operation submits to the core.
RunOperation(p) ==
  /\ Takes(p, "operation")
  /\ UNCHANGED <<guiVars, leaseVars, thread, controller, step, closing, available, nativeVars>>

\* Mutant: the flag is cleared when the core has no more events.
KeepsPending(p) == wakeup
ClearsPending(p) == [wakeup EXCEPT ![p].pending = FALSE]

\* drain(), for one queued wakeup. There is one generation before shutdown().
BeginDrain(p) ==
  /\ Takes(p, "drain")
  /\ IF closing[p] \/ ~available[p] THEN UNCHANGED <<step, wakeup>>
     ELSE step' = [step EXCEPT ![p] = "drain"] /\ wakeup' = ClearsPending(p)
  /\ UNCHANGED <<guiVars, leaseVars, thread, controller, closing, available, callback, events, need>>

\* The next event is decoded and emitted; at MPV_EVENT_SHUTDOWN the core is given
\* up, and the drain with it.
DrainTakes(p) ==
  /\ step[p] = "drain" /\ events[p] > 0 /\ events' = [events EXCEPT ![p] = @ - 1]
  /\ \/ UNCHANGED <<available, step>>
     \/ available' = [available EXCEPT ![p] = FALSE] /\ step' = [step EXCEPT ![p] = "unregister"]
  /\ UNCHANGED <<guiVars, leaseVars, thread, controller, inbox, closing, wakeup, callback, need>>

\* Without an event the drain ends; mpv_wait_event() waits for a callback under way.
DrainEnds(p) ==
  /\ step[p] = "drain" /\ events[p] = 0 /\ callback[p] = "none"
  /\ step' = [step EXCEPT ![p] = "idle"] /\ need' = [need EXCEPT ![p] = FALSE]
  /\ UNCHANGED <<guiVars, leaseVars, thread, controller, inbox, closing, available, wakeup, callback, events>>

\* MpvController::shutdown(), up to the barrier of unregisterWakeup().
ShutdownController(p) ==
  /\ Takes(p, "shutdown")
  /\ closing' = [closing EXCEPT ![p] = TRUE] /\ available' = [available EXCEPT ![p] = FALSE]
  /\ step' = [step EXCEPT ![p] = "unregister"]
  /\ UNCHANGED <<guiVars, leaseVars, thread, controller, nativeVars>>

\* Mutant: the token is freed under a callback.
NoBarrier(p) == TRUE
\* mpv_set_wakeup_callback() waits for a callback under way.
Barrier(p) == wakeup[p].registered => callback[p] = "none"

\* The token is freed; shutdown() also asks the thread to quit.
UnregisterWakeup(p) ==
  /\ step[p] = "unregister" /\ Barrier(p)
  /\ wakeup' = [wakeup EXCEPT ![p] = NoWakeup]
  /\ step' = [step EXCEPT ![p] = "idle"]
  /\ thread' = [thread EXCEPT ![p] = IF closing[p] THEN "quitting" ELSE @]
  /\ UNCHANGED <<guiVars, leaseVars, controller, inbox, closing, available, callback, events, need>>

\* The event loop ends, perhaps with calls left. finished() deletes the controller
\* on its thread, and notifies the reaper.
Finish(p) ==
  /\ thread[p] = "quitting" /\ step[p] = "idle"
  /\ thread' = [thread EXCEPT ![p] = "finishing"]
  /\ controller' = [controller EXCEPT ![p] = "deleted"] /\ inbox' = [inbox EXCEPT ![p] = <<>>]
  /\ holders' = [holders EXCEPT ![p] = @ \ {"controller"}]
  /\ notices' = notices \cup {p}
  /\ UNCHANGED <<facade, success, registry, slot, step, closing, available, nativeVars>>

\* The operating system is done with the thread.
End(p) ==
  /\ thread[p] = "finishing" /\ thread' = [thread EXCEPT ![p] = "ended"]
  /\ UNCHANGED <<guiVars, leaseVars, workerVars, nativeVars>>
-----------------------------------------------------------------------------
(* libmpv: an event calls back where none has since the queue was last found *)
(* empty, on a thread of its own.                                            *)

EventArrives(p) ==
  /\ wakeup[p].registered /\ events[p] < MaxEvents
  /\ events' = [events EXCEPT ![p] = @ + 1] /\ need' = [need EXCEPT ![p] = TRUE]
  /\ callback' = [callback EXCEPT ![p] = IF need[p] THEN @ ELSE "exchange"]
  /\ UNCHANGED <<guiVars, leaseVars, thread, workerVars, wakeup>>

\* wakeup(): the token is marked, by the first of several.
CallbackExchange(p) ==
  /\ callback[p] = "exchange"
  /\ callback' = [callback EXCEPT ![p] = IF wakeup[p].pending THEN "none" ELSE "post"]
  /\ wakeup' = [wakeup EXCEPT ![p].pending = TRUE]
  /\ UNCHANGED <<guiVars, leaseVars, thread, workerVars, events, need>>

\* A drain is posted to the controller, or memory is exhausted.
CallbackPost(p) ==
  /\ callback[p] = "post" /\ callback' = [callback EXCEPT ![p] = "none"]
  /\ \/ inbox' = [inbox EXCEPT ![p] = Append(@, "drain")] /\ UNCHANGED wakeup
     \/ wakeup' = [wakeup EXCEPT ![p].pending = FALSE] /\ UNCHANGED inbox
  /\ UNCHANGED <<guiVars, leaseVars, thread, controller, step, closing, available, events, need>>

-----------------------------------------------------------------------------
WorkerStep(p) ==
  \/ InitializeController(p) \/ RunOperation(p) \/ BeginDrain(p) \/ DrainTakes(p) \/ DrainEnds(p)
  \/ ShutdownController(p) \/ UnregisterWakeup(p) \/ Finish(p)
Callback(p) == CallbackExchange(p) \/ CallbackPost(p)

Next == \E p \in Players :
  \/ Construct(p) \/ Initialize(p) \/ Post(p) \/ Shutdown(p) \/ Reap(p)
  \/ LeasesElsewhere(p) \/ FreeSlot(p)
  \/ WorkerStep(p) \/ End(p) \/ EventArrives(p) \/ Callback(p)

\* Event loops and threads go on, a timer fires, libmpv's callbacks return, and it
\* does not add events for ever as fast as they are drained. No caller does
\* anything, and no lease held elsewhere is ever given up.
Fairness == \A p \in Players :
  /\ WF_vars(WorkerStep(p)) /\ SF_vars(DrainTakes(p) /\ events'[p] = 0) /\ SF_vars(DrainEnds(p))
  /\ WF_vars(Callback(p)) /\ WF_vars(End(p)) /\ WF_vars(Reap(p))

Spec == Init /\ [][Next]_vars
FairSpec == Spec /\ Fairness

-----------------------------------------------------------------------------
\* Each variable has its type; what is posted to a controller is bounded by the
\* operations, one drain and one shutdown.
TypeOK ==
  /\ facade \in [Players -> {"none", "refused", "constructed", "initializing", "open", "closed"}]
  /\ success \in [Players -> BOOLEAN] /\ closing \in [Players -> BOOLEAN]
  /\ available \in [Players -> BOOLEAN] /\ need \in [Players -> BOOLEAN]
  /\ registry \in [1 .. Slots -> Players \cup {NoPlayer}] /\ notices \subseteq Players
  /\ slot \in [Players -> 0 .. Slots]
  /\ holders \in [Players -> SUBSET {"control", "controller", "player", "renderer"}]
  /\ thread \in [Players -> {"none", "running", "quitting", "finishing", "ended"}]
  /\ controller \in [Players -> {"none", "alive", "deleted"}]
  /\ inbox \in [Players -> BoundedSeq({"initialize", "operation", "drain", "shutdown"}, MaxOps + 2)]
  /\ step \in [Players -> {"idle", "drain", "unregister"}]
  /\ wakeup \in [Players -> [live : BOOLEAN, registered : BOOLEAN, pending : BOOLEAN]]
  /\ callback \in [Players -> {"none", "exchange", "post"}]
  /\ events \in [Players -> 0 .. MaxEvents]

Alive(p) == thread[p] \in {"running", "quitting", "finishing"}

\* A thread that has not really ended, though its facade is long gone, though it
\* has announced its end, keeps its control block registered under its own slot,
\* and with it the lease: the slot is no other player's and the core is not
\* destroyed. What is registered has a thread to reap.
ThreadsAreOutlived ==
  \A p \in Players :
    /\ Alive(p) => slot[p] # 0 /\ registry[slot[p]] = p /\ "control" \in holders[p]
    /\ \A s \in 1 .. Slots : registry[s] = p => slot[p] = s /\ thread[p] # "none"

Once(calls, what) == \A i, j \in DOMAIN calls : calls[i] = what /\ calls[j] = what => i = j

\* A callback of libmpv, and the drain it has asked for, find the token, the
\* controller and the core they use; and only one drain is ever asked for.
CallbacksAreOutlived ==
  \A p \in Players :
    /\ callback[p] # "none" \/ step[p] = "drain" =>
         wakeup[p].live /\ controller[p] = "alive" /\ "controller" \in holders[p]
    /\ wakeup[p].live => controller[p] = "alive"
    /\ Once(inbox[p], "drain")
    /\ callback[p] = "post" => "drain" \notin ToSet(inbox[p])

\* Every thread finds what it uses, whoever has given it up meanwhile.
UsersAreOutlived == ThreadsAreOutlived /\ CallbacksAreOutlived

\* A closed player's thread ends and is reaped, without anyone waiting for it.
ClosedIsReaped ==
  \A p \in Players : facade[p] = "closed" ~>
    ~Alive(p) /\ \A s \in 1 .. Slots : registry[s] # p

\* The post of a drain has failed: libmpv calls back no more.
PostFailed(p) ==
  /\ need[p] /\ callback[p] = "none" /\ ~wakeup[p].pending /\ step[p] # "drain"

\* An event is drained, whenever it arrives during a callback or a drain, unless
\* the core is given up or a post has failed.
EventsAreDrained ==
  \A p \in Players : events[p] > 0 ~> events[p] = 0 \/ ~available[p] \/ PostFailed(p)
=============================================================================
