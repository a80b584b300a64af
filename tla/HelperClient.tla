---------------------------- MODULE HelperClient ----------------------------
(***************************************************************************)
(* A helper client of the core, MpvLogClient or MpvHookManager, which      *)
(* share one design: a wakeup callback that coalesces into one queued      *)
(* drain, and drains that survive whatever the handler of an emitted       *)
(* signal does: nested event loops, shutdown, another setup, deletion.     *)
(*                                                                         *)
(* The helper lives on the GUI thread. libmpv is external: its thread adds *)
(* an event and runs the callback, under a lock of the client's that       *)
(* unregistering takes, too. It need not run it again before the client    *)
(* has found no more events.                                               *)
(* A token is named by the generation it was made for.                     *)
(***************************************************************************)
EXTENDS Integers, Sequences, FiniteSets, SequencesExt

CONSTANTS
  Clients,         (* addresses of native clients; a destroyed one's recurs  *)
  NoClient,
  MaxGeneration,   (* bound: shutdowns                                       *)
  Worlds           (* what libmpv and Qt may do: records of                  *)
                   (*   mayFail        may the callback fail to post?        *)
                   (*   spuriousBelow  bound: drains queued when libmpv,     *)
                   (*     which needs not yet, runs the callback again; 0    *)
                   (*     for a libmpv that never does                       *)
                   (*   maxEvents      bound: events a client holds before   *)
                   (*     libmpv waits                                       *)

ASSUME BoundsAssumption ==
  /\ MaxGeneration \in Nat \ {0}
  /\ Worlds \subseteq [mayFail : BOOLEAN, spuriousBelow : Nat, maxEvents : Nat \ {0}]
ASSUME NoClientAssumption == NoClient \notin Clients

VARIABLES
  (* The helper *)
  client,          (* m_logClient, m_hookClient                              *)
  token,           (* m_wakeup, 0 for none                                   *)
  generation, draining, redrain,
  deleted,         (* the object is gone                                     *)
  pending,         (* tokens in memory -> their flag                         *)
  (* Its thread *)
  pc,              (* "idle", "loop" between events, "signal" in a handler,  *)
                   (* "unregister" inside shutdown()                         *)
  resume,          (* where pc goes when shutdown() returns                  *)
  loop,            (* client and generation of the drain under way           *)
  closing,         (* client and token shutdown() is about to destroy        *)
  queue,           (* generations of the queued drains                       *)
  (* libmpv *)
  native,          (* live clients -> [events, need, token]                  *)
  callback,        (* the wakeup callback under way                          *)
  world            (* the member of Worlds this behaviour runs in            *)

helperVars == <<client, token, generation, draining, redrain, deleted>>
threadVars == <<pc, resume, loop, closing>>
moving == <<helperVars, pending, threadVars, queue, native, callback>>
vars == <<moving, world>>

Generations == 1 .. MaxGeneration + 1
EventTypes == {"message", "other", "shutdown"}
NoLoop == [client |-> NoClient, generation |-> 0]
NoClosing == [client |-> NoClient, token |-> 0]
NoCallback == [client |-> NoClient, token |-> 0, step |-> "none"]

Init ==
  /\ client = NoClient /\ token = 0 /\ generation = 1 /\ draining = FALSE /\ redrain = FALSE
  /\ deleted = FALSE /\ pending = <<>>
  /\ pc = "idle" /\ resume = "idle" /\ loop = NoLoop /\ closing = NoClosing /\ queue = <<>>
  /\ native = <<>> /\ callback = NoCallback
  /\ world \in Worlds

-----------------------------------------------------------------------------
(* libmpv.                                                                   *)

\* An event arrives. The callback runs when no wakeup is outstanding.
EventArrives(c, type) ==
  /\ c \in DOMAIN native /\ Len(native[c].events) < world.maxEvents
  /\ native' = [native EXCEPT ![c].events = Append(@, type), ![c].need = TRUE]
  /\ \/ /\ ~native[c].need \/ Len(queue) < world.spuriousBelow
        /\ callback = NoCallback
        /\ callback' = [client |-> c, token |-> native[c].token, step |-> "exchange"]
     \/ native[c].need /\ UNCHANGED callback
  /\ UNCHANGED <<helperVars, pending, threadVars, queue>>

-----------------------------------------------------------------------------
(* onLogWakeup(), onHookWakeup(): on a thread of libmpv.                     *)

\* pending.exchange(true).
CallbackExchange ==
  /\ callback.step = "exchange"
  /\ pending' = [pending EXCEPT ![callback.token] = TRUE]
  /\ callback' = IF pending[callback.token] THEN NoCallback ELSE [callback EXCEPT !.step = "post"]
  /\ UNCHANGED <<helperVars, threadVars, queue, native>>

\* Mutant: a failed post leaves the flag set.
CallbackPostKeepsFlag ==
  /\ callback.step = "post"
  /\ \/ queue' = Append(queue, callback.token)
     \/ world.mayFail /\ UNCHANGED queue
  /\ callback' = NoCallback
  /\ UNCHANGED <<helperVars, pending, threadVars, native>>

\* The queued invocation, and the flag taken back when it cannot be posted.
CallbackPost ==
  /\ callback.step = "post"
  /\ \/ queue' = Append(queue, callback.token) /\ UNCHANGED pending
     \/ /\ world.mayFail /\ UNCHANGED queue
        /\ pending' = [pending EXCEPT ![callback.token] = FALSE]
  /\ callback' = NoCallback
  /\ UNCHANGED <<helperVars, threadVars, native>>

Libmpv ==
  \/ \E c \in Clients, type \in EventTypes : EventArrives(c, type)
  \/ CallbackExchange \/ CallbackPost

-----------------------------------------------------------------------------
(* GUI thread: operations, outside of drains or inside a signal's handler.   *)

\* A client or a token comes to be at an address.
Placed(memory, address, value) ==
  [a \in DOMAIN memory \cup {address} |-> IF a = address THEN value ELSE memory[a]]

Running == pc \in {"idle", "signal"}

MaySetup == Running /\ ~deleted /\ client = NoClient

\* setupLogClient(), setupHookClient(), when libmpv creates a client; registering
\* the callback may run it at once.
SetupClient(c) ==
  /\ MaySetup
  /\ c \notin DOMAIN native
  /\ generation <= MaxGeneration
  /\ client' = c /\ token' = generation
  /\ pending' = Placed(pending, generation, FALSE)
  /\ native' = Placed(native, c, [events |-> <<>>, need |-> FALSE, token |-> generation])
  /\ redrain' = (redrain \/ draining)
  /\ callback' \in {NoCallback, [client |-> c, token |-> generation, step |-> "exchange"]}
  /\ UNCHANGED <<generation, draining, deleted, threadVars, queue>>

\* shutdown(), up to the native barrier where there is a client.
BeginShutdown(next) ==
  /\ client' = NoClient /\ token' = 0 /\ generation' = generation + 1
  /\ IF client = NoClient THEN UNCHANGED <<pc, resume, closing>>
     ELSE /\ closing' = [client |-> client, token |-> token]
          /\ pc' = "unregister" /\ resume' = next

\* A call, or setLogLevel("no").
Shutdown ==
  /\ Running /\ ~deleted /\ generation <= MaxGeneration
  /\ BeginShutdown(pc)
  /\ UNCHANGED <<draining, redrain, deleted, pending, loop, queue, native, callback>>

\* The destructor; queued closures die with their receiver.
Delete ==
  /\ Running /\ ~deleted /\ generation <= MaxGeneration
  /\ deleted' = TRUE /\ queue' = <<>>
  /\ BeginShutdown(pc)
  /\ UNCHANGED <<draining, redrain, pending, loop, native, callback>>

Destroyed ==
  /\ native' = [c \in DOMAIN native \ {closing.client} |-> native[c]]
  /\ pending' = [t \in DOMAIN pending \ {closing.token} |-> pending[t]]
  /\ closing' = NoClosing
  /\ pc' = resume /\ resume' = "idle"
  /\ queue' = IF deleted THEN <<>> ELSE queue
  /\ UNCHANGED <<helperVars, loop, callback>>

\* Mutant: the callback is not unregistered before its client is destroyed.
FinishShutdownAtOnce == pc = "unregister" /\ Destroyed
\* mpv_set_wakeup_callback(nullptr) waits for a callback under way; then the
\* client and the token are destroyed.
FinishShutdown == pc = "unregister" /\ callback.client # closing.client /\ Destroyed

-----------------------------------------------------------------------------
(* GUI thread: drainLogEvents(), drainHookEvents().                          *)

\* Mutant: the flag is left for later.
ClearedNever(t) == pending
\* pending.store(false), before events are looked for.
Cleared(t) == [pending EXCEPT ![t] = FALSE]

\* A queued drain runs, possibly in an event loop nested in a handler.
DrainBegins ==
  /\ Running /\ queue # <<>>
  /\ queue' = Tail(queue)
  /\ IF client = NoClient \/ Head(queue) # generation
     THEN UNCHANGED <<draining, redrain, pending, pc, loop>>
     ELSE /\ pending' = Cleared(token)
          /\ IF draining
             THEN redrain' = TRUE /\ UNCHANGED <<draining, pc, loop>>
             ELSE /\ draining' = TRUE /\ pc' = "loop"
                  /\ loop' = [client |-> client, generation |-> generation]
                  /\ UNCHANGED redrain
  /\ UNCHANGED <<client, token, generation, deleted, resume, closing, native, callback>>

\* The condition of the loop.
LoopGoesOn == client = loop.client /\ generation = loop.generation
Events == native[loop.client].events

\* Mutant: the drain stays marked as under way.
LoopEndsDraining ==
  /\ redrain' = FALSE /\ UNCHANGED draining
  /\ pc' = "idle" /\ loop' = NoLoop
  /\ queue' = IF redrain /\ client # NoClient THEN Append(queue, generation) ELSE queue
\* The loop ends, and a drain that came in meanwhile is made up for.
LoopEnds ==
  /\ draining' = FALSE /\ redrain' = FALSE
  /\ pc' = "idle" /\ loop' = NoLoop
  /\ queue' = IF redrain /\ client # NoClient THEN Append(queue, generation) ELSE queue

LoopAbandoned ==
  /\ pc = "loop" /\ ~LoopGoesOn
  /\ LoopEnds
  /\ UNCHANGED <<client, token, generation, deleted, pending, resume, closing, native, callback>>

\* MPV_EVENT_NONE. libmpv takes the outstanding wakeup back, under its lock.
LoopFindsNone ==
  /\ pc = "loop" /\ LoopGoesOn /\ Events = <<>>
  /\ callback.client # loop.client
  /\ native' = [native EXCEPT ![loop.client].need = FALSE]
  /\ LoopEnds
  /\ UNCHANGED <<client, token, generation, deleted, pending, resume, closing, callback>>

\* The next event: a message is emitted, anything else is skipped.
LoopTakes ==
  /\ pc = "loop" /\ LoopGoesOn /\ Events # <<>> /\ Head(Events) # "shutdown"
  /\ native' = [native EXCEPT ![loop.client].events = Tail(@)]
  /\ pc' = IF Head(Events) = "message" THEN "signal" ELSE "loop"
  /\ UNCHANGED <<helperVars, pending, resume, loop, closing, queue, callback>>

\* MPV_EVENT_SHUTDOWN: the helper shuts itself down and leaves the loop.
LoopShutdown ==
  /\ pc = "loop" /\ LoopGoesOn /\ Events # <<>> /\ Head(Events) = "shutdown"
  /\ native' = [native EXCEPT ![loop.client].events = Tail(@)]
  /\ BeginShutdown("loop")
  /\ UNCHANGED <<draining, redrain, deleted, pending, loop, queue, callback>>

\* The handlers of a signal return; a deleted helper is not touched again.
SignalReturns ==
  /\ pc = "signal"
  /\ pc' = IF deleted THEN "idle" ELSE "loop"
  /\ loop' = IF deleted THEN NoLoop ELSE loop
  /\ UNCHANGED <<helperVars, pending, resume, closing, queue, native, callback>>

Drain == DrainBegins \/ LoopAbandoned \/ LoopFindsNone \/ LoopTakes \/ LoopShutdown
           \/ SignalReturns
Operation == (\E c \in Clients : SetupClient(c)) \/ Shutdown \/ Delete

Next == (Libmpv \/ Operation \/ FinishShutdown \/ Drain) /\ UNCHANGED world
Spec == Init /\ [][Next]_vars

-----------------------------------------------------------------------------
(* Invariants.                                                               *)

NativeClient == [events : Seq(EventTypes), need : BOOLEAN, token : Generations]

Tokens == {0} \cup Generations

TypeOK ==
  /\ client \in Clients \cup {NoClient} /\ generation \in Generations
  /\ token \in Tokens
  /\ {draining, redrain, deleted} \subseteq BOOLEAN
  /\ ~deleted => (draining <=> loop # NoLoop)
  /\ DOMAIN pending \subseteq Generations /\ pending \in [DOMAIN pending -> BOOLEAN]
  /\ pc \in {"idle", "loop", "signal", "unregister"} /\ resume \in {"idle", "loop", "signal"}
  /\ loop \in [client : Clients \cup {NoClient}, generation : Tokens]
  /\ closing \in [client : Clients \cup {NoClient}, token : Tokens]
  /\ queue \in Seq(Generations)
  /\ DOMAIN native \subseteq Clients /\ native \in [DOMAIN native -> NativeClient]
  /\ callback \in [client : Clients \cup {NoClient}, token : Tokens, step : {"none", "exchange", "post"}]
  /\ world \in Worlds

\* A callback never works with a token or for a client that is destroyed, and a
\* helper with a client has its token: no pointer that the code follows on
\* either thread dangles. Nor do clients and tokens leak: all there are belong to
\* the helper or to the shutdown under way.
PointersAreGood ==
  /\ callback # NoCallback => callback.token \in DOMAIN pending /\ callback.client \in DOMAIN native
  /\ client # NoClient => token \in DOMAIN pending /\ client \in DOMAIN native
  /\ pc = "loop" /\ LoopGoesOn => loop.client \in DOMAIN native /\ native[loop.client].token = loop.generation
  /\ DOMAIN native \subseteq {client, closing.client}
  /\ DOMAIN pending \subseteq {token, closing.token}

\* A flag that is set has a drain queued for it, or about to be: otherwise it
\* would swallow every later wakeup. And however busy libmpv is and whatever handlers do, the event loop of the
\* application holds three drains of the helper's current generation at most (one
\* for the registration, one for an event, one made up for), if libmpv does not
\* run the callback before a drain has found no more events: each drain that
\* clears the flag would otherwise admit one more.
DrainsAreCounted ==
  /\ \A t \in DOMAIN pending : pending[t] /\ ~deleted =>
       t \in ToSet(queue) \/ callback = [callback EXCEPT !.token = t, !.step = "post"]
  /\ world.spuriousBelow = 0 => Cardinality({n \in DOMAIN queue : queue[n] = generation}) <= 3

-----------------------------------------------------------------------------
(* Liveness.                                                                 *)

\* Threads go on and handlers return.
Fairness ==
  /\ WF_moving(CallbackExchange) /\ WF_moving(CallbackPost)
  /\ WF_moving(FinishShutdown)
  /\ WF_moving(DrainBegins) /\ WF_moving(SignalReturns)
  /\ WF_moving(LoopAbandoned \/ LoopFindsNone \/ LoopTakes \/ LoopShutdown)

FairSpec == Spec /\ Fairness

\* No wakeup is lost: the event at the head of a client's queue is always taken
\* some time, or the client is shut down, if Qt takes the invocations: after one
\* that fails, the events wait for the next callback.
EventsAreTaken ==
  ~world.mayFail => \A c \in Clients :
                     \/ []<>(c # client \/ native[c].events = <<>>)
                     \/ []<><<LoopTakes /\ loop.client = c>>_moving
=============================================================================
