------------------------ MODULE HelperClientProofs ------------------------
(***************************************************************************)
(* Proofs about HelperClient, for any set of addresses and any bound: no   *)
(* pointer that the code follows dangles, on either thread, and the drains *)
(* queued in the event loop stay few.                                      *)
(*                                                                         *)
(* How many drains of a generation can be queued is found by counting what *)
(* may still become one: CountInv. Each step moves a unit of that count    *)
(* from one place to another or drops it; none creates one.                *)
(***************************************************************************)
EXTENDS HelperClient, FiniteSetTheorems, TLAPS

-----------------------------------------------------------------------------
(* The inductive invariant.                                                  *)

\* The helper and its native client, token and generation belong together. The
\* only other client and token are those of the shutdown under way.
ClientInv ==
  /\ client = NoClient <=> token = 0
  /\ client # NoClient => token = generation /\ generation <= MaxGeneration /\ ~deleted
  /\ closing.client = NoClient <=> closing.token = 0
  /\ pc = "unregister" <=> closing.client # NoClient
  /\ pc = "unregister" => client = NoClient
  /\ closing.token < generation
  /\ DOMAIN pending = {token, closing.token} \ {0}
  /\ DOMAIN native = {client, closing.client} \ {NoClient}
  /\ client # NoClient => native[client].token = token
  /\ closing.client # NoClient => native[closing.client].token = closing.token

\* A callback under way is for a client that lives, with its token.
CallbackInv ==
  /\ callback = NoCallback <=> callback.step = "none"
  /\ callback # NoCallback => /\ callback.client \in DOMAIN native
                              /\ callback.token = native[callback.client].token

\* A drain is under way as long as its handlers are.
LoopInv ==
  /\ pc \in {"loop", "signal"} => loop.client # NoClient
  /\ pc = "idle" => loop = NoLoop
  /\ pc = "unregister" => (resume = "idle" <=> loop = NoLoop)
  /\ loop.client = NoClient => loop = NoLoop
  /\ loop.generation <= generation
  /\ client = NoClient => loop.generation < generation
  /\ deleted /\ pc # "unregister" => queue = <<>>

\* Drains of a generation are queued from its setup to its shutdown, if at all.
QueueInv ==
  /\ \A n \in DOMAIN queue : queue[n] <= generation
  /\ client = NoClient => \A n \in DOMAIN queue : queue[n] < generation

\* A flag that is set has a drain queued for it, or about to be.
FlagInv ==
  \A t \in DOMAIN pending : pending[t] /\ ~deleted =>
    \/ \E n \in DOMAIN queue : queue[n] = t
    \/ callback.step = "post" /\ callback.token = t

\* What can still become a drain of the current generation: the queued ones, the
\* one to be made up for, the callback under way, the one libmpv may make, and the
\* one after the drain under way has found no more events.
One(b) == IF b THEN 1 ELSE 0
Count(q, g) == Cardinality({n \in DOMAIN q : q[n] = g})
CountInv ==
  world.spuriousBelow = 0 /\ client # NoClient =>
    Count(queue, generation) + One(redrain) + One(callback # NoCallback)
      + One(~native[client].need) + One(loop.generation = generation) <= 3

IInv == TypeOK /\ ClientInv /\ CallbackInv /\ LoopInv /\ QueueInv /\ FlagInv /\ CountInv

-----------------------------------------------------------------------------
(* Types.                                                                    *)

\* What the steps need to know of the types.
LEMMA Bounds ==
  ASSUME TypeOK
  PROVE  /\ generation \in Nat /\ 1 <= generation /\ generation <= MaxGeneration + 1 /\ MaxGeneration \in Nat
         /\ Generations \subseteq Nat /\ Tokens \subseteq Nat
<1>1. generation \in Generations /\ MaxGeneration \in Nat
  BY BoundsAssumption DEF TypeOK
<1> QED BY <1>1 DEF Generations, Tokens

\* The step of shutdown() up to the native barrier keeps the types.
LEMMA BeginShutdownType ==
  ASSUME TypeOK, NEW next \in {"idle", "loop", "signal"}, BeginShutdown(next), generation <= MaxGeneration
  PROVE  /\ client' \in Clients \cup {NoClient} /\ generation' \in Generations /\ token' \in Tokens
         /\ generation' = generation + 1
         /\ pc' \in {"idle", "loop", "signal", "unregister"} /\ resume' \in {"idle", "loop", "signal"}
         /\ closing' \in [client : Clients \cup {NoClient}, token : Tokens]
<1>1. generation' = generation + 1 /\ generation' \in Generations
  BY Bounds DEF BeginShutdown, Generations
<1>2. closing' \in [client : Clients \cup {NoClient}, token : Tokens]
  BY DEF BeginShutdown, TypeOK
<1> QED BY <1>1, <1>2 DEF BeginShutdown, TypeOK, Tokens

\* An event that arrives keeps the types.
LEMMA EventArrivesType ==
  ASSUME TypeOK, UNCHANGED world, NEW c \in Clients, NEW type \in EventTypes, EventArrives(c, type)
  PROVE  TypeOK'
<1>1. native[c] \in NativeClient /\ native \in [DOMAIN native -> NativeClient] /\ c \in DOMAIN native
  BY DEF TypeOK, EventArrives
<1>2. Append(native[c].events, type) \in Seq(EventTypes)
  <2>1. native[c].events \in Seq(EventTypes)
    BY <1>1 DEF NativeClient
  <2> QED BY <2>1
<1>3. [native[c] EXCEPT !.events = Append(native[c].events, type), !.need = TRUE] \in NativeClient
  BY <1>1, <1>2 DEF NativeClient
<1>4. native' = [native EXCEPT ![c] = [native[c] EXCEPT !.events = Append(native[c].events, type), !.need = TRUE]]
  BY <1>1 DEF EventArrives
<1>5. DOMAIN native' = DOMAIN native /\ native' \in [DOMAIN native -> NativeClient]
  BY <1>1, <1>3, <1>4
<1>6. callback' \in [client : Clients \cup {NoClient}, token : Tokens, step : {"none", "exchange", "post"}]
  BY <1>1 DEF EventArrives, TypeOK, NativeClient, Tokens
<1> QED BY <1>5, <1>6 DEF TypeOK, EventArrives, helperVars, threadVars

\* The callback under way has a token in memory.
LEMMA CallbackToken ==
  ASSUME TypeOK, ClientInv, CallbackInv, callback # NoCallback
  PROVE  callback.client \in DOMAIN native /\ callback.token \in DOMAIN pending
<1>1. CASE callback.client = client /\ client # NoClient
  BY <1>1 DEF ClientInv, CallbackInv
<1>2. CASE callback.client = closing.client /\ closing.client # NoClient
  BY <1>2 DEF ClientInv, CallbackInv
<1> QED BY <1>1, <1>2 DEF ClientInv, CallbackInv

\* The callback keeps the types.
LEMMA CallbackType ==
  ASSUME TypeOK, CallbackInv, ClientInv, UNCHANGED world, CallbackExchange \/ CallbackPost
  PROVE  TypeOK'
<1>0. callback # NoCallback
  BY DEF CallbackExchange, CallbackPost, NoCallback
<1>1. callback.token \in DOMAIN pending /\ callback.token \in Generations
  BY <1>0, CallbackToken DEF TypeOK
<1>2. queue' \in Seq(Generations)
  <2>1. queue \in Seq(Generations)
    BY DEF TypeOK
  <2> QED BY <1>1, <2>1 DEF CallbackExchange, CallbackPost
<1>3. DOMAIN pending' = DOMAIN pending /\ pending' \in [DOMAIN pending -> BOOLEAN]
  BY DEF TypeOK, CallbackExchange, CallbackPost
<1>4. callback' \in [client : Clients \cup {NoClient}, token : Tokens, step : {"none", "exchange", "post"}]
  BY DEF TypeOK, CallbackExchange, CallbackPost, NoCallback, Tokens
<1>5. UNCHANGED <<client, generation, token, draining, redrain, deleted, pc, resume, loop, closing, native, world>>
  BY DEF CallbackExchange, CallbackPost, helperVars, threadVars
<1> QED BY <1>2, <1>3, <1>4, <1>5 DEF TypeOK

\* A map with one entry more.
LEMMA PlacedType ==
  ASSUME NEW S, NEW m, m \in [DOMAIN m -> S], NEW a, NEW v \in S
  PROVE  /\ DOMAIN Placed(m, a, v) = DOMAIN m \cup {a}
         /\ Placed(m, a, v) \in [DOMAIN Placed(m, a, v) -> S]
         /\ Placed(m, a, v)[a] = v /\ \A b \in DOMAIN m \ {a} : Placed(m, a, v)[b] = m[b]
BY DEF Placed

\* Setup keeps the types: the new client and its token are placed in memory.
LEMMA SetupType ==
  ASSUME TypeOK, UNCHANGED world, NEW c \in Clients, SetupClient(c)
  PROVE  TypeOK'
<1>1. generation \in Generations /\ generation \in Tokens
  BY DEF TypeOK, Tokens
<1>2. DOMAIN pending' \subseteq Generations /\ pending' \in [DOMAIN pending' -> BOOLEAN]
  <2>1. pending \in [DOMAIN pending -> BOOLEAN] /\ FALSE \in BOOLEAN /\ pending' = Placed(pending, generation, FALSE)
    BY DEF TypeOK, SetupClient
  <2>2. DOMAIN pending' = DOMAIN pending \cup {generation} /\ pending' \in [DOMAIN pending' -> BOOLEAN]
    BY <2>1 DEF Placed
  <2> QED BY <1>1, <2>2 DEF TypeOK
<1>3. [events |-> <<>>, need |-> FALSE, token |-> generation] \in NativeClient
  BY <1>1 DEF NativeClient
<1>4. DOMAIN native' \subseteq Clients /\ native' \in [DOMAIN native' -> NativeClient]
  <2> DEFINE new == [events |-> <<>>, need |-> FALSE, token |-> generation]
  <2>1. native \in [DOMAIN native -> NativeClient] /\ new \in NativeClient /\ native' = Placed(native, c, new)
    BY <1>3 DEF TypeOK, SetupClient
  <2> HIDE DEF new
  <2>2. DOMAIN native' = DOMAIN native \cup {c} /\ native' \in [DOMAIN native' -> NativeClient]
    BY <2>1 DEF Placed
  <2> QED BY <2>2 DEF TypeOK
<1>5. callback' \in [client : Clients \cup {NoClient}, token : Tokens, step : {"none", "exchange", "post"}]
  BY <1>1 DEF SetupClient, NoCallback, Tokens
<1>6. client' \in Clients \cup {NoClient} /\ token' \in Tokens /\ redrain' \in BOOLEAN
  BY <1>1 DEF SetupClient, TypeOK
<1>7. UNCHANGED <<generation, draining, deleted, pc, resume, loop, closing, queue, world>>
  BY DEF SetupClient, threadVars
<1> QED BY <1>2, <1>4, <1>5, <1>6, <1>7 DEF TypeOK

\* shutdown() and the destructor keep the types.
LEMMA ShutdownType ==
  ASSUME TypeOK, UNCHANGED world, Shutdown \/ Delete
  PROVE  TypeOK'
<1>1. pc \in {"idle", "loop", "signal"} /\ BeginShutdown(pc) /\ generation <= MaxGeneration
  BY DEF Shutdown, Delete, Running
<1>2. /\ client' \in Clients \cup {NoClient} /\ generation' \in Generations /\ token' \in Tokens
      /\ pc' \in {"idle", "loop", "signal", "unregister"} /\ resume' \in {"idle", "loop", "signal"}
      /\ closing' \in [client : Clients \cup {NoClient}, token : Tokens]
  BY <1>1, BeginShutdownType
<1>3. queue' \in Seq(Generations)
  <2>1. queue \in Seq(Generations)
    BY DEF TypeOK
  <2>2. queue' = queue \/ queue' = <<>>
    BY DEF Shutdown, Delete
  <2>3. CASE queue' = queue
    BY <2>1, <2>3
  <2>4. CASE queue' = <<>>
    BY <2>4
  <2> QED BY <2>2, <2>3, <2>4
<1>4. UNCHANGED <<draining, redrain, pending, loop, native, callback>> /\ deleted' \in BOOLEAN
  BY DEF Shutdown, Delete, TypeOK
<1>5. ~deleted' => ~deleted
  BY DEF Shutdown, Delete
<1> QED BY <1>2, <1>3, <1>4, <1>5 DEF TypeOK

\* The tail of the queue of drains.
LEMMA TailType ==
  ASSUME TypeOK, queue # <<>>
  PROVE  Tail(queue) \in Seq(Generations) /\ Head(queue) \in Generations
<1>1. queue \in Seq(Generations)
  BY DEF TypeOK
<1> QED BY <1>1

\* The destruction of the client and its token keeps the types.
LEMMA FinishType ==
  ASSUME TypeOK, UNCHANGED world, FinishShutdown
  PROVE  TypeOK'
<1>1. DOMAIN native' \subseteq Clients /\ native' \in [DOMAIN native' -> NativeClient]
  BY DEF TypeOK, FinishShutdown, Destroyed
<1>2. DOMAIN pending' \subseteq Generations /\ pending' \in [DOMAIN pending' -> BOOLEAN]
  BY DEF TypeOK, FinishShutdown, Destroyed
<1>3. queue' \in Seq(Generations)
  <2>1. queue \in Seq(Generations)
    BY DEF TypeOK
  <2>2. queue' = queue \/ queue' = <<>>
    BY DEF FinishShutdown, Destroyed
  <2>3. CASE queue' = queue
    BY <2>1, <2>3
  <2>4. CASE queue' = <<>>
    BY <2>4
  <2> QED BY <2>2, <2>3, <2>4
<1>4. closing' \in [client : Clients \cup {NoClient}, token : Tokens]
  BY DEF FinishShutdown, Destroyed, NoClosing, Tokens
<1>5. pc' \in {"idle", "loop", "signal", "unregister"} /\ resume' \in {"idle", "loop", "signal"}
  BY DEF FinishShutdown, Destroyed, TypeOK
<1>6. UNCHANGED <<client, token, generation, draining, redrain, deleted, loop, callback, world>>
  BY DEF FinishShutdown, Destroyed, helperVars
<1> QED BY <1>1, <1>2, <1>3, <1>4, <1>5, <1>6 DEF TypeOK

\* A drain that begins keeps the types.
LEMMA DrainBeginsType ==
  ASSUME TypeOK, ClientInv, UNCHANGED world, DrainBegins
  PROVE  TypeOK'
<1>1. queue' \in Seq(Generations)
  BY TailType DEF DrainBegins
<1>2. DOMAIN pending' = DOMAIN pending /\ pending' \in [DOMAIN pending -> BOOLEAN]
  BY DEF DrainBegins, TypeOK, Cleared
<1>3. loop' \in [client : Clients \cup {NoClient}, generation : Tokens]
  BY DEF DrainBegins, TypeOK, Tokens
<1>4. pc' \in {"idle", "loop", "signal", "unregister"} /\ draining' \in BOOLEAN /\ redrain' \in BOOLEAN
  BY DEF DrainBegins, TypeOK
<1>5. (draining' = draining /\ loop' = loop) \/ (draining' = TRUE /\ loop' # NoLoop)
  <2>1. CASE loop' = loop /\ draining' = draining
    BY <2>1
  <2>2. CASE draining' = TRUE /\ loop' = [client |-> client, generation |-> generation] /\ client # NoClient
    BY <2>2 DEF NoLoop
  <2> QED BY <2>1, <2>2 DEF DrainBegins
<1>6. UNCHANGED <<client, token, generation, deleted, resume, closing, native, callback, world>>
  BY DEF DrainBegins
<1> QED BY <1>1, <1>2, <1>3, <1>4, <1>5, <1>6 DEF TypeOK

\* A loop that ends.
LEMMA LoopEndsType ==
  ASSUME TypeOK, LoopEnds
  PROVE  /\ draining' = FALSE /\ redrain' = FALSE /\ loop' = NoLoop /\ pc' = "idle"
         /\ queue' \in Seq(Generations)
         /\ loop' \in [client : Clients \cup {NoClient}, generation : Tokens]
<1>1. queue' \in Seq(Generations)
  <2>1. queue \in Seq(Generations) /\ generation \in Generations
    BY DEF TypeOK
  <2> QED BY <2>1 DEF LoopEnds
<1> QED BY <1>1 DEF LoopEnds, NoLoop, Tokens

\* The client a loop serves is alive.
LEMMA LoopClient ==
  ASSUME TypeOK, ClientInv, LoopInv, pc = "loop", LoopGoesOn
  PROVE  loop.client = client /\ client # NoClient /\ client \in DOMAIN native /\ native[client] \in NativeClient
BY DEF TypeOK, ClientInv, LoopInv, LoopGoesOn

\* A drain that ends keeps the types, whether abandoned or out of events.
LEMMA LoopEndingType ==
  ASSUME TypeOK, ClientInv, LoopInv, UNCHANGED world, LoopAbandoned \/ LoopFindsNone
  PROVE  TypeOK'
<1>1. LoopEnds
  BY DEF LoopAbandoned, LoopFindsNone
<1>2. DOMAIN native' \subseteq Clients /\ native' \in [DOMAIN native' -> NativeClient]
  <2>1. CASE LoopAbandoned
    BY <2>1 DEF LoopAbandoned, TypeOK
  <2>2. CASE LoopFindsNone
    <3>1. native[loop.client] \in NativeClient
      BY <2>2, LoopClient DEF LoopFindsNone
    <3>2. [native[loop.client] EXCEPT !.need = FALSE] \in NativeClient
      BY <3>1 DEF NativeClient
    <3> QED BY <2>2, <3>2 DEF LoopFindsNone, TypeOK
  <2> QED BY <2>1, <2>2
<1>3. UNCHANGED <<client, token, generation, deleted, pending, resume, closing, callback, world>>
  BY DEF LoopAbandoned, LoopFindsNone
<1> QED BY <1>1, <1>2, <1>3, LoopEndsType DEF TypeOK

\* An event taken from its client.
LEMMA TakenType ==
  ASSUME TypeOK, ClientInv, LoopInv, pc = "loop", LoopGoesOn, Events # <<>>,
         native' = [native EXCEPT ![loop.client].events = Tail(@)]
  PROVE  DOMAIN native' = DOMAIN native /\ native' \in [DOMAIN native -> NativeClient]
<1>1. native[loop.client] \in NativeClient
  BY LoopClient
<1>2. Tail(native[loop.client].events) \in Seq(EventTypes)
  <2>1. native[loop.client].events \in Seq(EventTypes)
    BY <1>1 DEF NativeClient
  <2> QED BY <2>1 DEF Events
<1>3. [native[loop.client] EXCEPT !.events = Tail(native[loop.client].events)] \in NativeClient
  BY <1>1, <1>2 DEF NativeClient
<1> QED BY <1>3 DEF TypeOK

\* An event taken keeps the types.
LEMMA LoopTakesType ==
  ASSUME TypeOK, ClientInv, LoopInv, UNCHANGED world, LoopTakes
  PROVE  TypeOK'
<1>1. DOMAIN native' = DOMAIN native /\ native' \in [DOMAIN native -> NativeClient]
  BY TakenType DEF LoopTakes
<1>2. pc' \in {"idle", "loop", "signal", "unregister"}
  BY DEF LoopTakes
<1>3. UNCHANGED <<client, token, generation, draining, redrain, deleted, pending, resume, loop, closing, queue, callback, world>>
  BY DEF LoopTakes, helperVars
<1> QED BY <1>1, <1>2, <1>3 DEF TypeOK

\* MPV_EVENT_SHUTDOWN keeps the types.
LEMMA LoopShutdownType ==
  ASSUME TypeOK, ClientInv, LoopInv, UNCHANGED world, LoopShutdown
  PROVE  TypeOK'
<1>1. DOMAIN native' = DOMAIN native /\ native' \in [DOMAIN native -> NativeClient]
  BY TakenType DEF LoopShutdown
<1>2. generation <= MaxGeneration /\ BeginShutdown("loop")
  BY LoopClient DEF LoopShutdown, ClientInv
<1>3. /\ client' \in Clients \cup {NoClient} /\ generation' \in Generations /\ token' \in Tokens
      /\ pc' \in {"idle", "loop", "signal", "unregister"} /\ resume' \in {"idle", "loop", "signal"}
      /\ closing' \in [client : Clients \cup {NoClient}, token : Tokens]
  BY <1>2, BeginShutdownType
<1>4. UNCHANGED <<draining, redrain, deleted, pending, loop, queue, callback, world>>
  BY DEF LoopShutdown
<1> QED BY <1>1, <1>3, <1>4 DEF TypeOK

\* The return of a handler keeps the types.
LEMMA SignalReturnsType ==
  ASSUME TypeOK, UNCHANGED world, SignalReturns
  PROVE  TypeOK'
<1>1. loop' \in [client : Clients \cup {NoClient}, generation : Tokens]
  BY DEF SignalReturns, TypeOK, NoLoop, Tokens
<1>2. pc' \in {"idle", "loop", "signal", "unregister"} /\ (~deleted => loop' = loop)
  BY DEF SignalReturns
<1>3. UNCHANGED <<client, token, generation, draining, redrain, deleted, pending, resume, closing, queue, native, callback, world>>
  BY DEF SignalReturns, helperVars
<1> QED BY <1>1, <1>2, <1>3 DEF TypeOK

-----------------------------------------------------------------------------
(* The helper, its clients and the callback.                                 *)

\* What most steps leave alone.
Kept ==
  /\ UNCHANGED <<client, token, generation, closing, deleted>>
  /\ pc' = "unregister" <=> pc = "unregister"
  /\ DOMAIN pending' = DOMAIN pending /\ DOMAIN native' = DOMAIN native
  /\ \A c \in DOMAIN native : native'[c].token = native[c].token

KeptStep ==
  \/ \E c \in Clients, type \in EventTypes : EventArrives(c, type)
  \/ CallbackExchange \/ CallbackPost
  \/ DrainBegins \/ LoopAbandoned \/ LoopFindsNone \/ LoopTakes \/ SignalReturns

\* Most steps leave the clients, the tokens and their owners alone.
LEMMA KeptSteps ==
  ASSUME TypeOK, ClientInv, LoopInv, KeptStep
  PROVE  Kept
<1>1. ASSUME NEW c \in Clients, NEW type \in EventTypes, EventArrives(c, type)
      PROVE  Kept
  <2>1. native[c] \in NativeClient /\ c \in DOMAIN native
    BY <1>1 DEF EventArrives, TypeOK
  <2>2. DOMAIN native' = DOMAIN native /\ \A b \in DOMAIN native : native'[b].token = native[b].token
    BY <1>1, <2>1 DEF EventArrives, NativeClient
  <2> QED BY <1>1, <2>2 DEF EventArrives, Kept, helperVars, threadVars
<1>2. CASE CallbackExchange \/ CallbackPost
  BY <1>2 DEF CallbackExchange, CallbackPost, Kept, helperVars, threadVars
<1>3. CASE DrainBegins
  BY <1>3 DEF DrainBegins, Running, Cleared, Kept
<1>4. CASE LoopAbandoned
  BY <1>4 DEF LoopAbandoned, LoopEnds, Kept
<1>5. CASE LoopFindsNone
  <2>1. native[loop.client] \in NativeClient /\ loop.client \in DOMAIN native
    BY <1>5, LoopClient DEF LoopFindsNone
  <2>2. DOMAIN native' = DOMAIN native /\ \A b \in DOMAIN native : native'[b].token = native[b].token
    BY <1>5, <2>1 DEF LoopFindsNone, NativeClient
  <2> QED BY <1>5, <2>2 DEF LoopFindsNone, LoopEnds, Kept
<1>6. CASE LoopTakes
  <2>1. native[loop.client] \in NativeClient /\ loop.client \in DOMAIN native
    BY <1>6, LoopClient DEF LoopTakes
  <2>2. DOMAIN native' = DOMAIN native /\ \A b \in DOMAIN native : native'[b].token = native[b].token
    BY <1>6, <2>1 DEF LoopTakes, NativeClient
  <2> QED BY <1>6, <2>2 DEF LoopTakes, helperVars, Kept
<1>7. CASE SignalReturns
  BY <1>7 DEF SignalReturns, helperVars, Kept
<1> QED BY <1>1, <1>2, <1>3, <1>4, <1>5, <1>6, <1>7 DEF KeptStep

\* They keep the invariant of the clients.
LEMMA KeptClientInv ==
  ASSUME ClientInv, Kept
  PROVE  ClientInv'
BY DEF ClientInv, Kept

\* The three callers of shutdown()'s first step.
Begins ==
  /\ BeginShutdown(pc) /\ generation <= MaxGeneration
  /\ pc # "unregister"
  /\ pending' = pending
  /\ DOMAIN native' = DOMAIN native
  /\ \A c \in DOMAIN native : native'[c].token = native[c].token
  /\ UNCHANGED <<draining, redrain, loop, callback>>
  /\ queue' \in {queue, <<>>}

\* Each caller of shutdown() takes that step.
LEMMA BeginSteps ==
  ASSUME TypeOK, ClientInv, LoopInv, Shutdown \/ Delete \/ LoopShutdown
  PROVE  Begins
<1>1. CASE Shutdown \/ Delete
  BY <1>1 DEF Shutdown, Delete, Running, Begins
<1>2. CASE LoopShutdown
  <2>1. native[loop.client] \in NativeClient /\ loop.client \in DOMAIN native /\ client # NoClient
    BY <1>2, LoopClient DEF LoopShutdown
  <2>2. DOMAIN native' = DOMAIN native /\ \A b \in DOMAIN native : native'[b].token = native[b].token
    BY <1>2, <2>1 DEF LoopShutdown, NativeClient
  <2> QED BY <1>2, <2>1, <2>2 DEF LoopShutdown, ClientInv, Begins
<1> QED BY <1>1, <1>2

\* shutdown() hands the helper's client and token to the shutdown under way.
LEMMA BeginClientInv ==
  ASSUME TypeOK, ClientInv, Begins
  PROVE  ClientInv'
<1>0. closing.client = NoClient /\ closing.token = 0 /\ client' = NoClient /\ token' = 0 /\ generation' = generation + 1
  BY DEF Begins, BeginShutdown, ClientInv
<1>1. CASE client = NoClient
  <2>1. UNCHANGED <<pc, closing>>
    BY <1>1 DEF Begins, BeginShutdown
  <2>2. token = 0 /\ closing'.token < generation'
    BY <1>0, <1>1, <2>1, Bounds DEF ClientInv
  <2> QED BY <1>0, <1>1, <2>1, <2>2 DEF ClientInv, Begins
<1>2. CASE client # NoClient
  <2>1. closing' = [client |-> client, token |-> token] /\ pc' = "unregister"
    BY <1>2 DEF Begins, BeginShutdown
  <2>2. token # 0 /\ token = generation /\ closing'.token < generation'
    BY <1>0, <1>2, <2>1, Bounds DEF ClientInv
  <2> QED BY <1>0, <1>2, <2>1, <2>2 DEF ClientInv, Begins
<1> QED BY <1>1, <1>2

\* Setup finds nothing alive and makes one client and one token.
LEMMA SetupClientInv ==
  ASSUME TypeOK, ClientInv, NEW c \in Clients, SetupClient(c)
  PROVE  ClientInv'
<1>1. /\ client = NoClient /\ token = 0 /\ ~deleted /\ pc # "unregister"
      /\ closing.client = NoClient /\ closing.token = 0
      /\ DOMAIN pending = {} /\ DOMAIN native = {}
  BY DEF SetupClient, MaySetup, Running, ClientInv
<1>2. generation # 0 /\ c # NoClient /\ generation <= MaxGeneration
  BY Bounds, NoClientAssumption DEF SetupClient
<1>3. DOMAIN pending' = {generation} /\ DOMAIN native' = {c} /\ native'[c].token = generation
  BY <1>1 DEF SetupClient, Placed
<1>4. client' = c /\ token' = generation /\ UNCHANGED <<generation, deleted, pc, closing>>
  BY DEF SetupClient, threadVars
<1> QED BY <1>1, <1>2, <1>3, <1>4 DEF ClientInv

\* The end of a shutdown leaves nothing alive.
LEMMA FinishClientInv ==
  ASSUME TypeOK, ClientInv, FinishShutdown
  PROVE  ClientInv'
<1>1. client = NoClient /\ token = 0 /\ pc = "unregister"
  BY DEF FinishShutdown, ClientInv
<1>2. DOMAIN pending' = {} /\ DOMAIN native' = {}
  BY <1>1 DEF FinishShutdown, Destroyed, ClientInv
<1>3. closing'.client = NoClient /\ closing'.token = 0 /\ pc' # "unregister"
  BY DEF FinishShutdown, Destroyed, NoClosing, TypeOK
<1>4. UNCHANGED <<client, token, generation, deleted>>
  BY DEF FinishShutdown, Destroyed, helperVars
<1>5. closing'.token < generation'
  BY <1>3, <1>4, Bounds
<1> QED BY <1>1, <1>2, <1>3, <1>4, <1>5 DEF ClientInv

\* A callback begins for a client that lives, and keeps it.
LEMMA KeptCallbackInv ==
  ASSUME TypeOK, CallbackInv, Kept, KeptStep
  PROVE  CallbackInv'
<1>1. CASE UNCHANGED callback
  BY <1>1 DEF CallbackInv, Kept
<1>2. CASE callback' = NoCallback
  BY <1>2 DEF CallbackInv, NoCallback
<1>3. CASE CallbackExchange
  BY <1>3 DEF CallbackExchange, CallbackInv, Kept, NoCallback, TypeOK
<1>4. ASSUME NEW c \in Clients, NEW type \in EventTypes, EventArrives(c, type), callback' # callback
      PROVE  CallbackInv'
  <2>1. c \in DOMAIN native /\ callback' = [client |-> c, token |-> native[c].token, step |-> "exchange"]
    BY <1>4 DEF EventArrives
  <2> QED BY <2>1 DEF CallbackInv, Kept, NoCallback
<1>5. CASE CallbackPost
  BY <1>2, <1>5 DEF CallbackPost
<1>6. CASE DrainBegins \/ LoopAbandoned \/ LoopFindsNone \/ LoopTakes \/ SignalReturns
  BY <1>1, <1>6 DEF DrainBegins, LoopAbandoned, LoopFindsNone, LoopTakes, SignalReturns
<1> QED BY <1>1, <1>3, <1>4, <1>5, <1>6 DEF KeptStep

\* Setup leaves a callback for the new client at most, a shutdown waits for the one under
\* way.
LEMMA OtherCallbackInv ==
  ASSUME TypeOK, ClientInv, CallbackInv, Begins \/ FinishShutdown \/ \E c \in Clients : SetupClient(c)
  PROVE  CallbackInv'
<1>1. CASE Begins
  BY <1>1 DEF Begins, CallbackInv
<1>2. CASE FinishShutdown
  BY <1>2 DEF FinishShutdown, Destroyed, CallbackInv
<1>3. ASSUME NEW c \in Clients, SetupClient(c)
      PROVE  CallbackInv'
  <2>1. c \in DOMAIN native' /\ native'[c].token = generation
    BY <1>3 DEF SetupClient, Placed
  <2>2. CASE callback' = NoCallback
    BY <2>2 DEF CallbackInv, NoCallback
  <2>3. CASE callback' = [client |-> c, token |-> generation, step |-> "exchange"]
    BY <2>1, <2>3 DEF CallbackInv, NoCallback
  <2> QED BY <1>3, <2>2, <2>3 DEF SetupClient
<1> QED BY <1>1, <1>2, <1>3

-----------------------------------------------------------------------------
(* The drain under way and the queue.                                        *)

-----------------------------------------------------------------------------
(* The drain under way.                                                      *)

\* The generations compared are numbers.
LEMMA LoopBounds ==
  ASSUME TypeOK
  PROVE  loop.generation \in Nat /\ generation \in Nat
<1>1. loop.generation \in Tokens
  BY DEF TypeOK
<1> QED BY <1>1, Bounds

\* The thread of libmpv does not touch the drain under way; a deleted helper's
\* queue stays empty as no client lives that could run the callback.
LEMMA LibmpvLoopInv ==
  ASSUME TypeOK, ClientInv, CallbackInv, LoopInv,
         CallbackExchange \/ CallbackPost \/ \E c \in Clients, type \in EventTypes : EventArrives(c, type)
  PROVE  LoopInv'
<1>1. UNCHANGED <<client, generation, deleted, pc, resume, loop>>
  BY DEF CallbackExchange, CallbackPost, EventArrives, helperVars, threadVars
<1>2. CASE UNCHANGED queue
  BY <1>1, <1>2 DEF LoopInv
<1>3. CASE CallbackPost
  <2>1. callback # NoCallback
    BY <1>3 DEF CallbackPost, NoCallback
  <2>2. client # NoClient \/ closing.client # NoClient
    BY <2>1 DEF CallbackInv, ClientInv
  <2>3. ~(deleted /\ pc # "unregister")
    BY <2>2 DEF ClientInv
  <2> QED BY <1>1, <2>3 DEF LoopInv
<1> QED BY <1>2, <1>3 DEF CallbackExchange, EventArrives

\* Setup, in a handler perhaps, leaves the drain under way alone.
LEMMA SetupLoopInv ==
  ASSUME TypeOK, ClientInv, LoopInv, NEW c \in Clients, SetupClient(c)
  PROVE  LoopInv'
<1>1. UNCHANGED <<generation, deleted, pc, resume, loop, queue>> /\ client' # NoClient /\ ~deleted
  BY NoClientAssumption DEF SetupClient, MaySetup, threadVars
<1> QED BY <1>1 DEF LoopInv

\* A shutdown inside a handler makes the drain under way one of the past.
LEMMA BeginLoopInv ==
  ASSUME TypeOK, ClientInv, LoopInv, Shutdown \/ Delete \/ LoopShutdown
  PROVE  LoopInv'
<1>0. generation' = generation + 1 /\ client' = NoClient /\ loop' = loop
  BY DEF Shutdown, Delete, LoopShutdown, BeginShutdown
<1>1. loop'.generation <= generation' /\ loop'.generation < generation'
  BY <1>0, LoopBounds DEF LoopInv
<1>2. CASE client # NoClient
  <2>1. pc' = "unregister" /\ resume' = pc /\ pc # "unregister"
    BY <1>2 DEF Shutdown, Delete, LoopShutdown, BeginShutdown, Running
  <2>2. pc \in {"idle", "loop", "signal"}
    BY <2>1 DEF TypeOK
  <2>3. resume' = "idle" <=> loop' = NoLoop
    BY <1>0, <2>1, <2>2 DEF LoopInv, NoLoop
  <2> QED BY <1>0, <1>1, <2>1, <2>3 DEF LoopInv
<1>3. CASE client = NoClient
  <2>1. ~LoopShutdown
    BY <1>3, LoopClient DEF LoopShutdown
  <2>2. UNCHANGED <<pc, resume>> /\ pc # "unregister"
    BY <1>3, <2>1 DEF Shutdown, Delete, BeginShutdown, Running
  <2>3. (deleted' /\ pc' # "unregister") => queue' = <<>>
    BY <2>1 DEF Shutdown, Delete
  <2> QED BY <1>0, <1>1, <2>2, <2>3 DEF LoopInv
<1> QED BY <1>2, <1>3

\* The shutdown returns to where it was called.
LEMMA FinishLoopInv ==
  ASSUME TypeOK, ClientInv, LoopInv, FinishShutdown
  PROVE  LoopInv'
<1>1. pc = "unregister" /\ pc' = resume /\ UNCHANGED <<client, generation, deleted, loop>>
  BY DEF FinishShutdown, Destroyed, helperVars
<1>2. resume \in {"idle", "loop", "signal"}
  BY DEF TypeOK
<1>3. deleted => queue' = <<>>
  BY DEF FinishShutdown, Destroyed
<1> QED BY <1>1, <1>2, <1>3 DEF LoopInv

\* A drain begins for the present client and generation.
LEMMA DrainBeginsLoopInv ==
  ASSUME TypeOK, ClientInv, LoopInv, DrainBegins
  PROVE  LoopInv'
<1>1. UNCHANGED <<client, generation, deleted, resume>> /\ pc # "unregister" /\ pc' # "unregister"
  BY DEF DrainBegins, Running
<1>2. ~deleted
  BY <1>1 DEF DrainBegins, LoopInv
<1>3. CASE UNCHANGED <<pc, loop>>
  BY <1>1, <1>2, <1>3 DEF LoopInv
<1>4. CASE /\ pc' = "loop" /\ loop' = [client |-> client, generation |-> generation]
           /\ client # NoClient
  <2>1. loop'.generation <= generation'
    BY <1>1, <1>4, LoopBounds
  <2> QED BY <1>1, <1>2, <1>4, <2>1 DEF LoopInv
<1> QED BY <1>3, <1>4 DEF DrainBegins

\* A drain that ends leaves none behind.
LEMMA LoopEndingLoopInv ==
  ASSUME TypeOK, ClientInv, LoopInv, LoopAbandoned \/ LoopFindsNone
  PROVE  LoopInv'
<1>1. /\ LoopEnds /\ pc = "loop"
      /\ UNCHANGED <<client, generation, deleted, resume>>
  BY DEF LoopAbandoned, LoopFindsNone
<1>2. pc' = "idle" /\ loop' = NoLoop /\ loop'.client = NoClient /\ loop'.generation = 0
  BY <1>1 DEF LoopEnds, NoLoop
<1>3. deleted => queue' = <<>>
  BY <1>1 DEF LoopEnds, LoopInv, ClientInv
<1>4. 0 < generation
  BY Bounds
<1> QED BY <1>1, <1>2, <1>3, <1>4, Bounds DEF LoopInv

\* Handlers run inside a drain and return to it, or to the event loop when the
\* helper is gone.
LEMMA HandlerLoopInv ==
  ASSUME TypeOK, ClientInv, LoopInv, LoopTakes \/ SignalReturns
  PROVE  LoopInv'
<1>1. CASE LoopTakes
  <2>1. UNCHANGED <<client, generation, deleted, resume, loop, queue>> /\ pc = "loop" /\ pc' \in {"loop", "signal"}
    BY <1>1 DEF LoopTakes, helperVars
  <2> QED BY <2>1 DEF LoopInv
<1>2. CASE SignalReturns
  <2>1. UNCHANGED <<client, generation, deleted, resume, queue>> /\ pc = "signal"
    BY <1>2 DEF SignalReturns, helperVars
  <2>2. CASE deleted
    <3>1. pc' = "idle" /\ loop' = NoLoop /\ loop'.client = NoClient /\ loop'.generation = 0
      BY <1>2, <2>2 DEF SignalReturns, NoLoop
    <3>2. 0 < generation
      BY Bounds
    <3> QED BY <2>1, <2>2, <3>1, <3>2, Bounds DEF LoopInv
  <2>3. CASE ~deleted
    <3>1. pc' = "loop" /\ loop' = loop
      BY <1>2, <2>3 DEF SignalReturns
    <3> QED BY <2>1, <3>1 DEF LoopInv
  <2> QED BY <2>2, <2>3
<1> QED BY <1>1, <1>2

-----------------------------------------------------------------------------
(* The drains queued.                                                        *)

\* A queue that is left alone, or emptied.
LEMMA QueueKept ==
  ASSUME TypeOK, QueueInv, queue' = queue \/ queue' = <<>>, generation' \in Nat, generation' >= generation,
         client' = NoClient => (client = NoClient \/ generation' > generation)
  PROVE  QueueInv'
<1>1. \A n \in DOMAIN queue : queue[n] \in Nat
  <2>1. queue \in Seq(Generations)
    BY DEF TypeOK
  <2> QED BY <2>1, Bounds
<1>2. CASE queue' = queue
  BY <1>1, <1>2, Bounds DEF QueueInv
<1>3. CASE queue' = <<>>
  BY <1>3 DEF QueueInv
<1> QED BY <1>2, <1>3

\* A drain queued while its client lives.
LEMMA QueueGrows ==
  ASSUME TypeOK, QueueInv, UNCHANGED <<client, generation>>, NEW g \in Generations, g <= generation,
         client = NoClient => g < generation, queue' = Append(queue, g)
  PROVE  QueueInv'
<1>1. queue \in Seq(Generations)
  BY DEF TypeOK
<1>2. \A n \in DOMAIN queue' : queue'[n] = g \/ (n \in DOMAIN queue /\ queue'[n] = queue[n])
  BY <1>1
<1> QED BY <1>2 DEF QueueInv

\* A drain that is taken from the queue.
LEMMA QueueShrinks ==
  ASSUME TypeOK, QueueInv, UNCHANGED <<client, generation>>, queue # <<>>, queue' = Tail(queue)
  PROVE  QueueInv'
<1>1. queue \in Seq(Generations)
  BY DEF TypeOK
<1>2. \A n \in DOMAIN queue' : n + 1 \in DOMAIN queue /\ queue'[n] = queue[n + 1]
  BY <1>1
<1> QED BY <1>2 DEF QueueInv

\* Every step keeps the invariant of the queue.
LEMMA NextQueueInv ==
  ASSUME TypeOK, ClientInv, CallbackInv, QueueInv, Next
  PROVE  QueueInv'
<1>1. ASSUME NEW c \in Clients, NEW type \in EventTypes, EventArrives(c, type)
      PROVE  QueueInv'
  BY <1>1, QueueKept, Bounds DEF EventArrives, helperVars
<1>2. CASE CallbackExchange \/ SignalReturns \/ LoopTakes
  <2>1. UNCHANGED <<queue, client, generation>>
    BY <1>2 DEF CallbackExchange, SignalReturns, LoopTakes, helperVars
  <2> QED BY <2>1, QueueKept, Bounds
<1>3. CASE CallbackPost
  <2>1. UNCHANGED <<client, generation>>
    BY <1>3 DEF CallbackPost, helperVars
  <2>2. callback # NoCallback
    BY <1>3 DEF CallbackPost, NoCallback
  <2>3. callback.token \in Generations
    BY <2>2, CallbackToken DEF TypeOK
  <2>4. callback.token <= generation /\ (client = NoClient => callback.token < generation)
    BY <2>2, CallbackToken, Bounds DEF ClientInv, CallbackInv, TypeOK
  <2>5. CASE queue' = Append(queue, callback.token)
    BY <2>1, <2>3, <2>4, <2>5, QueueGrows
  <2>6. CASE queue' = queue
    BY <2>1, <2>6, QueueKept, Bounds
  <2> QED BY <1>3, <2>5, <2>6 DEF CallbackPost
<1>4. ASSUME NEW c \in Clients, SetupClient(c)
      PROVE  QueueInv'
  <2>1. UNCHANGED <<queue, generation>> /\ client = NoClient
    BY <1>4 DEF SetupClient, MaySetup
  <2> QED BY <2>1, QueueKept, Bounds
<1>5. CASE Shutdown \/ Delete \/ LoopShutdown
  <2>1. generation' = generation + 1 /\ (queue' = queue \/ queue' = <<>>)
    BY <1>5 DEF Shutdown, Delete, LoopShutdown, BeginShutdown
  <2> QED BY <2>1, QueueKept, Bounds
<1>6. CASE FinishShutdown
  <2>1. UNCHANGED <<client, generation>> /\ (queue' = queue \/ queue' = <<>>)
    BY <1>6 DEF FinishShutdown, Destroyed, helperVars
  <2> QED BY <2>1, QueueKept, Bounds
<1>7. CASE DrainBegins
  BY <1>7, QueueShrinks DEF DrainBegins
<1>8. CASE LoopAbandoned \/ LoopFindsNone
  <2>1. UNCHANGED <<client, generation>> /\ LoopEnds
    BY <1>8 DEF LoopAbandoned, LoopFindsNone
  <2>2. CASE redrain /\ client # NoClient
    <3>1. queue' = Append(queue, generation)
      BY <2>1, <2>2 DEF LoopEnds
    <3>2. generation \in Generations /\ generation <= generation
      BY Bounds DEF TypeOK
    <3> QED BY <2>1, <2>2, <3>1, <3>2, QueueGrows
  <2>3. CASE ~(redrain /\ client # NoClient)
    <3>1. queue' = queue
      BY <2>1, <2>3 DEF LoopEnds
    <3> QED BY <2>1, <3>1, QueueKept, Bounds
  <2> QED BY <2>2, <2>3
<1> QED BY <1>1, <1>2, <1>3, <1>4, <1>5, <1>6, <1>7, <1>8 DEF Next, Libmpv, Operation, Drain

-----------------------------------------------------------------------------
(* The flags.                                                                *)

\* While the flags and the queue only change for the better, and no callback is
\* taken back before its post.
LEMMA FlagKept ==
  ASSUME FlagInv, deleted' = FALSE => deleted = FALSE,
         \A t \in DOMAIN pending' : pending'[t] => t \in DOMAIN pending /\ pending[t],
         \A n \in DOMAIN queue : n \in DOMAIN queue' /\ queue'[n] = queue[n],
         callback' = callback \/ callback.step # "post"
  PROVE  FlagInv'
BY DEF FlagInv

\* Every step keeps the invariant of the flags.
LEMMA NextFlagInv ==
  ASSUME TypeOK, ClientInv, CallbackInv, FlagInv, Next
  PROVE  FlagInv'
<1>0. /\ deleted \in BOOLEAN /\ deleted' \in BOOLEAN
      /\ pending \in [DOMAIN pending -> BOOLEAN] /\ queue \in Seq(Generations)
      /\ generation \in Generations
  BY DEF TypeOK, Next, Libmpv, Operation, Drain, EventArrives, CallbackExchange, CallbackPost, SetupClient,
     Shutdown, Delete, FinishShutdown, Destroyed, DrainBegins, LoopAbandoned, LoopFindsNone, LoopTakes,
     LoopShutdown, SignalReturns, helperVars
<1>1. ASSUME NEW c \in Clients, NEW type \in EventTypes, EventArrives(c, type)
      PROVE  FlagInv'
  <2>1. UNCHANGED <<deleted, pending, queue>>
    BY <1>1 DEF EventArrives, helperVars
  <2>2. callback' = callback \/ callback.step # "post"
    BY <1>1 DEF EventArrives, NoCallback
  <2> QED BY <2>1, <2>2 DEF FlagInv
<1>2. CASE CallbackExchange
  <2>1. UNCHANGED <<deleted, queue>> /\ callback.step = "exchange"
    BY <1>2 DEF CallbackExchange, helperVars
  <2>2. pending' = [pending EXCEPT ![callback.token] = TRUE]
    BY <1>2 DEF CallbackExchange
  <2> SUFFICES ASSUME NEW t \in DOMAIN pending', pending'[t], ~deleted
               PROVE  \/ \E n \in DOMAIN queue : queue[n] = t
                      \/ callback'.step = "post" /\ callback'.token = t
    BY <2>1 DEF FlagInv
  <2>3. CASE pending[t]
    BY <2>1, <2>2, <2>3 DEF FlagInv
  <2>4. CASE ~pending[t]
    <3>1. t = callback.token
      BY <2>2, <2>4, <1>0
    <3>2. callback' = [callback EXCEPT !.step = "post"]
      BY <1>2, <2>4, <3>1 DEF CallbackExchange
    <3> QED BY <3>1, <3>2 DEF TypeOK
  <2> QED BY <2>3, <2>4
<1>3. CASE CallbackPost
  <2>0. deleted' = deleted /\ callback.step = "post"
    BY <1>3 DEF CallbackPost, helperVars
  <2>1. CASE queue' = Append(queue, callback.token) /\ UNCHANGED pending
    <3>1. \A n \in DOMAIN queue : n \in DOMAIN queue' /\ queue'[n] = queue[n]
      BY <1>0, <2>1
    <3>2. Len(queue) + 1 \in DOMAIN queue' /\ queue'[Len(queue) + 1] = callback.token
      BY <1>0, <2>1
    <3> QED BY <2>0, <2>1, <3>1, <3>2 DEF FlagInv
  <2>2. CASE UNCHANGED queue /\ pending' = [pending EXCEPT ![callback.token] = FALSE]
    BY <1>0, <2>0, <2>2 DEF FlagInv
  <2> QED BY <1>3, <2>1, <2>2 DEF CallbackPost
<1>4. ASSUME NEW c \in Clients, SetupClient(c)
      PROVE  FlagInv'
  <2>1. DOMAIN pending = {}
    BY <1>4 DEF SetupClient, MaySetup, Running, ClientInv
  <2>2. \A t \in DOMAIN pending' : ~pending'[t]
    BY <1>4, <2>1 DEF SetupClient, Placed
  <2> QED BY <2>2 DEF FlagInv
<1>5. CASE Shutdown \/ LoopShutdown
  <2>1. UNCHANGED <<deleted, pending, queue, callback>>
    BY <1>5 DEF Shutdown, LoopShutdown
  <2> QED BY <2>1 DEF FlagInv
<1>6. CASE Delete
  BY <1>6 DEF Delete, FlagInv
<1>7. CASE FinishShutdown
  <2>1. DOMAIN pending' = {}
    BY <1>7 DEF FinishShutdown, Destroyed, ClientInv
  <2> QED BY <2>1 DEF FlagInv
<1>8. CASE DrainBegins
  <2>0. UNCHANGED <<deleted, callback>> /\ queue # <<>> /\ queue' = Tail(queue)
    BY <1>8 DEF DrainBegins
  <2>1. DOMAIN pending = {token} \ {0}
    BY <1>8 DEF DrainBegins, Running, ClientInv
  <2>2. CASE client = NoClient
    <3>1. DOMAIN pending' = {}
      BY <1>8, <2>1, <2>2 DEF DrainBegins, ClientInv
    <3> QED BY <3>1 DEF FlagInv
  <2>3. CASE client # NoClient /\ Head(queue) # generation
    <3>1. UNCHANGED pending /\ token = generation
      BY <1>8, <2>3 DEF DrainBegins, ClientInv
    <3>2. ASSUME NEW n \in DOMAIN queue, queue[n] = generation
          PROVE  \E k \in DOMAIN queue' : queue'[k] = generation
      <4>1. n # 1
        BY <1>0, <2>0, <2>3, <3>2
      <4>2. n - 1 \in DOMAIN queue' /\ queue'[n - 1] = queue[n]
        BY <1>0, <2>0, <4>1
      <4> QED BY <3>2, <4>2
    <3> QED BY <2>0, <2>1, <3>1, <3>2 DEF FlagInv
  <2>4. CASE client # NoClient /\ Head(queue) = generation
    <3>1. pending' = [pending EXCEPT ![token] = FALSE]
      BY <1>8, <2>4 DEF DrainBegins, Cleared
    <3> QED BY <2>1, <3>1 DEF FlagInv
  <2> QED BY <2>2, <2>3, <2>4
<1>9. CASE LoopAbandoned \/ LoopFindsNone
  <2>1. UNCHANGED <<deleted, pending, callback>>
    BY <1>9 DEF LoopAbandoned, LoopFindsNone
  <2>2. queue' = queue \/ queue' = Append(queue, generation)
    BY <1>9 DEF LoopAbandoned, LoopFindsNone, LoopEnds
  <2>3. \A n \in DOMAIN queue : n \in DOMAIN queue' /\ queue'[n] = queue[n]
    BY <1>0, <2>2
  <2> QED BY <2>1, <2>3 DEF FlagInv
<1>10. CASE LoopTakes \/ SignalReturns
  <2>1. UNCHANGED <<deleted, pending, queue, callback>>
    BY <1>10 DEF LoopTakes, SignalReturns, helperVars
  <2> QED BY <2>1 DEF FlagInv
<1> QED BY <1>1, <1>2, <1>3, <1>4, <1>5, <1>6, <1>7, <1>8, <1>9, <1>10 DEF Next, Libmpv, Operation, Drain

-----------------------------------------------------------------------------
(* The drains counted.                                                       *)

\* The numbers in the count.
LEMMA CountType ==
  ASSUME NEW q \in Seq(Generations), NEW g
  PROVE  Count(q, g) \in Nat /\ IsFiniteSet({n \in DOMAIN q : q[n] = g})
<1>1. DOMAIN q = 1 .. Len(q) /\ Len(q) \in Nat
  OBVIOUS
<1>2. IsFiniteSet(1 .. Len(q))
  BY <1>1, FS_Interval
<1>3. {n \in DOMAIN q : q[n] = g} \subseteq 1 .. Len(q)
  BY <1>1
<1>4. IsFiniteSet({n \in DOMAIN q : q[n] = g})
  BY <1>2, <1>3, FS_Subset
<1> QED BY <1>4, FS_CardinalityType DEF Count

\* One more drain.
LEMMA CountAppend ==
  ASSUME NEW q \in Seq(Generations), NEW g, NEW h \in Generations
  PROVE  Count(Append(q, h), g) = Count(q, g) + (IF h = g THEN 1 ELSE 0)
<1> DEFINE S(s) == {n \in DOMAIN s : s[n] = g}
<1>1. S(Append(q, h)) = IF h = g THEN S(q) \cup {Len(q) + 1} ELSE S(q)
  OBVIOUS
<1>2. IsFiniteSet(S(q)) /\ Cardinality(S(q)) \in Nat
  BY CountType DEF Count
<1>3. Len(q) + 1 \notin S(q)
  OBVIOUS
<1>4. Cardinality(S(q) \cup {Len(q) + 1}) = Cardinality(S(q)) + 1
  BY <1>2, <1>3, FS_AddElement
<1>5. Count(Append(q, h), g) = Cardinality(S(Append(q, h))) /\ Count(q, g) = Cardinality(S(q))
  BY DEF Count
<1> HIDE DEF S
<1>6. CASE h = g
  <2>1. S(Append(q, h)) = S(q) \cup {Len(q) + 1}
    BY <1>1, <1>6
  <2> QED BY <1>4, <1>5, <1>6, <2>1
<1>7. CASE h # g
  <2>1. S(Append(q, h)) = S(q)
    BY <1>1, <1>7
  <2> QED BY <1>2, <1>5, <1>7, <2>1
<1> QED BY <1>6, <1>7

\* One less.
LEMMA CountTail ==
  ASSUME NEW q \in Seq(Generations), NEW g, q # <<>>
  PROVE  Count(q, g) = Count(Tail(q), g) + (IF Head(q) = g THEN 1 ELSE 0)
<1> DEFINE S == {n \in DOMAIN q : q[n] = g}
           T == {n \in DOMAIN Tail(q) : Tail(q)[n] = g}
           f == [n \in T |-> n + 1]
<1>0. Tail(q) \in Seq(Generations)
  OBVIOUS
<1>1. IsFiniteSet(S) /\ IsFiniteSet(T) /\ Cardinality(S) \in Nat /\ Cardinality(T) \in Nat
  BY <1>0, CountType DEF Count
<1>2. \A n \in T : n + 1 \in S \ {1}
  BY <1>0
<1>3. \A m \in S \ {1} : m - 1 \in T /\ m = (m - 1) + 1
  BY <1>0
<1>4. T \subseteq Nat
  BY <1>0
<1>5. f \in Bijection(T, S \ {1})
  <2>1. f \in [T -> S \ {1}]
    BY <1>2
  <2>2. \A a, b \in T : f[a] = f[b] => a = b
    BY <1>4
  <2>3. \A m \in S \ {1} : \E n \in T : f[n] = m
    BY <1>3
  <2> QED BY <2>1, <2>2, <2>3 DEF Bijection, Injection, Surjection, IsInjective
<1>6. Cardinality(S \ {1}) = Cardinality(T)
  <2> HIDE DEF S, T, f
  <2>1. ExistsBijection(T, S \ {1})
    BY <1>5 DEF ExistsBijection
  <2> QED BY <1>1, <2>1, FS_Bijection
<1>7. 1 \in S <=> Head(q) = g
  OBVIOUS
<1>8. Cardinality(S \ {1}) = IF 1 \in S THEN Cardinality(S) - 1 ELSE Cardinality(S)
  BY <1>1, FS_RemoveElement
<1>9. Count(q, g) = Cardinality(S) /\ Count(Tail(q), g) = Cardinality(T)
  BY DEF Count
<1> HIDE DEF S, T
<1>10. CASE Head(q) = g
  BY <1>1, <1>6, <1>7, <1>8, <1>9, <1>10
<1>11. CASE Head(q) # g
  BY <1>1, <1>6, <1>7, <1>8, <1>9, <1>11
<1> QED BY <1>10, <1>11

\* The terms of the count are numbers.
LEMMA CountTerms ==
  ASSUME TypeOK
  PROVE  /\ queue \in Seq(Generations) /\ generation \in Generations
         /\ Count(queue, generation) \in Nat
         /\ \A b \in BOOLEAN : One(b) \in Nat
<1>1. queue \in Seq(Generations) /\ generation \in Generations
  BY DEF TypeOK
<1> QED BY <1>1, CountType DEF One

\* Every step keeps the count: what it adds to one term it takes from another.
LEMMA NextCountInv ==
  ASSUME TypeOK, ClientInv, CallbackInv, LoopInv, QueueInv, CountInv, Next
  PROVE  CountInv'
<1> DEFINE k == Count(queue, generation)
<1>0. queue \in Seq(Generations) /\ generation \in Generations /\ k \in Nat /\ world' = world
  BY CountTerms DEF Next
<1> HIDE DEF k
<1> SUFFICES ASSUME world.spuriousBelow = 0, client' # NoClient
             PROVE  CountInv'
  BY <1>0 DEF CountInv
<1>1. ASSUME NEW c \in Clients, SetupClient(c)
      PROVE  CountInv'
  <2>1. client = NoClient /\ client' = c /\ UNCHANGED <<queue, generation, loop>>
    BY <1>1 DEF SetupClient, MaySetup, threadVars
  <2>2. Count(queue, generation) = 0
    <3>1. \A n \in DOMAIN queue : queue[n] < generation /\ queue[n] \in Nat
      BY <1>0, <2>1, Bounds DEF QueueInv
    <3>2. {n \in DOMAIN queue : queue[n] = generation} = {}
      BY <3>1, Bounds
    <3> QED BY <3>2, FS_EmptySet DEF Count
  <2>3. loop'.generation # generation'
    BY <2>1, LoopBounds DEF LoopInv
  <2> QED BY <2>1, <2>2, <2>3 DEF CountInv, One
<1>2. CASE Shutdown \/ Delete \/ LoopShutdown
  BY <1>2 DEF Shutdown, Delete, LoopShutdown, BeginShutdown
<1>3. CASE FinishShutdown
  BY <1>3 DEF FinishShutdown, Destroyed, helperVars, ClientInv
<1> SUFFICES ASSUME KeptStep
             PROVE  CountInv'
  BY <1>1, <1>2, <1>3 DEF Next, Libmpv, Operation, Drain, KeptStep, CountInv
<1>4. /\ client' = client /\ generation' = generation /\ client # NoClient
      /\ k + One(redrain) + One(callback # NoCallback)
          + One(~native[client].need) + One(loop.generation = generation) <= 3
  BY KeptSteps DEF Kept, CountInv, k
<1>5. client \in DOMAIN native /\ native[client] \in NativeClient
  BY <1>4 DEF ClientInv, TypeOK
<1>6. ASSUME NEW c \in Clients, NEW type \in EventTypes, EventArrives(c, type)
      PROVE  CountInv'
  <2>1. UNCHANGED <<queue, redrain, loop>>
    BY <1>6 DEF EventArrives, helperVars, threadVars
  <2>2. c \in DOMAIN native /\ native[c] \in NativeClient
    BY <1>6 DEF EventArrives, TypeOK
  <2>4. CASE callback' = callback
    <3>1. ~native'[client].need => ~native[client].need
      BY <1>5, <1>6, <2>2 DEF EventArrives, NativeClient
    <3> QED BY <1>0, <1>4, <2>1, <2>4, <3>1 DEF CountInv, One, k
  <2>5. CASE callback' # callback
    <3>1. callback = NoCallback /\ ~native[c].need
      <4>1. ~(Len(queue) < 0)
        BY <1>0
      <4> QED BY <1>6, <2>5, <4>1 DEF EventArrives
    <3>2. c = client
      BY <1>4, <2>2 DEF ClientInv
    <3>3. native'[client].need
      BY <1>5, <1>6, <3>2 DEF EventArrives, NativeClient
    <3> QED BY <1>0, <1>4, <2>1, <3>1, <3>2, <3>3 DEF CountInv, One, k
  <2> QED BY <2>4, <2>5
<1>7. CASE CallbackExchange
  <2>1. UNCHANGED <<queue, redrain, loop, native>> /\ callback # NoCallback
    BY <1>7 DEF CallbackExchange, helperVars, threadVars, NoCallback
  <2> QED BY <1>0, <1>4, <2>1 DEF CountInv, One, k
<1>8. CASE CallbackPost
  <2>1. UNCHANGED <<redrain, loop, native>> /\ callback # NoCallback /\ callback' = NoCallback
    BY <1>8 DEF CallbackPost, helperVars, threadVars, NoCallback
  <2>2. callback.token \in Generations
    BY <2>1, CallbackToken DEF TypeOK
  <2>3. Count(queue', generation) = k \/ Count(queue', generation) = k + 1
    <3>1. CASE queue' = Append(queue, callback.token)
      <4>1. Count(queue', generation) = k + (IF callback.token = generation THEN 1 ELSE 0)
        BY <1>0, <2>2, <3>1, CountAppend DEF k
      <4> QED BY <1>0, <4>1
    <3>2. CASE UNCHANGED queue
      BY <3>2 DEF k
    <3> QED BY <1>8, <3>1, <3>2 DEF CallbackPost
  <2> QED BY <1>0, <1>4, <2>1, <2>3 DEF CountInv, One
<1>9. CASE DrainBegins
  <2>1. UNCHANGED <<callback, native>> /\ queue # <<>> /\ queue' = Tail(queue)
    BY <1>9 DEF DrainBegins
  <2>2. Tail(queue) \in Seq(Generations) /\ Count(queue', generation) \in Nat
    <3>1. Tail(queue) \in Seq(Generations)
      BY <1>0, <2>1
    <3> QED BY <2>1, <3>1, CountType
  <2>3. CASE Head(queue) # generation
    <3>1. UNCHANGED <<redrain, loop>>
      BY <1>9, <2>3 DEF DrainBegins
    <3>2. Count(queue', generation) = k
      BY <1>0, <2>1, <2>2, <2>3, CountTail DEF k
    <3> QED BY <1>0, <1>4, <2>1, <3>1, <3>2 DEF CountInv, One
  <2>4. CASE Head(queue) = generation
    <3>1. k = Count(queue', generation) + 1
      BY <1>0, <2>1, <2>2, <2>4, CountTail DEF k
    <3>2. loop' = loop \/ redrain' = redrain
      BY <1>4, <1>9, <2>4 DEF DrainBegins
    <3> QED BY <1>0, <1>4, <2>1, <2>2, <3>1, <3>2 DEF CountInv, One
  <2> QED BY <2>3, <2>4
<1>10. CASE LoopAbandoned \/ LoopFindsNone
  <2>1. LoopEnds /\ UNCHANGED callback
    BY <1>10 DEF LoopAbandoned, LoopFindsNone
  <2>2. redrain' = FALSE /\ loop'.generation # generation
    BY <2>1, Bounds DEF LoopEnds, NoLoop
  <2>3. Count(queue', generation) = k + One(redrain)
    <3>1. CASE redrain
      BY <1>0, <1>4, <2>1, <3>1, CountAppend DEF LoopEnds, One, k
    <3>2. CASE ~redrain
      BY <1>0, <2>1, <3>2 DEF LoopEnds, One, k
    <3> QED BY <3>1, <3>2
  <2>4. native' = native \/ loop.generation = generation
    BY <1>10 DEF LoopAbandoned, LoopFindsNone, LoopGoesOn
  <2> QED BY <1>0, <1>4, <2>1, <2>2, <2>3, <2>4 DEF CountInv, One
<1>11. CASE LoopTakes
  <2>1. UNCHANGED <<queue, redrain, loop, callback>>
    BY <1>11 DEF LoopTakes, helperVars
  <2>2. loop.client = client /\ native'[client].need = native[client].need
    BY <1>5, <1>11 DEF LoopTakes, LoopGoesOn, NativeClient
  <2> QED BY <1>0, <1>4, <2>1, <2>2 DEF CountInv, One, k
<1>12. CASE SignalReturns
  <2>1. UNCHANGED <<queue, redrain, native, callback>>
    BY <1>12 DEF SignalReturns, helperVars
  <2>2. loop' = loop \/ loop'.generation # generation
    BY <1>12, Bounds DEF SignalReturns, NoLoop
  <2> QED BY <1>0, <1>4, <2>1, <2>2 DEF CountInv, One, k
<1> QED BY <1>6, <1>7, <1>8, <1>9, <1>10, <1>11, <1>12 DEF KeptStep

-----------------------------------------------------------------------------
(* The theorems.                                                             *)

\* Initially nothing is alive or queued.
LEMMA InitIInv == Init => IInv
<1> SUFFICES ASSUME Init
             PROVE  IInv
  OBVIOUS
<1>1. TypeOK
  <2>1. 1 \in Generations
    BY BoundsAssumption DEF Generations
  <2>2. <<>> \in Seq(Generations)
    OBVIOUS
  <2>3. queue \in Seq(Generations) /\ generation \in Generations
    BY <2>1, <2>2 DEF Init
  <2>4. /\ DOMAIN pending = {} /\ DOMAIN native = {}
        /\ pending \in [DOMAIN pending -> BOOLEAN] /\ native \in [DOMAIN native -> NativeClient]
    BY DEF Init
  <2>5. /\ loop \in [client : Clients \cup {NoClient}, generation : Tokens]
        /\ closing \in [client : Clients \cup {NoClient}, token : Tokens]
        /\ callback \in [client : Clients \cup {NoClient}, token : Tokens, step : {"none", "exchange", "post"}]
    BY DEF Init, NoLoop, NoClosing, NoCallback, Tokens
  <2> QED BY <2>3, <2>4, <2>5 DEF TypeOK, Init, Tokens
<1>2. ClientInv
  BY DEF ClientInv, Init, NoClosing
<1>3. CallbackInv /\ LoopInv /\ QueueInv
  BY DEF CallbackInv, LoopInv, QueueInv, Init, NoCallback, NoLoop
<1>4. FlagInv /\ CountInv
  BY DEF FlagInv, CountInv, Init
<1> QED BY <1>1, <1>2, <1>3, <1>4 DEF IInv

\* Every step keeps the inductive invariant.
LEMMA NextIInv == IInv /\ [Next]_vars => IInv'
<1> SUFFICES ASSUME IInv, [Next]_vars
             PROVE  IInv'
  OBVIOUS
<1>0. TypeOK /\ ClientInv /\ CallbackInv /\ LoopInv /\ QueueInv /\ FlagInv /\ CountInv
  BY DEF IInv
<1>1. CASE Next
  <2>0. UNCHANGED world
    BY <1>1 DEF Next
  <2>1. QueueInv' /\ FlagInv' /\ CountInv'
    BY <1>0, <1>1, NextQueueInv, NextFlagInv, NextCountInv
  <2>2. ASSUME NEW c \in Clients, NEW type \in EventTypes, EventArrives(c, type)
        PROVE  TypeOK' /\ LoopInv'
    BY <1>0, <2>0, <2>2, EventArrivesType, LibmpvLoopInv
  <2>3. ASSUME CallbackExchange \/ CallbackPost
        PROVE  TypeOK' /\ LoopInv'
    BY <1>0, <2>0, <2>3, CallbackType, LibmpvLoopInv
  <2>4. ASSUME DrainBegins
        PROVE  TypeOK' /\ LoopInv'
    BY <1>0, <2>0, <2>4, DrainBeginsType, DrainBeginsLoopInv
  <2>5. ASSUME LoopAbandoned \/ LoopFindsNone
        PROVE  TypeOK' /\ LoopInv'
    BY <1>0, <2>0, <2>5, LoopEndingType, LoopEndingLoopInv
  <2>6. ASSUME LoopTakes \/ SignalReturns
        PROVE  TypeOK' /\ LoopInv'
    BY <1>0, <2>0, <2>6, LoopTakesType, SignalReturnsType, HandlerLoopInv
  <2>7. CASE KeptStep
    <3>1. TypeOK' /\ LoopInv'
      BY <2>2, <2>3, <2>4, <2>5, <2>6, <2>7 DEF KeptStep
    <3>2. ClientInv' /\ CallbackInv'
      BY <1>0, <2>7, KeptSteps, KeptClientInv, KeptCallbackInv
    <3> QED BY <2>1, <3>1, <3>2 DEF IInv
  <2>8. CASE Shutdown \/ Delete \/ LoopShutdown
    <3>1. TypeOK'
      BY <1>0, <2>0, <2>8, ShutdownType, LoopShutdownType
    <3>2. LoopInv'
      BY <1>0, <2>8, BeginLoopInv
    <3>3. ClientInv' /\ CallbackInv'
      BY <1>0, <2>8, BeginSteps, BeginClientInv, OtherCallbackInv
    <3> QED BY <2>1, <3>1, <3>2, <3>3 DEF IInv
  <2>9. ASSUME NEW c \in Clients, SetupClient(c)
        PROVE  IInv'
    <3>1. TypeOK' /\ ClientInv' /\ LoopInv'
      BY <1>0, <2>0, <2>9, SetupType, SetupClientInv, SetupLoopInv
    <3>2. CallbackInv'
      BY <1>0, <2>9, OtherCallbackInv
    <3> QED BY <2>1, <3>1, <3>2 DEF IInv
  <2>10. CASE FinishShutdown
    <3>1. TypeOK' /\ ClientInv' /\ LoopInv' /\ CallbackInv'
      BY <1>0, <2>0, <2>10, FinishType, FinishClientInv, FinishLoopInv, OtherCallbackInv
    <3> QED BY <2>1, <3>1 DEF IInv
  <2> QED BY <1>1, <2>2, <2>7, <2>8, <2>9, <2>10 DEF Next, Libmpv, Operation, Drain, KeptStep
<1>2. CASE UNCHANGED vars
  <2>1. TypeOK' /\ ClientInv' /\ CallbackInv' /\ LoopInv'
    BY <1>0, <1>2 DEF vars, moving, helperVars, threadVars, TypeOK, ClientInv, CallbackInv, LoopInv
  <2>2. QueueInv' /\ FlagInv' /\ CountInv'
    BY <1>0, <1>2 DEF vars, moving, helperVars, threadVars, QueueInv, FlagInv, CountInv
  <2> QED BY <2>1, <2>2 DEF IInv
<1> QED BY <1>1, <1>2

\* The inductive invariant.
THEOREM Invariance == Spec => []IInv
<1>1. Init => IInv
  BY InitIInv
<1>2. IInv /\ [Next]_vars => IInv'
  BY NextIInv
<1> QED BY <1>1, <1>2, PTL DEF Spec

\* All variables keep their types, whatever libmpv and Qt do.
THEOREM TypeCorrect == Spec => []TypeOK
<1>1. IInv => TypeOK
  BY DEF IInv
<1> QED BY Invariance, <1>1, PTL

\* The callback works with a live token for a live client, the helper's client has
\* its token, and a loop that goes on has its client: no pointer dangles on either
\* thread, whatever handlers and libmpv do, and no client or token leaks.
THEOREM PointersFollowed == Spec => []PointersAreGood
<1>1. IInv => PointersAreGood
  <2> SUFFICES ASSUME IInv
               PROVE  PointersAreGood
    OBVIOUS
  <2>0. TypeOK /\ ClientInv /\ CallbackInv /\ LoopInv
    BY DEF IInv
  <2>1. callback # NoCallback => callback.token \in DOMAIN pending /\ callback.client \in DOMAIN native
    BY <2>0, CallbackToken
  <2>2. client # NoClient => token \in DOMAIN pending /\ client \in DOMAIN native
    BY <2>0 DEF ClientInv
  <2>3. ASSUME pc = "loop", LoopGoesOn
        PROVE  loop.client \in DOMAIN native /\ native[loop.client].token = loop.generation
    BY <2>0, <2>3, LoopClient DEF ClientInv, LoopGoesOn
  <2>4. DOMAIN native \subseteq {client, closing.client} /\ DOMAIN pending \subseteq {token, closing.token}
    BY <2>0 DEF ClientInv
  <2> QED BY <2>1, <2>2, <2>3, <2>4 DEF PointersAreGood
<1> QED BY Invariance, <1>1, PTL

\* A flag that is set never swallows a wakeup for good, and three drains of the
\* current generation at most are queued when libmpv runs the callback once per wakeup.
THEOREM DrainsBounded == Spec => []DrainsAreCounted
<1>1. IInv => DrainsAreCounted
  <2> SUFFICES ASSUME IInv
               PROVE  DrainsAreCounted
    OBVIOUS
  <2>0. TypeOK /\ QueueInv /\ FlagInv /\ CountInv
    BY DEF IInv
  <2>1. ASSUME NEW t \in DOMAIN pending, pending[t], ~deleted
        PROVE  t \in ToSet(queue) \/ callback = [callback EXCEPT !.token = t, !.step = "post"]
    <3>1. CASE \E n \in DOMAIN queue : queue[n] = t
      BY <3>1 DEF ToSet
    <3>2. CASE callback.step = "post" /\ callback.token = t
      BY <2>0, <3>2 DEF TypeOK
    <3> QED BY <2>0, <2>1, <3>1, <3>2 DEF FlagInv
  <2>2. ASSUME world.spuriousBelow = 0
        PROVE  Cardinality({n \in DOMAIN queue : queue[n] = generation}) <= 3
    <3>1. CASE client = NoClient
      <4>1. \A n \in DOMAIN queue : queue[n] \in Nat
        BY <2>0, CountTerms, Bounds
      <4>2. {n \in DOMAIN queue : queue[n] = generation} = {}
        BY <2>0, <3>1, <4>1, Bounds DEF QueueInv
      <4> QED BY <4>2, FS_EmptySet
    <3>2. CASE client # NoClient
      <4>1. /\ Count(queue, generation) + One(redrain) + One(callback # NoCallback)
                 + One(~native[client].need) + One(loop.generation = generation) <= 3
        BY <2>0, <2>2, <3>2 DEF CountInv
      <4>2. Count(queue, generation) <= 3
        BY <2>0, <4>1, CountTerms DEF One
      <4> QED BY <4>2 DEF Count
    <3> QED BY <3>1, <3>2
  <2> QED BY <2>1, <2>2 DEF DrainsAreCounted
<1> QED BY Invariance, <1>1, PTL

=============================================================================
