--------------------------- MODULE AsyncRequests ---------------------------
(***************************************************************************)
(* One asynchronous request, from MpvPlayer through MpvControllerAdapter   *)
(* and MpvBackendWorker to MpvController and libmpv, and back.             *)
(*                                                                         *)
(* Two threads with FIFO Qt event queues: the GUI thread runs the facade   *)
(* and the adapter, the worker thread runs the controller. libmpv is       *)
(* external: it answers an accepted request some time later, in any order, *)
(* or quits. Each queued closure or queued signal is one message, each     *)
(* handler one action. Whether a caller or the facade itself issued a      *)
(* request makes no difference to the bookkeeping and is left out.         *)
(***************************************************************************)
EXTENDS Integers, Sequences, FiniteSets, SequencesExt

CONSTANTS
  MaxPublicId,     (* std::numeric_limits<int>::max()                        *)
  MaxToken,        (* std::numeric_limits<quint64>::max()                    *)
  Kinds            (* request kinds in use                                   *)

ASSUME BoundsAssumption == MaxPublicId \in Nat \ {0} /\ MaxToken \in Nat \ {0}
ASSUME KindsAssumption ==
  Kinds \subseteq {"Command", "PropertySet", "PropertyRead", "Configuration"}

VARIABLES
  (* MpvPlayer, on the GUI thread *)
  shuttingDown,    (* m_shuttingDown                                         *)
  coreAvailable,   (* m_coreAvailable                                        *)
  owners,          (* m_requests: id -> kind of the operation                *)
  delivered,       (* history: <<id, result>> of every terminal notification *)
  (* MpvControllerAdapter, on the GUI thread *)
  available,       (* m_available                                            *)
  closing,         (* m_closing, also m_closed of the MpvBackendWorker       *)
  generation,      (* m_generation                                           *)
  nextPublicId,    (* m_nextPublicId                                         *)
  requests,        (* m_requests: token -> [id, kind, generation]            *)
  guiQueue,        (* events posted to the GUI thread                        *)
  (* MpvCoreLease, shared *)
  nextToken,       (* m_nextNativeToken, 0 when exhausted                    *)
  (* MpvController, on the worker thread *)
  wAvailable, wClosing, wGeneration,
  recoveryRequests,(* tokens of m_recoveryRequests                           *)
  workerQueue,     (* events posted to the worker thread                     *)
  (* libmpv *)
  inflight,        (* accepted requests: [token, kind]                       *)
  events,          (* its event queue                                        *)
  quit             (* it has emitted MPV_EVENT_SHUTDOWN                      *)

facadeVars  == <<shuttingDown, coreAvailable, owners, delivered>>
adapterVars == <<available, closing, generation, nextPublicId, requests>>
workerVars  == <<wAvailable, wClosing, wGeneration, recoveryRequests>>
nativeVars  == <<inflight, events, quit>>
vars == <<facadeVars, adapterVars, guiQueue, nextToken, workerVars, workerQueue,
          nativeVars>>

Ids     == 1 .. MaxPublicId
Tokens  == 1 .. MaxToken
(* Messages. *)
Reply(t, k, g, r) == [type |-> "reply", token |-> t, kind |-> k, gen |-> g, result |-> r]
Finish(q, r)      == [type |-> "finish", id |-> q.id, kind |-> q.kind, result |-> r]
Complete(m)       == [type |-> "complete", id |-> m.id, kind |-> m.kind, result |-> m.result]
Terminal(i)       == [type |-> "terminal", id |-> i, result |-> "unavailable"]
CoreGone          == [type |-> "coreUnavailable"]
Submit(t, k)      == [type |-> "submit", token |-> t, kind |-> k]
StopWorker        == [type |-> "shutdown"]
NativeAnswer(n)   == [type |-> "answer", token |-> n.token, kind |-> n.kind]
NativeShutdown    == [type |-> "shutdown"]

\* Mutant: the counter wraps, and the value 0 of an exhausted one is not kept.
NextTokenWraps(t) == IF t = MaxToken THEN 1 ELSE t + 1

\* allocateNativeToken(): after the last token the counter stays at 0.
NextToken(t) == IF t = MaxToken THEN 0 ELSE t + 1

Init ==
  /\ shuttingDown = FALSE /\ available \in BOOLEAN /\ coreAvailable = available
  /\ owners = <<>> /\ delivered = <<>>
  /\ closing = FALSE /\ generation = 1 /\ nextPublicId = 1 /\ requests = <<>>
  /\ guiQueue = <<>> /\ nextToken = 1
  /\ wAvailable = available /\ wClosing = FALSE /\ wGeneration = 1
  /\ recoveryRequests = {} /\ workerQueue = <<>>
  /\ inflight = {} /\ events = <<>> /\ quit = FALSE

-----------------------------------------------------------------------------
(* GUI thread: calls.                                                        *)

\* Mutant: public ids are not bounded.
MayAdmitAnyId ==
  /\ coreAvailable /\ ~shuttingDown
  /\ available /\ ~closing
  /\ nextToken # 0

\* MpvPlayer::coreAvailable() and MpvControllerAdapter::available().
MayAdmit ==
  /\ coreAvailable /\ ~shuttingDown
  /\ available /\ ~closing
  /\ nextPublicId <= MaxPublicId
  /\ nextToken # 0

\* QHash::insert().
Insert(hash, key, value) ==
  [k \in DOMAIN hash \cup {key} |-> IF k = key THEN value ELSE hash[k]]

\* commandAsync() and its siblings: admit() records the request under a fresh
\* token and id and posts the submission, then the facade records the owner.
Admit(kind) ==
  /\ MayAdmit
  /\ nextToken' = NextToken(nextToken)
  /\ nextPublicId' = nextPublicId + 1
  /\ requests' = Insert(requests, nextToken, [id |-> nextPublicId, kind |-> kind, gen |-> generation])
  /\ workerQueue' = Append(workerQueue, Submit(nextToken, kind))
  /\ owners' = Insert(owners, nextPublicId, kind)
  /\ UNCHANGED <<shuttingDown, coreAvailable, delivered, available, closing, generation,
                 guiQueue, workerVars, nativeVars>>

\* post() is refused: the entry goes again, the id and the token are spent, the
\* call is negative.
PostRefused ==
  /\ MayAdmit
  /\ nextToken' = NextToken(nextToken)
  /\ nextPublicId' = nextPublicId + 1
  /\ UNCHANGED <<facadeVars, available, closing, generation, requests, guiQueue,
                 workerVars, workerQueue, nativeVars>>

\* settleRequests(): a finish for each pending request, in QHash order.
SettledAs(result, queue) ==
  {queue \o [n \in DOMAIN order |-> Finish(requests[order[n]], result)] :
     order \in SetToSeqs(DOMAIN requests)}

\* Mutant: shutdown() forgets what its callers wait for.
NoTerminals(ids, queue) == {queue}

\* A terminal notification for each request the facade still waits for.
TerminalsFor(ids, queue) ==
  {queue \o [n \in DOMAIN order |-> Terminal(order[n])] : order \in SetToSeqs(ids)}

\* Mutant: shutdown() queues the terminal notifications, but keeps m_requests.
ShutdownKeepsOwners ==
  /\ ~shuttingDown
  /\ shuttingDown' = TRUE /\ coreAvailable' = FALSE
  /\ closing' = TRUE /\ available' = FALSE /\ generation' = generation + 1
  /\ requests' = <<>>
  /\ \E q \in TerminalsFor(DOMAIN owners, guiQueue) :
       guiQueue' \in SettledAs("unavailable", q)
  /\ workerQueue' = Append(workerQueue, StopWorker)
  /\ UNCHANGED <<owners, delivered, nextPublicId, nextToken, workerVars, nativeVars>>

\* MpvPlayer::shutdown(), with MpvControllerAdapter::shutdown() and
\* MpvBackendWorker::shutdown() inside it.
Shutdown ==
  /\ ~shuttingDown
  /\ shuttingDown' = TRUE /\ coreAvailable' = FALSE
  /\ owners' = <<>>
  /\ closing' = TRUE /\ available' = FALSE /\ generation' = generation + 1
  /\ requests' = <<>>
  /\ \E q \in TerminalsFor(DOMAIN owners, guiQueue) :
       guiQueue' \in SettledAs("unavailable", q)
  /\ workerQueue' = Append(workerQueue, StopWorker)
  /\ UNCHANGED <<delivered, nextPublicId, nextToken, workerVars, nativeVars>>

-----------------------------------------------------------------------------
(* GUI thread: the event loop.                                               *)

NextGui(type) == guiQueue # <<>> /\ Head(guiQueue).type = type

\* Mutant: receive() finishes a request and keeps its entry.
ReceiveKeepsEntry ==
  /\ NextGui("reply")
  /\ LET m == Head(guiQueue)
         t == m.token
     IN IF /\ t \in DOMAIN requests
           /\ requests[t].kind = m.kind
           /\ requests[t].gen = generation /\ m.gen = generation
        THEN guiQueue' = Append(Tail(guiQueue), Finish(requests[t], m.result))
        ELSE guiQueue' = Tail(guiQueue)
  /\ UNCHANGED <<facadeVars, adapterVars, nextToken, workerVars, workerQueue, nativeVars>>

\* MpvControllerAdapter::receive(), on a queued MpvController::reply.
Receive ==
  /\ NextGui("reply")
  /\ LET m == Head(guiQueue)
         t == m.token
     IN IF /\ t \in DOMAIN requests
           /\ requests[t].kind = m.kind
           /\ requests[t].gen = generation /\ m.gen = generation
        THEN /\ requests' = [u \in DOMAIN requests \ {t} |-> requests[u]]
             /\ guiQueue' = Append(Tail(guiQueue), Finish(requests[t], m.result))
        ELSE guiQueue' = Tail(guiQueue) /\ UNCHANGED requests
  /\ UNCHANGED <<facadeVars, available, closing, generation, nextPublicId, nextToken,
                 workerVars, workerQueue, nativeVars>>

\* The adapter emits the kind's finished signal; the facade's connection to it
\* is queued once more.
EmitFinished ==
  /\ NextGui("finish")
  /\ guiQueue' = Append(Tail(guiQueue), Complete(Head(guiQueue)))
  /\ UNCHANGED <<facadeVars, adapterVars, nextToken, workerVars, workerQueue, nativeVars>>

\* MpvPlayer::complete().
CompleteRequest ==
  /\ NextGui("complete")
  /\ LET m == Head(guiQueue)
     IN IF m.id \in DOMAIN owners /\ owners[m.id] = m.kind
        THEN /\ owners' = [i \in DOMAIN owners \ {m.id} |-> owners[i]]
             /\ delivered' = Append(delivered, <<m.id, m.result>>)
        ELSE UNCHANGED <<owners, delivered>>
  /\ guiQueue' = Tail(guiQueue)
  /\ UNCHANGED <<shuttingDown, coreAvailable, adapterVars, nextToken, workerVars,
                 workerQueue, nativeVars>>

\* A notification queued by shutdown().
DeliverTerminal ==
  /\ NextGui("terminal")
  /\ delivered' = Append(delivered, <<Head(guiQueue).id, Head(guiQueue).result>>)
  /\ guiQueue' = Tail(guiQueue)
  /\ UNCHANGED <<shuttingDown, coreAvailable, owners, adapterVars, nextToken, workerVars,
                 workerQueue, nativeVars>>

\* The adapter settles what is pending, then tells the facade directly.
CoreUnavailable ==
  /\ NextGui("coreUnavailable")
  /\ available' = FALSE
  /\ requests' = <<>>
  /\ guiQueue' \in SettledAs("unavailable", Tail(guiQueue))
  /\ coreAvailable' = FALSE
  /\ UNCHANGED <<shuttingDown, owners, delivered, closing, generation, nextPublicId,
                 nextToken, workerVars, workerQueue, nativeVars>>

GuiEvent ==
  Receive \/ EmitFinished \/ CompleteRequest \/ DeliverTerminal \/ CoreUnavailable

-----------------------------------------------------------------------------
(* Worker thread.                                                            *)

WorkerAvailable == wAvailable /\ ~wClosing
NextWork(type) == workerQueue # <<>> /\ Head(workerQueue).type = type /\ ~wClosing

\* A signal of the controller; shutdown() of the adapter disconnects it, but
\* leaves what is already queued.
Emit(m) == guiQueue' = IF closing THEN guiQueue ELSE Append(guiQueue, m)

\* noteNativeToken(): tokens handed out later lie above a submitted one.
NoteToken(t) ==
  nextToken' = IF nextToken # 0 /\ t >= nextToken THEN NextToken(t) ELSE nextToken

\* A submission that libmpv refuses, or that finds no core, or that needs no
\* asynchronous answer (mpv_load_config_file) replies at once.
AnswerNow(m, result) ==
  /\ Emit(Reply(m.token, m.kind, wGeneration, result))
  /\ UNCHANGED inflight

RunSubmission ==
  /\ NextWork("submit")
  /\ LET m == Head(workerQueue)
     IN /\ \/ ~WorkerAvailable /\ AnswerNow(m, "unavailable")
           \/ WorkerAvailable /\ AnswerNow(m, "native")
           \/ /\ WorkerAvailable /\ m.kind # "Configuration"
              /\ inflight' = inflight \cup {[token |-> m.token, kind |-> m.kind]}
              /\ UNCHANGED guiQueue
        /\ IF m.kind = "PropertyRead" \/ (WorkerAvailable /\ m.kind # "Configuration")
           THEN NoteToken(m.token) ELSE UNCHANGED nextToken
  /\ workerQueue' = Tail(workerQueue)
  /\ UNCHANGED <<facadeVars, adapterVars, workerVars, events, quit>>

\* submitRecovery(), which shares the token counter and the event stream.
SubmitRecovery ==
  /\ WorkerAvailable
  /\ nextToken # 0
  /\ recoveryRequests = {}
  /\ nextToken' = NextToken(nextToken)
  /\ recoveryRequests' = {nextToken}
  /\ \E kind \in Kinds \cap {"Command", "PropertySet"} :
       inflight' = inflight \cup {[token |-> nextToken, kind |-> kind]}
  /\ UNCHANGED <<facadeVars, adapterVars, guiQueue, wAvailable, wClosing, wGeneration,
                 workerQueue, events, quit>>

NextEvent(type) == WorkerAvailable /\ events # <<>> /\ Head(events).type = type

\* drain() on a reply event: handleRecoveryReply() swallows its own tokens.
DrainAnswer ==
  /\ NextEvent("answer")
  /\ LET e == Head(events)
     IN IF e.kind # "PropertyRead" /\ e.token \in recoveryRequests
        THEN /\ recoveryRequests' = recoveryRequests \ {e.token}
             /\ UNCHANGED guiQueue
        ELSE /\ Emit(Reply(e.token, e.kind, wGeneration, "native"))
             /\ UNCHANGED recoveryRequests
  /\ events' = Tail(events)
  /\ UNCHANGED <<facadeVars, adapterVars, nextToken, wAvailable, wClosing, wGeneration,
                 workerQueue, inflight, quit>>

\* drain() on MPV_EVENT_SHUTDOWN.
DrainShutdown ==
  /\ NextEvent("shutdown")
  /\ wAvailable' = FALSE
  /\ events' = Tail(events)
  /\ Emit(CoreGone)
  /\ UNCHANGED <<facadeVars, adapterVars, nextToken, wClosing, wGeneration,
                 recoveryRequests, workerQueue, inflight, quit>>

\* MpvController::shutdown(); the thread's event loop quits.
WorkerShutdown ==
  /\ NextWork("shutdown")
  /\ wClosing' = TRUE /\ wAvailable' = FALSE /\ wGeneration' = wGeneration + 1
  /\ workerQueue' = Tail(workerQueue)
  /\ UNCHANGED <<facadeVars, adapterVars, guiQueue, nextToken, recoveryRequests, nativeVars>>

WorkerEvent == RunSubmission \/ WorkerShutdown
Drain == DrainAnswer \/ DrainShutdown

-----------------------------------------------------------------------------
(* libmpv.                                                                   *)

NativeReply(n) ==
  /\ ~quit
  /\ inflight' = inflight \ {n}
  /\ events' = Append(events, NativeAnswer(n))
  /\ UNCHANGED <<facadeVars, adapterVars, guiQueue, nextToken, workerVars, workerQueue, quit>>

\* A quit command or a fatal condition; unanswered requests stay unanswered.
NativeQuit ==
  /\ wAvailable /\ ~quit
  /\ quit' = TRUE
  /\ events' = Append(events, NativeShutdown)
  /\ UNCHANGED <<facadeVars, adapterVars, guiQueue, nextToken, workerVars, workerQueue, inflight>>

Next ==
  \/ \E kind \in Kinds : Admit(kind)
  \/ PostRefused \/ Shutdown
  \/ GuiEvent \/ WorkerEvent \/ SubmitRecovery \/ Drain
  \/ \E n \in inflight : NativeReply(n)
  \/ NativeQuit

Spec == Init /\ [][Next]_vars

-----------------------------------------------------------------------------
(* Invariants.                                                               *)

Messages == {guiQueue[n] : n \in DOMAIN guiQueue}
Results == {"native", "unavailable"}   \* libmpv's answer, or UNINITIALIZED
Carrying(types, i) ==
  {n \in DOMAIN guiQueue : guiQueue[n].type \in types /\ guiQueue[n].id = i}
EntriesFor(i) == {t \in DOMAIN requests : requests[t].id = i}
DeliveriesOf(i) == {n \in DOMAIN delivered : delivered[n][1] = i}

Entry == [id : Ids, kind : Kinds, gen : {1, 2}]
GuiMessage ==
  [type : {"reply"}, token : Tokens, kind : Kinds \cup {"Command", "PropertySet"},
   gen : {1, 2}, result : Results]
  \cup [type : {"finish", "complete"}, id : Ids, kind : Kinds, result : Results]
  \cup [type : {"terminal"}, id : Ids, result : {"unavailable"}]
  \cup {CoreGone}

TypeOK ==
  /\ {shuttingDown, coreAvailable, available, closing, wAvailable, wClosing, quit} \subseteq BOOLEAN
  /\ generation \in {1, 2} /\ wGeneration \in {1, 2}
  /\ DOMAIN owners \subseteq Ids /\ \A i \in DOMAIN owners : owners[i] \in Kinds
  /\ DOMAIN requests \subseteq Tokens /\ \A t \in DOMAIN requests : requests[t] \in Entry
  /\ nextPublicId \in 1 .. MaxPublicId + 1 /\ nextToken \in 0 .. MaxToken
  /\ delivered \in Seq(Ids \X Results)
  /\ Messages \subseteq GuiMessage
  /\ recoveryRequests \subseteq Tokens

\* While the facade waits for a request, exactly one thing will complete it:
\* an adapter entry, a queued finish or a queued completion of its kind. Two
\* would settle it twice, none would leave the caller waiting forever.
OnePathPerRequest == \A i \in DOMAIN owners :
  /\ Cardinality(EntriesFor(i)) + Cardinality(Carrying({"finish", "complete"}, i)) = 1
  /\ \A n \in Carrying({"finish", "complete"}, i) : guiQueue[n].kind = owners[i]
  /\ \A t \in EntriesFor(i) : requests[t].kind = owners[i] /\ requests[t].gen = generation

\* An adapter entry is always still on its way to an answer that receive() will
\* accept, or the loss of the core is on its way to settle it.
EntryIsUnderway == \A t \in DOMAIN requests :
  \/ Submit(t, requests[t].kind) \in {workerQueue[n] : n \in DOMAIN workerQueue}
  \/ ~quit /\ [token |-> t, kind |-> requests[t].kind] \in inflight
  \/ NativeAnswer([token |-> t, kind |-> requests[t].kind]) \in {events[n] : n \in DOMAIN events}
  \/ \E r \in Results : Reply(t, requests[t].kind, generation, r) \in Messages
  \/ NativeShutdown \in {events[n] : n \in DOMAIN events} \/ CoreGone \in Messages

\* Nothing the facade waits for is stuck or settled twice, over all the layers.
RequestIsUnderway == OnePathPerRequest /\ EntryIsUnderway

\* Terminal notifications: never two for one id, never one for an id that was
\* not handed out, and never one while the facade could still complete it.
ExactlyOneTerminal == \A i \in Ids :
  /\ Cardinality(DeliveriesOf(i)) + Cardinality(Carrying({"terminal"}, i))
       + (IF i \in DOMAIN owners THEN 1 ELSE 0) <= 1
  /\ i >= nextPublicId => DeliveriesOf(i) = {}

\* Recovery shares the counter of native tokens and the reply events with the
\* requests: handleRecoveryReply() never swallows the answer to a request.
RecoveryNeverSwallows ==
  /\ recoveryRequests \cap DOMAIN requests = {}
  /\ nextToken # 0 => \A t \in DOMAIN requests \cup recoveryRequests : t < nextToken

-----------------------------------------------------------------------------
(* Properties of steps and of behaviours.                                    *)

\* After shutdown() a caller never sees a native result: answers that libmpv,
\* the worker or the GUI queue still carry are dropped, and each pending
\* request reports that the core is gone.
NoNativeResultAfterShutdown ==
  [][shuttingDown /\ delivered' # delivered => delivered'[Len(delivered')][2] = "unavailable"]_vars

\* GUI and worker event loops run, the wakeup of MpvController gets drain()
\* called while events are queued, and libmpv answers what it accepted unless
\* it quits.
Fairness ==
  /\ WF_vars(GuiEvent) /\ WF_vars(WorkerEvent) /\ WF_vars(Drain)
  /\ WF_vars(\E n \in inflight : NativeReply(n))

FairSpec == Spec /\ Fairness

\* The request contract, and with it that every admitted request is settled.
Status == [i \in Ids |->
  IF DeliveriesOf(i) # {} THEN "settled"
  ELSE IF i \in DOMAIN owners \/ Carrying({"terminal"}, i) # {} THEN "pending"
  ELSE "unused"]

Contract == INSTANCE RequestContract WITH
  status <- Status, last <- nextPublicId - 1, open <- coreAvailable /\ ~shuttingDown
ImplementsContract == Contract!Spec
=============================================================================
