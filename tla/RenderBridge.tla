---------------------------- MODULE RenderBridge ----------------------------
(***************************************************************************)
(* What the threads of one player share without a lock: the counter of     *)
(* native tokens and the retirement marker of MpvCoreLease, and the redraw *)
(* flag and the life of MpvRenderDispatcher, one shared access per step.   *)
(*                                                                         *)
(* The GUI thread allocates tokens and delivers redraws; the worker        *)
(* allocates tokens for its recovery, notes those it is given, advances    *)
(* the source intent and reads the marker; the render thread destroys      *)
(* renderers, which write it; libmpv calls back for a redraw. One renderer *)
(* at a time has a context, by claimRenderer() (RendererLifecycle), and    *)
(* the others touch nothing here. The counter and the flag are single      *)
(* atomics and the marker is sequentially consistent: the steps interleave.*)
(***************************************************************************)
EXTENDS Integers, Sequences, SequencesExt

CONSTANTS
  MaxToken,        (* the largest token, 2^64 - 1 in the code                *)
  MaxGeneration,   (* bound: renderers with a context                        *)
  MaxIntent        (* bound: changes of the source                           *)

ASSUME BoundsAssumption == MaxToken \in Nat \ {0} /\ MaxGeneration \in Nat /\ MaxIntent \in Nat

VARIABLES
  next,            (* m_nextNativeToken, 0 when exhausted                    *)
  given, noted,    (* the tokens returned so far, and those noted            *)
  sourceIntent,    (* m_sourceIntent                                         *)
  marker,          (* [sequence, generation, intent] of the lease            *)
  marks,           (* the marks made so far, as [generation, intent]         *)
  renderer,        (* [at, generation, intent]: the one with a context and   *)
                   (* how far its destructor is                              *)
  call,            (* the call the GUI thread and the worker are in          *)
  callback,        (* postRedraw() in libmpv: "none", "exchange", "post"     *)
  redrawPending,   (* m_redrawPending                                        *)
  queued,          (* redraws queued to the GUI thread                       *)
  wanted,          (* a frame waits for a redraw                             *)
  bridge,          (* the player keeps its reference to the dispatcher       *)
  dispatcher       (* "alive", "condemned" by deleteLater(), "deleted"       *)

tokenVars  == <<next, given, noted>>
markVars   == <<sourceIntent, marker, marks>>
redrawVars == <<callback, redrawPending, queued, wanted>>
lifeVars   == <<bridge, dispatcher>>
vars == <<tokenVars, markVars, redrawVars, lifeVars, renderer, call>>

Idle == [op |-> "idle"]
NoRenderer == [at |-> "none", generation |-> 0, intent |-> 0]

Init ==
  /\ next = 1 /\ given = <<>> /\ noted = {}
  /\ sourceIntent = 0 /\ marker = [sequence |-> 0, generation |-> 0, intent |-> 0] /\ marks = <<>>
  /\ renderer = NoRenderer /\ call = [gui |-> Idle, worker |-> Idle]
  /\ callback = "none" /\ redrawPending = FALSE /\ queued = 0 /\ wanted = FALSE
  /\ bridge = TRUE /\ dispatcher = "alive"

Returns(t) == call' = [call EXCEPT ![t] = Idle]

-----------------------------------------------------------------------------
(* Tokens. compare_exchange_weak() may fail spuriously.                      *)

Following(token) == IF token = MaxToken THEN 0 ELSE token + 1

\* The conditions of the loops, on the value of the counter just loaded: there is
\* a token, and it is not past the one to note.
AllocateGoesOn(t, expected) ==
  IF expected = 0 THEN Returns(t)
  ELSE call' = [call EXCEPT ![t] = [op |-> "allocate", expected |-> expected]]
NoteGoesOn(expected, token) ==
  IF expected = 0 \/ token < expected THEN Returns("worker") /\ noted' = noted \cup {token}
  ELSE /\ call' = [call EXCEPT !.worker = [op |-> "note", expected |-> expected, token |-> token]]
       /\ UNCHANGED noted

\* allocateNativeToken(), for a request of the player or a step of the recovery.
BeginAllocate(t) ==
  /\ call[t] = Idle /\ (t = "gui" => bridge) /\ AllocateGoesOn(t, next)
  /\ UNCHANGED <<tokenVars, markVars, redrawVars, lifeVars, renderer>>

\* Mutant: the counter is stored without comparing it.
Stores(expected, following) == next' = following
Exchanges(expected, following) == next = expected /\ next' = following

Allocate(t) ==
  /\ call[t].op = "allocate"
  /\ \/ /\ Exchanges(call[t].expected, Following(call[t].expected))
        /\ given' = Append(given, call[t].expected) /\ Returns(t)
     \/ AllocateGoesOn(t, next) /\ UNCHANGED <<next, given>>
  /\ UNCHANGED <<noted, markVars, redrawVars, lifeVars, renderer>>

\* noteNativeToken(): the requests of a player have allocated their token, other
\* submissions bring their own.
BeginNote(token) ==
  /\ call.worker = Idle /\ NoteGoesOn(next, token)
  /\ UNCHANGED <<next, given, markVars, redrawVars, lifeVars, renderer>>
NoteToken ==
  /\ call.worker.op = "note"
  /\ \/ /\ Exchanges(call.worker.expected, Following(call.worker.token))
        /\ noted' = noted \cup {call.worker.token} /\ Returns("worker")
     \/ NoteGoesOn(next, call.worker.token) /\ UNCHANGED next
  /\ UNCHANGED <<given, markVars, redrawVars, lifeVars, renderer>>

-----------------------------------------------------------------------------
(* The retirement marker: written by a destructor, read by the worker.       *)

\* invalidatePlaybackIntent()
AdvanceSourceIntent ==
  /\ call.worker = Idle /\ sourceIntent < MaxIntent /\ sourceIntent' = sourceIntent + 1
  /\ UNCHANGED <<tokenVars, marker, marks, redrawVars, lifeVars, renderer, call>>

\* synchronize(), and the first time a context with a callback for redraws.
Synchronize ==
  /\ bridge /\ renderer.at \in {"none", "live"} /\ Len(marks) < MaxGeneration
  /\ renderer' = [at |-> "live", generation |-> Len(marks) + 1, intent |-> sourceIntent]
  /\ UNCHANGED <<tokenVars, markVars, redrawVars, lifeVars, call>>

DestructorGoes(from, to) == renderer.at = from /\ renderer' = [renderer EXCEPT !.at = to]

\* markContextRetiring(): the sequence is odd while the two words are written.
RaiseSequence ==
  /\ DestructorGoes("live", "intent") /\ marker' = [marker EXCEPT !.sequence = @ + 1]
  /\ UNCHANGED <<tokenVars, sourceIntent, marks, redrawVars, lifeVars, call>>
StoreIntent ==
  /\ DestructorGoes("intent", "generation") /\ marker' = [marker EXCEPT !.intent = renderer.intent]
  /\ UNCHANGED <<tokenVars, sourceIntent, marks, redrawVars, lifeVars, call>>
StoreGeneration ==
  /\ DestructorGoes("generation", "even") /\ marker' = [marker EXCEPT !.generation = renderer.generation]
  /\ UNCHANGED <<tokenVars, sourceIntent, marks, redrawVars, lifeVars, call>>
SettleSequence ==
  /\ DestructorGoes("even", "barrier") /\ marker' = [marker EXCEPT !.sequence = @ + 1]
  /\ marks' = Append(marks, [generation |-> renderer.generation, intent |-> renderer.intent])
  /\ UNCHANGED <<tokenVars, sourceIntent, redrawVars, lifeVars, call>>

\* retiringContext() of the source intent, from its first load on; it returns 0 at
\* once while the sequence is odd. `from` counts the marks made before.
BeginRead ==
  /\ call.worker = Idle /\ marker.sequence % 2 = 0
  /\ call' = [call EXCEPT !.worker = [op |-> "generation", sequence |-> marker.sequence, from |-> Len(marks)]]
  /\ UNCHANGED <<tokenVars, markVars, redrawVars, lifeVars, renderer>>
LoadGeneration ==
  /\ call.worker.op = "generation"
  /\ call' = [call EXCEPT !.worker = [op |-> "intent", sequence |-> @.sequence, from |-> @.from,
                                      generation |-> marker.generation]]
  /\ UNCHANGED <<tokenVars, markVars, redrawVars, lifeVars, renderer>>
LoadIntent ==
  /\ call.worker.op = "intent"
  /\ call' = [call EXCEPT !.worker = [op |-> "sequence", sequence |-> @.sequence, from |-> @.from,
                                      generation |-> @.generation, intent |-> marker.intent]]
  /\ UNCHANGED <<tokenVars, markVars, redrawVars, lifeVars, renderer>>

\* Mutant: the sequence is not read again.
AnswerOnce(read) == IF read.intent = sourceIntent THEN read.generation ELSE 0
Answer(read) ==
  IF read.sequence = marker.sequence /\ read.intent = sourceIntent THEN read.generation ELSE 0

ReloadSequence ==
  /\ call.worker.op = "sequence"
  /\ call' = [call EXCEPT !.worker = [op |-> "answer", generation |-> Answer(@)]]
  /\ UNCHANGED <<tokenVars, markVars, redrawVars, lifeVars, renderer>>
ReturnAnswer ==
  /\ call.worker.op = "answer" /\ Returns("worker")
  /\ UNCHANGED <<tokenVars, markVars, redrawVars, lifeVars, renderer>>

-----------------------------------------------------------------------------
(* Redraws, and the life of the dispatcher.                                  *)

Registered == renderer.at # "none"

\* libmpv has a frame and runs the callback of its context.
FrameArrives ==
  /\ Registered /\ callback = "none" /\ callback' = "exchange" /\ wanted' = TRUE
  /\ UNCHANGED <<tokenVars, markVars, redrawPending, queued, lifeVars, renderer, call>>

\* Mutant: each callback queues a redraw.
ExchangeAlways ==
  /\ callback = "exchange" /\ redrawPending' = TRUE /\ callback' = "post"
  /\ UNCHANGED <<tokenVars, markVars, queued, wanted, lifeVars, renderer, call>>
\* postRedraw(): the redraw queued already serves this frame too, or one is queued,
\* or memory is exhausted and the frame is given up.
ExchangePending ==
  /\ callback = "exchange" /\ redrawPending' = TRUE
  /\ callback' = IF redrawPending THEN "none" ELSE "post"
  /\ UNCHANGED <<tokenVars, markVars, queued, wanted, lifeVars, renderer, call>>
PostRedraw ==
  /\ callback = "post" /\ callback' = "none"
  /\ \/ queued' = queued + 1 /\ UNCHANGED <<redrawPending, wanted>>
     \/ redrawPending' = FALSE /\ wanted' = FALSE /\ UNCHANGED queued
  /\ UNCHANGED <<tokenVars, markVars, lifeVars, renderer, call>>

\* The GUI thread runs the queued redraw: the flag first, then the signal, on which
\* the player updates.
\* Mutant: the flag is not reset.
DeliverKeepsPending ==
  /\ call.gui = Idle /\ dispatcher # "deleted" /\ queued > 0 /\ queued' = queued - 1
  /\ call' = [call EXCEPT !.gui = [op |-> "emit"]]
  /\ UNCHANGED <<tokenVars, markVars, redrawPending, callback, wanted, lifeVars, renderer>>
DeliverRedraw ==
  /\ call.gui = Idle /\ dispatcher # "deleted" /\ queued > 0 /\ queued' = queued - 1
  /\ redrawPending' = FALSE /\ call' = [call EXCEPT !.gui = [op |-> "emit"]]
  /\ UNCHANGED <<tokenVars, markVars, callback, wanted, lifeVars, renderer>>
EmitRedraw ==
  /\ call.gui.op = "emit" /\ Returns("gui") /\ wanted' = FALSE
  /\ UNCHANGED <<tokenVars, markVars, callback, redrawPending, queued, lifeVars, renderer>>

\* Mutant: the context is freed under a callback.
NoBarrier == TRUE
\* mpv_render_context_set_update_callback() waits for a callback under way.
Barrier == callback = "none"

\* The last reference posts deleteLater(), on whatever thread it is dropped.
ReleaseRenderer ==
  /\ renderer.at = "barrier" /\ Barrier /\ renderer' = NoRenderer
  /\ dispatcher' = IF bridge THEN dispatcher ELSE "condemned"
  /\ UNCHANGED <<tokenVars, markVars, redrawVars, bridge, call>>
DestroyPlayer ==
  /\ bridge /\ call.gui = Idle /\ bridge' = FALSE
  /\ dispatcher' = IF renderer = NoRenderer THEN "condemned" ELSE dispatcher
  /\ UNCHANGED <<tokenVars, markVars, redrawVars, renderer, call>>
DeleteDispatcher ==
  /\ dispatcher = "condemned" /\ call.gui = Idle /\ dispatcher' = "deleted" /\ queued' = 0
  /\ UNCHANGED <<tokenVars, markVars, callback, redrawPending, wanted, bridge, renderer, call>>

-----------------------------------------------------------------------------
Destructor ==
  RaiseSequence \/ StoreIntent \/ StoreGeneration \/ SettleSequence \/ ReleaseRenderer
Read == BeginRead \/ LoadGeneration \/ LoadIntent \/ ReloadSequence \/ ReturnAnswer

Next ==
  \/ \E t \in {"gui", "worker"} : BeginAllocate(t) \/ Allocate(t)
  \/ (\E token \in 1 .. MaxToken : BeginNote(token)) \/ NoteToken
  \/ AdvanceSourceIntent \/ Synchronize \/ Destructor \/ Read
  \/ FrameArrives \/ ExchangePending \/ PostRedraw \/ DeliverRedraw \/ EmitRedraw
  \/ DestroyPlayer \/ DeleteDispatcher

\* The GUI thread gets to what is queued, and a callback returns.
Fairness ==
  /\ WF_vars(Allocate("gui")) /\ SF_vars(DeliverRedraw) /\ WF_vars(EmitRedraw)
  /\ WF_vars(ExchangePending \/ PostRedraw)

Spec == Init /\ [][Next]_vars
FairSpec == Spec /\ Fairness

-----------------------------------------------------------------------------
Call == {Idle, [op |-> "emit"]}
  \cup [op : {"allocate"}, expected : 1 .. MaxToken]
  \cup [op : {"note"}, expected : 1 .. MaxToken, token : 1 .. MaxToken]
Numbers == 0 .. 2 * MaxGeneration
Generations == 0 .. MaxGeneration
ReadCall ==
  [op : {"generation"}, sequence : Numbers, from : Generations]
  \cup [op : {"intent"}, sequence : Numbers, from : Generations, generation : Generations]
  \cup [op : {"sequence"}, sequence : Numbers, from : Generations, generation : Generations,
        intent : 0 .. MaxIntent]
  \cup [op : {"answer"}, generation : Generations]

\* Each variable has its type; one redraw is queued at most.
TypeOK ==
  /\ next \in 0 .. MaxToken /\ given \in BoundedSeq(1 .. MaxToken, MaxToken) /\ noted \subseteq 1 .. MaxToken
  /\ sourceIntent \in 0 .. MaxIntent
  /\ marker \in [sequence : 0 .. 2 * MaxGeneration, generation : 0 .. MaxGeneration, intent : 0 .. MaxIntent]
  /\ marks \in BoundedSeq([generation : 1 .. MaxGeneration, intent : 0 .. MaxIntent], MaxGeneration)
  /\ renderer \in [at : {"none", "live", "intent", "generation", "even", "barrier"},
                   generation : 0 .. MaxGeneration, intent : 0 .. MaxIntent]
  /\ call \in [gui : Call, worker : Call \cup ReadCall]
  /\ callback \in {"none", "exchange", "post"} /\ queued \in 0 .. 1
  /\ {redrawPending, wanted, bridge} \subseteq BOOLEAN
  /\ dispatcher \in {"alive", "condemned", "deleted"}

\* No token is returned twice, nor after it has been noted, by whatever threads in
\* whatever order; when the counter is exhausted it stays so.
TokensAreNeverReused ==
  [][/\ given' # given => Last(given') \notin ToSet(given) \cup noted
     /\ next = 0 => next' = 0]_vars

\* retiringContext() returns the generation of a mark made for the intent it is
\* asked for, the last one or one made meanwhile, never the words of two marks;
\* and it misses one only if another has been made meanwhile.
MarkerIsCoherent ==
  [][call.worker.op = "sequence" /\ call'.worker # call.worker =>
       LET answer == call'.worker.generation
           Made(n) == IF n = 0 THEN [generation |-> 0, intent |-> 0] ELSE marks[n]
           Current == {Made(n) : n \in call.worker.from .. Len(marks)}
       IN  IF answer # 0 THEN [generation |-> answer, intent |-> sourceIntent] \in Current
           ELSE \/ marker.sequence # call.worker.sequence
                \/ \E mark \in Current : mark.generation = 0 \/ mark.intent # sourceIntent]_vars

\* A frame is followed by a redraw, also when it arrives while an earlier redraw is
\* queued, delivered or emitted, unless its post failed or the player is destroyed.
RedrawIsDelivered == wanted ~> ~wanted \/ ~bridge

\* A callback, and a redraw being emitted, find the dispatcher, whichever thread
\* has dropped which reference to it meanwhile.
CallbackFindsDispatcher ==
  /\ callback # "none" => Registered /\ dispatcher = "alive"
  /\ call.gui.op = "emit" => dispatcher # "deleted"
=============================================================================
