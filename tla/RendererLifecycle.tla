------------------------- MODULE RendererLifecycle -------------------------
(***************************************************************************)
(* The generations of MpvRenderer behind one MpvPlayer, and what the       *)
(* player learns of them.                                                  *)
(*                                                                         *)
(* Qt Quick is external. The render thread of a window synchronizes while  *)
(* the GUI thread waits: it deletes the nodes left to it, and asks the     *)
(* player for a renderer and the renderer for a framebuffer. Moving the    *)
(* player leaves the old renderer to the old window. All a renderer tells  *)
(* the player goes through the GUI thread's queue, by the dispatcher. A    *)
(* shutdown() from a signal handler is taken right after the handler.      *)
(***************************************************************************)
EXTENDS Integers, Sequences, FiniteSets

CONSTANTS
  Windows,
  NoWindow,
  MaxGeneration,     (* bound: renderers created                             *)
  MayShutdown        (* does the application call shutdown()?                *)

ASSUME BoundsAssumption == MaxGeneration \in Nat \ {0} /\ MayShutdown \in BOOLEAN
ASSUME NoWindow \notin Windows

VARIABLES
  (* MpvPlayer, on the GUI thread *)
  newest,            (* bridge->generation                                   *)
  rendererInitialized, renderError,
  failedGeneration,  (* -1 until failureReported                             *)
  hasCore,           (* bridge->core has a handle                            *)
  coreAvailable, shuttingDown,
  queue,             (* dispatcher messages on their way to the player       *)
  told,              (* newest generation reported by contextReady()         *)
  (* Scene graph *)
  opengl,            (* do the windows render with OpenGL?                   *)
  window,            (* the player's window                                  *)
  current,           (* generation of the player's renderer, 0 without one   *)
  renderers,         (* generation -> renderer, the leftover ones included   *)
  (* MpvCoreLease *)
  owner,             (* m_renderOwner                                        *)
  crashed            (* a null core was dereferenced                         *)

playerVars == <<newest, rendererInitialized, renderError, failedGeneration, hasCore,
                coreAvailable, shuttingDown, told>>
sceneVars  == <<opengl, window, current, renderers, owner>>
vars == <<playerVars, queue, sceneVars, crashed>>

Generations == 1 .. MaxGeneration

Status(g, ready, error) == [type |-> "status", generation |-> g, ready |-> ready, error |-> error]
Retiring(g) == [type |-> "retiring", generation |-> g]

NewRenderer(w) == [window |-> w, core |-> FALSE, context |-> FALSE, ownsSlot |-> FALSE,
                   attempted |-> FALSE, failed |-> FALSE, ready |-> FALSE]

\* A core that failed to initialize is never available.
Init ==
  /\ newest = 0 /\ rendererInitialized = FALSE /\ renderError = FALSE
  /\ failedGeneration = -1 /\ hasCore \in BOOLEAN /\ coreAvailable = hasCore /\ shuttingDown = FALSE
  /\ queue = <<>> /\ told = 0
  /\ opengl \in BOOLEAN /\ window = NoWindow /\ current = 0 /\ renderers = <<>>
  /\ owner = 0 /\ crashed = FALSE

-----------------------------------------------------------------------------
(* Render threads. A result carries the renderers, the slot, the messages.   *)

State(rs, slot, posted) == [renderers |-> rs, owner |-> slot, posted |-> posted]

\* fail(): only the first failure counts.
Fail(s, g) ==
  IF s.renderers[g].failed THEN s
  ELSE [s EXCEPT !.renderers[g].failed = TRUE, !.renderers[g].ready = FALSE,
                 !.posted = Append(@, Status(g, FALSE, TRUE))]

\* Mutant: overlapping render contexts are let through.
ClaimAlways(slot, g) == TRUE
\* claimRenderer().
Claim(slot, g) == slot = 0

\* createContext(): "noGL" is a missing OpenGL context, found before the slot is
\* claimed, and "error" a missing display or a refusal by libmpv.
CreateContext(s, g, native) ==
  LET attempt == [s EXCEPT !.renderers[g].attempted = TRUE]
      claimed == [attempt EXCEPT !.renderers[g].ownsSlot = TRUE, !.owner = g]
  IN IF ~s.renderers[g].core \/ native = "noGL" \/ ~Claim(s.owner, g) THEN Fail(attempt, g)
     ELSE IF native = "error" THEN Fail(claimed, g)
     ELSE [claimed EXCEPT !.renderers[g].context = TRUE]

\* createFramebufferObject(), for the first and any later size.
CreateFramebuffer(s, g, native, valid) ==
  LET t == IF s.renderers[g].attempted THEN s ELSE CreateContext(s, g, native)
      r == t.renderers[g]
  IN IF ~valid THEN Fail(t, g)
     ELSE IF ~r.failed /\ r.context /\ ~r.ready
     THEN [t EXCEPT !.renderers[g].ready = TRUE, !.posted = Append(@, Status(g, TRUE, FALSE))]
     ELSE t

\* releaseRenderer().
Release(slot, g) == IF slot = g THEN 0 ELSE slot

Becomes(s) ==
  /\ renderers' = s.renderers /\ owner' = s.owner /\ queue' = queue \o s.posted

\* The steps of ~MpvRenderer(): the retirement is announced and the context freed,
Retire(g) ==
  /\ renderers' = [renderers EXCEPT ![g].context = FALSE]
  /\ queue' = Append(queue, Retiring(g)) /\ UNCHANGED owner
\* the slot is given up,
GiveUpSlot(g) ==
  /\ renderers' = [renderers EXCEPT ![g].ownsSlot = FALSE]
  /\ owner' = Release(owner, g) /\ UNCHANGED queue
\* and the loss of readiness is told.
Vanish(g) ==
  /\ renderers' = [h \in DOMAIN renderers \ {g} |-> renderers[h]]
  /\ queue' = (IF renderers[g].ready THEN Append(queue, Status(g, FALSE, FALSE)) ELSE queue)
  /\ UNCHANGED owner

\* Mutant: the slot is given up before the retirement is announced.
DestroyReleasesFirst(g) ==
  LET r == renderers[g]
  IN \/ r.ownsSlot /\ GiveUpSlot(g)
     \/ ~r.ownsSlot /\ r.context /\ Retire(g)
     \/ ~r.ownsSlot /\ ~r.context /\ Vanish(g)
\* The next step of ~MpvRenderer().
Destroy(g) ==
  LET r == renderers[g]
  IN \/ r.context /\ Retire(g)
     \/ ~r.context /\ r.ownsSlot /\ GiveUpSlot(g)
     \/ ~r.context /\ ~r.ownsSlot /\ Vanish(g)

\* Teardown reaches the core through the renderer's snapshot.
CrashesOn(g) == (renderers[g].context \/ renderers[g].ownsSlot) /\ ~renderers[g].core

\* The node of a renderer is deleted, and the renderer with it, step by step.
Delete(g) ==
  /\ IF CrashesOn(g)
     THEN crashed' = TRUE /\ UNCHANGED <<renderers, owner, queue, current>>
     ELSE /\ Destroy(g)
          /\ current' = IF current = g THEN 0 ELSE current
          /\ UNCHANGED crashed
  /\ UNCHANGED <<playerVars, opengl, window>>

\* A frame of a window starts with its leftovers; a hidden window that keeps
\* no scene graph gives up everything. Nodes go one by one, the oldest first:
\* other render threads run in between, and between the steps of a destructor.
Leftovers(w) == {g \in DOMAIN renderers \ {current} : renderers[g].window = w}
Here(w) == {g \in DOMAIN renderers : renderers[g].window = w}
Oldest(gs) == {g \in gs : \A h \in gs : g <= h}

CleanupNodes(w) == \E g \in Oldest(Leftovers(w)) : Delete(g)
InvalidateSceneGraph(w) == \E g \in Oldest(Here(w)) : Delete(g)

\* Mutant: createRenderer() numbers the renderer without counting up.
SameGeneration == newest
\* The generation createRenderer() gives the next renderer.
NextGeneration == newest + 1

\* The player's node is synchronized: createRenderer() unless it has one,
\* synchronize(), and a framebuffer when there is none or the size changed.
\* The supplier hands out no core once the player is shut down.
Synchronize(resized, native, valid) ==
  LET first == current = 0
      g     == IF first THEN NextGeneration ELSE current
      r     == IF first THEN NewRenderer(window) ELSE renderers[current]
      known == [r EXCEPT !.core = hasCore /\ ~shuttingDown]
      s     == State([h \in DOMAIN renderers \cup {g} |-> IF h = g THEN known ELSE renderers[h]],
                     owner, <<>>)
  IN /\ opengl /\ window # NoWindow
     /\ Leftovers(window) = {}
     /\ first => newest < MaxGeneration
     /\ newest' = IF first THEN g ELSE newest
     /\ current' = g
     /\ Becomes(IF first \/ resized THEN CreateFramebuffer(s, g, native, valid) ELSE s)
     /\ UNCHANGED <<rendererInitialized, renderError, failedGeneration, hasCore,
                    coreAvailable, shuttingDown, told, opengl, window, crashed>>

\* render(): the target, the context or the native rendering fails. Success
\* leaves no trace here.
RenderFails ==
  /\ current # 0 /\ renderers[current].attempted
  /\ LET s == Fail(State(renderers, owner, <<>>), current)
     IN Becomes(s) /\ renderers' # renderers
  /\ UNCHANGED <<playerVars, opengl, window, current, crashed>>

RenderThread ==
  \/ \E w \in Windows : CleanupNodes(w) \/ InvalidateSceneGraph(w)
  \/ \E resized, valid \in BOOLEAN, native \in {"ok", "noGL", "error"} :
       Synchronize(resized, native, valid)
  \/ RenderFails

-----------------------------------------------------------------------------
(* GUI thread.                                                               *)

\* Mutant: the status of a retired generation is taken for the current one.
StatusOfAny(g) == ~shuttingDown
\* Does a status still concern the player?
IsCurrentStatus(g) == ~shuttingDown /\ g = newest

\* rendererStatus(), with the slot of ready() and contextReady().
RendererStatus(m) ==
  LET repeated == m.error /\ failedGeneration = m.generation
      recreated == m.ready /\ ~m.error /\ ~rendererInitialized
  IN IF ~IsCurrentStatus(m.generation) \/ repeated
     THEN UNCHANGED <<rendererInitialized, renderError, failedGeneration, told>>
     ELSE /\ failedGeneration' = IF m.error THEN m.generation ELSE failedGeneration
          /\ renderError' = m.error
          /\ rendererInitialized' = (m.ready /\ (rendererInitialized \/ coreAvailable))
          /\ told' = IF recreated THEN m.generation ELSE told

\* The player receives a message of the dispatcher. A notice of retirement is
\* passed on to the worker, which RetiringBeforeReady looks at where it arrives.
Receive ==
  /\ queue # <<>>
  /\ queue' = Tail(queue)
  /\ IF Head(queue).type = "status" THEN RendererStatus(Head(queue))
     ELSE UNCHANGED <<rendererInitialized, renderError, failedGeneration, told>>
  /\ UNCHANGED <<newest, hasCore, coreAvailable, shuttingDown, sceneVars, crashed>>

\* The inspection of observeWindow() finds another graphics backend.
InspectWindow ==
  /\ window # NoWindow /\ ~opengl
  /\ RendererStatus(Status(newest, FALSE, TRUE))
  /\ UNCHANGED <<newest, hasCore, coreAvailable, shuttingDown, queue, sceneVars, crashed>>

\* The player moves to another window, or to none.
Move(w) ==
  /\ w # window
  /\ window' = w /\ current' = 0
  /\ UNCHANGED <<playerVars, queue, opengl, renderers, owner, crashed>>

\* MPV_EVENT_SHUTDOWN has come through.
CoreUnavailable ==
  /\ coreAvailable /\ coreAvailable' = FALSE
  /\ UNCHANGED <<newest, rendererInitialized, renderError, failedGeneration, hasCore,
                 shuttingDown, told, queue, sceneVars, crashed>>

\* MpvPlayer::shutdown().
Shutdown ==
  /\ MayShutdown /\ ~shuttingDown
  /\ shuttingDown' = TRUE /\ coreAvailable' = FALSE /\ rendererInitialized' = FALSE
  /\ UNCHANGED <<newest, renderError, failedGeneration, hasCore, told, queue, sceneVars, crashed>>

Gui == Receive \/ InspectWindow \/ CoreUnavailable \/ Shutdown
         \/ \E w \in Windows \cup {NoWindow} : Move(w)

Next == ~crashed /\ (RenderThread \/ Gui)
Spec == Init /\ [][Next]_vars

-----------------------------------------------------------------------------
(* Invariants.                                                               *)

Renderer == [window : Windows, core : BOOLEAN, context : BOOLEAN, ownsSlot : BOOLEAN,
             attempted : BOOLEAN, failed : BOOLEAN, ready : BOOLEAN]
Message == [type : {"status"}, generation : Generations, ready : BOOLEAN, error : BOOLEAN]
             \cup [type : {"retiring"}, generation : Generations]

TypeOK ==
  /\ newest \in 0 .. MaxGeneration /\ failedGeneration \in -1 .. newest /\ told \in 0 .. newest
  /\ {rendererInitialized, renderError, hasCore, coreAvailable, shuttingDown, opengl, crashed}
       \subseteq BOOLEAN
  /\ window \in Windows \cup {NoWindow} /\ current \in {0} \cup DOMAIN renderers
  /\ DOMAIN renderers \subseteq 1 .. newest /\ renderers \in [DOMAIN renderers -> Renderer]
  /\ owner \in 0 .. newest
  /\ queue \in Seq(Message) /\ \A n \in DOMAIN queue : queue[n].generation <= newest

\* A core has one render context at most, whatever windows still keep renderers
\* of the player, and the slot that sees to it is held by exactly the renderer
\* that believes to own it, so that it is neither lost nor given away.
OneContextPerCore ==
  /\ Cardinality({g \in DOMAIN renderers : renderers[g].context}) <= 1
  /\ \A g \in DOMAIN renderers :
       /\ renderers[g].context => renderers[g].ownsSlot
       /\ renderers[g].ownsSlot <=> owner = g
  /\ owner # 0 => owner \in DOMAIN renderers

Newest == renderers[newest]
Settled == queue = <<>> /\ ~shuttingDown

\* Once the player has heard everything, rendererReady and renderError tell of
\* the newest renderer, whatever older ones have said since it was created.
ReadinessSettles == Settled =>
  /\ IF newest \in DOMAIN renderers /\ Newest.ready
     THEN coreAvailable => rendererInitialized
     ELSE ~rendererInitialized
  /\ newest \in DOMAIN renderers => (renderError <=> Newest.failed)

\* The loss of a context is on its way to the worker before any newer renderer
\* can report ready, so the worker never sees the two in the wrong order.
RetiringBeforeReady ==
  \A n \in DOMAIN queue : queue[n].type = "retiring" =>
    \A k \in 1 .. n - 1 :
      queue[k].type = "status" /\ queue[k].ready => queue[k].generation <= queue[n].generation

\* A successful recreation is reported: once the player has heard everything,
\* the worker knows of the newest context.
RecreationIsReported == Settled =>
  (newest \in DOMAIN renderers /\ Newest.ready => told = newest)

\* Rendering and teardown have the core for as long as there is a context.
ContextKeepsItsCore == \A g \in DOMAIN renderers : renderers[g].context => renderers[g].core
=============================================================================
