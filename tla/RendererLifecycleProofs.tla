---------------------- MODULE RendererLifecycleProofs ----------------------
(***************************************************************************)
(* Machine-checked proofs about RendererLifecycle, for every set of        *)
(* windows and every number of generations. The steps of the render        *)
(* threads are first reduced to a few kinds (a renderer that fails or is   *)
(* ready at once, one that is kept, one that fails later, one that is      *)
(* deleted step by step); each part of the invariant is then shown for     *)
(* each kind.                                                              *)
(***************************************************************************)
EXTENDS RendererLifecycle, SequenceTheorems, FiniteSetTheorems, TLAPS

-----------------------------------------------------------------------------
(* Render threads: what a renderer does with its state.                      *)

\* The states of the renderers S that a render thread computes.
Results(S) == [renderers : [S -> Renderer], owner : Int, posted : Seq(Message)]
\* Only the renderer g is touched.
OnlyTouches(s, t, S, g) ==
  \A h \in S \ {g} : t.renderers[h] = s.renderers[h]

\* The steps of a renderer, and what they make of its state and of its record.
Attempt(s, g) == [s EXCEPT !.renderers[g].attempted = TRUE]
Occupy(s, g)  == [s EXCEPT !.renderers[g].ownsSlot = TRUE, !.owner = g]
Create(s, g)  == [s EXCEPT !.renderers[g].context = TRUE]
Present(s, g) == [s EXCEPT !.renderers[g].ready = TRUE, !.posted = Append(@, Status(g, TRUE, FALSE))]

Attempted(r) == [r EXCEPT !.attempted = TRUE]
Occupying(r) == [r EXCEPT !.ownsSlot = TRUE]
Created(r)   == [r EXCEPT !.context = TRUE]
Ready(r)     == [r EXCEPT !.ready = TRUE]
Failed(r)    == [r EXCEPT !.failed = TRUE, !.ready = FALSE]

\* A queue with one message more is a queue.
LEMMA AppendType ==
  ASSUME NEW q \in Seq(Message), NEW m \in Message
  PROVE  Append(q, m) \in Seq(Message)
OBVIOUS

\* Posting a list of one message appends it.
LEMMA OneMore ==
  ASSUME NEW q \in Seq(Message), NEW m \in Message
  PROVE  q \o Append(<<>>, m) = Append(q, m)
OBVIOUS

\* Generations are numbers.
LEMMA GenerationsAreNumbers == Generations \subseteq Int
BY BoundsAssumption DEF Generations

\* fail(), of a renderer that has not failed yet.
LEMMA FailsNow ==
  ASSUME NEW S, NEW g \in S, NEW s \in Results(S), g \in Generations, ~s.renderers[g].failed
  PROVE  /\ Fail(s, g) \in Results(S) /\ OnlyTouches(s, Fail(s, g), S, g)
         /\ Fail(s, g).renderers[g] = Failed(s.renderers[g])
         /\ Fail(s, g).owner = s.owner /\ Fail(s, g).posted = Append(s.posted, Status(g, FALSE, TRUE))
<1> DEFINE r == Failed(s.renderers[g])
           t == Fail(s, g)
<1>1. r \in Renderer
  BY DEF Results, Renderer, Failed
<1>2. t = [s EXCEPT !.renderers = [s.renderers EXCEPT ![g] = r], !.posted = Append(s.posted, Status(g, FALSE, TRUE))]
  BY DEF Fail, Results, Failed
<1>3. [s.renderers EXCEPT ![g] = r] \in [S -> Renderer]
  BY <1>1 DEF Results
<1>4. Append(s.posted, Status(g, FALSE, TRUE)) \in Seq(Message)
  <2>1. Status(g, FALSE, TRUE) \in Message
    BY DEF Status, Message
  <2>2. s.posted \in Seq(Message)
    BY DEF Results
  <2> QED BY <2>1, <2>2, AppendType
<1> HIDE DEF r, t
<1>6. t \in Results(S)
  BY <1>2, <1>3, <1>4 DEF Results
<1>7. t.renderers = [s.renderers EXCEPT ![g] = r] /\ t.owner = s.owner /\ t.posted = Append(s.posted, Status(g, FALSE, TRUE))
  BY <1>2 DEF Results
<1>8. OnlyTouches(s, t, S, g) /\ t.renderers[g] = r
  BY <1>7 DEF Results, OnlyTouches
<1> QED BY <1>6, <1>7, <1>8 DEF r, t

\* The attempt is recorded before anything else.
LEMMA Attempts ==
  ASSUME NEW S, NEW g \in S, NEW s \in Results(S), g \in Generations
  PROVE  /\ Attempt(s, g) \in Results(S) /\ OnlyTouches(s, Attempt(s, g), S, g)
         /\ Attempt(s, g).renderers[g] = Attempted(s.renderers[g])
         /\ Attempt(s, g).owner = s.owner /\ Attempt(s, g).posted = s.posted
<1> DEFINE r == Attempted(s.renderers[g])
           t == Attempt(s, g)
<1>1. r \in Renderer
  BY DEF Results, Renderer, Attempted
<1>2. t = [s EXCEPT !.renderers = [s.renderers EXCEPT ![g] = r]]
  BY DEF Attempt, Results, Attempted
<1>3. [s.renderers EXCEPT ![g] = r] \in [S -> Renderer]
  BY <1>1 DEF Results
<1> HIDE DEF r, t
<1>6. t \in Results(S)
  BY <1>2, <1>3 DEF Results
<1>7. t.renderers = [s.renderers EXCEPT ![g] = r] /\ t.owner = s.owner /\ t.posted = s.posted
  BY <1>2 DEF Results
<1>8. OnlyTouches(s, t, S, g) /\ t.renderers[g] = r
  BY <1>7 DEF Results, OnlyTouches
<1> QED BY <1>6, <1>7, <1>8 DEF r, t

\* The claim succeeds: the renderer has the slot.
LEMMA Occupies ==
  ASSUME NEW S, NEW g \in S, NEW s \in Results(S), g \in Generations
  PROVE  /\ Occupy(s, g) \in Results(S) /\ OnlyTouches(s, Occupy(s, g), S, g)
         /\ Occupy(s, g).renderers[g] = Occupying(s.renderers[g])
         /\ Occupy(s, g).owner = g /\ Occupy(s, g).posted = s.posted
<1> DEFINE r == Occupying(s.renderers[g])
           t == Occupy(s, g)
<1>1. r \in Renderer
  BY DEF Results, Renderer, Occupying
<1>2. t = [s EXCEPT !.renderers = [s.renderers EXCEPT ![g] = r], !.owner = g]
  BY DEF Occupy, Results, Occupying
<1>3. [s.renderers EXCEPT ![g] = r] \in [S -> Renderer]
  BY <1>1 DEF Results
<1>5. g \in Int
  BY GenerationsAreNumbers
<1> HIDE DEF r, t
<1>6. t \in Results(S)
  BY <1>2, <1>3, <1>5 DEF Results
<1>7. t.renderers = [s.renderers EXCEPT ![g] = r] /\ t.owner = g /\ t.posted = s.posted
  BY <1>2 DEF Results
<1>8. OnlyTouches(s, t, S, g) /\ t.renderers[g] = r
  BY <1>7 DEF Results, OnlyTouches
<1> QED BY <1>6, <1>7, <1>8 DEF r, t

\* libmpv returns a render context.
LEMMA Creates ==
  ASSUME NEW S, NEW g \in S, NEW s \in Results(S), g \in Generations
  PROVE  /\ Create(s, g) \in Results(S) /\ OnlyTouches(s, Create(s, g), S, g)
         /\ Create(s, g).renderers[g] = Created(s.renderers[g])
         /\ Create(s, g).owner = s.owner /\ Create(s, g).posted = s.posted
<1> DEFINE r == Created(s.renderers[g])
           t == Create(s, g)
<1>1. r \in Renderer
  BY DEF Results, Renderer, Created
<1>2. t = [s EXCEPT !.renderers = [s.renderers EXCEPT ![g] = r]]
  BY DEF Create, Results, Created
<1>3. [s.renderers EXCEPT ![g] = r] \in [S -> Renderer]
  BY <1>1 DEF Results
<1> HIDE DEF r, t
<1>6. t \in Results(S)
  BY <1>2, <1>3 DEF Results
<1>7. t.renderers = [s.renderers EXCEPT ![g] = r] /\ t.owner = s.owner /\ t.posted = s.posted
  BY <1>2 DEF Results
<1>8. OnlyTouches(s, t, S, g) /\ t.renderers[g] = r
  BY <1>7 DEF Results, OnlyTouches
<1> QED BY <1>6, <1>7, <1>8 DEF r, t

\* The renderer reports that it is ready.
LEMMA Presents ==
  ASSUME NEW S, NEW g \in S, NEW s \in Results(S), g \in Generations
  PROVE  /\ Present(s, g) \in Results(S) /\ OnlyTouches(s, Present(s, g), S, g)
         /\ Present(s, g).renderers[g] = Ready(s.renderers[g])
         /\ Present(s, g).owner = s.owner /\ Present(s, g).posted = Append(s.posted, Status(g, TRUE, FALSE))
<1> DEFINE r == Ready(s.renderers[g])
           t == Present(s, g)
<1>1. r \in Renderer
  BY DEF Results, Renderer, Ready
<1>2. t = [s EXCEPT !.renderers = [s.renderers EXCEPT ![g] = r], !.posted = Append(s.posted, Status(g, TRUE, FALSE))]
  BY DEF Present, Results, Ready
<1>3. [s.renderers EXCEPT ![g] = r] \in [S -> Renderer]
  BY <1>1 DEF Results
<1>4. Append(s.posted, Status(g, TRUE, FALSE)) \in Seq(Message)
  <2>1. Status(g, TRUE, FALSE) \in Message
    BY DEF Status, Message
  <2>2. s.posted \in Seq(Message)
    BY DEF Results
  <2> QED BY <2>1, <2>2, AppendType
<1> HIDE DEF r, t
<1>6. t \in Results(S)
  BY <1>2, <1>3, <1>4 DEF Results
<1>7. t.renderers = [s.renderers EXCEPT ![g] = r] /\ t.owner = s.owner /\ t.posted = Append(s.posted, Status(g, TRUE, FALSE))
  BY <1>2 DEF Results
<1>8. OnlyTouches(s, t, S, g) /\ t.renderers[g] = r
  BY <1>7 DEF Results, OnlyTouches
<1> QED BY <1>6, <1>7, <1>8 DEF r, t

\* A renderer nobody has asked for a framebuffer yet.
Blank(r) == ~r.context /\ ~r.ownsSlot /\ ~r.attempted /\ ~r.failed /\ ~r.ready

\* What becomes of a new renderer.
Fails(s, t, g) ==
  /\ t.renderers[g].failed /\ ~t.renderers[g].ready /\ t.renderers[g].attempted
  /\ t.posted = Append(s.posted, Status(g, FALSE, TRUE))
  /\ \/ t.owner = s.owner /\ ~t.renderers[g].context /\ ~t.renderers[g].ownsSlot
     \/ s.owner = 0 /\ t.owner = g /\ t.renderers[g].ownsSlot
Succeeds(s, t, g) ==
  /\ t.renderers[g].ready /\ ~t.renderers[g].failed /\ t.renderers[g].attempted
  /\ t.renderers[g].context /\ t.renderers[g].ownsSlot
  /\ s.owner = 0 /\ t.owner = g /\ t.posted = Append(s.posted, Status(g, TRUE, FALSE))
Waits(s, t, g) ==
  /\ ~t.renderers[g].ready /\ ~t.renderers[g].failed /\ t.renderers[g].attempted
  /\ t.renderers[g].context /\ t.renderers[g].ownsSlot
  /\ s.owner = 0 /\ t.owner = g /\ t.posted = s.posted


\* createContext() of a new renderer: it fails, or it has the slot and a context.
LEMMA FirstContext ==
  ASSUME NEW S, NEW g \in S, NEW s \in Results(S), g \in Generations, Blank(s.renderers[g]),
         NEW native, NEW t, t = CreateContext(s, g, native)
  PROVE  t \in Results(S) /\ OnlyTouches(s, t, S, g) /\ (Fails(s, t, g) \/ Waits(s, t, g))
<1> DEFINE a == Attempt(s, g)
           c == Occupy(a, g)
           d == Create(c, g)
<1>t. t = IF ~s.renderers[g].core \/ native = "noGL" \/ ~Claim(s.owner, g) THEN Fail(a, g)
          ELSE IF native = "error" THEN Fail(c, g) ELSE d
  BY DEF CreateContext, Attempt, Occupy, Create
<1>1. /\ a \in Results(S) /\ OnlyTouches(s, a, S, g) /\ a.owner = s.owner /\ a.posted = s.posted
      /\ a.renderers[g] = Attempted(s.renderers[g])
  BY Attempts
<1> HIDE DEF a
<1>2. /\ c \in Results(S) /\ OnlyTouches(a, c, S, g) /\ c.owner = g /\ c.posted = a.posted
      /\ c.renderers[g] = Occupying(a.renderers[g])
  BY <1>1, Occupies
<1> HIDE DEF c
<1>3. /\ d \in Results(S) /\ OnlyTouches(c, d, S, g) /\ d.owner = c.owner /\ d.posted = c.posted
      /\ d.renderers[g] = Created(c.renderers[g])
  BY <1>2, Creates
<1> HIDE DEF d
<1>s. s.renderers[g] \in Renderer
  BY DEF Results
<1>b. ~a.renderers[g].failed /\ ~a.renderers[g].ready /\ ~a.renderers[g].context /\ ~a.renderers[g].ownsSlot
      /\ a.renderers[g].attempted /\ a.renderers[g] \in Renderer
  BY <1>1, <1>s DEF Renderer, Blank, Attempted
<1>e. ~c.renderers[g].failed /\ ~c.renderers[g].ready /\ c.renderers[g].ownsSlot
      /\ c.renderers[g].attempted /\ c.renderers[g] \in Renderer
  BY <1>2, <1>b DEF Renderer, Occupying
<1>4. CASE t = Fail(a, g)
  <2>a. /\ Fail(a, g) \in Results(S) /\ OnlyTouches(a, Fail(a, g), S, g)
        /\ Fail(a, g).owner = a.owner /\ Fail(a, g).posted = Append(a.posted, Status(g, FALSE, TRUE))
        /\ Fail(a, g).renderers[g] = Failed(a.renderers[g])
    <3>1. a \in Results(S) /\ ~a.renderers[g].failed
      BY <1>1, <1>b
    <3> QED BY <3>1, FailsNow
  <2>2. /\ t \in Results(S) /\ OnlyTouches(a, t, S, g)
        /\ t.owner = a.owner /\ t.posted = Append(a.posted, Status(g, FALSE, TRUE))
        /\ t.renderers[g] = Failed(a.renderers[g])
    BY <1>4, <2>a
  <2>3. Fails(s, t, g)
    BY <1>1, <1>b, <2>2 DEF Fails, Renderer, Failed
  <2> QED BY <1>1, <2>2, <2>3 DEF OnlyTouches
<1>5. CASE t = Fail(c, g) /\ s.owner = 0
  <2>a. /\ Fail(c, g) \in Results(S) /\ OnlyTouches(c, Fail(c, g), S, g)
        /\ Fail(c, g).owner = c.owner /\ Fail(c, g).posted = Append(c.posted, Status(g, FALSE, TRUE))
        /\ Fail(c, g).renderers[g] = Failed(c.renderers[g])
    <3>1. c \in Results(S) /\ ~c.renderers[g].failed
      BY <1>2, <1>e
    <3> QED BY <3>1, FailsNow
  <2>2. /\ t \in Results(S) /\ OnlyTouches(c, t, S, g)
        /\ t.owner = c.owner /\ t.posted = Append(c.posted, Status(g, FALSE, TRUE))
        /\ t.renderers[g] = Failed(c.renderers[g])
    BY <1>5, <2>a
  <2>3. Fails(s, t, g)
    BY <1>1, <1>2, <1>5, <1>e, <2>2 DEF Fails, Renderer, Failed
  <2> QED BY <1>1, <1>2, <2>2, <2>3 DEF OnlyTouches
<1>6. CASE t = d /\ s.owner = 0
  <2>1. Waits(s, d, g)
    BY <1>1, <1>2, <1>3, <1>6, <1>e DEF Waits, Renderer, Created
  <2> QED BY <1>1, <1>2, <1>3, <1>6, <2>1 DEF OnlyTouches
<1> QED BY <1>t, <1>4, <1>5, <1>6 DEF Claim

\* createFramebufferObject() of a new renderer: it fails or is ready, at once.
LEMMA FirstFramebuffer ==
  ASSUME NEW S, NEW g \in S, NEW s \in Results(S), g \in Generations, Blank(s.renderers[g]),
         NEW native, NEW valid, NEW t, t = CreateFramebuffer(s, g, native, valid)
  PROVE  t \in Results(S) /\ OnlyTouches(s, t, S, g) /\ (Fails(s, t, g) \/ Succeeds(s, t, g))
<1> DEFINE c == CreateContext(s, g, native)
<1>1. c \in Results(S) /\ OnlyTouches(s, c, S, g) /\ (Fails(s, c, g) \/ Waits(s, c, g))
  BY FirstContext
<1>2. t = IF ~valid THEN Fail(c, g)
          ELSE IF ~c.renderers[g].failed /\ c.renderers[g].context /\ ~c.renderers[g].ready
          THEN Present(c, g) ELSE c
  BY DEF CreateFramebuffer, Blank, Present
<1> HIDE DEF c
<1>3. c.renderers[g] \in Renderer
  BY <1>1 DEF Results
<1>4. CASE Fails(s, c, g)
  <2>1. t = c
    BY <1>2, <1>4 DEF Fails, Fail
  <2> QED BY <1>1, <1>4, <2>1
<1>5. CASE Waits(s, c, g) /\ ~valid
  <2>0. t = Fail(c, g) /\ ~c.renderers[g].failed
    BY <1>2, <1>5 DEF Waits
  <2>a. /\ Fail(c, g) \in Results(S) /\ OnlyTouches(c, Fail(c, g), S, g)
        /\ Fail(c, g).owner = c.owner /\ Fail(c, g).posted = Append(c.posted, Status(g, FALSE, TRUE))
        /\ Fail(c, g).renderers[g] = Failed(c.renderers[g])
    BY <1>1, <2>0, FailsNow
  <2>1. /\ t \in Results(S) /\ OnlyTouches(c, t, S, g)
        /\ t.owner = c.owner /\ t.posted = Append(c.posted, Status(g, FALSE, TRUE))
        /\ t.renderers[g] = Failed(c.renderers[g])
    BY <2>0, <2>a
  <2>2. Fails(s, t, g)
    BY <1>3, <1>5, <2>1 DEF Fails, Waits, Renderer, Failed
  <2> QED BY <1>1, <2>1, <2>2 DEF OnlyTouches
<1>6. CASE Waits(s, c, g) /\ valid
  <2>0. t = Present(c, g)
    BY <1>2, <1>6 DEF Waits
  <2>a. /\ Present(c, g) \in Results(S) /\ OnlyTouches(c, Present(c, g), S, g)
        /\ Present(c, g).owner = c.owner /\ Present(c, g).posted = Append(c.posted, Status(g, TRUE, FALSE))
        /\ Present(c, g).renderers[g] = Ready(c.renderers[g])
    <3>1. c \in Results(S)
      BY <1>1
    <3>2. Present(c, g) \in Results(S) /\ OnlyTouches(c, Present(c, g), S, g)
      BY <3>1, Presents
    <3>3. Present(c, g).renderers[g] = Ready(c.renderers[g])
      BY <3>1, Presents
    <3>5. Present(c, g).owner = c.owner
      BY <3>1 DEF Present, Results
    <3>4. Present(c, g).posted = Append(c.posted, Status(g, TRUE, FALSE))
      BY <3>1, Presents
    <3> QED BY <3>2, <3>3, <3>4, <3>5
  <2>1. /\ t \in Results(S) /\ OnlyTouches(c, t, S, g)
        /\ t.owner = c.owner /\ t.posted = Append(c.posted, Status(g, TRUE, FALSE))
        /\ t.renderers[g] = Ready(c.renderers[g])
    BY <2>0, <2>a
  <2>2. Succeeds(s, t, g)
    <3>1. /\ t.renderers[g].ready /\ ~t.renderers[g].failed /\ t.renderers[g].attempted
          /\ t.renderers[g].context /\ t.renderers[g].ownsSlot
      BY <1>3, <1>6, <2>1 DEF Waits, Renderer, Ready
    <3>2. s.owner = 0 /\ t.owner = g /\ t.posted = Append(s.posted, Status(g, TRUE, FALSE))
      BY <1>6, <2>1 DEF Waits
    <3> QED BY <3>1, <3>2 DEF Succeeds
  <2> QED BY <1>1, <2>1, <2>2 DEF OnlyTouches
<1> QED BY <1>1, <1>4, <1>5, <1>6

\* createFramebufferObject() of a renderer that has been ready or failed can only fail.
LEMMA LaterFramebuffer ==
  ASSUME NEW S, NEW g \in S, NEW s \in Results(S), g \in Generations,
         s.renderers[g].attempted, s.renderers[g].failed <=> ~s.renderers[g].ready,
         NEW native, NEW valid, NEW t, t = CreateFramebuffer(s, g, native, valid)
  PROVE  t = s \/ (~s.renderers[g].failed /\ t = Fail(s, g))
BY DEF CreateFramebuffer, Fail
-----------------------------------------------------------------------------
\* Messages that say that a renderer is ready, or that it has failed.
SaysReady(m) == m.type = "status" /\ m.ready
SaysFailed(m) == m.type = "status" /\ m.error
Concerns(m, g) == m.type = "status" /\ m.generation = g

\* Renderers are created for the newest generation, and each has been ready or failed.
RendererInv ==
  /\ current \in {0, newest}
  /\ ~opengl => newest = 0 /\ ~rendererInitialized
  /\ coreAvailable => ~shuttingDown
  /\ shuttingDown => ~rendererInitialized
  /\ \A g \in DOMAIN renderers :
       renderers[g].attempted /\ (renderers[g].failed <=> ~renderers[g].ready)

\* The slot of the core is held by the one renderer that believes to own it.
SlotInv ==
  /\ \A g \in DOMAIN renderers :
       /\ renderers[g].context => renderers[g].ownsSlot
       /\ renderers[g].ownsSlot <=> owner = g
  /\ owner # 0 => owner \in DOMAIN renderers

\* No renderer newer than one with a context has been ready.
OrderInv ==
  /\ \A g \in DOMAIN renderers : renderers[g].context =>
       \A n \in DOMAIN queue : SaysReady(queue[n]) => queue[n].generation <= g
  /\ RetiringBeforeReady

\* A renderer fails once: its failure has not been reported when it is in the queue.
FailureInv ==
  /\ \A n \in DOMAIN queue : SaysFailed(queue[n]) =>
       /\ failedGeneration # queue[n].generation /\ ~queue[n].ready
       /\ \A k \in DOMAIN queue : SaysFailed(queue[k]) /\ queue[k].generation = queue[n].generation => k = n
  /\ \A g \in DOMAIN renderers : ~renderers[g].failed =>
       /\ failedGeneration # g
       /\ \A n \in DOMAIN queue : SaysFailed(queue[n]) => queue[n].generation # g
  /\ failedGeneration <= newest

\* The player's state is that of the newest renderer, unless the last word of it is
\* still in the queue.
IsReady == newest \in DOMAIN renderers /\ renderers[newest].ready
Agrees ==
  /\ IF IsReady THEN coreAvailable => rendererInitialized ELSE ~rendererInitialized
  /\ newest \in DOMAIN renderers => (renderError <=> renderers[newest].failed)
LastWord(n) ==
  Concerns(queue[n], newest) /\ \A k \in DOMAIN queue : Concerns(queue[k], newest) => k <= n
StatusInv ==
  /\ \A n \in DOMAIN queue : LastWord(n) =>
       /\ queue[n].ready <=> IsReady
       /\ newest \in DOMAIN renderers => (queue[n].error <=> renderers[newest].failed)
  /\ ~shuttingDown /\ (\A n \in DOMAIN queue : ~Concerns(queue[n], newest)) => Agrees

IInv == TypeOK /\ RendererInv /\ SlotInv /\ OrderInv /\ FailureInv /\ StatusInv

-----------------------------------------------------------------------------
(* Kinds of steps.                                                           *)

\* The player, its window and the scene graph are left alone.
SceneQuiet == UNCHANGED <<rendererInitialized, renderError, failedGeneration, hasCore,
                          coreAvailable, shuttingDown, told, opengl, window>>

\* A renderer is the same as far as the invariant can tell: the core may be another.
Alike(r, q) ==
  /\ r.context = q.context /\ r.ownsSlot = q.ownsSlot /\ r.attempted = q.attempted
  /\ r.failed = q.failed /\ r.ready = q.ready

\* The other renderers are left alone.
Rest(S, g) ==
  /\ renderers' \in [S \cup {g} -> Renderer]
  /\ \A h \in S \ {g} : renderers'[h] = renderers[h]

\* The first renderer of a generation, which fails at once or is ready at once.
NewFails(g) ==
  /\ g = newest + 1 /\ g \in Generations /\ newest' = g /\ current' = g
  /\ Rest(DOMAIN renderers, g)
  /\ renderers'[g].failed /\ ~renderers'[g].ready /\ renderers'[g].attempted
  /\ \/ owner' = owner /\ ~renderers'[g].context /\ ~renderers'[g].ownsSlot
     \/ owner = 0 /\ owner' = g /\ renderers'[g].ownsSlot
  /\ queue' = Append(queue, Status(g, FALSE, TRUE))
  /\ SceneQuiet /\ UNCHANGED crashed /\ opengl

NewReady(g) ==
  /\ g = newest + 1 /\ g \in Generations /\ newest' = g /\ current' = g
  /\ Rest(DOMAIN renderers, g)
  /\ ~renderers'[g].failed /\ renderers'[g].ready /\ renderers'[g].attempted
  /\ renderers'[g].context /\ renderers'[g].ownsSlot /\ owner = 0 /\ owner' = g
  /\ queue' = Append(queue, Status(g, TRUE, FALSE))
  /\ SceneQuiet /\ UNCHANGED crashed /\ opengl

\* The newest renderer is given the core again, and may fail.
Kept(g) ==
  /\ g \in DOMAIN renderers /\ UNCHANGED <<newest, owner, current, queue, crashed>> /\ SceneQuiet
  /\ Rest(DOMAIN renderers, g) /\ Alike(renderers'[g], renderers[g])

FailsLater(g) ==
  /\ g \in DOMAIN renderers /\ g = newest /\ UNCHANGED <<newest, owner, current, crashed>> /\ SceneQuiet
  /\ Rest(DOMAIN renderers, g) /\ ~renderers[g].failed
  /\ renderers'[g].failed /\ ~renderers'[g].ready /\ renderers'[g].attempted
  /\ renderers'[g].context = renderers[g].context /\ renderers'[g].ownsSlot = renderers[g].ownsSlot
  /\ queue' = Append(queue, Status(g, FALSE, TRUE))

\* A renderer is being deleted: it has announced the retirement of its context, has
\* given up the slot, is gone; or its deletion crashes.
Leaves(g) ==
  /\ g \in DOMAIN renderers /\ UNCHANGED <<newest, crashed>> /\ SceneQuiet
  /\ current' = IF current = g THEN 0 ELSE current
Leftover(g) ==
  /\ Rest(DOMAIN renderers, g) /\ ~renderers'[g].context
  /\ renderers'[g].attempted = renderers[g].attempted
  /\ renderers'[g].failed = renderers[g].failed /\ renderers'[g].ready = renderers[g].ready

Announces(g) ==
  /\ Leaves(g) /\ Leftover(g) /\ renderers[g].context
  /\ renderers'[g].ownsSlot = renderers[g].ownsSlot /\ UNCHANGED owner
  /\ queue' = Append(queue, Retiring(g))
Yields(g) ==
  /\ Leaves(g) /\ Leftover(g) /\ renderers[g].ownsSlot /\ ~renderers'[g].ownsSlot
  /\ owner' = Release(owner, g) /\ UNCHANGED queue
Gone(g) ==
  /\ Leaves(g) /\ ~renderers[g].context /\ ~renderers[g].ownsSlot
  /\ renderers' = [h \in DOMAIN renderers \ {g} |-> renderers[h]] /\ UNCHANGED owner
  /\ queue' = IF renderers[g].ready THEN Append(queue, Status(g, FALSE, FALSE)) ELSE queue

Crash == crashed' = TRUE /\ UNCHANGED <<newest, owner, current, renderers, queue>> /\ SceneQuiet

\* The types the steps of a renderer need.
LEMMA Owned ==
  ASSUME TypeOK
  PROVE  /\ renderers \in [DOMAIN renderers -> Renderer] /\ owner \in Int /\ newest \in Nat
         /\ newest <= MaxGeneration /\ MaxGeneration \in Nat
         /\ DOMAIN renderers \subseteq Generations /\ newest + 1 \notin DOMAIN renderers
         /\ current = 0 \/ current \in DOMAIN renderers
<1>1. newest \in 0 .. MaxGeneration /\ MaxGeneration \in Nat
  BY BoundsAssumption DEF TypeOK
<1>2. owner \in 0 .. newest
  BY DEF TypeOK
<1>3. DOMAIN renderers \subseteq 1 .. newest
  BY DEF TypeOK
<1>4. current \in {0} \cup DOMAIN renderers
  BY DEF TypeOK
<1>5. renderers \in [DOMAIN renderers -> Renderer]
  BY DEF TypeOK
<1> QED BY <1>1, <1>2, <1>3, <1>4, <1>5 DEF Generations

\* Deleting a node is one of the three steps of the destructor, unless it crashes.
LEMMA DeleteKind ==
  ASSUME TypeOK, NEW g \in DOMAIN renderers, Delete(g)
  PROVE  Announces(g) \/ Yields(g) \/ Gone(g) \/ Crash
<1>1. CASE CrashesOn(g)
  BY <1>1 DEF Delete, Crash, SceneQuiet, playerVars
<1>2. CASE ~CrashesOn(g)
  <2>1. Destroy(g) /\ Leaves(g)
    BY <1>2 DEF Delete, Leaves, SceneQuiet, playerVars
  <2>2. renderers \in [DOMAIN renderers -> Renderer] /\ renderers[g] \in Renderer
    BY Owned
  <2>3. CASE renderers[g].context /\ Retire(g)
    <3>1. renderers' = [renderers EXCEPT ![g].context = FALSE] /\ UNCHANGED owner
          /\ queue' = Append(queue, Retiring(g))
      BY <2>3 DEF Retire
    <3>2. Leftover(g) /\ renderers'[g].ownsSlot = renderers[g].ownsSlot
      BY <2>2, <3>1 DEF Leftover, Rest, Renderer
    <3> QED BY <2>1, <2>3, <3>1, <3>2 DEF Announces
  <2>4. CASE ~renderers[g].context /\ renderers[g].ownsSlot /\ GiveUpSlot(g)
    <3>1. renderers' = [renderers EXCEPT ![g].ownsSlot = FALSE] /\ owner' = Release(owner, g)
          /\ UNCHANGED queue
      BY <2>4 DEF GiveUpSlot
    <3>2. Leftover(g) /\ ~renderers'[g].ownsSlot
      BY <2>2, <2>4, <3>1 DEF Leftover, Rest, Renderer
    <3> QED BY <2>1, <2>4, <3>1, <3>2 DEF Yields
  <2>5. CASE ~renderers[g].context /\ ~renderers[g].ownsSlot /\ Vanish(g)
    BY <2>1, <2>5 DEF Vanish, Gone
  <2> QED BY <2>1, <2>3, <2>4, <2>5 DEF Destroy
<1> QED BY <1>1, <1>2

\* render() fails: the failure is reported once.
LEMMA RenderFailsKind ==
  ASSUME TypeOK, RendererInv, RenderFails
  PROVE  FailsLater(current)
<1> DEFINE s == State(renderers, owner, <<>>)
<1>1. current \in DOMAIN renderers /\ current \in Generations
  BY Owned DEF RenderFails
<1>2. s \in Results(DOMAIN renderers)
  BY Owned DEF State, Results
<1>3. s.renderers = renderers /\ s.owner = owner /\ s.posted = <<>>
  BY DEF State
<1>4. Becomes(Fail(s, current)) /\ renderers' # renderers
  BY DEF RenderFails
<1> HIDE DEF s
<1>5. ~s.renderers[current].failed
  BY <1>3, <1>4 DEF Becomes, Fail
<1>6. /\ Fail(s, current) \in Results(DOMAIN renderers) /\ OnlyTouches(s, Fail(s, current), DOMAIN renderers, current)
      /\ Fail(s, current).renderers[current] = Failed(s.renderers[current])
      /\ Fail(s, current).owner = s.owner /\ Fail(s, current).posted = Append(s.posted, Status(current, FALSE, TRUE))
  BY <1>1, <1>2, <1>5, FailsNow
<1>7. renderers' \in [DOMAIN renderers \cup {current} -> Renderer] /\ owner' = owner
      /\ queue' = queue \o Append(<<>>, Status(current, FALSE, TRUE))
  BY <1>1, <1>3, <1>4, <1>6 DEF Becomes, Results
<1>8. queue \in Seq(Message)
  BY DEF TypeOK
<1>9. queue' = Append(queue, Status(current, FALSE, TRUE))
  <2>1. Status(current, FALSE, TRUE) \in Message
    BY <1>1 DEF Status, Message
  <2> QED BY <1>7, <1>8, <2>1, OneMore
<1>10. Rest(DOMAIN renderers, current)
  BY <1>3, <1>4, <1>6, <1>7 DEF OnlyTouches, Rest, Becomes
<1>11. renderers'[current] = Failed(renderers[current]) /\ renderers[current] \in Renderer
  BY <1>1, <1>3, <1>4, <1>6, Owned DEF Becomes
<1>12. /\ renderers'[current].failed /\ ~renderers'[current].ready /\ renderers'[current].attempted
       /\ renderers'[current].context = renderers[current].context
       /\ renderers'[current].ownsSlot = renderers[current].ownsSlot
  BY <1>11 DEF Failed, Renderer, RenderFails
<1>13. current = newest
  BY DEF RendererInv, RenderFails
<1> QED BY <1>1, <1>3, <1>5, <1>7, <1>9, <1>10, <1>12, <1>13 DEF FailsLater, RenderFails, SceneQuiet, playerVars
\* What the two framebuffer lemmas are about: the state synchronize() leaves.
LEMMA SynchronizeNew ==
  ASSUME TypeOK, RendererInv, NEW resized, NEW native, NEW valid,
         Synchronize(resized, native, valid), current = 0
  PROVE  NewFails(newest + 1) \/ NewReady(newest + 1)
<1> DEFINE g == newest + 1
           S == DOMAIN renderers \cup {g}
           known == [NewRenderer(window) EXCEPT !.core = hasCore /\ ~shuttingDown]
           s == State([h \in S |-> IF h = g THEN known ELSE renderers[h]], owner, <<>>)
           t == CreateFramebuffer(s, g, native, valid)
<1>1. /\ opengl /\ window # NoWindow /\ newest < MaxGeneration
      /\ newest' = g /\ current' = g /\ Becomes(t)
      /\ UNCHANGED <<rendererInitialized, renderError, failedGeneration, hasCore,
                     coreAvailable, shuttingDown, told, opengl, window, crashed>>
  BY DEF Synchronize, NextGeneration
<1>2. window \in Windows /\ (hasCore /\ ~shuttingDown) \in BOOLEAN
  BY <1>1 DEF TypeOK
<1>3. known \in Renderer /\ Blank(known)
  BY <1>2 DEF Renderer, NewRenderer, Blank
<1>4. g \in Generations /\ g \notin DOMAIN renderers /\ g \in S
  BY <1>1, Owned DEF Generations
<1> HIDE DEF known
<1>5. s.renderers = [h \in S |-> IF h = g THEN known ELSE renderers[h]] /\ s.owner = owner /\ s.posted = <<>>
  BY DEF State
<1>6. [h \in S |-> IF h = g THEN known ELSE renderers[h]] \in [S -> Renderer]
  BY <1>3, Owned
<1>7. s \in Results(S)
  BY <1>6, Owned DEF Results, State
<1> HIDE DEF s
<1>8. s.renderers[g] = known /\ \A h \in S \ {g} : s.renderers[h] = renderers[h]
  BY <1>4, <1>5
<1>9. t \in Results(S) /\ OnlyTouches(s, t, S, g) /\ (Fails(s, t, g) \/ Succeeds(s, t, g))
  <2>1. Blank(s.renderers[g])
    BY <1>3, <1>8
  <2> QED BY <1>4, <1>7, <2>1, FirstFramebuffer
<1> HIDE DEF t
<1>10. renderers' = t.renderers /\ owner' = t.owner /\ queue' = queue \o t.posted
  BY <1>1 DEF Becomes
<1>11. Rest(DOMAIN renderers, g)
  <2>1. renderers' \in [S -> Renderer]
    BY <1>9, <1>10 DEF Results
  <2>2. \A h \in S \ {g} : renderers'[h] = renderers[h]
    BY <1>8, <1>9, <1>10 DEF OnlyTouches
  <2> QED BY <2>1, <2>2 DEF Rest
<1>12. queue \in Seq(Message) /\ Status(g, FALSE, TRUE) \in Message /\ Status(g, TRUE, FALSE) \in Message
  <2>1. queue \in Seq(Message)
    BY DEF TypeOK
  <2>2. Status(g, FALSE, TRUE) \in Message
    BY <1>4 DEF Status, Message
  <2>3. Status(g, TRUE, FALSE) \in Message
    BY <1>4 DEF Status, Message
  <2> QED BY <2>1, <2>2, <2>3
<1>13. SceneQuiet /\ UNCHANGED crashed
  BY <1>1 DEF SceneQuiet
<1>14. CASE Fails(s, t, g)
  <2>1. queue' = Append(queue, Status(g, FALSE, TRUE))
    <3>1. t.posted = Append(<<>>, Status(g, FALSE, TRUE))
      BY <1>5, <1>14 DEF Fails
    <3>2. queue' = queue \o Append(<<>>, Status(g, FALSE, TRUE))
      BY <1>10, <3>1
    <3> QED BY <1>12, <3>2, OneMore
  <2>2. /\ renderers'[g].failed /\ ~renderers'[g].ready /\ renderers'[g].attempted
        /\ \/ owner' = owner /\ ~renderers'[g].context /\ ~renderers'[g].ownsSlot
           \/ owner = 0 /\ owner' = g /\ renderers'[g].ownsSlot
    BY <1>5, <1>10, <1>14 DEF Fails
  <2>3. NewFails(g)
    BY <1>1, <1>4, <1>11, <1>13, <2>1, <2>2 DEF NewFails
  <2> QED BY <2>3
<1>15. CASE Succeeds(s, t, g)
  <2>1. queue' = Append(queue, Status(g, TRUE, FALSE))
    <3>1. t.posted = Append(<<>>, Status(g, TRUE, FALSE))
      BY <1>5, <1>15 DEF Succeeds
    <3>2. queue' = queue \o Append(<<>>, Status(g, TRUE, FALSE))
      BY <1>10, <3>1
    <3> QED BY <1>12, <3>2, OneMore
  <2>2. /\ ~renderers'[g].failed /\ renderers'[g].ready /\ renderers'[g].attempted
        /\ renderers'[g].context /\ renderers'[g].ownsSlot /\ owner = 0 /\ owner' = g
    BY <1>5, <1>10, <1>15 DEF Succeeds
  <2>3. NewReady(g)
    BY <1>1, <1>4, <1>11, <1>13, <2>1, <2>2 DEF NewReady
  <2> QED BY <2>3
<1> QED BY <1>9, <1>14, <1>15

\* synchronize() of the renderer the player has.
LEMMA SynchronizeAgain ==
  ASSUME TypeOK, RendererInv, NEW resized, NEW native, NEW valid,
         Synchronize(resized, native, valid), current # 0
  PROVE  Kept(current) \/ FailsLater(current)
<1> DEFINE g == current
           S == DOMAIN renderers
           known == [renderers[g] EXCEPT !.core = hasCore /\ ~shuttingDown]
           rs == [h \in S \cup {g} |-> IF h = g THEN known ELSE renderers[h]]
           s == State(rs, owner, <<>>)
<1>1. /\ newest' = newest /\ current' = current
      /\ Becomes(IF resized THEN CreateFramebuffer(s, g, native, valid) ELSE s)
      /\ UNCHANGED <<rendererInitialized, renderError, failedGeneration, hasCore,
                     coreAvailable, shuttingDown, told, opengl, window, crashed>>
  BY DEF Synchronize
<1>2. (hasCore /\ ~shuttingDown) \in BOOLEAN
  BY DEF TypeOK
<1>3. g \in S /\ g \in Generations /\ S \cup {g} = S /\ renderers[g] \in Renderer
  BY Owned
<1>4. known \in Renderer /\ Alike(known, renderers[g])
  BY <1>2, <1>3 DEF Renderer, Alike
<1> HIDE DEF known
<1>5. s.renderers = rs /\ s.owner = owner /\ s.posted = <<>>
  BY DEF State
<1>6. rs \in [S -> Renderer]
  BY <1>3, <1>4, Owned
<1>7. s \in Results(S)
  BY <1>6, Owned DEF Results, State
<1> HIDE DEF s
<1>8. s.renderers[g] = known /\ \A h \in S \ {g} : s.renderers[h] = renderers[h]
  BY <1>3, <1>5
<1>9. s.renderers[g].attempted /\ (s.renderers[g].failed <=> ~s.renderers[g].ready)
  BY <1>3, <1>4, <1>8 DEF Alike, RendererInv
<1>10. \/ Becomes(s)
       \/ ~s.renderers[g].failed /\ Becomes(Fail(s, g))
  <2>1. CreateFramebuffer(s, g, native, valid) = s
          \/ (~s.renderers[g].failed /\ CreateFramebuffer(s, g, native, valid) = Fail(s, g))
    BY <1>3, <1>7, <1>9, LaterFramebuffer
  <2> QED BY <1>1, <2>1
<1>11. SceneQuiet /\ UNCHANGED <<newest, current, crashed>>
  BY <1>1 DEF SceneQuiet
<1>12. queue \in Seq(Message)
  BY DEF TypeOK
<1>13. CASE Becomes(s)
  <2>1. owner' = owner /\ renderers' = rs /\ queue' = queue \o <<>>
    BY <1>5, <1>13 DEF Becomes
  <2>2. queue' = queue
    BY <1>12, <2>1
  <2>3. Rest(DOMAIN renderers, g) /\ renderers'[g] = known
    BY <1>3, <1>6, <2>1 DEF Rest
  <2>4. Kept(g)
    BY <1>3, <1>4, <1>11, <2>1, <2>2, <2>3 DEF Kept
  <2> QED BY <2>4
<1>14. CASE ~s.renderers[g].failed /\ Becomes(Fail(s, g))
  <2>1. /\ Fail(s, g) \in Results(S) /\ OnlyTouches(s, Fail(s, g), S, g)
        /\ Fail(s, g).renderers[g] = Failed(s.renderers[g])
        /\ Fail(s, g).owner = s.owner /\ Fail(s, g).posted = Append(s.posted, Status(g, FALSE, TRUE))
    BY <1>3, <1>7, <1>14, FailsNow
  <2>2. renderers' = Fail(s, g).renderers /\ owner' = owner
        /\ queue' = queue \o Append(<<>>, Status(g, FALSE, TRUE))
    BY <1>5, <1>14, <2>1 DEF Becomes
  <2>3. queue' = Append(queue, Status(g, FALSE, TRUE))
    <3>1. Status(g, FALSE, TRUE) \in Message
      BY <1>3 DEF Status, Message
    <3> QED BY <1>12, <2>2, <3>1, OneMore
  <2>4. Rest(DOMAIN renderers, g)
    <3>1. renderers' \in [S -> Renderer]
      BY <2>1, <2>2 DEF Results
    <3>2. \A h \in S \ {g} : renderers'[h] = renderers[h]
      BY <1>8, <2>1, <2>2 DEF OnlyTouches
    <3> QED BY <1>3, <3>1, <3>2 DEF Rest
  <2>5. renderers'[g] = Failed(known)
    BY <1>8, <2>1, <2>2
  <2>6. /\ renderers'[g].failed /\ ~renderers'[g].ready /\ renderers'[g].attempted
        /\ renderers'[g].context = renderers[g].context /\ renderers'[g].ownsSlot = renderers[g].ownsSlot
        /\ ~renderers[g].failed
    BY <1>3, <1>4, <1>8, <1>9, <1>14, <2>5 DEF Alike, Failed, Renderer
  <2>7. FailsLater(g)
    BY <1>3, <1>11, <2>2, <2>3, <2>4, <2>6 DEF FailsLater, RendererInv
  <2> QED BY <2>7
<1> QED BY <1>10, <1>13, <1>14
\* Every step is of one of these kinds.
Moved == \E w \in Windows \cup {NoWindow} : Move(w)

Kind ==
  \/ \E g \in Generations : NewFails(g) \/ NewReady(g) \/ Kept(g) \/ FailsLater(g)
                           \/ Announces(g) \/ Yields(g) \/ Gone(g)
  \/ Crash \/ Receive \/ InspectWindow \/ CoreUnavailable \/ Shutdown
  \/ Moved

\* There are no other kinds of steps.
LEMMA StepKind ==
  ASSUME TypeOK, RendererInv, Next
  PROVE  Kind
<1>1. CASE \E w \in Windows : CleanupNodes(w) \/ InvalidateSceneGraph(w)
  <2>1. PICK g \in DOMAIN renderers : Delete(g)
    BY <1>1 DEF CleanupNodes, InvalidateSceneGraph, Oldest, Leftovers, Here
  <2>2. g \in Generations
    BY Owned
  <2>3. Announces(g) \/ Yields(g) \/ Gone(g) \/ Crash
    BY <2>1, DeleteKind
  <2> QED BY <2>2, <2>3 DEF Kind
<1>2. CASE \E resized, valid \in BOOLEAN, native \in {"ok", "noGL", "error"} : Synchronize(resized, native, valid)
  <2>1. PICK resized \in BOOLEAN, valid \in BOOLEAN, native \in {"ok", "noGL", "error"} :
          Synchronize(resized, native, valid)
    BY <1>2
  <2>2. CASE current = 0
    <3>1. NewFails(newest + 1) \/ NewReady(newest + 1)
      BY <2>1, <2>2, SynchronizeNew
    <3>2. newest + 1 \in Generations
      BY <3>1 DEF NewFails, NewReady
    <3> QED BY <3>1, <3>2 DEF Kind
  <2>3. CASE current # 0
    <3>1. Kept(current) \/ FailsLater(current)
      BY <2>1, <2>3, SynchronizeAgain
    <3>2. current \in Generations
      BY <2>3, Owned
    <3> QED BY <3>1, <3>2 DEF Kind
  <2> QED BY <2>2, <2>3
<1>3. CASE RenderFails
  <2>1. FailsLater(current)
    BY <1>3, RenderFailsKind
  <2>2. current \in Generations
    BY <1>3, Owned DEF RenderFails
  <2> QED BY <2>1, <2>2 DEF Kind
<1>4. CASE Gui
  BY <1>4 DEF Gui, Kind, Moved
<1> QED BY <1>1, <1>2, <1>3, <1>4 DEF Next, RenderThread

-----------------------------------------------------------------------------
(* The queue.                                                                *)

\* What a message in the queue looks like.
LEMMA QueueFacts ==
  ASSUME TypeOK
  PROVE  /\ queue \in Seq(Message) /\ Len(queue) \in Nat /\ DOMAIN queue = 1 .. Len(queue)
         /\ \A n \in DOMAIN queue :
              /\ queue[n] \in Message
              /\ queue[n].generation \in Nat /\ 1 <= queue[n].generation /\ queue[n].generation <= newest
<1>1. queue \in Seq(Message)
  BY DEF TypeOK
<1>2. \A n \in DOMAIN queue : queue[n] \in Message /\ queue[n].generation <= newest
  BY <1>1 DEF TypeOK
<1>3. ASSUME NEW n \in DOMAIN queue
      PROVE  queue[n].generation \in Nat /\ 1 <= queue[n].generation
  <2>1. queue[n].generation \in Generations
    BY <1>2 DEF Message
  <2> QED BY <2>1, BoundsAssumption DEF Generations
<1> QED BY <1>1, <1>2, <1>3

\* A status is one, and a notice of retirement is another thing.
LEMMA StatusFacts ==
  ASSUME NEW g \in Generations, NEW r \in BOOLEAN, NEW e \in BOOLEAN
  PROVE  /\ Status(g, r, e) \in Message /\ Status(g, r, e).type = "status"
         /\ Status(g, r, e).generation = g /\ Status(g, r, e).ready = r /\ Status(g, r, e).error = e
         /\ SaysReady(Status(g, r, e)) <=> r
         /\ SaysFailed(Status(g, r, e)) <=> e
         /\ \A h : Concerns(Status(g, r, e), h) <=> h = g
BY DEF Status, Message, SaysReady, SaysFailed, Concerns

\* A notice of retirement says neither ready nor failed.
LEMMA RetiringFacts ==
  ASSUME NEW g \in Generations
  PROVE  /\ Retiring(g) \in Message /\ Retiring(g).type = "retiring" /\ Retiring(g).generation = g
         /\ ~SaysReady(Retiring(g)) /\ ~SaysFailed(Retiring(g)) /\ \A h : ~Concerns(Retiring(g), h)
BY DEF Retiring, Message, SaysReady, SaysFailed, Concerns

\* The queue with one message more.
LEMMA Appended ==
  ASSUME NEW q \in Seq(Message), NEW m \in Message, NEW p, p = Append(q, m)
  PROVE  /\ p \in Seq(Message) /\ Len(p) = Len(q) + 1 /\ Len(q) \in Nat
         /\ DOMAIN p = 1 .. Len(q) + 1 /\ DOMAIN q = 1 .. Len(q)
         /\ \A n \in DOMAIN q : p[n] = q[n]
         /\ p[Len(q) + 1] = m
OBVIOUS

\* The queue without its first message.
LEMMA Received ==
  ASSUME NEW q \in Seq(Message), q # <<>>, NEW p, p = Tail(q)
  PROVE  /\ p \in Seq(Message) /\ Len(p) = Len(q) - 1 /\ Len(q) \in Nat \ {0}
         /\ DOMAIN p = 1 .. Len(q) - 1 /\ DOMAIN q = 1 .. Len(q)
         /\ \A n \in DOMAIN p : n + 1 \in DOMAIN q /\ p[n] = q[n + 1]
         /\ Head(q) = q[1] /\ 1 \in DOMAIN q
OBVIOUS
-----------------------------------------------------------------------------
(* Types.                                                                    *)

\* The invariant holds initially: there is no renderer and nothing was said.
LEMMA InitIInv == Init => IInv
<1> SUFFICES ASSUME Init PROVE IInv
  OBVIOUS
<1>1. DOMAIN renderers = {} /\ DOMAIN queue = {} /\ queue \in Seq(Message) /\ renderers \in [{} -> Renderer]
  BY DEF Init
<1>2. TypeOK
  <2>1. newest \in 0 .. MaxGeneration /\ failedGeneration \in -1 .. newest /\ told \in 0 .. newest /\ owner \in 0 .. newest
    BY BoundsAssumption DEF Init
  <2>2. {rendererInitialized, renderError, hasCore, coreAvailable, shuttingDown, opengl, crashed} \subseteq BOOLEAN
    BY DEF Init
  <2>3. window \in Windows \cup {NoWindow} /\ current \in {0} \cup DOMAIN renderers
    BY DEF Init
  <2> QED BY <1>1, <2>1, <2>2, <2>3 DEF TypeOK
<1>3. RendererInv /\ SlotInv /\ OrderInv /\ FailureInv
  BY <1>1 DEF RendererInv, SlotInv, OrderInv, FailureInv, RetiringBeforeReady, Init
<1>4. StatusInv
  BY <1>1 DEF StatusInv, Agrees, IsReady, Init
<1> QED BY <1>2, <1>3, <1>4 DEF IInv

\* The queue stays a queue of messages of generations that exist.
QueueTyped == queue \in Seq(Message) /\ \A n \in DOMAIN queue : queue[n].generation <= newest

\* A message of a generation that exists keeps the queue well typed.
LEMMA MessageTyped ==
  ASSUME TypeOK, NEW m \in Message, queue' = Append(queue, m),
         newest' \in Nat, newest <= newest', m.generation <= newest'
  PROVE  QueueTyped'
<1>1. /\ queue' \in Seq(Message) /\ DOMAIN queue' = 1 .. Len(queue) + 1
      /\ \A n \in DOMAIN queue : queue'[n] = queue[n]
      /\ queue'[Len(queue) + 1] = m
  BY QueueFacts, Appended
<1>2. ASSUME NEW n \in DOMAIN queue' PROVE queue'[n].generation <= newest'
  <2>1. CASE n \in DOMAIN queue
    BY <1>1, <2>1, QueueFacts, Owned
  <2>2. CASE n = Len(queue) + 1
    BY <1>1, <2>2
  <2> QED BY <1>1, <2>1, <2>2, QueueFacts
<1> QED BY <1>1, <1>2 DEF QueueTyped

\* So does a status of such a generation.
LEMMA AppendTyped ==
  ASSUME TypeOK, NEW g \in Generations, NEW r \in BOOLEAN, NEW e \in BOOLEAN,
         queue' = Append(queue, Status(g, r, e)), newest' \in Nat, newest <= newest', g <= newest'
  PROVE  QueueTyped'
<1>1. Status(g, r, e) \in Message /\ Status(g, r, e).generation = g
  BY StatusFacts
<1> QED BY <1>1, MessageTyped

\* The flags of the model.
Bits == {rendererInitialized, renderError, hasCore, coreAvailable, shuttingDown, opengl, crashed} \subseteq BOOLEAN

\* A new renderer keeps the types.
LEMMA NewTypes ==
  ASSUME TypeOK, NEW g \in Generations, NewFails(g) \/ NewReady(g)
  PROVE  TypeOK'
<1>1. /\ g = newest + 1 /\ newest' = g /\ current' = g /\ Rest(DOMAIN renderers, g)
      /\ SceneQuiet /\ UNCHANGED crashed /\ (owner' = owner \/ owner' = g)
      /\ \E r, e \in BOOLEAN : queue' = Append(queue, Status(g, r, e))
  BY DEF NewFails, NewReady
<1>2. newest \in Nat /\ newest' \in 0 .. MaxGeneration /\ newest <= newest' /\ g <= newest'
  BY <1>1, Owned DEF Generations
<1>3. QueueTyped'
  BY <1>1, <1>2, AppendTyped
<1>4. failedGeneration' \in -1 .. newest' /\ told' \in 0 .. newest' /\ Bits'
      /\ window' \in Windows \cup {NoWindow} /\ owner' \in 0 .. newest'
  BY <1>1, <1>2 DEF TypeOK, Bits, SceneQuiet
<1>5. /\ renderers' \in [DOMAIN renderers' -> Renderer]
      /\ DOMAIN renderers' = DOMAIN renderers \cup {g}
  BY <1>1 DEF Rest
<1>6. DOMAIN renderers \subseteq 1 .. newest
  BY DEF TypeOK
<1>7. DOMAIN renderers' \subseteq 1 .. newest' /\ current' \in {0} \cup DOMAIN renderers'
  BY <1>1, <1>2, <1>5, <1>6
<1> QED BY <1>2, <1>3, <1>4, <1>5, <1>7 DEF TypeOK, QueueTyped, Bits

\* Another synchronization, or a later failure, keeps the types.
LEMMA KeptTypes ==
  ASSUME TypeOK, NEW g \in Generations, Kept(g) \/ FailsLater(g)
  PROVE  TypeOK'
<1>1. /\ g \in DOMAIN renderers /\ Rest(DOMAIN renderers, g)
      /\ SceneQuiet /\ UNCHANGED <<newest, owner, current, crashed>>
      /\ queue' = queue \/ queue' = Append(queue, Status(g, FALSE, TRUE))
  BY DEF Kept, FailsLater
<1>2. newest \in Nat /\ newest' \in 0 .. MaxGeneration /\ newest <= newest' /\ g <= newest'
  BY <1>1, Owned DEF Generations, TypeOK
<1>3. QueueTyped'
  <2>1. CASE queue' = queue
    BY <1>1, <2>1, QueueFacts DEF QueueTyped
  <2>2. CASE queue' = Append(queue, Status(g, FALSE, TRUE))
    <3>1. newest' \in Nat
      BY <1>1, <1>2
    <3> QED BY <1>2, <2>2, <3>1, AppendTyped
  <2> QED BY <1>1, <2>1, <2>2
<1>4. failedGeneration' \in -1 .. newest' /\ told' \in 0 .. newest' /\ Bits'
      /\ window' \in Windows \cup {NoWindow} /\ owner' \in 0 .. newest'
  BY <1>1, <1>2 DEF TypeOK, Bits, SceneQuiet
<1>5. renderers' \in [DOMAIN renderers' -> Renderer] /\ DOMAIN renderers' = DOMAIN renderers
  BY <1>1 DEF Rest
<1>6. DOMAIN renderers \subseteq 1 .. newest /\ current \in {0} \cup DOMAIN renderers
  BY DEF TypeOK
<1> QED BY <1>1, <1>2, <1>3, <1>4, <1>5, <1>6 DEF TypeOK, QueueTyped, Bits

\* What the steps of a deletion have in common, for the types.
LEMMA LeavesTypes ==
  ASSUME TypeOK, NEW g \in Generations, Leaves(g), owner' \in {0, owner}, QueueTyped',
         renderers' \in [DOMAIN renderers' -> Renderer],
         DOMAIN renderers' = DOMAIN renderers \/ DOMAIN renderers' = DOMAIN renderers \ {g}
  PROVE  TypeOK'
<1>1. SceneQuiet /\ UNCHANGED <<newest, crashed>> /\ current' = IF current = g THEN 0 ELSE current
  BY DEF Leaves
<1>2. newest \in Nat /\ newest' \in 0 .. MaxGeneration
  BY <1>1, Owned DEF TypeOK
<1>3. failedGeneration' \in -1 .. newest' /\ told' \in 0 .. newest' /\ Bits'
      /\ window' \in Windows \cup {NoWindow} /\ owner' \in 0 .. newest'
  BY <1>1, <1>2 DEF TypeOK, Bits, SceneQuiet
<1>4. DOMAIN renderers \subseteq 1 .. newest /\ current \in {0} \cup DOMAIN renderers
  BY DEF TypeOK
<1>5. DOMAIN renderers' \subseteq 1 .. newest' /\ current' \in {0} \cup DOMAIN renderers'
  BY <1>1, <1>4
<1> QED BY <1>2, <1>3, <1>5 DEF TypeOK, QueueTyped, Bits

\* The first steps of a deletion keep the types.
LEMMA LeftoverTypes ==
  ASSUME TypeOK, NEW g \in Generations, Announces(g) \/ Yields(g)
  PROVE  TypeOK'
<1>1. Leaves(g) /\ Leftover(g) /\ owner' \in {0, owner} /\ UNCHANGED newest /\ g \in DOMAIN renderers
  BY DEF Announces, Yields, Leaves, Release
<1>2. renderers' \in [DOMAIN renderers' -> Renderer] /\ DOMAIN renderers' = DOMAIN renderers
  BY <1>1 DEF Leftover, Rest
<1>3. newest \in Nat /\ newest' \in Nat /\ newest <= newest' /\ g <= newest' /\ QueueTyped
  BY <1>1, Owned, QueueFacts DEF QueueTyped, TypeOK
<1>4. QueueTyped'
  <2>1. CASE queue' = queue
    BY <1>1, <1>3, <2>1 DEF QueueTyped
  <2>2. CASE queue' = Append(queue, Retiring(g))
    <3>1. Retiring(g) \in Message /\ Retiring(g).generation <= newest'
      BY <1>3, RetiringFacts
    <3> QED BY <1>3, <2>2, <3>1, MessageTyped
  <2> QED BY <2>1, <2>2 DEF Announces, Yields
<1> QED BY <1>1, <1>2, <1>4, LeavesTypes

\* The last one does, too.
LEMMA GoneTypes ==
  ASSUME TypeOK, NEW g \in Generations, Gone(g)
  PROVE  TypeOK'
<1>1. Leaves(g) /\ owner' \in {0, owner} /\ UNCHANGED newest /\ g \in DOMAIN renderers
      /\ renderers' = [h \in DOMAIN renderers \ {g} |-> renderers[h]]
  BY DEF Gone, Leaves
<1>2. renderers' \in [DOMAIN renderers' -> Renderer] /\ DOMAIN renderers' = DOMAIN renderers \ {g}
  BY <1>1, Owned
<1>3. newest \in Nat /\ newest' \in Nat /\ newest <= newest' /\ g <= newest' /\ QueueTyped
  BY <1>1, Owned, QueueFacts DEF QueueTyped, TypeOK
<1>4. QueueTyped'
  <2>1. CASE queue' = queue
    BY <1>1, <1>3, <2>1 DEF QueueTyped
  <2>2. CASE queue' = Append(queue, Status(g, FALSE, FALSE))
    BY <1>3, <2>2, AppendTyped
  <2> QED BY <2>1, <2>2 DEF Gone
<1> QED BY <1>1, <1>2, <1>4, LeavesTypes

\* rendererStatus() of the newest generation, or of none.
LEMMA StatusTypes ==
  ASSUME TypeOK, NEW m, m.ready \in BOOLEAN, m.error \in BOOLEAN,
         m.generation \in 0 .. newest, RendererStatus(m)
  PROVE  /\ failedGeneration' \in -1 .. newest /\ told' \in 0 .. newest
         /\ rendererInitialized' \in BOOLEAN /\ renderError' \in BOOLEAN
<1>1. failedGeneration \in -1 .. newest /\ told \in 0 .. newest /\ newest \in Nat
      /\ rendererInitialized \in BOOLEAN /\ renderError \in BOOLEAN /\ coreAvailable \in BOOLEAN
  BY DEF TypeOK
<1>2. CASE UNCHANGED <<rendererInitialized, renderError, failedGeneration, told>>
  BY <1>1, <1>2
<1>3. CASE /\ failedGeneration' = IF m.error THEN m.generation ELSE failedGeneration
           /\ renderError' = m.error
           /\ rendererInitialized' = (m.ready /\ (rendererInitialized \/ coreAvailable))
           /\ told' = IF m.ready /\ ~m.error /\ ~rendererInitialized THEN m.generation ELSE told
  <2>1. failedGeneration' \in -1 .. newest /\ told' \in 0 .. newest
    BY <1>1, <1>3
  <2>2. rendererInitialized' \in BOOLEAN /\ renderError' \in BOOLEAN
    BY <1>3
  <2> QED BY <2>1, <2>2
<1> QED BY <1>2, <1>3 DEF RendererStatus

\* What the player does with a message keeps the types.
LEMMA HeardTypes ==
  ASSUME TypeOK, UNCHANGED <<newest, hasCore, coreAvailable, shuttingDown, sceneVars, crashed>>,
         failedGeneration' \in -1 .. newest, told' \in 0 .. newest,
         rendererInitialized' \in BOOLEAN, renderError' \in BOOLEAN, QueueTyped'
  PROVE  TypeOK'
<1>1. Bits' /\ window' \in Windows \cup {NoWindow} /\ owner' \in 0 .. newest'
      /\ newest' \in 0 .. MaxGeneration /\ current' \in {0} \cup DOMAIN renderers'
  BY DEF TypeOK, sceneVars, Bits
<1>2. DOMAIN renderers' \subseteq 1 .. newest' /\ renderers' \in [DOMAIN renderers' -> Renderer]
  BY DEF TypeOK, sceneVars
<1> QED BY <1>1, <1>2 DEF TypeOK, QueueTyped, Bits

\* Receiving a message keeps the types.
LEMMA ReceiveTypes ==
  ASSUME TypeOK, Receive
  PROVE  TypeOK'
<1>1. /\ queue # <<>> /\ queue' = Tail(queue)
      /\ UNCHANGED <<newest, hasCore, coreAvailable, shuttingDown, sceneVars, crashed>>
  BY DEF Receive
<1>2. queue \in Seq(Message)
  BY QueueFacts
<1>3. /\ queue' \in Seq(Message) /\ Head(queue) = queue[1] /\ 1 \in DOMAIN queue
      /\ \A n \in DOMAIN queue' : n + 1 \in DOMAIN queue /\ queue'[n] = queue[n + 1]
  BY <1>1, <1>2, Received
<1>4. QueueTyped'
  BY <1>1, <1>3, QueueFacts DEF QueueTyped
<1>5. /\ failedGeneration' \in -1 .. newest /\ told' \in 0 .. newest
      /\ rendererInitialized' \in BOOLEAN /\ renderError' \in BOOLEAN
  <2>1. CASE Head(queue).type = "status"
    <3>1. RendererStatus(Head(queue))
      BY <2>1 DEF Receive
    <3>2. Head(queue) \in Message /\ Head(queue).generation \in 0 .. newest
      BY <1>3, QueueFacts, Owned
    <3>3. Head(queue).ready \in BOOLEAN /\ Head(queue).error \in BOOLEAN
      BY <2>1, <3>2 DEF Message
    <3> QED BY <3>1, <3>2, <3>3, StatusTypes
  <2>2. CASE Head(queue).type # "status"
    BY <2>2 DEF Receive, TypeOK
  <2> QED BY <2>1, <2>2
<1> QED BY <1>1, <1>4, <1>5, HeardTypes

\* The inspection of the window keeps the types.
LEMMA InspectTypes ==
  ASSUME TypeOK, InspectWindow
  PROVE  TypeOK'
<1> DEFINE m == Status(newest, FALSE, TRUE)
<1>1. UNCHANGED <<newest, hasCore, coreAvailable, shuttingDown, queue, sceneVars, crashed>>
      /\ RendererStatus(m)
  BY DEF InspectWindow
<1>2. QueueTyped'
  BY <1>1, QueueFacts DEF QueueTyped
<1>3. m.ready \in BOOLEAN /\ m.error \in BOOLEAN /\ m.generation \in 0 .. newest
  BY Owned DEF Status
<1> HIDE DEF m
<1>4. /\ failedGeneration' \in -1 .. newest /\ told' \in 0 .. newest
      /\ rendererInitialized' \in BOOLEAN /\ renderError' \in BOOLEAN
  BY <1>1, <1>3, StatusTypes
<1> QED BY <1>1, <1>2, <1>4, HeardTypes

\* The other steps of the GUI thread keep the types, and so does a crash.
LEMMA OtherTypes ==
  ASSUME TypeOK, Crash \/ CoreUnavailable \/ Shutdown \/ Moved
  PROVE  TypeOK'
<1>1. UNCHANGED <<newest, failedGeneration, told, owner, renderers, queue>>
  BY DEF Crash, CoreUnavailable, Shutdown, Moved, Move, sceneVars, playerVars, SceneQuiet
<1>2. QueueTyped'
  BY <1>1, QueueFacts DEF QueueTyped
<1>3. Bits'
  <2>1. CASE Crash
    BY <2>1 DEF Bits, TypeOK, Crash, SceneQuiet
  <2>2. CASE CoreUnavailable
    BY <2>2 DEF Bits, TypeOK, CoreUnavailable, sceneVars
  <2>3. CASE Shutdown
    BY <2>3 DEF Bits, TypeOK, Shutdown, sceneVars
  <2>4. CASE Moved
    BY <2>4 DEF Bits, TypeOK, Moved, Move, playerVars
  <2> QED BY <2>1, <2>2, <2>3, <2>4
<1>4. window' \in Windows \cup {NoWindow} /\ current' \in {0, current}
  BY DEF TypeOK, Crash, SceneQuiet, CoreUnavailable, Shutdown, Moved, Move, sceneVars
<1>5. /\ newest' \in 0 .. MaxGeneration /\ failedGeneration' \in -1 .. newest' /\ told' \in 0 .. newest'
      /\ owner' \in 0 .. newest'
  BY <1>1 DEF TypeOK
<1>6. DOMAIN renderers' \subseteq 1 .. newest' /\ renderers' \in [DOMAIN renderers' -> Renderer]
      /\ current' \in {0} \cup DOMAIN renderers'
  BY <1>1, <1>4 DEF TypeOK
<1> QED BY <1>2, <1>3, <1>4, <1>5, <1>6 DEF TypeOK, QueueTyped, Bits

-----------------------------------------------------------------------------
(* The renderers, the slot and the order of what they say.                   *)

\* A new renderer has the slot only if it was free: nobody else believes to own it.
LEMMA NewRenderers ==
  ASSUME TypeOK, RendererInv, SlotInv, NEW g \in Generations, NewFails(g) \/ NewReady(g)
  PROVE  RendererInv' /\ SlotInv'
<1>1. /\ g = newest + 1 /\ newest' = g /\ current' = g /\ SceneQuiet /\ opengl
      /\ DOMAIN renderers' = DOMAIN renderers \cup {g} /\ g \notin DOMAIN renderers
      /\ \A h \in DOMAIN renderers : renderers'[h] = renderers[h]
      /\ renderers'[g].attempted /\ (renderers'[g].failed <=> ~renderers'[g].ready)
  BY Owned DEF NewFails, NewReady, Rest
<1>2. RendererInv'
  BY <1>1 DEF RendererInv, SceneQuiet
<1>3. g # 0 /\ g # owner
  <2>1. owner \in 0 .. newest /\ newest \in Nat
    BY DEF TypeOK
  <2> QED BY <1>1, <2>1
<1>4. CASE owner' = owner /\ ~renderers'[g].context /\ ~renderers'[g].ownsSlot
  <2>1. \A h \in DOMAIN renderers :
          /\ renderers'[h].context => renderers'[h].ownsSlot
          /\ renderers'[h].ownsSlot <=> owner' = h
    BY <1>1, <1>4 DEF SlotInv
  <2>2. /\ renderers'[g].context => renderers'[g].ownsSlot
        /\ renderers'[g].ownsSlot <=> owner' = g
    BY <1>3, <1>4
  <2>3. owner' # 0 => owner' \in DOMAIN renderers'
    BY <1>1, <1>4 DEF SlotInv
  <2>5. \A h \in DOMAIN renderers' :
          /\ renderers'[h].context => renderers'[h].ownsSlot
          /\ renderers'[h].ownsSlot <=> owner' = h
    BY <1>1, <2>1, <2>2
  <2> QED BY <1>2, <2>3, <2>5 DEF SlotInv
<1>5. CASE owner = 0 /\ owner' = g /\ renderers'[g].ownsSlot
  <2>1. \A h \in DOMAIN renderers : ~renderers[h].ownsSlot /\ ~renderers[h].context
    BY <1>5, Owned, BoundsAssumption DEF SlotInv, Generations
  <2>2. \A h \in DOMAIN renderers :
          /\ renderers'[h].context => renderers'[h].ownsSlot
          /\ renderers'[h].ownsSlot <=> owner' = h
    BY <1>1, <1>5, <2>1
  <2>3. /\ renderers'[g].context => renderers'[g].ownsSlot
        /\ renderers'[g].ownsSlot <=> owner' = g
    BY <1>5
  <2>4. owner' \in DOMAIN renderers'
    BY <1>1, <1>5
  <2>5. \A h \in DOMAIN renderers' :
          /\ renderers'[h].context => renderers'[h].ownsSlot
          /\ renderers'[h].ownsSlot <=> owner' = h
    BY <1>1, <2>2, <2>3
  <2> QED BY <1>2, <2>4, <2>5 DEF SlotInv
<1> QED BY <1>2, <1>4, <1>5 DEF NewFails, NewReady

\* Nothing later changes who has the slot or a context.
LEMMA KeptRenderers ==
  ASSUME TypeOK, RendererInv, SlotInv, NEW g \in Generations, Kept(g) \/ FailsLater(g)
  PROVE  RendererInv' /\ SlotInv'
<1>1. /\ UNCHANGED <<newest, owner, current>> /\ SceneQuiet
      /\ DOMAIN renderers' = DOMAIN renderers /\ g \in DOMAIN renderers
      /\ \A h \in DOMAIN renderers \ {g} : renderers'[h] = renderers[h]
      /\ renderers'[g].context = renderers[g].context /\ renderers'[g].ownsSlot = renderers[g].ownsSlot
  BY DEF Kept, FailsLater, Rest, Alike
<1>2. renderers'[g].attempted /\ (renderers'[g].failed <=> ~renderers'[g].ready)
  BY DEF Kept, FailsLater, Alike, RendererInv
<1>3. RendererInv'
  BY <1>1, <1>2 DEF RendererInv, SceneQuiet
<1> QED BY <1>1, <1>3 DEF SlotInv

\* The first steps of a deletion keep the record of the renderer true.
LEMMA LeftoverRenderers ==
  ASSUME TypeOK, RendererInv, SlotInv, NEW g \in Generations, Announces(g) \/ Yields(g)
  PROVE  RendererInv' /\ SlotInv'
<1>1. /\ UNCHANGED newest /\ SceneQuiet /\ g \in DOMAIN renderers /\ current' \in {0, current}
      /\ DOMAIN renderers' = DOMAIN renderers
      /\ \A h \in DOMAIN renderers \ {g} : renderers'[h] = renderers[h]
      /\ renderers'[g].attempted = renderers[g].attempted /\ ~renderers'[g].context
      /\ renderers'[g].failed = renderers[g].failed /\ renderers'[g].ready = renderers[g].ready
  BY DEF Announces, Yields, Leaves, Leftover, Rest
<1>2. RendererInv'
  BY <1>1 DEF RendererInv, SceneQuiet
<1>3. g # 0 /\ 0 \notin DOMAIN renderers
  BY <1>1, Owned, BoundsAssumption DEF Generations
<1>4. CASE Announces(g)
  <2>1. renderers'[g].ownsSlot = renderers[g].ownsSlot /\ owner' = owner
    BY <1>4 DEF Announces
  <2> QED BY <1>1, <1>2, <2>1 DEF SlotInv
<1>5. CASE Yields(g)
  <2>1. owner = g /\ owner' = 0 /\ ~renderers'[g].ownsSlot
    BY <1>1, <1>5 DEF Yields, SlotInv, Release
  <2> QED BY <1>1, <1>2, <1>3, <2>1 DEF SlotInv
<1> QED BY <1>4, <1>5

\* A renderer that is gone had no slot any more.
LEMMA GoneRenderers ==
  ASSUME TypeOK, RendererInv, SlotInv, NEW g \in Generations, Gone(g)
  PROVE  RendererInv' /\ SlotInv'
<1>1. /\ UNCHANGED <<newest, owner>> /\ SceneQuiet /\ g \in DOMAIN renderers /\ ~renderers[g].ownsSlot
      /\ DOMAIN renderers' = DOMAIN renderers \ {g}
      /\ \A h \in DOMAIN renderers \ {g} : renderers'[h] = renderers[h]
      /\ current' \in {0, current}
  BY DEF Gone, Leaves
<1>2. RendererInv'
  BY <1>1 DEF RendererInv, SceneQuiet
<1>3. owner # g
  BY <1>1 DEF SlotInv
<1>4. SlotInv'
  BY <1>1, <1>3 DEF SlotInv
<1> QED BY <1>2, <1>4

\* The GUI thread leaves the renderers and the slot alone.
LEMMA OtherRenderers ==
  ASSUME TypeOK, RendererInv, SlotInv, Crash \/ Receive \/ InspectWindow \/ CoreUnavailable \/ Shutdown \/ Moved
  PROVE  RendererInv' /\ SlotInv'
<1>1. /\ UNCHANGED <<newest, renderers, owner, opengl>> /\ current' \in {0, current}
      /\ coreAvailable' => coreAvailable
  <2>1. CASE Crash
    BY <2>1 DEF Crash, SceneQuiet
  <2>2. CASE Receive
    BY <2>2 DEF Receive, sceneVars
  <2>3. CASE InspectWindow
    BY <2>3 DEF InspectWindow, sceneVars
  <2>4. CASE CoreUnavailable
    BY <2>4 DEF CoreUnavailable, sceneVars
  <2>5. CASE Shutdown
    BY <2>5 DEF Shutdown, sceneVars
  <2>6. CASE Moved
    BY <2>6 DEF Moved, Move, playerVars
  <2> QED BY <2>1, <2>2, <2>3, <2>4, <2>5, <2>6
<1>2. SlotInv'
  BY <1>1 DEF SlotInv
<1>3. /\ ~opengl' => ~rendererInitialized'
      /\ coreAvailable' => ~shuttingDown'
      /\ shuttingDown' => ~rendererInitialized'
  <2>1. CASE Crash
    BY <2>1 DEF RendererInv, Crash, SceneQuiet
  <2>2. CASE Receive
    <3>1. /\ UNCHANGED <<opengl, coreAvailable, shuttingDown>>
          /\ \/ rendererInitialized' = rendererInitialized
             \/ Head(queue).type = "status" /\ RendererStatus(Head(queue))
      BY <2>2 DEF Receive, sceneVars
    <3>2. CASE ~opengl
      <4>1. queue = <<>>
        BY <3>2, QueueFacts DEF RendererInv
      <4> QED BY <2>2, <4>1 DEF Receive
    <3> QED BY <3>1, <3>2 DEF RendererInv, RendererStatus, IsCurrentStatus
  <2>3. CASE InspectWindow
    BY <2>3 DEF RendererInv, InspectWindow, sceneVars, RendererStatus, Status, IsCurrentStatus
  <2>4. CASE CoreUnavailable
    BY <2>4 DEF RendererInv, CoreUnavailable, sceneVars
  <2>5. CASE Shutdown
    BY <2>5 DEF RendererInv, Shutdown, sceneVars
  <2>6. CASE Moved
    BY <2>6 DEF RendererInv, Moved, Move, playerVars
  <2> QED BY <2>1, <2>2, <2>3, <2>4, <2>5, <2>6
<1> QED BY <1>1, <1>2, <1>3 DEF RendererInv
-----------------------------------------------------------------------------
(* What the queue says.                                                      *)

\* The queue with one status more.
LEMMA Says ==
  ASSUME TypeOK, NEW g \in Generations, NEW r \in BOOLEAN, NEW e \in BOOLEAN,
         queue' = Append(queue, Status(g, r, e))
  PROVE  /\ Len(queue) \in Nat /\ DOMAIN queue = 1 .. Len(queue)
         /\ DOMAIN queue' = DOMAIN queue \cup {Len(queue) + 1} /\ Len(queue) + 1 \notin DOMAIN queue
         /\ \A n \in DOMAIN queue : queue'[n] = queue[n]
         /\ queue'[Len(queue) + 1].type = "status" /\ queue'[Len(queue) + 1].generation = g
         /\ queue'[Len(queue) + 1].ready = r /\ queue'[Len(queue) + 1].error = e
<1>1. PICK m \in Message : m = Status(g, r, e)
  BY StatusFacts
<1>2. queue \in Seq(Message) /\ queue' = Append(queue, m)
  BY <1>1, QueueFacts
<1>3. /\ Len(queue) \in Nat /\ DOMAIN queue' = 1 .. Len(queue) + 1 /\ DOMAIN queue = 1 .. Len(queue)
      /\ \A n \in DOMAIN queue : queue'[n] = queue[n]
      /\ queue'[Len(queue) + 1] = m
  BY <1>2, Appended
<1>4. m.type = "status" /\ m.generation = g /\ m.ready = r /\ m.error = e
  BY <1>1 DEF Status
<1> QED BY <1>3, <1>4

\* The queue with a notice of retirement more, which says neither ready nor failed.
LEMMA AnnouncesSays ==
  ASSUME TypeOK, NEW g \in Generations, Announces(g)
  PROVE  /\ Len(queue) \in Nat /\ DOMAIN queue = 1 .. Len(queue) /\ DOMAIN queue' = 1 .. Len(queue) + 1
         /\ \A n \in DOMAIN queue : queue'[n] = queue[n]
         /\ queue'[Len(queue) + 1].type = "retiring" /\ queue'[Len(queue) + 1].generation = g
<1>1. PICK m \in Message : m = Retiring(g)
  BY RetiringFacts
<1>2. queue \in Seq(Message) /\ queue' = Append(queue, m)
  BY <1>1, QueueFacts DEF Announces
<1>3. /\ Len(queue) \in Nat /\ DOMAIN queue' = 1 .. Len(queue) + 1 /\ DOMAIN queue = 1 .. Len(queue)
      /\ \A n \in DOMAIN queue : queue'[n] = queue[n]
      /\ queue'[Len(queue) + 1] = m
  BY <1>2, Appended
<1>4. m.type = "retiring" /\ m.generation = g
  BY <1>1 DEF Retiring
<1> QED BY <1>3, <1>4

\* What the end of a deletion adds to the queue says neither ready nor failed.
LEMMA GoneSays ==
  ASSUME TypeOK, NEW g \in Generations, Gone(g)
  PROVE  \E k \in 0 .. 1 :
           /\ Len(queue) \in Nat /\ DOMAIN queue = 1 .. Len(queue) /\ DOMAIN queue' = 1 .. Len(queue) + k
           /\ \A n \in DOMAIN queue : queue'[n] = queue[n]
           /\ renderers[g].ready <=> k = 1
           /\ k = 1 => /\ queue'[Len(queue) + 1].type = "status" /\ queue'[Len(queue) + 1].generation = g
                       /\ ~queue'[Len(queue) + 1].ready /\ ~queue'[Len(queue) + 1].error
<1>1. renderers[g].ready \in BOOLEAN
  <2>1. renderers[g] \in Renderer
    BY Owned DEF Gone, Leaves
  <2> QED BY <2>1 DEF Renderer
<1>2. CASE renderers[g].ready
  <2>1. queue' = Append(queue, Status(g, FALSE, FALSE))
    BY <1>2 DEF Gone
  <2>2. /\ Len(queue) \in Nat /\ DOMAIN queue = 1 .. Len(queue)
        /\ DOMAIN queue' = DOMAIN queue \cup {Len(queue) + 1}
        /\ \A n \in DOMAIN queue : queue'[n] = queue[n]
        /\ queue'[Len(queue) + 1].type = "status" /\ queue'[Len(queue) + 1].generation = g
        /\ ~queue'[Len(queue) + 1].ready /\ ~queue'[Len(queue) + 1].error
    BY <2>1, Says
  <2>3. DOMAIN queue' = 1 .. Len(queue) + 1
    BY <2>2
  <2> QED BY <1>2, <2>2, <2>3
<1>3. CASE ~renderers[g].ready
  <2>1. queue' = queue /\ Len(queue) \in Nat /\ DOMAIN queue = 1 .. Len(queue)
    BY <1>3, QueueFacts DEF Gone
  <2>2. DOMAIN queue' = 1 .. Len(queue) + 0 /\ \A n \in DOMAIN queue : queue'[n] = queue[n]
    BY <2>1
  <2>3. 0 \in 0 .. 1 /\ 0 # 1
    OBVIOUS
  <2> QED BY <1>3, <2>1, <2>2, <2>3
<1> QED BY <1>1, <1>2, <1>3

\* The queue without its first message, for messages that say something.
LEMMA TailSays ==
  ASSUME TypeOK, Receive
  PROVE  /\ Len(queue) \in Nat \ {0} /\ DOMAIN queue = 1 .. Len(queue) /\ DOMAIN queue' = 1 .. Len(queue) - 1
         /\ \A n \in DOMAIN queue' : n + 1 \in DOMAIN queue /\ queue'[n] = queue[n + 1]
         /\ Head(queue) = queue[1] /\ 1 \in DOMAIN queue
BY QueueFacts, Received DEF Receive

\* A renderer becomes ready only when no other has a context, whose notice would come later.
LEMMA OrderNew ==
  ASSUME TypeOK, SlotInv, OrderInv, NEW g \in Generations, NewFails(g) \/ NewReady(g)
  PROVE  OrderInv'
<1> DEFINE last == Len(queue) + 1
<1>1. /\ g = newest + 1 /\ newest \in Nat
      /\ DOMAIN renderers' = DOMAIN renderers \cup {g} /\ g \notin DOMAIN renderers
      /\ \A h \in DOMAIN renderers : renderers'[h] = renderers[h]
  BY Owned DEF NewFails, NewReady, Rest
<1>2. PICK r \in BOOLEAN, e \in BOOLEAN : queue' = Append(queue, Status(g, r, e)) /\ (r <=> NewReady(g))
  BY DEF NewFails, NewReady
<1>3. /\ Len(queue) \in Nat /\ DOMAIN queue = 1 .. Len(queue)
      /\ DOMAIN queue' = DOMAIN queue \cup {last} /\ last \notin DOMAIN queue
      /\ \A n \in DOMAIN queue : queue'[n] = queue[n]
      /\ queue'[last].type = "status" /\ queue'[last].generation = g
      /\ queue'[last].ready = r
  BY <1>2, Says
<1>4. ASSUME NEW h \in DOMAIN renderers', renderers'[h].context, NEW n \in DOMAIN queue', SaysReady(queue'[n])
      PROVE  queue'[n].generation <= h
  <2>1. CASE h = g
    BY <1>1, <1>3, <2>1, QueueFacts
  <2>2. CASE h # g /\ n # last
    BY <1>1, <1>3, <1>4, <2>2 DEF OrderInv
  <2>3. CASE h # g /\ n = last
    <3>1. NewReady(g)
      BY <1>2, <1>3, <1>4, <2>3 DEF SaysReady
    <3>2. owner = 0
      BY <3>1 DEF NewReady
    <3>3. h \in DOMAIN renderers /\ renderers[h].context
      BY <1>1, <1>4, <2>3
    <3>4. owner = h /\ h # 0
      BY <3>3, Owned, BoundsAssumption DEF SlotInv, Generations
    <3> QED BY <3>2, <3>4
  <2> QED BY <2>1, <2>2, <2>3
<1>5. RetiringBeforeReady'
  <2>1. ASSUME NEW n \in DOMAIN queue', queue'[n].type = "retiring", NEW k \in 1 .. n - 1,
               queue'[k].type = "status" /\ queue'[k].ready
        PROVE  queue'[k].generation <= queue'[n].generation
    <3>1. n \in DOMAIN queue /\ queue'[n] = queue[n]
      BY <1>3, <2>1
    <3>2. k \in DOMAIN queue /\ queue'[k] = queue[k]
      BY <1>3, <2>1, <3>1
    <3> QED BY <2>1, <3>1, <3>2 DEF OrderInv, RetiringBeforeReady
  <2> QED BY <2>1 DEF RetiringBeforeReady
<1> QED BY <1>4, <1>5 DEF OrderInv

\* A failure is no news of readiness, and retires nothing.
LEMMA OrderKept ==
  ASSUME TypeOK, OrderInv, NEW g \in Generations, Kept(g) \/ FailsLater(g)
  PROVE  OrderInv'
<1> DEFINE last == Len(queue) + 1
<1>1. /\ DOMAIN renderers' = DOMAIN renderers
      /\ \A h \in DOMAIN renderers : renderers'[h].context = renderers[h].context
  BY DEF Kept, FailsLater, Rest, Alike
<1>2. CASE queue' = queue
  BY <1>1, <1>2 DEF OrderInv, RetiringBeforeReady
<1>3. CASE queue' = Append(queue, Status(g, FALSE, TRUE))
  <2>1. /\ Len(queue) \in Nat /\ DOMAIN queue = 1 .. Len(queue)
        /\ DOMAIN queue' = DOMAIN queue \cup {last} /\ last \notin DOMAIN queue
        /\ \A n \in DOMAIN queue : queue'[n] = queue[n]
        /\ queue'[last].type = "status" /\ ~queue'[last].ready
    BY <1>3, Says
  <2>2. \A h \in DOMAIN renderers' : renderers'[h].context =>
          \A n \in DOMAIN queue' : SaysReady(queue'[n]) => queue'[n].generation <= h
    BY <1>1, <2>1 DEF OrderInv, SaysReady
  <2>3. ASSUME NEW n \in DOMAIN queue', queue'[n].type = "retiring", NEW k \in 1 .. n - 1,
               queue'[k].type = "status" /\ queue'[k].ready
        PROVE  queue'[k].generation <= queue'[n].generation
    <3>1. n \in DOMAIN queue /\ queue'[n] = queue[n]
      BY <2>1, <2>3
    <3>2. k \in DOMAIN queue /\ queue'[k] = queue[k]
      BY <2>1, <2>3, <3>1
    <3> QED BY <2>3, <3>1, <3>2 DEF OrderInv, RetiringBeforeReady
  <2> QED BY <2>2, <2>3 DEF OrderInv, RetiringBeforeReady
<1> QED BY <1>2, <1>3 DEF Kept, FailsLater

\* A notice of retirement comes after the readiness of older generations only.
LEMMA OrderAnnounces ==
  ASSUME TypeOK, OrderInv, NEW g \in Generations, Announces(g)
  PROVE  OrderInv'
<1> DEFINE len == Len(queue)
<1>1. /\ DOMAIN renderers' = DOMAIN renderers /\ g \in DOMAIN renderers /\ renderers[g].context
      /\ \A h \in DOMAIN renderers : renderers'[h].context => renderers[h].context
  BY DEF Announces, Leaves, Leftover, Rest
<1>2. /\ len \in Nat /\ DOMAIN queue = 1 .. len /\ DOMAIN queue' = 1 .. len + 1
      /\ \A n \in DOMAIN queue : queue'[n] = queue[n]
      /\ queue'[len + 1].type = "retiring" /\ queue'[len + 1].generation = g
  BY AnnouncesSays
<1> HIDE DEF len
<1>3. ASSUME NEW n \in DOMAIN queue', SaysReady(queue'[n])
      PROVE  n \in DOMAIN queue /\ queue'[n] = queue[n]
  BY <1>2, <1>3 DEF SaysReady
<1>4. \A h \in DOMAIN renderers' : renderers'[h].context =>
        \A n \in DOMAIN queue' : SaysReady(queue'[n]) => queue'[n].generation <= h
  BY <1>1, <1>3 DEF OrderInv
<1>5. ASSUME NEW n \in DOMAIN queue', queue'[n].type = "retiring", NEW j \in 1 .. n - 1,
             queue'[j].type = "status" /\ queue'[j].ready
      PROVE  queue'[j].generation <= queue'[n].generation
  <2>1. j \in DOMAIN queue /\ queue'[j] = queue[j] /\ SaysReady(queue[j])
    <3>1. j \in DOMAIN queue'
      BY <1>2, <1>5
    <3> QED BY <1>3, <1>5, <3>1 DEF SaysReady
  <2>2. CASE n \in DOMAIN queue
    BY <1>2, <1>5, <2>1, <2>2 DEF OrderInv, RetiringBeforeReady
  <2>3. CASE n = len + 1
    BY <1>1, <1>2, <2>1, <2>3 DEF OrderInv
  <2> QED BY <1>2, <2>2, <2>3
<1> QED BY <1>4, <1>5 DEF OrderInv, RetiringBeforeReady

\* The rest of a deletion tells of no readiness and retires nothing.
LEMMA OrderGone ==
  ASSUME TypeOK, OrderInv, NEW g \in Generations, Yields(g) \/ Gone(g)
  PROVE  OrderInv'
<1> DEFINE len == Len(queue)
<1>1. /\ DOMAIN renderers' \subseteq DOMAIN renderers
      /\ \A h \in DOMAIN renderers' : renderers'[h].context => renderers[h].context
  BY DEF Yields, Gone, Leftover, Leaves, Rest
<1>2. CASE queue' = queue
  BY <1>1, <1>2 DEF OrderInv, RetiringBeforeReady
<1>3. CASE Gone(g)
  <2>1. PICK k \in 0 .. 1 :
          /\ len \in Nat /\ DOMAIN queue = 1 .. len /\ DOMAIN queue' = 1 .. len + k
          /\ \A n \in DOMAIN queue : queue'[n] = queue[n]
          /\ k = 1 => queue'[len + 1].type = "status" /\ ~queue'[len + 1].ready
    BY <1>3, GoneSays
  <2> HIDE DEF len
  <2>2. ASSUME NEW n \in DOMAIN queue', SaysReady(queue'[n]) \/ queue'[n].type = "retiring"
        PROVE  n \in DOMAIN queue /\ queue'[n] = queue[n]
    BY <2>1, <2>2 DEF SaysReady
  <2>3. \A h \in DOMAIN renderers' : renderers'[h].context =>
          \A n \in DOMAIN queue' : SaysReady(queue'[n]) => queue'[n].generation <= h
    BY <1>1, <2>2 DEF OrderInv
  <2>4. ASSUME NEW n \in DOMAIN queue', queue'[n].type = "retiring", NEW j \in 1 .. n - 1,
               queue'[j].type = "status" /\ queue'[j].ready
        PROVE  queue'[j].generation <= queue'[n].generation
    <3>1. n \in DOMAIN queue /\ queue'[n] = queue[n]
      BY <2>2, <2>4
    <3>2. j \in DOMAIN queue /\ queue'[j] = queue[j]
      BY <2>1, <2>4, <3>1
    <3> QED BY <2>4, <3>1, <3>2 DEF OrderInv, RetiringBeforeReady
  <2> QED BY <2>3, <2>4 DEF OrderInv, RetiringBeforeReady
<1> QED BY <1>2, <1>3 DEF Yields

\* The first message leaves: the order of the others remains.
LEMMA OrderReceive ==
  ASSUME TypeOK, OrderInv, Receive
  PROVE  OrderInv'
<1>1. /\ Len(queue) \in Nat \ {0} /\ DOMAIN queue = 1 .. Len(queue) /\ DOMAIN queue' = 1 .. Len(queue) - 1
      /\ \A n \in DOMAIN queue' : n + 1 \in DOMAIN queue /\ queue'[n] = queue[n + 1]
      /\ UNCHANGED renderers
  BY TailSays DEF Receive, sceneVars
<1>2. \A h \in DOMAIN renderers' : renderers'[h].context =>
        \A n \in DOMAIN queue' : SaysReady(queue'[n]) => queue'[n].generation <= h
  BY <1>1 DEF OrderInv
<1>3. ASSUME NEW n \in DOMAIN queue', queue'[n].type = "retiring", NEW k \in 1 .. n - 1,
             queue'[k].type = "status" /\ queue'[k].ready
      PROVE  queue'[k].generation <= queue'[n].generation
  <2>1. k \in DOMAIN queue' /\ k + 1 \in 1 .. (n + 1) - 1
    BY <1>1, <1>3
  <2>2. n + 1 \in DOMAIN queue /\ queue'[n] = queue[n + 1] /\ queue'[k] = queue[k + 1]
    BY <1>1, <2>1
  <2> QED BY <1>3, <2>1, <2>2 DEF OrderInv, RetiringBeforeReady
<1> QED BY <1>2, <1>3 DEF OrderInv, RetiringBeforeReady
\* A new generation has not failed before.
LEMMA FailureNew ==
  ASSUME TypeOK, FailureInv, NEW g \in Generations, NewFails(g) \/ NewReady(g)
  PROVE  FailureInv'
<1> DEFINE last == Len(queue) + 1
<1>1. /\ g = newest + 1 /\ newest \in Nat /\ newest' = g /\ failedGeneration' = failedGeneration
      /\ DOMAIN renderers' = DOMAIN renderers \cup {g} /\ g \notin DOMAIN renderers
      /\ \A h \in DOMAIN renderers : renderers'[h] = renderers[h] /\ h # g
      /\ failedGeneration \in Int /\ failedGeneration <= newest /\ failedGeneration # g
  <2>1. failedGeneration \in -1 .. newest
    BY DEF TypeOK
  <2>2. g = newest + 1 /\ newest \in Nat /\ newest' = g /\ failedGeneration' = failedGeneration
        /\ newest + 1 \notin DOMAIN renderers
    BY Owned DEF NewFails, NewReady, SceneQuiet
  <2>3. DOMAIN renderers' = DOMAIN renderers \cup {g} /\ \A h \in DOMAIN renderers \ {g} : renderers'[h] = renderers[h]
    BY DEF NewFails, NewReady, Rest
  <2>4. \A h \in DOMAIN renderers : renderers'[h] = renderers[h] /\ h # g
    BY <2>2, <2>3
  <2> QED BY <2>1, <2>2, <2>3, <2>4
<1>2. PICK r \in BOOLEAN, e \in BOOLEAN :
        queue' = Append(queue, Status(g, r, e)) /\ (e <=> ~r) /\ (renderers'[g].failed <=> e)
  BY DEF NewFails, NewReady
<1>3. /\ Len(queue) \in Nat /\ DOMAIN queue = 1 .. Len(queue)
      /\ DOMAIN queue' = DOMAIN queue \cup {last} /\ last \notin DOMAIN queue
      /\ \A n \in DOMAIN queue : queue'[n] = queue[n]
      /\ queue'[last].type = "status" /\ queue'[last].generation = g
      /\ queue'[last].ready = r /\ queue'[last].error = e
  BY <1>2, Says
<1>4. \A n \in DOMAIN queue : queue'[n].generation # g
  BY <1>1, <1>3, QueueFacts
<1>5. ASSUME NEW n \in DOMAIN queue', SaysFailed(queue'[n])
      PROVE  /\ failedGeneration' # queue'[n].generation /\ ~queue'[n].ready
             /\ \A k \in DOMAIN queue' :
                  SaysFailed(queue'[k]) /\ queue'[k].generation = queue'[n].generation => k = n
  <2>1. CASE n \in DOMAIN queue
    BY <1>1, <1>3, <1>4, <1>5, <2>1 DEF FailureInv
  <2>2. CASE n = last
    BY <1>1, <1>2, <1>3, <1>4, <1>5, <2>2 DEF SaysFailed
  <2> QED BY <1>3, <2>1, <2>2
<1>6. ASSUME NEW h \in DOMAIN renderers', ~renderers'[h].failed
      PROVE  /\ failedGeneration' # h
             /\ \A n \in DOMAIN queue' : SaysFailed(queue'[n]) => queue'[n].generation # h
  <2>1. CASE h = g
    BY <1>1, <1>2, <1>3, <1>4, <1>6, <2>1 DEF SaysFailed
  <2>2. CASE h \in DOMAIN renderers
    BY <1>1, <1>3, <1>6, <2>2 DEF FailureInv
  <2> QED BY <1>1, <2>1, <2>2
<1>7. failedGeneration' <= newest'
  BY <1>1
<1> QED BY <1>5, <1>6, <1>7 DEF FailureInv

\* A later failure is the first one of its renderer.
LEMMA FailureKept ==
  ASSUME TypeOK, FailureInv, NEW g \in Generations, Kept(g) \/ FailsLater(g)
  PROVE  FailureInv'
<1> DEFINE last == Len(queue) + 1
<1>1. /\ UNCHANGED <<newest, failedGeneration>>
      /\ DOMAIN renderers' = DOMAIN renderers /\ g \in DOMAIN renderers
      /\ \A h \in DOMAIN renderers \ {g} : renderers'[h] = renderers[h]
  BY DEF Kept, FailsLater, Rest, SceneQuiet
<1>2. CASE Kept(g)
  <2>1. queue' = queue /\ \A h \in DOMAIN renderers : renderers'[h].failed = renderers[h].failed
    BY <1>1, <1>2 DEF Kept, Alike
  <2> QED BY <1>1, <2>1 DEF FailureInv
<1>3. CASE FailsLater(g)
  <2>1. queue' = Append(queue, Status(g, FALSE, TRUE)) /\ ~renderers[g].failed /\ renderers'[g].failed
    BY <1>3 DEF FailsLater
  <2>2. /\ DOMAIN queue' = DOMAIN queue \cup {last} /\ last \notin DOMAIN queue
        /\ \A n \in DOMAIN queue : queue'[n] = queue[n]
        /\ queue'[last].type = "status" /\ queue'[last].generation = g /\ ~queue'[last].ready
    BY <2>1, Says
  <2>3. failedGeneration # g /\ \A n \in DOMAIN queue : SaysFailed(queue[n]) => queue[n].generation # g
    BY <1>1, <2>1 DEF FailureInv
  <2>4. ASSUME NEW n \in DOMAIN queue', SaysFailed(queue'[n])
        PROVE  /\ failedGeneration' # queue'[n].generation /\ ~queue'[n].ready
               /\ \A k \in DOMAIN queue' :
                    SaysFailed(queue'[k]) /\ queue'[k].generation = queue'[n].generation => k = n
    <3>1. CASE n \in DOMAIN queue
      BY <1>1, <2>2, <2>3, <2>4, <3>1 DEF FailureInv
    <3>2. CASE n = last
      BY <1>1, <2>2, <2>3, <3>2
    <3> QED BY <2>2, <3>1, <3>2
  <2>5. ASSUME NEW h \in DOMAIN renderers', ~renderers'[h].failed
        PROVE  /\ failedGeneration' # h
               /\ \A n \in DOMAIN queue' : SaysFailed(queue'[n]) => queue'[n].generation # h
    <3>1. h \in DOMAIN renderers \ {g} /\ ~renderers[h].failed
      BY <1>1, <2>1, <2>5
    <3> QED BY <1>1, <2>2, <3>1 DEF FailureInv
  <2> QED BY <1>1, <2>4, <2>5 DEF FailureInv
<1> QED BY <1>2, <1>3

\* A deletion reports no failure.
LEMMA FailureGone ==
  ASSUME TypeOK, FailureInv, NEW g \in Generations, Announces(g) \/ Yields(g) \/ Gone(g)
  PROVE  FailureInv'
<1> DEFINE len == Len(queue)
<1>1. /\ UNCHANGED <<newest, failedGeneration>> /\ DOMAIN renderers' \subseteq DOMAIN renderers
      /\ \A h \in DOMAIN renderers' : renderers'[h].failed = renderers[h].failed
  BY DEF Announces, Yields, Gone, Leaves, Leftover, Rest, SceneQuiet
<1>2. ASSUME NEW n \in DOMAIN queue', SaysFailed(queue'[n])
      PROVE  n \in DOMAIN queue /\ queue'[n] = queue[n]
  <2>1. CASE Announces(g)
    <3>1. /\ len \in Nat /\ DOMAIN queue = 1 .. len /\ DOMAIN queue' = 1 .. len + 1
          /\ \A i \in DOMAIN queue : queue'[i] = queue[i]
          /\ queue'[len + 1].type = "retiring"
      BY <2>1, AnnouncesSays
    <3> HIDE DEF len
    <3> QED BY <1>2, <3>1 DEF SaysFailed
  <2>2. CASE Yields(g)
    BY <2>2 DEF Yields
  <2>3. CASE Gone(g)
    <3>1. PICK k \in 0 .. 1 :
            /\ len \in Nat /\ DOMAIN queue = 1 .. len /\ DOMAIN queue' = 1 .. len + k
            /\ \A i \in DOMAIN queue : queue'[i] = queue[i]
            /\ k = 1 => ~queue'[len + 1].error
      BY <2>3, GoneSays
    <3> HIDE DEF len
    <3> QED BY <1>2, <3>1 DEF SaysFailed
  <2> QED BY <2>1, <2>2, <2>3
<1>3. ASSUME NEW n \in DOMAIN queue', SaysFailed(queue'[n])
      PROVE  /\ failedGeneration' # queue'[n].generation /\ ~queue'[n].ready
             /\ \A j \in DOMAIN queue' :
                  SaysFailed(queue'[j]) /\ queue'[j].generation = queue'[n].generation => j = n
  BY <1>1, <1>2, <1>3 DEF FailureInv
<1>4. \A h \in DOMAIN renderers' : ~renderers'[h].failed =>
        /\ failedGeneration' # h
        /\ \A n \in DOMAIN queue' : SaysFailed(queue'[n]) => queue'[n].generation # h
  BY <1>1, <1>2 DEF FailureInv
<1>5. failedGeneration' <= newest'
  BY <1>1 DEF FailureInv
<1> QED BY <1>3, <1>4, <1>5 DEF FailureInv

\* The failure the player hears of is not in the queue again.
LEMMA FailureReceive ==
  ASSUME TypeOK, FailureInv, Receive
  PROVE  FailureInv'
<1>1. /\ Len(queue) \in Nat \ {0} /\ DOMAIN queue = 1 .. Len(queue) /\ DOMAIN queue' = 1 .. Len(queue) - 1
      /\ \A n \in DOMAIN queue' : n + 1 \in DOMAIN queue /\ queue'[n] = queue[n + 1]
      /\ Head(queue) = queue[1] /\ 1 \in DOMAIN queue
      /\ UNCHANGED <<renderers, newest>>
  BY TailSays DEF Receive, sceneVars
<1>2. \/ failedGeneration' = failedGeneration
      \/ failedGeneration' = queue[1].generation /\ SaysFailed(queue[1])
  BY <1>1 DEF Receive, RendererStatus, SaysFailed
<1>3. ASSUME NEW n \in DOMAIN queue', SaysFailed(queue'[n])
      PROVE  /\ failedGeneration' # queue'[n].generation /\ ~queue'[n].ready
             /\ \A k \in DOMAIN queue' :
                  SaysFailed(queue'[k]) /\ queue'[k].generation = queue'[n].generation => k = n
  <2>1. n + 1 \in DOMAIN queue /\ n + 1 # 1 /\ n \in Nat /\ SaysFailed(queue[n + 1]) /\ queue'[n] = queue[n + 1]
    BY <1>1, <1>3
  <2>2. failedGeneration' # queue'[n].generation /\ ~queue'[n].ready
    BY <1>1, <1>2, <2>1 DEF FailureInv
  <2>3. ASSUME NEW k \in DOMAIN queue', SaysFailed(queue'[k]), queue'[k].generation = queue'[n].generation
        PROVE  k = n
    <3>1. k + 1 \in DOMAIN queue /\ k \in Nat /\ queue'[k] = queue[k + 1]
      BY <1>1, <2>3
    <3>2. k + 1 = n + 1
      BY <2>1, <2>3, <3>1 DEF FailureInv
    <3> QED BY <2>1, <3>1, <3>2
  <2> QED BY <2>2, <2>3
<1>4. ASSUME NEW h \in DOMAIN renderers', ~renderers'[h].failed
      PROVE  /\ failedGeneration' # h
             /\ \A n \in DOMAIN queue' : SaysFailed(queue'[n]) => queue'[n].generation # h
  BY <1>1, <1>2, <1>4 DEF FailureInv
<1>5. failedGeneration' <= newest'
  BY <1>1, <1>2, QueueFacts DEF FailureInv
<1> QED BY <1>3, <1>4, <1>5 DEF FailureInv

\* Without OpenGL there has been no renderer and there are no messages.
LEMMA InspectFacts ==
  ASSUME TypeOK, RendererInv, InspectWindow
  PROVE  /\ UNCHANGED <<newest, queue, renderers, coreAvailable, shuttingDown>> /\ newest = 0
         /\ DOMAIN renderers = {} /\ DOMAIN queue = {}
         /\ failedGeneration' \in {failedGeneration, 0} /\ ~rendererInitialized'
<1>1. newest = 0 /\ ~rendererInitialized
  BY DEF InspectWindow, RendererInv
<1>2. DOMAIN renderers = {}
  <2>1. ASSUME NEW h \in DOMAIN renderers PROVE FALSE
    <3>1. h \in 1 .. newest
      BY DEF TypeOK
    <3> QED BY <1>1, <3>1
  <2> QED BY <2>1
<1>3. DOMAIN queue = {}
  BY <1>1, QueueFacts
<1>4. failedGeneration' \in {failedGeneration, 0} /\ ~rendererInitialized'
  BY <1>1 DEF InspectWindow, RendererStatus, Status
<1> QED BY <1>1, <1>2, <1>3, <1>4 DEF InspectWindow, sceneVars

\* The other steps of the GUI thread leave the queue as it is.
LEMMA OtherQueue ==
  ASSUME TypeOK, RendererInv, OrderInv, FailureInv,
         Crash \/ InspectWindow \/ CoreUnavailable \/ Shutdown \/ Moved
  PROVE  OrderInv' /\ FailureInv'
<1>1. CASE Crash \/ CoreUnavailable \/ Shutdown \/ Moved
  <2>1. UNCHANGED <<newest, failedGeneration, renderers, queue>>
    BY <1>1 DEF Crash, CoreUnavailable, Shutdown, Moved, Move, sceneVars, playerVars, SceneQuiet
  <2> QED BY <2>1 DEF OrderInv, FailureInv, RetiringBeforeReady
<1>2. CASE InspectWindow
  <2>1. /\ UNCHANGED <<newest, queue, renderers>> /\ newest = 0 /\ DOMAIN renderers = {} /\ DOMAIN queue = {}
        /\ failedGeneration' \in {failedGeneration, 0}
    BY <1>2, InspectFacts
  <2> QED BY <2>1 DEF OrderInv, FailureInv, RetiringBeforeReady
<1> QED BY <1>1, <1>2

-----------------------------------------------------------------------------
(* The last word on the newest renderer.                                     *)

\* What a new renderer says is the last word on its generation, the newest.
LEMMA StatusNew ==
  ASSUME TypeOK, StatusInv, NEW g \in Generations, NewFails(g) \/ NewReady(g)
  PROVE  StatusInv'
<1> DEFINE last == Len(queue) + 1
<1>1. g = newest + 1 /\ newest \in Nat /\ newest' = g /\ g \in DOMAIN renderers'
  BY Owned DEF NewFails, NewReady, Rest
<1>2. PICK r \in BOOLEAN, e \in BOOLEAN : /\ queue' = Append(queue, Status(g, r, e))
                                          /\ renderers'[g].ready <=> r
                                          /\ renderers'[g].failed <=> e
  BY DEF NewFails, NewReady
<1>3. /\ DOMAIN queue' = DOMAIN queue \cup {last}
      /\ \A n \in DOMAIN queue : queue'[n] = queue[n]
      /\ queue'[last].type = "status" /\ queue'[last].generation = g
      /\ queue'[last].ready = r /\ queue'[last].error = e
  BY <1>2, Says
<1>4. \A n \in DOMAIN queue : ~Concerns(queue'[n], newest')
  BY <1>1, <1>3, QueueFacts DEF Concerns
<1>5. Concerns(queue'[last], newest') /\ last \in DOMAIN queue'
  BY <1>1, <1>3 DEF Concerns
<1>6. IsReady' <=> renderers'[g].ready
  BY <1>1 DEF IsReady
<1>7. ASSUME NEW n \in DOMAIN queue', LastWord(n)'
      PROVE  /\ queue'[n].ready <=> IsReady'
             /\ newest' \in DOMAIN renderers' => (queue'[n].error <=> renderers'[newest'].failed)
  <2>1. n = last
    BY <1>3, <1>4, <1>7 DEF LastWord
  <2> QED BY <1>1, <1>2, <1>3, <1>6, <2>1
<1> QED BY <1>5, <1>7 DEF StatusInv
\* Another synchronization changes nothing the player should hear of.
LEMMA StatusKept ==
  ASSUME TypeOK, RendererInv, StatusInv, NEW g \in Generations, Kept(g)
  PROVE  StatusInv'
<1>1. /\ UNCHANGED <<newest, queue>> /\ SceneQuiet /\ DOMAIN renderers' = DOMAIN renderers
      /\ \A h \in DOMAIN renderers :
           renderers'[h].ready = renderers[h].ready /\ renderers'[h].failed = renderers[h].failed
  BY DEF Kept, Rest, Alike
<1>2. (IsReady' <=> IsReady) /\ (newest \in DOMAIN renderers => (renderers'[newest].failed <=> renderers[newest].failed))
  BY <1>1 DEF IsReady
<1>3. Agrees' <=> Agrees
  BY <1>1, <1>2 DEF Agrees, SceneQuiet
<1>4. \A n : LastWord(n)' <=> LastWord(n)
  BY <1>1 DEF LastWord
<1>5. ASSUME NEW n \in DOMAIN queue', LastWord(n)'
      PROVE  /\ queue'[n].ready <=> IsReady'
             /\ newest' \in DOMAIN renderers' => (queue'[n].error <=> renderers'[newest'].failed)
  BY <1>1, <1>2, <1>4, <1>5 DEF StatusInv
<1>6. ~shuttingDown' /\ (\A n \in DOMAIN queue' : ~Concerns(queue'[n], newest')) => Agrees'
  BY <1>1, <1>3 DEF StatusInv, SceneQuiet
<1> QED BY <1>5, <1>6 DEF StatusInv

\* The last word of a renderer that fails is the failure.
LEMMA StatusFails ==
  ASSUME TypeOK, StatusInv, NEW g \in Generations, FailsLater(g)
  PROVE  StatusInv'
<1> DEFINE last == Len(queue) + 1
<1>1. g = newest /\ newest' = newest /\ newest \in DOMAIN renderers' /\ renderers'[newest].failed /\ ~renderers'[newest].ready
  BY DEF FailsLater, Rest
<1>2. queue' = Append(queue, Status(g, FALSE, TRUE))
  BY DEF FailsLater
<1>3. /\ Len(queue) \in Nat /\ DOMAIN queue = 1 .. Len(queue) /\ DOMAIN queue' = DOMAIN queue \cup {last}
      /\ queue'[last].type = "status" /\ queue'[last].generation = g
      /\ ~queue'[last].ready /\ queue'[last].error
  BY <1>2, Says
<1>4. Concerns(queue'[last], newest') /\ last \in DOMAIN queue'
  BY <1>1, <1>3 DEF Concerns
<1>5. ASSUME NEW n \in DOMAIN queue', LastWord(n)'
      PROVE  /\ queue'[n].ready <=> IsReady'
             /\ newest' \in DOMAIN renderers' => (queue'[n].error <=> renderers'[newest'].failed)
  <2>1. last <= n
    BY <1>4, <1>5 DEF LastWord
  <2>2. n = last
    BY <1>3, <2>1
  <2> QED BY <1>1, <1>3, <2>2 DEF IsReady
<1> QED BY <1>4, <1>5 DEF StatusInv

\* A deletion under way is no news to the player yet.
LEMMA StatusLeftover ==
  ASSUME TypeOK, StatusInv, NEW g \in Generations, Announces(g) \/ Yields(g)
  PROVE  StatusInv'
<1> DEFINE len == Len(queue)
<1>1. /\ UNCHANGED newest /\ SceneQuiet /\ DOMAIN renderers' = DOMAIN renderers
      /\ \A h \in DOMAIN renderers :
           renderers'[h].ready = renderers[h].ready /\ renderers'[h].failed = renderers[h].failed
  BY DEF Announces, Yields, Leaves, Leftover, Rest
<1>2. (IsReady' <=> IsReady) /\ (newest \in DOMAIN renderers => (renderers'[newest].failed <=> renderers[newest].failed))
  BY <1>1 DEF IsReady
<1>3. Agrees' <=> Agrees
  BY <1>1, <1>2 DEF Agrees, SceneQuiet
<1>4. /\ \A n \in DOMAIN queue : n \in DOMAIN queue' /\ queue'[n] = queue[n]
      /\ \A n \in DOMAIN queue' : Concerns(queue'[n], newest') => n \in DOMAIN queue
  <2>1. CASE Announces(g)
    <3>1. /\ len \in Nat /\ DOMAIN queue = 1 .. len /\ DOMAIN queue' = 1 .. len + 1
          /\ \A i \in DOMAIN queue : queue'[i] = queue[i]
          /\ queue'[len + 1].type = "retiring"
      BY <2>1, AnnouncesSays
    <3> HIDE DEF len
    <3> QED BY <3>1 DEF Concerns
  <2>2. CASE Yields(g)
    BY <2>2 DEF Yields
  <2> QED BY <2>1, <2>2
<1>5. ASSUME NEW n \in DOMAIN queue', LastWord(n)'
      PROVE  n \in DOMAIN queue /\ LastWord(n)
  <2>1. Concerns(queue'[n], newest') /\ \A j \in DOMAIN queue' : Concerns(queue'[j], newest') => j <= n
    BY <1>5 DEF LastWord
  <2> QED BY <1>1, <1>4, <2>1 DEF LastWord
<1>6. ASSUME NEW n \in DOMAIN queue', LastWord(n)'
      PROVE  /\ queue'[n].ready <=> IsReady'
             /\ newest' \in DOMAIN renderers' => (queue'[n].error <=> renderers'[newest'].failed)
  BY <1>1, <1>2, <1>4, <1>5, <1>6 DEF StatusInv
<1>7. ~shuttingDown' /\ (\A n \in DOMAIN queue' : ~Concerns(queue'[n], newest')) => Agrees'
  BY <1>1, <1>3, <1>4 DEF StatusInv, SceneQuiet
<1> QED BY <1>6, <1>7 DEF StatusInv

\* The last word of a ready renderer that is deleted is that it is not ready any more.
LEMMA StatusGone ==
  ASSUME TypeOK, StatusInv, NEW g \in Generations, Gone(g)
  PROVE  StatusInv'
<1> DEFINE len == Len(queue)
<1>1. /\ UNCHANGED newest /\ SceneQuiet /\ g \in DOMAIN renderers /\ DOMAIN renderers' = DOMAIN renderers \ {g}
      /\ \A h \in DOMAIN renderers \ {g} : renderers'[h] = renderers[h]
  BY DEF Gone, Leaves
<1>2. PICK k \in 0 .. 1 :
        /\ len \in Nat /\ DOMAIN queue = 1 .. len /\ DOMAIN queue' = 1 .. len + k
        /\ \A n \in DOMAIN queue : queue'[n] = queue[n]
        /\ renderers[g].ready <=> k = 1
        /\ k = 1 => /\ queue'[len + 1].type = "status" /\ queue'[len + 1].generation = g
                    /\ ~queue'[len + 1].ready
  BY GoneSays
<1> HIDE DEF len
<1>3. \A n \in DOMAIN queue' : Concerns(queue'[n], newest') =>
        \/ n \in DOMAIN queue /\ Concerns(queue[n], newest)
        \/ n = len + 1 /\ k = 1 /\ g = newest
  BY <1>1, <1>2 DEF Concerns
<1>4. \A n \in DOMAIN queue : n \in DOMAIN queue' /\ (Concerns(queue'[n], newest') <=> Concerns(queue[n], newest))
  BY <1>1, <1>2 DEF Concerns
<1>5. CASE k = 1 /\ g = newest
  <2>1. len + 1 \in DOMAIN queue' /\ Concerns(queue'[len + 1], newest')
    BY <1>1, <1>2, <1>5 DEF Concerns
  <2>2. ASSUME NEW n \in DOMAIN queue', LastWord(n)'
        PROVE  n = len + 1
    <3>1. len + 1 <= n
      BY <2>1, <2>2 DEF LastWord
    <3> QED BY <1>2, <3>1
  <2>3. newest' \notin DOMAIN renderers' /\ ~IsReady'
    BY <1>1, <1>5 DEF IsReady
  <2> QED BY <1>2, <1>5, <2>1, <2>2, <2>3 DEF StatusInv
<1>6. CASE ~(k = 1 /\ g = newest)
  <2>1. \A n \in DOMAIN queue' : Concerns(queue'[n], newest') => n \in DOMAIN queue /\ Concerns(queue[n], newest)
    BY <1>3, <1>6
  <2>2. (IsReady' <=> IsReady)
    <3>1. CASE g = newest
      BY <1>1, <1>2, <1>6, <3>1 DEF IsReady
    <3>2. CASE g # newest
      BY <1>1, <3>2 DEF IsReady
    <3> QED BY <3>1, <3>2
  <2>3. newest' \in DOMAIN renderers' =>
          newest \in DOMAIN renderers /\ renderers'[newest'].failed = renderers[newest].failed
    BY <1>1
  <2>4. ASSUME NEW n \in DOMAIN queue', LastWord(n)'
        PROVE  n \in DOMAIN queue /\ LastWord(n) /\ queue'[n] = queue[n]
    <3>1. Concerns(queue'[n], newest') /\ \A j \in DOMAIN queue' : Concerns(queue'[j], newest') => j <= n
      BY <2>4 DEF LastWord
    <3> QED BY <1>2, <1>4, <2>1, <3>1 DEF LastWord
  <2>5. ASSUME NEW n \in DOMAIN queue', LastWord(n)'
        PROVE  /\ queue'[n].ready <=> IsReady'
               /\ newest' \in DOMAIN renderers' => (queue'[n].error <=> renderers'[newest'].failed)
    BY <2>2, <2>3, <2>4, <2>5 DEF StatusInv
  <2>6. Agrees => Agrees'
    BY <1>1, <2>2, <2>3 DEF Agrees, SceneQuiet
  <2>7. ~shuttingDown' /\ (\A n \in DOMAIN queue' : ~Concerns(queue'[n], newest')) => Agrees'
    BY <1>1, <1>4, <2>6 DEF StatusInv, SceneQuiet
  <2> QED BY <2>5, <2>7 DEF StatusInv
<1> QED BY <1>5, <1>6

\* The player hears the last word, or has heard it before: it is neither
\* taken for a repeated failure nor for the status of an older generation.
LEMMA StatusReceive ==
  ASSUME TypeOK, FailureInv, StatusInv, Receive
  PROVE  StatusInv'
<1>1. /\ Len(queue) \in Nat \ {0} /\ DOMAIN queue = 1 .. Len(queue) /\ DOMAIN queue' = 1 .. Len(queue) - 1
      /\ \A n \in DOMAIN queue' : n + 1 \in DOMAIN queue /\ queue'[n] = queue[n + 1]
      /\ Head(queue) = queue[1] /\ 1 \in DOMAIN queue
      /\ UNCHANGED <<renderers, newest, shuttingDown, coreAvailable>>
  BY TailSays DEF Receive, sceneVars
<1>2. (IsReady' <=> IsReady)
  BY <1>1 DEF IsReady
<1>3. ASSUME NEW n \in DOMAIN queue', LastWord(n)'
      PROVE  /\ queue'[n].ready <=> IsReady'
             /\ newest' \in DOMAIN renderers' => (queue'[n].error <=> renderers'[newest'].failed)
  <2>1. Concerns(queue'[n], newest') /\ \A j \in DOMAIN queue' : Concerns(queue'[j], newest') => j <= n
    BY <1>3 DEF LastWord
  <2>2. n \in Nat /\ n + 1 \in DOMAIN queue /\ queue'[n] = queue[n + 1] /\ Concerns(queue[n + 1], newest)
    BY <1>1, <2>1
  <2>3. ASSUME NEW j \in DOMAIN queue, Concerns(queue[j], newest) PROVE j <= n + 1
    <3>1. CASE j = 1
      BY <1>1, <2>2, <3>1
    <3>2. CASE j # 1
      <4>1. j - 1 \in DOMAIN queue' /\ j - 1 + 1 = j
        BY <1>1, <3>2
      <4>2. queue'[j - 1] = queue[j]
        BY <1>1, <4>1
      <4>3. j - 1 <= n
        BY <1>1, <2>1, <2>3, <4>1, <4>2
      <4> QED BY <1>1, <2>2, <4>3
    <3> QED BY <3>1, <3>2
  <2>4. LastWord(n + 1)
    BY <2>2, <2>3 DEF LastWord
  <2> QED BY <1>1, <1>2, <2>2, <2>4 DEF StatusInv
<1>4. ASSUME ~shuttingDown', \A n \in DOMAIN queue' : ~Concerns(queue'[n], newest')
      PROVE  Agrees'
  <2>1. \A j \in DOMAIN queue : j # 1 => ~Concerns(queue[j], newest)
    <3>1. ASSUME NEW j \in DOMAIN queue, j # 1 PROVE ~Concerns(queue[j], newest)
      <4>1. j - 1 \in DOMAIN queue' /\ j - 1 + 1 = j
        BY <1>1, <3>1
      <4> QED BY <1>1, <1>4, <4>1
    <3> QED BY <3>1
  <2>2. CASE Concerns(queue[1], newest)
    <3>1. LastWord(1)
      BY <1>1, <2>1, <2>2 DEF LastWord
    <3>2. /\ queue[1].ready <=> IsReady
          /\ newest \in DOMAIN renderers => (queue[1].error <=> renderers[newest].failed)
      BY <1>1, <3>1 DEF StatusInv
    <3>3. ~shuttingDown /\ ~(queue[1].error /\ failedGeneration = queue[1].generation)
      BY <1>1, <1>4, <2>2 DEF FailureInv, SaysFailed, Concerns
    <3>4. /\ renderError' = queue[1].error
          /\ rendererInitialized' = (queue[1].ready /\ (rendererInitialized \/ coreAvailable))
      BY <1>1, <2>2, <3>3 DEF Receive, RendererStatus, IsCurrentStatus, Concerns
    <3> QED BY <1>1, <1>2, <3>2, <3>4 DEF Agrees
  <2>3. CASE ~Concerns(queue[1], newest)
    <3>1. UNCHANGED <<rendererInitialized, renderError>>
      BY <1>1, <2>3 DEF Receive, RendererStatus, IsCurrentStatus, Concerns
    <3>2. Agrees
      BY <1>1, <1>4, <2>1, <2>3 DEF StatusInv
    <3> QED BY <1>1, <1>2, <3>1, <3>2 DEF Agrees
  <2> QED BY <2>2, <2>3
<1> QED BY <1>3, <1>4 DEF StatusInv

\* No other step makes the player think otherwise of the newest renderer.
LEMMA StatusOther ==
  ASSUME TypeOK, RendererInv, StatusInv, Crash \/ InspectWindow \/ CoreUnavailable \/ Shutdown \/ Moved
  PROVE  StatusInv'
<1>1. UNCHANGED <<newest, renderers, queue>>
  BY DEF Crash, SceneQuiet, InspectWindow, CoreUnavailable, Shutdown, Moved, Move, sceneVars, playerVars
<1>2. (IsReady' <=> IsReady) /\ \A n : LastWord(n)' <=> LastWord(n)
  BY <1>1 DEF IsReady, LastWord
<1>3. \A n \in DOMAIN queue' : LastWord(n)' =>
        /\ queue'[n].ready <=> IsReady'
        /\ newest' \in DOMAIN renderers' => (queue'[n].error <=> renderers'[newest'].failed)
  BY <1>1, <1>2 DEF StatusInv
<1>4. ASSUME ~shuttingDown', \A n \in DOMAIN queue' : ~Concerns(queue'[n], newest')
      PROVE  Agrees'
  <2>1. CASE Crash \/ Moved
    <3>1. UNCHANGED <<rendererInitialized, renderError, coreAvailable, shuttingDown>>
      BY <2>1 DEF Crash, SceneQuiet, Moved, Move, playerVars
    <3> QED BY <1>1, <1>2, <1>4, <3>1 DEF StatusInv, Agrees
  <2>2. CASE CoreUnavailable
    <3>1. UNCHANGED <<rendererInitialized, renderError, shuttingDown>> /\ ~coreAvailable'
      BY <2>2 DEF CoreUnavailable
    <3> QED BY <1>1, <1>2, <1>4, <3>1 DEF StatusInv, Agrees
  <2>3. CASE Shutdown
    BY <1>4, <2>3 DEF Shutdown
  <2>4. CASE InspectWindow
    <3>1. newest' = newest /\ newest = 0 /\ DOMAIN renderers' = {} /\ ~rendererInitialized'
      BY <2>4, InspectFacts
    <3> QED BY <3>1 DEF Agrees, IsReady
  <2> QED BY <2>1, <2>2, <2>3, <2>4
<1> QED BY <1>3, <1>4 DEF StatusInv
-----------------------------------------------------------------------------
(* The theorems.                                                             *)

\* Every step keeps the invariant, one kind of step at a time.
LEMMA NextIInv == IInv /\ [Next]_vars => IInv'
<1> SUFFICES ASSUME IInv, [Next]_vars PROVE IInv'
  OBVIOUS
<1>1. TypeOK /\ RendererInv /\ SlotInv /\ OrderInv /\ FailureInv /\ StatusInv
  BY DEF IInv
<1>2. CASE \E g \in Generations : NewFails(g) \/ NewReady(g)
  <2>1. PICK g \in Generations : NewFails(g) \/ NewReady(g)
    BY <1>2
  <2>2. TypeOK'
    BY <1>1, <2>1, NewTypes
  <2>3. RendererInv' /\ SlotInv'
    BY <1>1, <2>1, NewRenderers
  <2>4. OrderInv'
    BY <1>1, <2>1, OrderNew
  <2>5. FailureInv'
    BY <1>1, <2>1, FailureNew
  <2>6. StatusInv'
    BY <1>1, <2>1, StatusNew
  <2> QED BY <2>2, <2>3, <2>4, <2>5, <2>6 DEF IInv
<1>3. CASE \E g \in Generations : Kept(g) \/ FailsLater(g)
  <2>1. PICK g \in Generations : Kept(g) \/ FailsLater(g)
    BY <1>3
  <2>2. TypeOK'
    BY <1>1, <2>1, KeptTypes
  <2>3. RendererInv' /\ SlotInv'
    BY <1>1, <2>1, KeptRenderers
  <2>4. OrderInv'
    BY <1>1, <2>1, OrderKept
  <2>5. FailureInv'
    BY <1>1, <2>1, FailureKept
  <2>6. StatusInv'
    BY <1>1, <2>1, StatusKept, StatusFails
  <2> QED BY <2>2, <2>3, <2>4, <2>5, <2>6 DEF IInv
<1>4. CASE \E g \in Generations : Announces(g) \/ Yields(g) \/ Gone(g)
  <2>1. PICK g \in Generations : Announces(g) \/ Yields(g) \/ Gone(g)
    BY <1>4
  <2>2. TypeOK'
    BY <1>1, <2>1, LeftoverTypes, GoneTypes
  <2>3. RendererInv' /\ SlotInv'
    BY <1>1, <2>1, LeftoverRenderers, GoneRenderers
  <2>4. OrderInv'
    BY <1>1, <2>1, OrderAnnounces, OrderGone
  <2>5. FailureInv'
    BY <1>1, <2>1, FailureGone
  <2>6. StatusInv'
    BY <1>1, <2>1, StatusLeftover, StatusGone
  <2> QED BY <2>2, <2>3, <2>4, <2>5, <2>6 DEF IInv
<1>5. CASE Receive
  <2>1. TypeOK'
    BY <1>1, <1>5, ReceiveTypes
  <2>2. RendererInv' /\ SlotInv'
    BY <1>1, <1>5, OtherRenderers
  <2>3. OrderInv' /\ FailureInv' /\ StatusInv'
    BY <1>1, <1>5, OrderReceive, FailureReceive, StatusReceive
  <2> QED BY <2>1, <2>2, <2>3 DEF IInv
<1>6. CASE Crash \/ InspectWindow \/ CoreUnavailable \/ Shutdown \/ Moved
  <2>1. TypeOK'
    BY <1>1, <1>6, InspectTypes, OtherTypes
  <2>2. RendererInv' /\ SlotInv'
    BY <1>1, <1>6, OtherRenderers
  <2>3. OrderInv' /\ FailureInv' /\ StatusInv'
    BY <1>1, <1>6, OtherQueue, StatusOther
  <2> QED BY <2>1, <2>2, <2>3 DEF IInv
<1>7. CASE Next
  <2>1. Kind
    BY <1>1, <1>7, StepKind
  <2> QED BY <1>2, <1>3, <1>4, <1>5, <1>6, <2>1 DEF Kind
<1>8. CASE UNCHANGED vars
  <2>1. UNCHANGED <<newest, rendererInitialized, renderError, failedGeneration, hasCore, coreAvailable,
                    shuttingDown, told, queue, opengl, window, current, renderers, owner, crashed>>
    BY <1>8 DEF vars, playerVars, sceneVars
  <2>2. TypeOK'
    BY <1>1, <2>1 DEF TypeOK
  <2>3. RendererInv' /\ SlotInv' /\ OrderInv' /\ FailureInv'
    BY <1>1, <2>1 DEF RendererInv, SlotInv, OrderInv, FailureInv, RetiringBeforeReady
  <2>4. StatusInv'
    BY <1>1, <2>1 DEF StatusInv, LastWord, Agrees, IsReady
  <2> QED BY <2>2, <2>3, <2>4 DEF IInv
<1> QED BY <1>7, <1>8

\* The invariant holds in every reachable state.
THEOREM Invariance == Spec => []IInv
BY InitIInv, NextIInv, PTL DEF Spec

\* The variables keep their types, for every number of windows and generations.
THEOREM TypeCorrect == Spec => []TypeOK
<1>1. IInv => TypeOK
  BY DEF IInv
<1> QED BY Invariance, <1>1, PTL

\* A set with one element at most.
LEMMA AtMostOne ==
  ASSUME NEW S, \A x, y \in S : x = y
  PROVE  Cardinality(S) <= 1
<1>1. CASE S = {}
  BY <1>1, FS_EmptySet
<1>2. CASE S # {}
  <2>1. PICK x \in S : TRUE
    BY <1>2
  <2>2. S = {x}
    BY <2>1
  <2> QED BY <2>2, FS_Singleton
<1> QED BY <1>1, <1>2

\* A core has one render context at most, and the slot is held by exactly the
\* renderer that believes to own it: claimRenderer() and releaseRenderer() neither
\* lose the slot nor give it away twice, whatever order windows delete renderers in.
THEOREM SlotIsExclusive == Spec => []OneContextPerCore
<1>1. IInv => OneContextPerCore
  <2> SUFFICES ASSUME IInv PROVE OneContextPerCore
    OBVIOUS
  <2>1. SlotInv
    BY DEF IInv
  <2>2. \A g, h \in {g \in DOMAIN renderers : renderers[g].context} : g = h
    BY <2>1 DEF SlotInv
  <2>3. Cardinality({g \in DOMAIN renderers : renderers[g].context}) <= 1
    BY <2>2, AtMostOne
  <2> QED BY <2>1, <2>3 DEF SlotInv, OneContextPerCore
<1> QED BY Invariance, <1>1, PTL

\* Once the queue is empty, rendererReady and renderError tell of the newest renderer:
\* the filter of rendererStatus() on generations and repeated failures drops no
\* status that matters and lets no outdated one through.
THEOREM PlayerAgrees == Spec => []ReadinessSettles
<1>1. IInv => ReadinessSettles
  <2> SUFFICES ASSUME IInv, Settled PROVE Agrees
    BY DEF ReadinessSettles, Agrees, IsReady, Newest
  <2>1. ~shuttingDown /\ DOMAIN queue = {}
    BY DEF Settled
  <2> QED BY <2>1 DEF IInv, StatusInv
<1> QED BY Invariance, <1>1, PTL

\* A retirement is in the queue before any newer renderer says that it is ready.
THEOREM WorkerHearsInOrder == Spec => []RetiringBeforeReady
<1>1. IInv => RetiringBeforeReady
  BY DEF IInv, OrderInv
<1> QED BY Invariance, <1>1, PTL

=============================================================================
