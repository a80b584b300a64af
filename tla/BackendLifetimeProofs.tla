-------------------------- MODULE BackendLifetimeProofs --------------------------
(***************************************************************************)
(* Machine-checked proofs about BackendLifetime, for every set of players, *)
(* number of slots of leases, and length of the queues.                    *)
(***************************************************************************)
EXTENDS BackendLifetime, WellFoundedInduction, TLAPS

-----------------------------------------------------------------------------
(* What a queue of calls holds after one is posted or taken.                 *)

\* A bounded sequence is a sequence within its bound.
LEMMA BoundedSeqIsSeq ==
  ASSUME NEW S, NEW n \in Nat, NEW s
  PROVE  s \in BoundedSeq(S, n) <=> s \in Seq(S) /\ Len(s) <= n
BY DEF BoundedSeq, SeqOf

\* Posting a call adds it, and keeps it single if it was not there.
LEMMA AppendCalls ==
  ASSUME NEW S, NEW s \in Seq(S), NEW x \in S, NEW w
  PROVE  /\ Append(s, x) \in Seq(S) /\ Len(Append(s, x)) = Len(s) + 1
         /\ w \in ToSet(Append(s, x)) <=> w \in ToSet(s) \/ w = x
         /\ Once(s, w) /\ (w = x => w \notin ToSet(s)) => Once(Append(s, x), w)
<1> DEFINE t == Append(s, x)
<1>1. /\ t \in Seq(S) /\ Len(t) = Len(s) + 1 /\ Len(s) \in Nat /\ t[Len(s) + 1] = x
      /\ \A i \in 1 .. Len(s) : t[i] = s[i]
  OBVIOUS
<1>2. DOMAIN s = 1 .. Len(s) /\ DOMAIN t = 1 .. Len(s) + 1
  BY <1>1
<1> HIDE DEF t
<1>3. w \in ToSet(t) <=> w \in ToSet(s) \/ w = x
  BY <1>1, <1>2 DEF ToSet
<1>4. ASSUME Once(s, w), w = x => w \notin ToSet(s) PROVE Once(t, w)
  BY <1>1, <1>2, <1>4 DEF Once, ToSet
<1> QED BY <1>1, <1>3, <1>4 DEF t

\* Taking the first call removes that one.
LEMMA TailCalls ==
  ASSUME NEW S, NEW s \in Seq(S), s # <<>>, NEW w
  PROVE  /\ Tail(s) \in Seq(S) /\ Len(Tail(s)) = Len(s) - 1 /\ Head(s) \in ToSet(s)
         /\ w \in ToSet(Tail(s)) => w \in ToSet(s)
         /\ w \in ToSet(s) => w \in ToSet(Tail(s)) \/ w = Head(s)
         /\ Once(s, w) => Once(Tail(s), w)
         /\ Once(s, w) /\ w = Head(s) => w \notin ToSet(Tail(s))
<1> DEFINE t == Tail(s)
<1>1. /\ t \in Seq(S) /\ Len(t) = Len(s) - 1 /\ Len(s) \in Nat /\ Len(s) >= 1
      /\ \A i \in 1 .. Len(s) - 1 : t[i] = s[i + 1]
      /\ Head(s) = s[1]
  OBVIOUS
<1>2. DOMAIN s = 1 .. Len(s) /\ DOMAIN t = 1 .. Len(s) - 1
  BY <1>1
<1> HIDE DEF t
<1>3. w \in ToSet(t) => \E i \in 2 .. Len(s) : s[i] = w
  BY <1>1, <1>2 DEF ToSet
<1>4. ASSUME NEW i \in DOMAIN s, s[i] = w PROVE w \in ToSet(t) \/ w = Head(s)
  <2>1. CASE i = 1 BY <2>1, <1>1, <1>4
  <2>2. CASE i # 1
    <3>1. i - 1 \in DOMAIN t /\ t[i - 1] = w
      BY <2>2, <1>1, <1>2, <1>4
    <3> QED BY <3>1 DEF ToSet
  <2> QED BY <2>1, <2>2
<1>5. ASSUME Once(s, w) PROVE Once(t, w)
  BY <1>1, <1>2, <1>5 DEF Once
<1>6. ASSUME Once(s, w), w = Head(s) PROVE w \notin ToSet(t)
  BY <1>1, <1>2, <1>3, <1>6 DEF Once
<1>7. Head(s) \in ToSet(s) /\ (w \in ToSet(t) => w \in ToSet(s))
  BY <1>1, <1>2, <1>3 DEF ToSet
<1> QED BY <1>1, <1>4, <1>5, <1>6, <1>7 DEF t, ToSet

-----------------------------------------------------------------------------
(* The inductive invariant.                                                  *)

Posted(p, what) == what \in ToSet(inbox[p])

\* What a player's controller is when its thread has never run: nothing was posted
\* to it, and libmpv does not know of it.
Unused(p) ==
  /\ step[p] = "idle" /\ ~closing[p] /\ ~available[p]
  /\ wakeup[p] = NoWakeup /\ callback[p] = "none"

\* A facade has a control block from its construction on, and a thread once it is
\* initialized, which waits for the worker.
FacadeInv(p) ==
  /\ facade[p] \in {"none", "refused"} => slot[p] = 0 /\ holders[p] = {} /\ controller[p] = "none"
  /\ facade[p] \in {"none", "refused", "constructed"} => thread[p] = "none"
  /\ facade[p] = "constructed" => controller[p] = "alive" /\ {"control", "controller"} \subseteq holders[p]
  /\ facade[p] = "initializing" => inbox[p] = <<"initialize">> /\ thread[p] = "running" /\ Unused(p)
  /\ facade[p] = "open" => thread[p] = "running"
  /\ thread[p] = "none" => inbox[p] = <<>> /\ Unused(p)

\* A lease keeps its slot while someone holds it; the thread holds it through the
\* control block registered under that slot, and that is so until it is reaped.
LeaseInv(p) ==
  /\ holders[p] # {} => slot[p] # 0
  /\ \A s \in 1 .. Slots : registry[s] = p => slot[p] = s /\ thread[p] # "none" /\ "control" \in holders[p]
  /\ Alive(p) \/ p \in notices => "control" \in holders[p] /\ registry[slot[p]] = p
  /\ p \in notices => thread[p] \in {"finishing", "ended"}
  /\ controller[p] = "alive" => "controller" \in holders[p]
  /\ thread[p] \in {"running", "quitting"} => controller[p] = "alive"
SlotInv == \A p, q \in Players : slot[p] = slot[q] /\ slot[p] # 0 => p = q

\* What is posted to a controller: one call of initialize() alone, one of
\* shutdown(), and one drain, which the token remembers.
InboxInv(p) ==
  /\ Posted(p, "initialize") => facade[p] = "initializing"
  /\ Posted(p, "shutdown") \/ closing[p] => facade[p] = "closed"
  /\ ~(Posted(p, "shutdown") /\ closing[p])
  /\ Once(inbox[p], "shutdown") /\ Once(inbox[p], "drain")
  /\ ~(Posted(p, "drain") /\ callback[p] = "post")
  /\ (Posted(p, "drain") \/ callback[p] = "post") /\ wakeup[p].registered => wakeup[p].pending
  /\ facade[p] # "initializing" =>
       Len(inbox[p]) <= MaxOps + (IF Posted(p, "drain") THEN 1 ELSE 0)
                               + (IF Posted(p, "shutdown") THEN 1 ELSE 0)

\* The core gives callbacks while the token is registered, which it is while the
\* core is available; the controller outlives its token.
TokenInv(p) ==
  /\ callback[p] # "none" => wakeup[p].registered
  /\ wakeup[p].registered => wakeup[p].live
  /\ wakeup[p].live => thread[p] = "running"
  /\ step[p] = "drain" => available[p]
  /\ step[p] = "unregister" => ~available[p]
  /\ available[p] => wakeup[p].registered /\ ~closing[p]
  /\ step[p] # "idle" => thread[p] = "running"
  /\ thread[p] = "quitting" => closing[p]

IInv ==
  /\ TypeOK /\ SlotInv
  /\ \A p \in Players : FacadeInv(p) /\ LeaseInv(p) /\ InboxInv(p) /\ TokenInv(p)

Calls == {"initialize", "operation", "drain", "shutdown"}

\* What the types say of one player.
LEMMA Types == ASSUME TypeOK PROVE
  /\ DOMAIN facade = Players /\ DOMAIN success = Players /\ DOMAIN slot = Players
  /\ DOMAIN holders = Players /\ DOMAIN thread = Players /\ DOMAIN controller = Players
  /\ DOMAIN inbox = Players /\ DOMAIN step = Players /\ DOMAIN closing = Players
  /\ DOMAIN available = Players /\ DOMAIN wakeup = Players /\ DOMAIN callback = Players
  /\ DOMAIN events = Players /\ DOMAIN need = Players /\ DOMAIN registry = 1 .. Slots
BY DEF TypeOK
\* The inbox of a worker is a bounded sequence of calls.
LEMMA Inboxes == ASSUME TypeOK, NEW p \in Players PROVE
  inbox[p] \in Seq(Calls) /\ Len(inbox[p]) \in Nat /\ Len(inbox[p]) <= MaxOps + 2
<1>1. inbox[p] \in BoundedSeq(Calls, MaxOps + 2)
  BY DEF TypeOK, Calls
<1>2. MaxOps + 2 \in Nat
  BY ConstantsAssumption
<1>3. inbox[p] \in Seq(Calls) /\ Len(inbox[p]) <= MaxOps + 2
  BY <1>1, <1>2, BoundedSeqIsSeq
<1> QED BY <1>3
\* The state of a wakeup token is its three flags.
LEMMA Tokens == ASSUME TypeOK, NEW p \in Players PROVE
  /\ wakeup[p] = [live |-> wakeup[p].live, registered |-> wakeup[p].registered, pending |-> wakeup[p].pending]
  /\ DOMAIN wakeup[p] = {"live", "registered", "pending"}
<1>1. wakeup[p] \in [live : BOOLEAN, registered : BOOLEAN, pending : BOOLEAN]
  BY DEF TypeOK
<1> QED BY <1>1

\* What is left of a queue when a call of it is taken.
LEMMA Taken ==
  ASSUME TypeOK, NEW p \in Players, NEW what, Takes(p, what), NEW w
  PROVE  /\ Posted(p, what) /\ Len(inbox'[p]) = Len(inbox[p]) - 1
         /\ Posted(p, w)' => Posted(p, w)
         /\ Posted(p, w) => Posted(p, w)' \/ w = what
         /\ Once(inbox[p], w) => Once(inbox'[p], w)
         /\ Once(inbox[p], w) /\ w = what => ~Posted(p, w)'
<1>1. /\ inbox[p] # <<>> /\ Head(inbox[p]) = what /\ inbox'[p] = Tail(inbox[p]) /\ inbox[p] \in Seq(Calls)
  BY Types, Inboxes DEF Takes
<1>2. /\ Len(Tail(inbox[p])) = Len(inbox[p]) - 1 /\ Head(inbox[p]) \in ToSet(inbox[p])
      /\ w \in ToSet(Tail(inbox[p])) => w \in ToSet(inbox[p])
      /\ w \in ToSet(inbox[p]) => w \in ToSet(Tail(inbox[p])) \/ w = Head(inbox[p])
      /\ Once(inbox[p], w) => Once(Tail(inbox[p]), w)
      /\ Once(inbox[p], w) /\ w = Head(inbox[p]) => w \notin ToSet(Tail(inbox[p]))
  BY <1>1, TailCalls
<1> QED BY <1>1, <1>2 DEF Posted

\* A worker takes only a call that was posted to it.
LEMMA TakesPosted == ASSUME TypeOK, NEW p \in Players, NEW what, Takes(p, what) PROVE Posted(p, what)
BY Taken

\* What a queue holds when a call is posted to it.
LEMMA Added ==
  ASSUME TypeOK, NEW p \in Players, NEW what \in Calls, inbox' = [inbox EXCEPT ![p] = Append(@, what)], NEW w
  PROVE  /\ Len(inbox'[p]) = Len(inbox[p]) + 1
         /\ Posted(p, w)' <=> Posted(p, w) \/ w = what
         /\ Once(inbox[p], w) /\ (w = what => ~Posted(p, w)) => Once(inbox'[p], w)
<1>1. inbox'[p] = Append(inbox[p], what) /\ inbox[p] \in Seq(Calls)
  BY Types, Inboxes
<1>2. /\ Len(Append(inbox[p], what)) = Len(inbox[p]) + 1
      /\ w \in ToSet(Append(inbox[p], what)) <=> w \in ToSet(inbox[p]) \/ w = what
      /\ Once(inbox[p], w) /\ (w = what => w \notin ToSet(inbox[p])) => Once(Append(inbox[p], what), w)
  BY <1>1, AppendCalls
<1> QED BY <1>1, <1>2 DEF Posted


-----------------------------------------------------------------------------
(* Every step keeps it.                                                      *)

\* MpvBackendWorker() takes the lowest slot that is free.
LEMMA LowestFree == ASSUME FreeSlots # {} PROVE
  (CHOOSE s \in FreeSlots : \A t \in FreeSlots : s <= t) \in FreeSlots
<1>1. FreeSlots \in SUBSET Nat
  BY ConstantsAssumption DEF FreeSlots
<1>2. \E s \in FreeSlots : \A t \in FreeSlots : s <= t
  <2>1. \E s \in FreeSlots : \A t \in FreeSlots : ~(<<t, s>> \in OpToRel(<, Nat))
    BY <1>1, NatLessThanWellFounded, WFMin
  <2>2. \A s, t \in Nat : ~(<<t, s>> \in OpToRel(<, Nat)) => s <= t
    BY DEF OpToRel
  <2> QED BY <1>1, <2>1, <2>2
<1> QED BY <1>2

\* A step of one player leaves the others alone, but for the registry.
Step(p) ==
  \/ Construct(p) \/ Initialize(p) \/ Post(p) \/ Shutdown(p) \/ Reap(p)
  \/ LeasesElsewhere(p) \/ FreeSlot(p)
  \/ WorkerStep(p) \/ End(p) \/ EventArrives(p) \/ Callback(p)
View(p) ==
  <<facade[p], success[p], slot[p], holders[p], thread[p], controller[p], inbox[p], step[p], closing[p],
    available[p], wakeup[p], callback[p], events[p], need[p], p \in notices>>

\* A step of one player leaves alone everything of another.
LEMMA Others == ASSUME TypeOK, NEW p \in Players, NEW q \in Players, p # q, Step(p) PROVE View(q)' = View(q)
<1> USE DEF View, guiVars, leaseVars, workerVars, nativeVars
<1>1. CASE Construct(p) BY <1>1, Types DEF Construct
<1>2. CASE Initialize(p) BY <1>2, Types DEF Initialize, Discard
<1>3. CASE Post(p) BY <1>3, Types DEF Post
<1>4. CASE Shutdown(p) BY <1>4, Types DEF Shutdown, Discard, ShutdownEffect
<1>5. CASE Reap(p) BY <1>5, Types DEF Reap, Reaped
<1>6. CASE LeasesElsewhere(p) BY <1>6, Types DEF LeasesElsewhere
<1>7. CASE FreeSlot(p) BY <1>7, Types DEF FreeSlot
<1>8. CASE InitializeController(p) BY <1>8, Types DEF InitializeController, Takes
<1>9. CASE RunOperation(p) BY <1>9, Types DEF RunOperation, Takes
<1>10. CASE BeginDrain(p) BY <1>10, Types DEF BeginDrain, Takes, ClearsPending
<1>11. CASE DrainTakes(p) BY <1>11, Types DEF DrainTakes
<1>12. CASE DrainEnds(p) BY <1>12, Types DEF DrainEnds
<1>13. CASE ShutdownController(p) BY <1>13, Types DEF ShutdownController, Takes
<1>14. CASE UnregisterWakeup(p) BY <1>14, Types DEF UnregisterWakeup, Barrier
<1>15. CASE Finish(p) BY <1>15, Types DEF Finish
<1>16. CASE End(p) BY <1>16, Types DEF End
<1>17. CASE EventArrives(p) BY <1>17, Types DEF EventArrives
<1>18. CASE CallbackExchange(p) BY <1>18, Types DEF CallbackExchange
<1>19. CASE CallbackPost(p) BY <1>19, Types DEF CallbackPost
<1> QED BY <1>1, <1>2, <1>3, <1>4, <1>5, <1>6, <1>7, <1>8, <1>9, <1>10, <1>11, <1>12,
  <1>13, <1>14, <1>15, <1>16, <1>17, <1>18, <1>19 DEF Step, WorkerStep, Callback

\* A facade posts to a thread that runs, and only initialize() to one that waits.
LEMMA FacadeInvStep ==
  ASSUME TypeOK, NEW p \in Players, NEW q \in Players, Step(p), FacadeInv(q), InboxInv(q),
    TokenInv(q)
  PROVE  FacadeInv(q)'
<1> USE DEF FacadeInv, Unused, NoWakeup
<1>1. CASE p # q
BY <1>1, Others DEF View
<1>2. CASE p = q
  <2> USE <1>2 DEF guiVars, leaseVars, workerVars, nativeVars
  <2>1. CASE Construct(q) BY <2>1, Types DEF Construct
  <2>2. CASE Initialize(q) BY <2>2, Types DEF Initialize, Discard
  <2>3. CASE Post(q) BY <2>3, Types DEF Post
  <2>4. CASE Shutdown(q) BY <2>4, Types DEF Shutdown, Discard, ShutdownEffect
  <2>5. CASE Reap(q) BY <2>5, Types DEF Reap, Reaped
  <2>6. CASE LeasesElsewhere(q) BY <2>6, Types DEF LeasesElsewhere
  <2>7. CASE FreeSlot(q) BY <2>7, Types DEF FreeSlot
  <2>8. CASE InitializeController(q)
    <3>1. facade[q] = "initializing" /\ facade'[q] = "open" /\ thread' = thread
      BY <2>8, Types, TakesPosted DEF InitializeController, InboxInv
    <3> QED BY <3>1
  <2>9. CASE RunOperation(q) BY <2>9, Types DEF RunOperation, Takes
  <2>10. CASE BeginDrain(q) BY <2>10, Types DEF BeginDrain, Takes, ClearsPending
  <2>11. CASE DrainTakes(q) BY <2>11, Types DEF DrainTakes
  <2>12. CASE DrainEnds(q) BY <2>12, Types DEF DrainEnds
  <2>13. CASE ShutdownController(q) BY <2>13, Types DEF ShutdownController, Takes
  <2>14. CASE UnregisterWakeup(q)
    BY <2>14, Types DEF UnregisterWakeup, Barrier, TokenInv, InboxInv
  <2>15. CASE Finish(q) BY <2>15, Types DEF Finish
  <2>16. CASE End(q) BY <2>16, Types DEF End
  <2>17. CASE EventArrives(q) BY <2>17, Tokens, Types DEF EventArrives, TokenInv
  <2>18. CASE CallbackExchange(q) BY <2>18, Types DEF CallbackExchange
  <2>19. CASE CallbackPost(q) BY <2>19, Types DEF CallbackPost
  <2> QED BY <2>1, <2>2, <2>3, <2>4, <2>5, <2>6, <2>7, <2>8, <2>9, <2>10, <2>11, <2>12,
    <2>13, <2>14, <2>15, <2>16, <2>17, <2>18, <2>19 DEF Step, WorkerStep, Callback
<1> QED BY <1>1, <1>2

\* The control block of a thread keeps its lease until the thread is reaped.
LEMMA LeaseInvStep ==
  ASSUME TypeOK, NEW p \in Players, NEW q \in Players, Step(p), SlotInv, FacadeInv(p),
    FacadeInv(q), LeaseInv(p), LeaseInv(q), TokenInv(q)
  PROVE  LeaseInv(q)'
<1> USE DEF LeaseInv, Alive
<1>1. CASE p # q
  <2>1. View(q)' = View(q)
    BY <1>1, Others
  <2>2. ASSUME NEW s \in 1 .. Slots PROVE registry'[s] = q <=> registry[s] = q
    <3>1. CASE registry' = [registry EXCEPT ![slot[p]] = p] /\ facade[p] = "constructed"
      <4>1. slot[p] # slot[q] \/ slot[p] = 0
        BY <1>1 DEF SlotInv
      <4> QED BY <3>1, <4>1, <1>1, Types DEF FacadeInv
    <3>2. CASE registry' = [registry EXCEPT ![slot[p]] = NoPlayer] /\ p \in notices
      <4>1. slot[p] # slot[q] \/ slot[p] = 0
        BY <1>1 DEF SlotInv
      <4> QED BY <3>2, <4>1, ConstantsAssumption, Types
    <3>3. CASE UNCHANGED registry
      BY <3>3
    <3> QED BY <3>1, <3>2, <3>3 DEF Step, WorkerStep, Callback, guiVars, workerVars, nativeVars, leaseVars,
        Construct, Initialize, Post, Shutdown, Reap, LeasesElsewhere, FreeSlot, InitializeController, RunOperation, BeginDrain,
        DrainTakes, DrainEnds, ShutdownController, UnregisterWakeup, Finish, End, EventArrives, CallbackExchange, CallbackPost, Discard, Reaped
  <2>3. Alive(q) \/ q \in notices => slot[q] \in 1 .. Slots
    BY DEF TypeOK
  <2> QED BY <2>1, <2>2, <2>3 DEF View
<1>2. CASE p = q
  <2> USE <1>2 DEF guiVars, leaseVars, workerVars, nativeVars
  <2>1. CASE Construct(q)
    <3>1. thread[q] = "none" /\ UNCHANGED <<thread, registry, notices>>
      BY <2>1 DEF Construct, FacadeInv
    <3>2. CASE FreeSlots = {}
      BY <2>1, <3>1, <3>2, Types DEF Construct
    <3>3. CASE FreeSlots # {}
      <4>1. slot'[q] \in FreeSlots /\ slot'[q] # 0
        <5>1. slot' = [slot EXCEPT ![q] = CHOOSE s \in FreeSlots : \A t \in FreeSlots : s <= t]
          BY <2>1, <3>3 DEF Construct
        <5>2. slot'[q] \in FreeSlots
          BY <5>1, <3>3, LowestFree, Types
        <5> QED BY <5>2, ConstantsAssumption DEF FreeSlots
      <4>2. /\ holders'[q] = {"control", "controller", "player"} /\ controller'[q] = "alive"
        BY <2>1, <3>3, Types DEF Construct
      <4> QED BY <3>1, <4>1, <4>2
    <3> QED BY <3>2, <3>3
  <2>2. CASE Initialize(q)
    <3>1. slot[q] \in 1 .. Slots /\ "control" \in holders[q] /\ thread[q] = "none"
      BY <2>2 DEF Initialize, FacadeInv, TypeOK
    <3>2. CASE Discard(q) /\ UNCHANGED <<slot, notices>>
      BY <3>1, <3>2, Types DEF Discard
    <3>3. CASE /\ thread' = [thread EXCEPT ![q] = "running"] /\ registry' = [registry EXCEPT ![slot[q]] = q]
               /\ UNCHANGED <<slot, notices, controller, holders>>
      BY <2>2, <3>1, <3>3, Types DEF Initialize, FacadeInv
    <3> QED BY <2>2, <3>2, <3>3 DEF Initialize
  <2>3. CASE Post(q) BY <2>3, Types DEF Post
  <2>4. CASE Shutdown(q)
    <3>1. CASE facade[q] = "constructed" /\ Discard(q) /\ UNCHANGED <<slot, notices>>
      BY <3>1, Types DEF Discard, FacadeInv
    <3>2. CASE UNCHANGED <<registry, thread, controller, holders, slot, notices>>
      BY <3>2
    <3> QED BY <2>4, <3>1, <3>2 DEF Shutdown
  <2>5. CASE Reap(q)
    <3>1. slot[q] \in 1 .. Slots /\ registry[slot[q]] = q /\ thread[q] = "ended"
      BY <2>5 DEF Reap, TypeOK
    <3> QED BY <2>5, <3>1, ConstantsAssumption, Types DEF Reap, Reaped
  <2>6. CASE LeasesElsewhere(q) BY <2>6, Types DEF LeasesElsewhere
  <2>7. CASE FreeSlot(q) BY <2>7, Types DEF FreeSlot
  <2>8. CASE InitializeController(q) BY <2>8, Types DEF InitializeController, Takes
  <2>9. CASE RunOperation(q) BY <2>9, Types DEF RunOperation, Takes
  <2>10. CASE BeginDrain(q) BY <2>10, Types DEF BeginDrain, Takes, ClearsPending
  <2>11. CASE DrainTakes(q) BY <2>11, Types DEF DrainTakes
  <2>12. CASE DrainEnds(q) BY <2>12, Types DEF DrainEnds
  <2>13. CASE ShutdownController(q) BY <2>13, Types DEF ShutdownController, Takes
  <2>14. CASE UnregisterWakeup(q) BY <2>14, Types DEF UnregisterWakeup, Barrier, TokenInv
  <2>15. CASE Finish(q) BY <2>15, Types DEF Finish
  <2>16. CASE End(q) BY <2>16, Types DEF End
  <2>17. CASE EventArrives(q) BY <2>17, Types DEF EventArrives
  <2>18. CASE CallbackExchange(q) BY <2>18, Types DEF CallbackExchange
  <2>19. CASE CallbackPost(q) BY <2>19, Types DEF CallbackPost
  <2> QED BY <2>1, <2>2, <2>3, <2>4, <2>5, <2>6, <2>7, <2>8, <2>9, <2>10, <2>11, <2>12,
    <2>13, <2>14, <2>15, <2>16, <2>17, <2>18, <2>19 DEF Step, WorkerStep, Callback
<1> QED BY <1>1, <1>2

\* A drain is posted only once the token has forgotten the one before.
LEMMA InboxInvStep ==
  ASSUME TypeOK, NEW p \in Players, NEW q \in Players, Step(p), InboxInv(q), FacadeInv(q),
    TokenInv(q)
  PROVE  InboxInv(q)'
<1> USE DEF InboxInv, NoWakeup
<1>1. CASE p # q
  BY <1>1, Others DEF View, Posted
<1>2. CASE p = q
  <2> USE <1>2 DEF guiVars, leaseVars, workerVars, nativeVars
  <2>1. CASE Construct(q) BY <2>1, Types DEF Construct, Posted, FacadeInv, TokenInv
  <2>2. CASE Initialize(q)
    <3>1. inbox[q] = <<>> /\ ~closing[q] /\ callback[q] = "none" /\ UNCHANGED <<closing, callback, wakeup>> /\ facade[q] = "constructed"
      BY <2>2 DEF Initialize, FacadeInv, Unused
    <3>2. CASE inbox'[q] = <<>>
      <4>1. \A w : ~Posted(q, w)' /\ Once(inbox'[q], w)
        BY <3>2 DEF Posted, Once, ToSet
      <4> QED BY <3>1, <3>2, <4>1, ConstantsAssumption
    <3>3. CASE inbox'[q] = <<"initialize">> /\ facade'[q] = "initializing"
      <4>1. \A w : (Posted(q, w)' <=> w = "initialize") /\ Once(inbox'[q], w)
        BY <3>3 DEF Posted, Once, ToSet
      <4> QED BY <3>1, <3>3, <4>1, ConstantsAssumption
    <3> QED BY <2>2, <3>1, <3>2, <3>3, Types DEF Initialize, Discard
  <2>3. CASE Post(q)
    <3>1. inbox' = [inbox EXCEPT ![q] = Append(inbox[q], "operation")] /\ Len(inbox[q]) < MaxOps /\ UNCHANGED <<facade, closing, callback, wakeup>> /\ facade[q] = "open"
      BY <2>3, Types DEF Post
    <3>2. /\ Len(inbox'[q]) = Len(inbox[q]) + 1
          /\ \A w \in Calls : /\ Posted(q, w)' <=> Posted(q, w) \/ w = "operation"
                              /\ Once(inbox[q], w) /\ (w = "operation" => ~Posted(q, w)) => Once(inbox'[q], w)
      BY <3>1, Added DEF Calls
    <3>3. MaxOps \in Nat /\ Len(inbox[q]) \in Nat
      BY Inboxes, ConstantsAssumption
    <3> QED BY <3>1, <3>2, <3>3 DEF FacadeInv, TokenInv, Calls
  <2>4. CASE Shutdown(q)
    <3>1. CASE facade[q] = "constructed"
      <4>1. inbox'[q] = <<>> /\ ~closing'[q] /\ callback'[q] = "none" /\ facade'[q] = "closed"
        BY <3>1, <2>4, Types DEF Shutdown, Discard, FacadeInv, Unused
      <4>2. \A w : ~Posted(q, w)' /\ Once(inbox'[q], w)
        BY <4>1 DEF Posted, Once, ToSet
      <4> QED BY <4>1, <4>2, ConstantsAssumption
    <3>2. CASE facade[q] = "open"
      <4>1. inbox' = [inbox EXCEPT ![q] = Append(inbox[q], "shutdown")] /\ UNCHANGED <<closing, callback, wakeup>> /\ facade'[q] = "closed" /\ facade[q] = "open"
        BY <3>2, <2>4, Types DEF Shutdown, ShutdownEffect
      <4>2. /\ Len(inbox'[q]) = Len(inbox[q]) + 1
            /\ \A w \in Calls : /\ Posted(q, w)' <=> Posted(q, w) \/ w = "shutdown"
                                /\ Once(inbox[q], w) /\ (w = "shutdown" => ~Posted(q, w)) => Once(inbox'[q], w)
        BY <4>1, Added DEF Calls
      <4>3. MaxOps \in Nat /\ Len(inbox[q]) \in Nat
        BY Inboxes, ConstantsAssumption
      <4> QED BY <4>1, <4>2, <4>3 DEF FacadeInv, TokenInv, Calls
    <3> QED BY <2>4, <3>1, <3>2 DEF Shutdown
  <2>5. CASE Reap(q) BY <2>5, Types DEF Reap, Reaped, Posted, FacadeInv, TokenInv
  <2>6. CASE LeasesElsewhere(q)
    BY <2>6, Types DEF LeasesElsewhere, Posted, FacadeInv, TokenInv
  <2>7. CASE FreeSlot(q) BY <2>7, Types DEF FreeSlot, Posted, FacadeInv, TokenInv
  <2>8. CASE InitializeController(q)
    <3>0. facade[q] = "initializing" /\ inbox[q] = <<"initialize">>
      BY <2>8, TakesPosted DEF InitializeController, FacadeInv
    <3>1. facade'[q] = "open" /\ inbox'[q] = <<>> /\ UNCHANGED closing /\ facade[q] = "initializing"
      BY <2>8, <3>0, Types DEF InitializeController, Takes
    <3>2. ~closing[q]
      BY <3>1
    <3>3. \A w : ~Posted(q, w)' /\ Once(inbox'[q], w)
      BY <3>1 DEF Posted, Once, ToSet
    <3>4. callback'[q] # "post"
      BY <2>8, <3>1, Types DEF InitializeController, FacadeInv, Unused
    <3> QED BY <3>1, <3>2, <3>3, <3>4, ConstantsAssumption
  <2>9. CASE RunOperation(q)
    <3>1. Takes(q, "operation") /\ UNCHANGED <<facade, closing, callback, wakeup>>
      BY <2>9, Types, Tokens DEF RunOperation, ClearsPending
    <3>2. /\ Len(inbox'[q]) = Len(inbox[q]) - 1 /\ Posted(q, "operation")
          /\ \A w \in Calls : /\ Posted(q, w)' => Posted(q, w)
                              /\ Posted(q, w) => Posted(q, w)' \/ w = "operation"
                              /\ Once(inbox[q], w) => Once(inbox'[q], w)
                              /\ Once(inbox[q], w) /\ w = "operation" => ~Posted(q, w)'
      BY <3>1, Taken
    <3>3. MaxOps \in Nat /\ Len(inbox[q]) \in Nat
      BY Inboxes, ConstantsAssumption
    <3> QED BY <3>1, <3>2, <3>3 DEF FacadeInv, TokenInv, Calls
  <2>10. CASE BeginDrain(q)
    <3>1. Takes(q, "drain") /\ UNCHANGED <<facade, closing, callback>> /\ wakeup'[q].registered = wakeup[q].registered
      BY <2>10, Types, Tokens DEF BeginDrain, ClearsPending
    <3>2. /\ Len(inbox'[q]) = Len(inbox[q]) - 1 /\ Posted(q, "drain")
          /\ \A w \in Calls : /\ Posted(q, w)' => Posted(q, w)
                              /\ Posted(q, w) => Posted(q, w)' \/ w = "drain"
                              /\ Once(inbox[q], w) => Once(inbox'[q], w)
                              /\ Once(inbox[q], w) /\ w = "drain" => ~Posted(q, w)'
      BY <3>1, Taken
    <3>3. MaxOps \in Nat /\ Len(inbox[q]) \in Nat
      BY Inboxes, ConstantsAssumption
    <3> QED BY <3>1, <3>2, <3>3 DEF FacadeInv, TokenInv, Calls
  <2>11. CASE DrainTakes(q) BY <2>11, Types DEF DrainTakes, Posted, FacadeInv, TokenInv
  <2>12. CASE DrainEnds(q) BY <2>12, Types DEF DrainEnds, Posted, FacadeInv, TokenInv
  <2>13. CASE ShutdownController(q)
    <3>1. Takes(q, "shutdown") /\ UNCHANGED <<facade, callback, wakeup>>
      BY <2>13, Types, Tokens DEF ShutdownController, ClearsPending
    <3>2. /\ Len(inbox'[q]) = Len(inbox[q]) - 1 /\ Posted(q, "shutdown")
          /\ \A w \in Calls : /\ Posted(q, w)' => Posted(q, w)
                              /\ Posted(q, w) => Posted(q, w)' \/ w = "shutdown"
                              /\ Once(inbox[q], w) => Once(inbox'[q], w)
                              /\ Once(inbox[q], w) /\ w = "shutdown" => ~Posted(q, w)'
      BY <3>1, Taken
    <3>3. MaxOps \in Nat /\ Len(inbox[q]) \in Nat
      BY Inboxes, ConstantsAssumption
    <3> QED BY <3>1, <3>2, <3>3 DEF FacadeInv, TokenInv, Calls
  <2>14. CASE UnregisterWakeup(q)
    <3>1. wakeup'[q] = NoWakeup /\ UNCHANGED <<facade, closing, callback, inbox>>
      BY <2>14, Types DEF UnregisterWakeup
    <3> QED BY <3>1 DEF Posted
  <2>15. CASE Finish(q)
    <3>1. inbox'[q] = <<>> /\ UNCHANGED <<facade, closing, callback, wakeup>>
      BY <2>15, Types DEF Finish
    <3>2. ~wakeup[q].registered
      BY <2>15 DEF Finish, TokenInv
    <3>3. \A w : ~Posted(q, w)' /\ Once(inbox'[q], w)
      BY <3>1 DEF Posted, Once, ToSet
    <3> QED BY <3>1, <3>2, <3>3, ConstantsAssumption
  <2>16. CASE End(q) BY <2>16, Types DEF End, Posted, FacadeInv, TokenInv
  <2>17. CASE EventArrives(q)
    BY <2>17, Types DEF EventArrives, Posted, FacadeInv, TokenInv
  <2>18. CASE CallbackExchange(q)
    BY <2>18, Types DEF CallbackExchange, Posted, FacadeInv, TokenInv
  <2>19. CASE CallbackPost(q)
    <3>1. CASE UNCHANGED inbox
      BY <3>1, <2>19, Types, Tokens DEF CallbackPost, Posted
    <3>2. CASE inbox' = [inbox EXCEPT ![q] = Append(inbox[q], "drain")]
      <4>1. inbox' = [inbox EXCEPT ![q] = Append(inbox[q], "drain")] /\ UNCHANGED <<facade, closing, wakeup>> /\ callback[q] = "post" /\ callback'[q] = "none"
        BY <3>2, <2>19, Types DEF CallbackPost
      <4>2. /\ Len(inbox'[q]) = Len(inbox[q]) + 1
            /\ \A w \in Calls : /\ Posted(q, w)' <=> Posted(q, w) \/ w = "drain"
                                /\ Once(inbox[q], w) /\ (w = "drain" => ~Posted(q, w)) => Once(inbox'[q], w)
        BY <4>1, Added DEF Calls
      <4>3. MaxOps \in Nat /\ Len(inbox[q]) \in Nat
        BY Inboxes, ConstantsAssumption
      <4> QED BY <4>1, <4>2, <4>3 DEF FacadeInv, TokenInv, Calls
    <3> QED BY <2>19, <3>1, <3>2 DEF CallbackPost
  <2> QED BY <2>1, <2>2, <2>3, <2>4, <2>5, <2>6, <2>7, <2>8, <2>9, <2>10, <2>11, <2>12,
    <2>13, <2>14, <2>15, <2>16, <2>17, <2>18, <2>19 DEF Step, WorkerStep, Callback
<1> QED BY <1>1, <1>2

\* The token is freed behind the barrier, and the thread quits after that.
LEMMA TokenInvStep ==
  ASSUME TypeOK, NEW p \in Players, NEW q \in Players, Step(p), FacadeInv(q), InboxInv(q),
    TokenInv(q)
  PROVE  TokenInv(q)'
<1> USE DEF TokenInv, NoWakeup
<1>1. CASE p # q
BY <1>1, Others DEF View
<1>2. CASE p = q
  <2> USE <1>2 DEF guiVars, leaseVars, workerVars, nativeVars
  <2>1. CASE Construct(q) BY <2>1, Tokens, Types DEF Construct
  <2>2. CASE Initialize(q)
    BY <2>2, Tokens, Types DEF Initialize, Discard, FacadeInv, Unused
  <2>3. CASE Post(q) BY <2>3, Tokens, Types DEF Post
  <2>4. CASE Shutdown(q) BY <2>4, Tokens, Types DEF Shutdown, Discard, ShutdownEffect
  <2>5. CASE Reap(q) BY <2>5, Tokens, Types DEF Reap, Reaped
  <2>6. CASE LeasesElsewhere(q) BY <2>6, Tokens, Types DEF LeasesElsewhere
  <2>7. CASE FreeSlot(q) BY <2>7, Tokens, Types DEF FreeSlot
  <2>8. CASE InitializeController(q)
    <3>1. facade[q] = "initializing"
      BY <2>8, TakesPosted DEF InitializeController, InboxInv
    <3> QED BY <3>1, <2>8, Tokens, Types DEF InitializeController, FacadeInv, Unused
  <2>9. CASE RunOperation(q) BY <2>9, Tokens, Types DEF RunOperation, Takes
  <2>10. CASE BeginDrain(q) BY <2>10, Tokens, Types DEF BeginDrain, Takes, ClearsPending
  <2>11. CASE DrainTakes(q) BY <2>11, Tokens, Types DEF DrainTakes
  <2>12. CASE DrainEnds(q) BY <2>12, Tokens, Types DEF DrainEnds
  <2>13. CASE ShutdownController(q)
    <3>1. ~closing[q]
      BY <2>13, TakesPosted DEF ShutdownController, InboxInv
    <3> QED BY <3>1, <2>13, Tokens, Types DEF ShutdownController, Takes
  <2>14. CASE UnregisterWakeup(q) BY <2>14, Tokens, Types DEF UnregisterWakeup, Barrier
  <2>15. CASE Finish(q) BY <2>15, Tokens, Types DEF Finish
  <2>16. CASE End(q) BY <2>16, Tokens, Types DEF End
  <2>17. CASE EventArrives(q) BY <2>17, Tokens, Types DEF EventArrives
  <2>18. CASE CallbackExchange(q) BY <2>18, Tokens, Types DEF CallbackExchange
  <2>19. CASE CallbackPost(q) BY <2>19, Tokens, Types DEF CallbackPost
  <2> QED BY <2>1, <2>2, <2>3, <2>4, <2>5, <2>6, <2>7, <2>8, <2>9, <2>10, <2>11, <2>12,
    <2>13, <2>14, <2>15, <2>16, <2>17, <2>18, <2>19 DEF Step, WorkerStep, Callback
<1> QED BY <1>1, <1>2

\* A slot is given to one player.
LEMMA SlotInvStep == ASSUME TypeOK, SlotInv, NEW p \in Players, Step(p) PROVE SlotInv'
<1>1. CASE slot' = [slot EXCEPT ![p] = CHOOSE s \in FreeSlots : \A t \in FreeSlots : s <= t] /\ FreeSlots # {}
  <2>1. slot'[p] \in FreeSlots /\ \A q \in Players \ {p} : slot'[q] = slot[q]
    BY <1>1, LowestFree, Types
  <2> QED BY <2>1 DEF SlotInv, FreeSlots
<1>2. CASE slot' = [slot EXCEPT ![p] = 0]
  BY <1>2, Types DEF SlotInv
<1>3. CASE UNCHANGED slot
  BY <1>3 DEF SlotInv
<1> QED
  BY <1>1, <1>2, <1>3 DEF Step, WorkerStep, Callback, leaseVars, Discard, Reaped, ShutdownEffect,
    Construct, Initialize, Post, Shutdown, Reap, LeasesElsewhere, FreeSlot, InitializeController, RunOperation, BeginDrain,
        DrainTakes, DrainEnds, ShutdownController, UnregisterWakeup, Finish, End, EventArrives, CallbackExchange, CallbackPost

\* What is posted to a controller stays a sequence of calls.
LEMMA InboxesStep == ASSUME TypeOK, NEW p \in Players, Step(p) PROVE inbox' \in [Players -> Seq(Calls)]
<1>1. inbox \in [Players -> Seq(Calls)]
  <2>1. inbox = [q \in Players |-> inbox[q]]
    BY DEF TypeOK
  <2> QED BY <2>1, Inboxes
<1>2. ASSUME NEW c \in Calls, inbox' = [inbox EXCEPT ![p] = Append(@, c)] PROVE inbox' \in [Players -> Seq(Calls)]
  BY <1>1, <1>2
<1>3. ASSUME NEW c, Takes(p, c) PROVE inbox' \in [Players -> Seq(Calls)]
  BY <1>1, <1>3 DEF Takes
<1>4. CASE inbox' = [inbox EXCEPT ![p] = <<>>]
  BY <1>1, <1>4
<1>5. CASE UNCHANGED inbox
  BY <1>1, <1>5
<1>6. "initialize" \in Calls /\ "operation" \in Calls /\ "drain" \in Calls /\ "shutdown" \in Calls
  BY DEF Calls
<1> QED
  BY <1>2, <1>3, <1>4, <1>5, <1>6 DEF Step, WorkerStep, Callback, workerVars, Discard, Reaped, ShutdownEffect,
    Construct, Initialize, Post, Shutdown, Reap, LeasesElsewhere, FreeSlot, InitializeController, RunOperation, BeginDrain,
        DrainTakes, DrainEnds, ShutdownController, UnregisterWakeup, Finish, End, EventArrives, CallbackExchange, CallbackPost

\* Every other variable keeps its type.
LEMMA TypeOKStep ==
  ASSUME IInv, NEW p \in Players, Step(p), \A q \in Players : FacadeInv(q)' /\ InboxInv(q)'
  PROVE  TypeOK'
<1>1. inbox' \in [Players -> BoundedSeq(Calls, MaxOps + 2)]
  <2>1. inbox' \in [Players -> Seq(Calls)]
    BY InboxesStep DEF IInv
  <2>2. ASSUME NEW q \in Players PROVE Len(inbox'[q]) <= MaxOps + 2 /\ MaxOps + 2 \in Nat
    <3>1. inbox'[q] \in Seq(Calls) /\ Len(inbox'[q]) \in Nat
      BY <2>1
    <3>2. CASE facade'[q] = "initializing"
      <4>1. inbox'[q] = <<"initialize">>
        BY <3>2 DEF FacadeInv
      <4>2. Len(<<"initialize">>) = 1
        OBVIOUS
      <4> QED BY <4>1, <4>2, ConstantsAssumption
    <3>3. CASE facade'[q] # "initializing"
      <4>1. Len(inbox'[q]) <= MaxOps + (IF Posted(q, "drain")' THEN 1 ELSE 0)
                                     + (IF Posted(q, "shutdown")' THEN 1 ELSE 0)
        BY <3>3 DEF InboxInv
      <4> QED BY <3>1, <4>1, ConstantsAssumption
    <3> QED BY <3>2, <3>3
  <2>3. ASSUME NEW q \in Players PROVE inbox'[q] \in BoundedSeq(Calls, MaxOps + 2)
    BY <2>1, <2>2, BoundedSeqIsSeq
  <2> QED BY <2>1, <2>3
<1>2. TypeOK /\ LeaseInv(p)
  BY DEF IInv
<1> USE DEF Step, WorkerStep, Callback, guiVars, leaseVars, workerVars, nativeVars, Discard, Reaped,
  ShutdownEffect, Takes, ClearsPending, Construct, Initialize, Post, Shutdown, Reap, LeasesElsewhere, FreeSlot, InitializeController, RunOperation, BeginDrain,
        DrainTakes, DrainEnds, ShutdownController, UnregisterWakeup, Finish, End, EventArrives, CallbackExchange, CallbackPost
<1>3. facade' \in [Players -> {"none", "refused", "constructed", "initializing", "open", "closed"}]
  <2>1. facade \in [Players -> {"none", "refused", "constructed", "initializing", "open", "closed"}]
    BY <1>2 DEF TypeOK
  <2> QED BY <2>1
<1>4. success' \in [Players -> BOOLEAN]
  <2>1. success \in [Players -> BOOLEAN]
    BY <1>2 DEF TypeOK
  <2> QED BY <2>1
<1>5. closing' \in [Players -> BOOLEAN]
  <2>1. closing \in [Players -> BOOLEAN]
    BY <1>2 DEF TypeOK
  <2> QED BY <2>1
<1>6. available' \in [Players -> BOOLEAN]
  <2>1. available \in [Players -> BOOLEAN]
    BY <1>2 DEF TypeOK
  <2> QED BY <2>1
<1>7. need' \in [Players -> BOOLEAN]
  <2>1. need \in [Players -> BOOLEAN]
    BY <1>2 DEF TypeOK
  <2> QED BY <2>1
<1>8. registry' \in [1 .. Slots -> Players \cup {NoPlayer}]
  <2>1. registry \in [1 .. Slots -> Players \cup {NoPlayer}]
    BY <1>2 DEF TypeOK
  <2> QED BY <2>1, ConstantsAssumption
<1>9. slot' \in [Players -> 0 .. Slots]
  <2>1. slot \in [Players -> 0 .. Slots]
    BY <1>2 DEF TypeOK
  <2>2. FreeSlots # {} => (CHOOSE s \in FreeSlots : \A t \in FreeSlots : s <= t) \in 0 .. Slots
    BY LowestFree, ConstantsAssumption DEF FreeSlots
  <2>3. ASSUME FreeSlots # {}, slot' = [slot EXCEPT ![p] = CHOOSE s \in FreeSlots : \A t \in FreeSlots : s <= t]
        PROVE  slot' \in [Players -> 0 .. Slots]
    <3> HIDE DEF FreeSlots
    <3> QED BY <2>1, <2>2, <2>3
  <2>4. ASSUME slot' = [slot EXCEPT ![p] = 0] PROVE slot' \in [Players -> 0 .. Slots]
    BY <2>1, <2>4, ConstantsAssumption
  <2>5. \/ UNCHANGED slot \/ slot' = [slot EXCEPT ![p] = 0]
        \/ /\ FreeSlots # {}
           /\ slot' = [slot EXCEPT ![p] = CHOOSE s \in FreeSlots : \A t \in FreeSlots : s <= t]
    OBVIOUS
  <2> QED BY <2>1, <2>3, <2>4, <2>5
<1>10. holders' \in [Players -> SUBSET {"control", "controller", "player", "renderer"}]
  <2>1. holders \in [Players -> SUBSET {"control", "controller", "player", "renderer"}]
    BY <1>2 DEF TypeOK
  <2> QED BY <2>1
<1>11. thread' \in [Players -> {"none", "running", "quitting", "finishing", "ended"}]
  <2>1. thread \in [Players -> {"none", "running", "quitting", "finishing", "ended"}]
    BY <1>2 DEF TypeOK
  <2> QED BY <2>1
<1>12. controller' \in [Players -> {"none", "alive", "deleted"}]
  <2>1. controller \in [Players -> {"none", "alive", "deleted"}]
    BY <1>2 DEF TypeOK
  <2> QED BY <2>1
<1>13. step' \in [Players -> {"idle", "drain", "unregister"}]
  <2>1. step \in [Players -> {"idle", "drain", "unregister"}]
    BY <1>2 DEF TypeOK
  <2> QED BY <2>1
<1>14. wakeup' \in [Players -> [live : BOOLEAN, registered : BOOLEAN, pending : BOOLEAN]]
  <2>1. wakeup \in [Players -> [live : BOOLEAN, registered : BOOLEAN, pending : BOOLEAN]]
    BY <1>2 DEF TypeOK
  <2>2. \A b \in BOOLEAN : /\ [wakeup EXCEPT ![p].live = b] \in [Players -> [live : BOOLEAN, registered : BOOLEAN, pending : BOOLEAN]]
                          /\ [wakeup EXCEPT ![p].pending = b] \in [Players -> [live : BOOLEAN, registered : BOOLEAN, pending : BOOLEAN]]
    BY <2>1
  <2>3. \A w \in [live : BOOLEAN, registered : BOOLEAN, pending : BOOLEAN] :
          [wakeup EXCEPT ![p] = w] \in [Players -> [live : BOOLEAN, registered : BOOLEAN, pending : BOOLEAN]]
    BY <2>1
  <2>4. \/ UNCHANGED wakeup \/ \E b \in BOOLEAN : \/ wakeup' = [wakeup EXCEPT ![p].live = b]
                                                 \/ wakeup' = [wakeup EXCEPT ![p].pending = b]
        \/ wakeup' = [wakeup EXCEPT ![p] = NoWakeup]
        \/ wakeup' = [wakeup EXCEPT ![p] = [live |-> TRUE, registered |-> TRUE, pending |-> FALSE]]
    <3>1. CASE WorkerStep(p)
      <4>1. CASE InitializeController(p)
        BY <4>1
      <4>2. CASE ~InitializeController(p)
        BY <3>1, <4>2
      <4> QED BY <4>1, <4>2
    <3>2. CASE Callback(p)
      BY <3>2
    <3>3. CASE ~WorkerStep(p) /\ ~Callback(p)
      <4>1. UNCHANGED wakeup
        BY <3>3
      <4> QED BY <4>1
    <3> QED BY <3>1, <3>2, <3>3
  <2> HIDE DEF Step
  <2>5. /\ NoWakeup \in [live : BOOLEAN, registered : BOOLEAN, pending : BOOLEAN]
        /\ [live |-> TRUE, registered |-> TRUE, pending |-> FALSE]
             \in [live : BOOLEAN, registered : BOOLEAN, pending : BOOLEAN]
    BY DEF NoWakeup
  <2>6. ASSUME NEW b \in BOOLEAN, wakeup' = [wakeup EXCEPT ![p].live = b] \/ wakeup' = [wakeup EXCEPT ![p].pending = b]
        PROVE  wakeup' \in [Players -> [live : BOOLEAN, registered : BOOLEAN, pending : BOOLEAN]]
    BY <2>2, <2>6
  <2>7. /\ [wakeup EXCEPT ![p] = NoWakeup] \in [Players -> [live : BOOLEAN, registered : BOOLEAN, pending : BOOLEAN]]
        /\ [wakeup EXCEPT ![p] = [live |-> TRUE, registered |-> TRUE, pending |-> FALSE]]
             \in [Players -> [live : BOOLEAN, registered : BOOLEAN, pending : BOOLEAN]]
    BY <2>3, <2>5
  <2>8. CASE UNCHANGED wakeup
    BY <2>1, <2>8
  <2>9. CASE \/ wakeup' = [wakeup EXCEPT ![p] = NoWakeup]
            \/ wakeup' = [wakeup EXCEPT ![p] = [live |-> TRUE, registered |-> TRUE, pending |-> FALSE]]
    BY <2>7, <2>9
  <2>10. CASE \E b \in BOOLEAN : wakeup' = [wakeup EXCEPT ![p].live = b] \/ wakeup' = [wakeup EXCEPT ![p].pending = b]
    BY <2>6, <2>10
  <2> QED BY <2>4, <2>8, <2>9, <2>10
<1>15. callback' \in [Players -> {"none", "exchange", "post"}]
  <2>1. callback \in [Players -> {"none", "exchange", "post"}]
    BY <1>2 DEF TypeOK
  <2> QED BY <2>1
<1>16. events' \in [Players -> 0 .. MaxEvents]
  <2>1. events \in [Players -> 0 .. MaxEvents]
    BY <1>2 DEF TypeOK
  <2> QED BY <2>1, ConstantsAssumption
<1>17. notices' \subseteq Players
  <2>1. notices \subseteq Players
    BY <1>2 DEF TypeOK
  <2> QED BY <2>1
<1> QED BY <1>1, <1>3, <1>4, <1>5, <1>6, <1>7, <1>8, <1>9, <1>10, <1>11, <1>12, <1>13,
  <1>14, <1>15, <1>16, <1>17 DEF TypeOK, Calls

\* The invariant holds initially: nobody has anything yet.
LEMMA InitIInv == Init => IInv
<1> SUFFICES ASSUME Init PROVE IInv
  OBVIOUS
<1> USE DEF Init, All, NoWakeup
<1>1. inbox \in [Players -> BoundedSeq({"initialize", "operation", "drain", "shutdown"}, MaxOps + 2)]
  <2>1. <<>> \in Seq(Calls) /\ Len(<<>>) = 0 /\ MaxOps + 2 \in Nat /\ 0 <= MaxOps + 2
    BY ConstantsAssumption
  <2>2. <<>> \in BoundedSeq(Calls, MaxOps + 2)
    BY <2>1, BoundedSeqIsSeq
  <2> QED BY <2>2 DEF Calls
<1>2. TypeOK
  BY <1>1, ConstantsAssumption DEF TypeOK
<1>3. SlotInv
  BY DEF SlotInv
<1>4. ASSUME NEW p \in Players PROVE FacadeInv(p) /\ LeaseInv(p) /\ TokenInv(p)
  BY <1>4, ConstantsAssumption DEF FacadeInv, Unused, LeaseInv, TokenInv, Alive
<1>5. ASSUME NEW p \in Players PROVE InboxInv(p)
  <2>1. inbox[p] = <<>> /\ Len(inbox[p]) = 0 /\ \A w : ~Posted(p, w) /\ Once(inbox[p], w)
    BY DEF Posted, Once, ToSet
  <2> QED BY <2>1, ConstantsAssumption DEF InboxInv
<1> QED BY <1>2, <1>3, <1>4, <1>5 DEF IInv

\* Every step keeps the inductive invariant.
LEMMA IInvStep == IInv /\ [Next]_vars => IInv'
<1> SUFFICES ASSUME IInv, [Next]_vars PROVE IInv'
  OBVIOUS
<1>1. ASSUME NEW p \in Players, Step(p) PROVE IInv'
  <2>1. TypeOK /\ SlotInv /\ \A q \in Players : FacadeInv(q) /\ LeaseInv(q) /\ InboxInv(q) /\ TokenInv(q)
    BY DEF IInv
  <2>2. ASSUME NEW q \in Players PROVE FacadeInv(q)' /\ LeaseInv(q)' /\ InboxInv(q)' /\ TokenInv(q)'
    BY <1>1, <2>1, FacadeInvStep, LeaseInvStep, InboxInvStep, TokenInvStep
  <2>3. TypeOK' /\ SlotInv'
    BY <1>1, <2>1, <2>2, TypeOKStep, SlotInvStep
  <2> QED BY <2>2, <2>3 DEF IInv
<1>2. CASE UNCHANGED vars
  BY <1>2 DEF vars, guiVars, leaseVars, workerVars, nativeVars, IInv, TypeOK, SlotInv, FacadeInv, Unused,
    LeaseInv, Alive, InboxInv, Posted, TokenInv
<1>3. CASE Next
  BY <1>1, <1>3 DEF Next, Step
<1> QED BY <1>2, <1>3

\* All that is known of the backends, in every state.
THEOREM Invariance == Spec => []IInv
<1> QED BY InitIInv, IInvStep, PTL DEF Spec

-----------------------------------------------------------------------------
(* The properties.                                                           *)

\* Every variable keeps its type: what is posted to a controller never grows beyond
\* the operations, one drain and one shutdown.
THEOREM TypeCorrect == Spec => []TypeOK
<1>1. IInv => TypeOK BY DEF IInv
<1> QED BY Invariance, <1>1, PTL

\* A thread keeps its lease until it has really ended, and libmpv's callback and a
\* drain find the token, the controller and the core, whoever gives what up on which
\* thread.
THEOREM UsersOutlived == Spec => []UsersAreOutlived
<1>1. ASSUME IInv PROVE ThreadsAreOutlived
  <2> SUFFICES ASSUME NEW p \in Players
               PROVE  /\ Alive(p) => slot[p] # 0 /\ registry[slot[p]] = p /\ "control" \in holders[p]
                      /\ \A s \in 1 .. Slots : registry[s] = p => slot[p] = s /\ thread[p] # "none"
    BY DEF ThreadsAreOutlived
  <2>1. LeaseInv(p)
    BY <1>1 DEF IInv
  <2> QED BY <2>1 DEF LeaseInv
<1>2. ASSUME IInv PROVE CallbacksAreOutlived
  <2> SUFFICES ASSUME NEW p \in Players
               PROVE  /\ callback[p] # "none" \/ step[p] = "drain" =>
                           wakeup[p].live /\ controller[p] = "alive" /\ "controller" \in holders[p]
                      /\ wakeup[p].live => controller[p] = "alive"
                      /\ Once(inbox[p], "drain")
                      /\ callback[p] = "post" => "drain" \notin ToSet(inbox[p])
    BY DEF CallbacksAreOutlived
  <2>1. LeaseInv(p) /\ InboxInv(p) /\ TokenInv(p)
    BY <1>2 DEF IInv
  <2> QED BY <2>1 DEF LeaseInv, InboxInv, TokenInv, Posted
<1>3. IInv => UsersAreOutlived
  BY <1>1, <1>2 DEF UsersAreOutlived
<1> QED BY Invariance, <1>3, PTL

=============================================================================
