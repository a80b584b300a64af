--------------------------- MODULE CoreRetirement ---------------------------
(***************************************************************************)
(* RetirementService and the reservation part of MpvCoreLease              *)
(* (mpvrenderbridge.cpp 29-230).                                           *)
(*                                                                         *)
(* A lease reserves one of Capacity slots before mpv_create(), so that the *)
(* last reference can be dropped on any thread without allocating, joining *)
(* or doing I/O: the destructor stores the handle in the slot, marks the   *)
(* slot Queued and posts a semaphore. Two process-lifetime workers wait on *)
(* the semaphore, scan the slots first-fit for a Queued one and run the    *)
(* blocking mpv_terminate_destroy() there.                                 *)
(*                                                                         *)
(* Every atomic access is one action, so all the interleavings of lease    *)
(* owners and workers are explored. libmpv's side (a handle lives from     *)
(* mpv_create() to the return of mpv_terminate_destroy(), and its address  *)
(* may be handed out again afterwards) is the variable live.               *)
(***************************************************************************)
EXTENDS Integers, FiniteSets

CONSTANTS
  Capacity,        (* number of slots; 32 in the code                        *)
  Workers,         (* retirement threads; two in the code                    *)
  Owners,          (* threads that reserve and drop leases                   *)
  Handles,         (* addresses mpv_create() may return                      *)
  NoHandle,        (* nullptr                                                *)
  SemWaitMayFail   (* may sem_wait fail with an error other than EINTR?      *)

ASSUME CapacityAssumption == Capacity \in Nat \ {0}
ASSUME ThreadAssumption ==
  IsFiniteSet(Workers) /\ IsFiniteSet(Owners) /\ IsFiniteSet(Handles)
ASSUME NoHandleAssumption == NoHandle \notin Handles
ASSUME SemWaitAssumption == SemWaitMayFail \in BOOLEAN

VARIABLES
  once,        (* progress of m_once / m_ready                               *)
  started,     (* workers pthread_create has started                         *)
  posted,      (* rollback posts made by a failed bootstrap                  *)
  stop,        (* m_stop                                                     *)
  sem,         (* value of m_work                                            *)
  state,       (* m_slots[i].state                                           *)
  handle,      (* m_slots[i].handle                                          *)
  wpc, wpos,   (* each worker's place in drain() and its scan position       *)
  opc, opos,   (* each owner's place and its scan position / m_reservation   *)
  lease,       (* m_handle of the owner's lease                              *)
  live         (* handles libmpv considers alive                             *)

bootVars   == <<once, started, posted, stop>>
slotVars   == <<state, handle>>
workerVars == <<wpc, wpos>>
ownerVars  == <<opc, opos, lease>>
vars == <<once, started, posted, stop, sem, state, handle, wpc, wpos,
          opc, opos, lease, live>>

Slots == 0 .. Capacity - 1

SlotStates  == {"Free", "Reserved", "Queued", "Destroying"}
OncePhases  == {"untried", "starting", "rollback", "failed", "ready"}
WorkerSteps == {"off", "wait", "woken", "scan", "destroy", "clear", "free",
                "exited"}
OwnerSteps  == {"idle", "bootstrap", "reserve", "new", "wrap", "leased",
                "published", "retire", "enqueue", "post"}

TypeOK ==
  /\ once \in OncePhases
  /\ started \in SUBSET Workers
  /\ posted \in Nat
  /\ stop \in BOOLEAN
  /\ sem \in Nat
  /\ state \in [Slots -> SlotStates]
  /\ handle \in [Slots -> Handles \cup {NoHandle}]
  /\ wpc \in [Workers -> WorkerSteps]
  /\ wpos \in [Workers -> Slots]
  /\ opc \in [Owners -> OwnerSteps]
  /\ opos \in [Owners -> Slots]
  /\ lease \in [Owners -> Handles \cup {NoHandle}]
  /\ live \in SUBSET Handles

Init ==
  /\ once = "untried" /\ started = {} /\ posted = 0 /\ stop = FALSE /\ sem = 0
  /\ state = [s \in Slots |-> "Free"]
  /\ handle = [s \in Slots |-> NoHandle]
  /\ wpc = [w \in Workers |-> "off"]
  /\ wpos = [w \in Workers |-> 0]
  /\ opc = [o \in Owners |-> "idle"]
  /\ opos = [o \in Owners |-> 0]
  /\ lease = [o \in Owners |-> NoHandle]
  /\ live = {}

OwnerGoes(o, from, to) == opc[o] = from /\ opc' = [opc EXCEPT ![o] = to]
WorkerGoes(w, from, to) == wpc[w] = from /\ wpc' = [wpc EXCEPT ![w] = to]

-----------------------------------------------------------------------------
(* bootstrap(): run once, by whichever owner arrives first, while the others
   block in std::call_once.                                                  *)

Booting == \E o \in Owners : opc[o] = "bootstrap"

\* pinModule() of either module, or sem_init(), fails.
PinFails ==
  /\ once = "untried" /\ Booting
  /\ once' = "failed"
  /\ UNCHANGED <<started, posted, stop, sem, slotVars, workerVars, ownerVars, live>>

SemInit ==
  /\ once = "untried" /\ Booting
  /\ once' = "starting" /\ sem' = 0
  /\ UNCHANGED <<started, posted, stop, slotVars, workerVars, ownerVars, live>>

StartWorker(w) ==
  /\ once = "starting" /\ w \notin started
  /\ started' = started \cup {w}
  /\ WorkerGoes(w, "off", "wait")
  /\ once' = IF started' = Workers THEN "ready" ELSE once
  /\ UNCHANGED <<posted, stop, sem, slotVars, wpos, ownerVars, live>>

\* Mutant: a failed pthread_create returns without joining the first worker.
StartFailsWithoutRollback ==
  /\ once = "starting"
  /\ once' = "failed" /\ stop' = TRUE
  /\ UNCHANGED <<started, posted, sem, slotVars, workerVars, ownerVars, live>>

\* pthread_create fails: stop the workers started so far ...
StartFails ==
  /\ once = "starting"
  /\ once' = "rollback" /\ stop' = TRUE
  /\ UNCHANGED <<started, posted, sem, slotVars, workerVars, ownerVars, live>>

\* ... wake each of them ...
RollbackPost ==
  /\ once = "rollback" /\ posted < Cardinality(started)
  /\ posted' = posted + 1 /\ sem' = sem + 1
  /\ UNCHANGED <<once, started, stop, slotVars, workerVars, ownerVars, live>>

\* ... and join them.
RollbackJoin ==
  /\ once = "rollback" /\ posted = Cardinality(started)
  /\ \A w \in started : wpc[w] = "exited"
  /\ once' = "failed"
  /\ UNCHANGED <<started, posted, stop, sem, slotVars, workerVars, ownerVars, live>>

Bootstrap ==
  \/ PinFails \/ SemInit \/ StartFails \/ RollbackPost \/ RollbackJoin
  \/ \E w \in Workers : StartWorker(w)

-----------------------------------------------------------------------------
(* MpvCoreLease::reserve(), publish() and the destructor, on an owner thread. *)

CallReserve(o) ==
  /\ OwnerGoes(o, "idle", "bootstrap")
  /\ UNCHANGED <<bootVars, sem, slotVars, workerVars, opos, lease, live>>

BootstrapReturns(o) ==
  /\ once \in {"ready", "failed"}
  /\ OwnerGoes(o, "bootstrap", IF once = "ready" THEN "reserve" ELSE "idle")
  /\ opos' = [opos EXCEPT ![o] = 0]
  /\ UNCHANGED <<bootVars, sem, slotVars, workerVars, lease, live>>

\* One compare-exchange of reserve()'s scan: take a Free slot ...
ReserveHit(o) ==
  /\ state[opos[o]] = "Free"
  /\ OwnerGoes(o, "reserve", "new")
  /\ state' = [state EXCEPT ![opos[o]] = "Reserved"]
  /\ UNCHANGED <<bootVars, sem, handle, workerVars, opos, lease, live>>

\* Mutant: the scan does not end at the last slot.
ReserveMissRunsOn(o) ==
  /\ state[opos[o]] # "Free"
  /\ opc[o] = "reserve"
  /\ opos' = [opos EXCEPT ![o] = @ + 1]
  /\ UNCHANGED <<bootVars, sem, slotVars, workerVars, opc, lease, live>>

\* ... or look at the next one; past the last, all leases are occupied.
ReserveMiss(o) ==
  LET last == opos[o] = Capacity - 1
  IN /\ state[opos[o]] # "Free"
     /\ OwnerGoes(o, "reserve", IF last THEN "idle" ELSE "reserve")
     /\ opos' = [opos EXCEPT ![o] = IF last THEN 0 ELSE @ + 1]
     /\ UNCHANGED <<bootVars, sem, slotVars, workerVars, lease, live>>

LeaseAllocated(o) ==
  /\ OwnerGoes(o, "new", "wrap")
  /\ UNCHANGED <<bootVars, sem, slotVars, workerVars, opos, lease, live>>

\* new MpvCoreLease throws: reserve() calls retire(index, nullptr).
LeaseAllocFails(o) ==
  /\ OwnerGoes(o, "new", "retire")
  /\ UNCHANGED <<bootVars, sem, slotVars, workerVars, opos, lease, live>>

ReserveReturns(o) ==
  /\ OwnerGoes(o, "wrap", "leased")
  /\ UNCHANGED <<bootVars, sem, slotVars, workerVars, opos, lease, live>>

\* Mutant: the handler releases the slot and the destructor does so again.
ControlBlockReleasesTwice(o) ==
  /\ OwnerGoes(o, "wrap", "retire")
  /\ state' = [state EXCEPT ![opos[o]] = "Free"]
  /\ UNCHANGED <<bootVars, sem, handle, workerVars, opos, lease, live>>

\* The shared_ptr control block cannot be allocated: the lease's own
\* destructor releases the reservation, and nothing else may.
ControlBlockFails(o) ==
  /\ OwnerGoes(o, "wrap", "retire")
  /\ UNCHANGED <<bootVars, sem, slotVars, workerVars, opos, lease, live>>

\* MpvController::initialize(): mpv_create() and mpv_initialize() succeed.
\* When they fail the lease keeps its null handle and is dropped later.
Publish(o) == \E h \in Handles \ live :
  /\ OwnerGoes(o, "leased", "published")
  /\ live' = live \cup {h}
  /\ lease' = [lease EXCEPT ![o] = h]
  /\ UNCHANGED <<bootVars, sem, slotVars, workerVars, opos>>

\* The last shared_ptr reference goes away: ~MpvCoreLease calls retire().
DropLease(o) ==
  /\ opc[o] \in {"leased", "published"}
  /\ opc' = [opc EXCEPT ![o] = "retire"]
  /\ UNCHANGED <<bootVars, sem, slotVars, workerVars, opos, lease, live>>

\* Mutant: retire() posts for an empty slot, too.
RetireNullPosts(o) ==
  /\ lease[o] = NoHandle
  /\ OwnerGoes(o, "retire", "idle")
  /\ state' = [state EXCEPT ![opos[o]] = "Free"]
  /\ opos' = [opos EXCEPT ![o] = 0]
  /\ sem' = sem + 1
  /\ UNCHANGED <<bootVars, handle, workerVars, lease, live>>

\* retire() with a null handle: the slot is simply free again.
RetireNull(o) ==
  /\ lease[o] = NoHandle
  /\ OwnerGoes(o, "retire", "idle")
  /\ state' = [state EXCEPT ![opos[o]] = "Free"]
  /\ opos' = [opos EXCEPT ![o] = 0]
  /\ UNCHANGED <<bootVars, sem, handle, workerVars, lease, live>>

StoreHandle(o) ==
  /\ lease[o] # NoHandle
  /\ OwnerGoes(o, "retire", "enqueue")
  /\ handle' = [handle EXCEPT ![opos[o]] = lease[o]]
  /\ lease' = [lease EXCEPT ![o] = NoHandle]
  /\ UNCHANGED <<bootVars, sem, state, workerVars, opos, live>>

StoreQueued(o) ==
  /\ OwnerGoes(o, "enqueue", "post")
  /\ state' = [state EXCEPT ![opos[o]] = "Queued"]
  /\ opos' = [opos EXCEPT ![o] = 0]
  /\ UNCHANGED <<bootVars, sem, handle, workerVars, lease, live>>

\* Mutant: a binary semaphore, as a condition flag would be.
PostFlag(o) ==
  /\ OwnerGoes(o, "post", "idle")
  /\ sem' = 1
  /\ UNCHANGED <<bootVars, slotVars, workerVars, opos, lease, live>>

PostWork(o) ==
  /\ OwnerGoes(o, "post", "idle")
  /\ sem' = sem + 1
  /\ UNCHANGED <<bootVars, slotVars, workerVars, opos, lease, live>>

Owner(o) ==
  \/ CallReserve(o) \/ BootstrapReturns(o) \/ ReserveHit(o) \/ ReserveMiss(o)
  \/ LeaseAllocated(o) \/ LeaseAllocFails(o) \/ ReserveReturns(o)
  \/ ControlBlockFails(o) \/ Publish(o) \/ DropLease(o)
  \/ RetireNull(o) \/ StoreHandle(o) \/ StoreQueued(o) \/ PostWork(o)

-----------------------------------------------------------------------------
(* drain(), on a worker thread. EINTR repeats sem_wait: a stuttering step.    *)

SemWait(w) ==
  /\ sem > 0
  /\ sem' = sem - 1
  /\ WorkerGoes(w, "wait", "woken")
  /\ UNCHANGED <<bootVars, slotVars, wpos, ownerVars, live>>

SemWaitFails(w) ==
  /\ SemWaitMayFail
  /\ WorkerGoes(w, "wait", "exited")
  /\ UNCHANGED <<bootVars, sem, slotVars, wpos, ownerVars, live>>

LoadStop(w) ==
  /\ WorkerGoes(w, "woken", IF stop THEN "exited" ELSE "scan")
  /\ UNCHANGED <<bootVars, sem, slotVars, wpos, ownerVars, live>>

\* Mutant: the slot is tested but not exchanged before it is destroyed.
ScanHitUnmarked(w) ==
  /\ state[wpos[w]] = "Queued"
  /\ WorkerGoes(w, "scan", "destroy")
  /\ UNCHANGED <<bootVars, sem, slotVars, wpos, ownerVars, live>>

ScanHit(w) ==
  /\ state[wpos[w]] = "Queued"
  /\ WorkerGoes(w, "scan", "destroy")
  /\ state' = [state EXCEPT ![wpos[w]] = "Destroying"]
  /\ UNCHANGED <<bootVars, sem, handle, wpos, ownerVars, live>>

\* The compare-exchange fails; past the last slot the token is spent in vain.
ScanMiss(w) ==
  LET last == wpos[w] = Capacity - 1
  IN /\ state[wpos[w]] # "Queued"
     /\ WorkerGoes(w, "scan", IF last THEN "wait" ELSE "scan")
     /\ wpos' = [wpos EXCEPT ![w] = IF last THEN 0 ELSE @ + 1]
     /\ UNCHANGED <<bootVars, sem, slotVars, ownerVars, live>>

\* mpv_terminate_destroy(slot.handle) returns, after any file I/O it does.
TerminateDestroy(w) ==
  /\ WorkerGoes(w, "destroy", "clear")
  /\ live' = live \ {handle[wpos[w]]}
  /\ UNCHANGED <<bootVars, sem, slotVars, wpos, ownerVars>>

ClearHandle(w) ==
  /\ WorkerGoes(w, "clear", "free")
  /\ handle' = [handle EXCEPT ![wpos[w]] = NoHandle]
  /\ UNCHANGED <<bootVars, sem, state, wpos, ownerVars, live>>

FreeSlot(w) ==
  /\ WorkerGoes(w, "free", "wait")
  /\ state' = [state EXCEPT ![wpos[w]] = "Free"]
  /\ wpos' = [wpos EXCEPT ![w] = 0]
  /\ UNCHANGED <<bootVars, sem, handle, ownerVars, live>>

Worker(w) ==
  \/ SemWait(w) \/ SemWaitFails(w) \/ LoadStop(w) \/ ScanHit(w) \/ ScanMiss(w)
  \/ TerminateDestroy(w) \/ ClearHandle(w) \/ FreeSlot(w)

Next ==
  \/ Bootstrap
  \/ \E o \in Owners : Owner(o)
  \/ \E w \in Workers : Worker(w)

Spec == Init /\ [][Next]_vars

-----------------------------------------------------------------------------
(* Invariants.                                                               *)

Holding == {"new", "wrap", "leased", "published", "retire", "enqueue"}
Destruction == {"destroy", "clear", "free"}
Searching == {"woken", "scan"}

SlotOwners(s)  == {o \in Owners : opc[o] \in Holding /\ opos[o] = s}
SlotWorkers(s) == {w \in Workers : wpc[w] \in Destruction /\ wpos[w] = s}
QueuedFrom(p)  == {s \in Slots : s >= p /\ state[s] = "Queued"}
SearchersFrom(p) == {w \in Workers : wpc[w] \in Searching /\ wpos[w] >= p}
Posters        == {o \in Owners : opc[o] = "post"}

\* The handle stored in slot s still has to be destroyed.
Pending(s) ==
  \/ state[s] = "Queued"
  \/ \E o \in Owners : opc[o] = "enqueue" /\ opos[o] = s
  \/ \E w \in Workers : wpc[w] = "destroy" /\ wpos[w] = s

\* A slot is held by one lease, or by one worker, or by nobody: the three
\* threads that write state and handle (reserve/retire, drain and the paths
\* that undo a failed allocation) never believe they own the same slot.
SlotHasOneHolder == \A s \in Slots :
  /\ state[s] \in {"Free", "Queued"} => SlotOwners(s) = {} /\ SlotWorkers(s) = {}
  /\ state[s] = "Reserved"   => SlotWorkers(s) = {} /\ \E o \in Owners : SlotOwners(s) = {o}
  /\ state[s] = "Destroying" => SlotOwners(s) = {} /\ \E w \in Workers : SlotWorkers(s) = {w}

\* Every core libmpv considers alive is reachable from exactly one place that
\* will destroy it, a published lease or a pending slot, and nothing else can
\* be passed to mpv_terminate_destroy: no leak, no double destroy, also when
\* libmpv reuses the address of a core whose slot is not cleared yet.
HandleHasOneHolder ==
  /\ \A o \in Owners : lease[o] # NoHandle => lease[o] \in live
  /\ \A s \in Slots : Pending(s) => handle[s] \in live
  /\ \A o, p \in Owners : o # p /\ lease[o] # NoHandle => lease[o] # lease[p]
  /\ \A s, t \in Slots : s # t /\ Pending(s) /\ Pending(t) => handle[s] # handle[t]
  /\ \A o \in Owners, s \in Slots : Pending(s) => lease[o] # handle[s]
  /\ \A h \in live : (\E o \in Owners : lease[o] = h)
                     \/ (\E s \in Slots : Pending(s) /\ handle[s] = h)

\* No retirement is lost: each Queued slot is matched by a semaphore token, by
\* a releaser about to post it, or by a worker that took a token and is still
\* searching. So when all workers sleep on an empty semaphore and no releaser
\* is between its two stores, no core is left behind.
QueueIsAccounted == ~stop =>
  Cardinality(QueuedFrom(0)) = sem + Cardinality(SearchersFrom(0)) + Cardinality(Posters)

\* Ahead of any set of searching workers there are enough Queued slots for all
\* of them, although slots are filled and emptied behind their backs.
SearchersWillFind == ~stop => \A p \in Slots :
  Cardinality(SearchersFrom(p)) <= Cardinality(QueuedFrom(p))

\* bootstrap() admits a core only once both workers have been started; a failed
\* one has joined every worker it started and never admits a core.
BootstrapAllOrNothing ==
  /\ (\E s \in Slots : state[s] # "Free") => once = "ready" /\ ~stop /\ started = Workers
  /\ once = "failed" => \A w \in Workers : wpc[w] \in {"off", "exited"}

-----------------------------------------------------------------------------
(* Properties of steps and of behaviours.                                    *)

\* A worker that took a token never walks past the last slot empty-handed:
\* drain() needs no retry loop around its scan.
TokenNeverWasted ==
  [][\A w \in Workers : wpc[w] = "scan" => wpc'[w] # "wait"]_vars

\* The destructor finishes once it has begun, on whatever thread dropped the
\* last reference; a worker that can run runs, and mpv_terminate_destroy
\* returns. Nothing obliges an owner to reserve, publish or drop a lease, and
\* nothing sem_wait() to fail.
Fairness ==
  /\ WF_vars(Bootstrap)
  /\ \A o \in Owners : WF_vars(RetireNull(o) \/ StoreHandle(o) \/ StoreQueued(o) \/ PostWork(o))
  /\ \A w \in Workers : WF_vars(Worker(w) /\ ~SemWaitFails(w))

FairSpec == Spec /\ Fairness

\* A worker is there as long as sem_wait() fails with EINTR only, which is all
\* it does on a valid semaphore.
WorkersGone == \A w \in Workers : wpc[w] = "exited"

\* Once leases stop being dropped, every retired core is destroyed and every
\* slot of a dropped lease is free again; one worker that is left is enough.
\* (Without that premise a high slot may starve: the scan is first-fit and low
\* slots can be refilled forever.)
QuiescenceDrains ==
  <>[](~WorkersGone /\ \A o \in Owners : opc[o] \in {"idle", "leased", "published"})
    => <>[](\A s \in Slots : state[s] \in {"Free", "Reserved"})

\* The service implements the core life cycle it promises.
CorePhase == [h \in Handles |->
  IF h \notin live THEN "none"
  ELSE IF \E o \in Owners : opc[o] = "published" /\ lease[o] = h THEN "owned"
  ELSE "retired"]

Lifecycle == INSTANCE CoreLifecycle WITH phase <- CorePhase
LifecycleSafety == Lifecycle!Init /\ [][Lifecycle!Next]_CorePhase

\* And retired cores keep being destroyed, also while new ones keep coming.
KeepsDestroying == []~WorkersGone => Lifecycle!Progress
=============================================================================
