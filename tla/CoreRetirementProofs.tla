------------------------ MODULE CoreRetirementProofs ------------------------
(***************************************************************************)
(* Machine-checked proofs about CoreRetirement, for every number of slots, *)
(* workers, owners and handles.                                            *)
(***************************************************************************)
EXTENDS CoreRetirement, TLAPS, FiniteSetTheorems

\* Zero is a slot, and the successor of every slot but the last is one: the
\* scans of reserve() and drain() stay inside m_slots.
LEMMA SlotArithmetic ==
  /\ 0 \in Slots
  /\ \A s \in Slots : s # Capacity - 1 => s + 1 \in Slots
BY CapacityAssumption DEF Slots

\* The empty service, before bootstrap(), has the right types.
LEMMA InitTypeOK == Init => TypeOK
<1> SUFFICES ASSUME Init PROVE TypeOK
  OBVIOUS
<1>1. stop \in BOOLEAN /\ started \in SUBSET Workers /\ live \in SUBSET Handles
  BY DEF Init
<1>2. once \in OncePhases /\ posted \in Nat /\ sem \in Nat
  BY DEF Init, OncePhases
<1>3. wpc \in [Workers -> WorkerSteps] /\ opc \in [Owners -> OwnerSteps]
  BY DEF Init, WorkerSteps, OwnerSteps
<1>4. wpos \in [Workers -> Slots] /\ opos \in [Owners -> Slots]
  BY SlotArithmetic DEF Init
<1>5. /\ state \in [Slots -> SlotStates]
      /\ handle \in [Slots -> Handles \cup {NoHandle}]
      /\ lease \in [Owners -> Handles \cup {NoHandle}]
  BY DEF Init, SlotStates
<1> QED BY <1>1, <1>2, <1>3, <1>4, <1>5 DEF TypeOK

\* No access of an owner or a worker puts a value of another type anywhere.
LEMMA TypeOKStep == TypeOK /\ [Next]_vars => TypeOK'
<1> SUFFICES ASSUME TypeOK, [Next]_vars PROVE TypeOK'
  OBVIOUS
<1> USE DEF TypeOK, bootVars, slotVars, workerVars, ownerVars, OncePhases,
            SlotStates, WorkerSteps, OwnerSteps, OwnerGoes, WorkerGoes
<1>1. CASE PinFails BY <1>1 DEF PinFails
<1>2. CASE SemInit BY <1>2 DEF SemInit
<1>3. CASE StartFails BY <1>3 DEF StartFails
<1>4. CASE RollbackPost BY <1>4 DEF RollbackPost
<1>5. CASE RollbackJoin BY <1>5 DEF RollbackJoin
<1>6. ASSUME NEW w \in Workers, StartWorker(w) PROVE TypeOK'
  BY <1>6 DEF StartWorker
<1>7. ASSUME NEW o \in Owners, Owner(o) PROVE TypeOK'
  <2>1. CASE CallReserve(o) BY <2>1 DEF CallReserve
  <2>2. CASE BootstrapReturns(o) BY SlotArithmetic, <2>2 DEF BootstrapReturns
  <2>3. CASE ReserveHit(o) BY <2>3 DEF ReserveHit
  <2>4. CASE ReserveMiss(o) BY SlotArithmetic, <2>4 DEF ReserveMiss
  <2>5. CASE LeaseAllocated(o) BY <2>5 DEF LeaseAllocated
  <2>6. CASE LeaseAllocFails(o) BY <2>6 DEF LeaseAllocFails
  <2>7. CASE ReserveReturns(o) BY <2>7 DEF ReserveReturns
  <2>8. CASE ControlBlockFails(o) BY <2>8 DEF ControlBlockFails
  <2>9. CASE Publish(o) BY <2>9 DEF Publish
  <2>10. CASE DropLease(o) BY <2>10 DEF DropLease
  <2>11. CASE RetireNull(o) BY SlotArithmetic, <2>11 DEF RetireNull
  <2>12. CASE StoreHandle(o) BY <2>12 DEF StoreHandle
  <2>13. CASE StoreQueued(o) BY SlotArithmetic, <2>13 DEF StoreQueued
  <2>14. CASE PostWork(o) BY <2>14 DEF PostWork
  <2> QED BY <1>7, <2>1, <2>2, <2>3, <2>4, <2>5, <2>6, <2>7, <2>8, <2>9,
             <2>10, <2>11, <2>12, <2>13, <2>14 DEF Owner
<1>8. ASSUME NEW w \in Workers, Worker(w) PROVE TypeOK'
  <2>1. CASE SemWait(w) BY <2>1 DEF SemWait
  <2>2. CASE SemWaitFails(w) BY <2>2 DEF SemWaitFails
  <2>3. CASE LoadStop(w) BY <2>3 DEF LoadStop
  <2>4. CASE ScanHit(w) BY <2>4 DEF ScanHit
  <2>5. CASE ScanMiss(w) BY SlotArithmetic, <2>5 DEF ScanMiss
  <2>6. CASE TerminateDestroy(w) BY <2>6 DEF TerminateDestroy
  <2>7. CASE ClearHandle(w) BY <2>7 DEF ClearHandle
  <2>8. CASE FreeSlot(w) BY SlotArithmetic, <2>8 DEF FreeSlot
  <2> QED BY <1>8, <2>1, <2>2, <2>3, <2>4, <2>5, <2>6, <2>7, <2>8 DEF Worker
<1>9. CASE UNCHANGED vars BY <1>9 DEF vars
<1> QED BY <1>1, <1>2, <1>3, <1>4, <1>5, <1>6, <1>7, <1>8, <1>9 DEF Next, Bootstrap

\* Every variable keeps its type: no scan position leaves m_slots, no slot
\* holds anything but a handle or null.
THEOREM TypeCorrect == Spec => []TypeOK
<1> QED BY InitTypeOK, TypeOKStep, PTL DEF Spec

-----------------------------------------------------------------------------
(* Who owns a slot.                                                          *)

\* Which steps are possible in which phase of bootstrap().
BootInv ==
  /\ once = "untried" => started = {}
  /\ once \in {"untried", "starting"} =>
        sem = 0 /\ \A w \in Workers : wpc[w] \in {"off", "wait", "exited"}
  /\ stop => \A w \in Workers : wpc[w] # "scan"
  /\ once \in {"untried", "starting", "ready"} => ~stop
  /\ once = "rollback" => stop
  /\ once = "ready" => started = Workers
  /\ once = "failed" => \A w \in Workers : wpc[w] \in {"off", "exited"}
  /\ \A w \in Workers : w \notin started => wpc[w] = "off"
  /\ \A o \in Owners : opc[o] \notin {"idle", "bootstrap"} => once = "ready"
  /\ \A w \in Workers : wpc[w] \in Destruction => once = "ready"
  /\ \A s \in Slots : state[s] # "Free" => once = "ready"

\* SlotHasOneHolder, thread by thread.
HolderInv ==
  /\ \A o \in Owners : opc[o] \in Holding => state[opos[o]] = "Reserved"
  /\ \A w \in Workers : wpc[w] \in Destruction => state[wpos[w]] = "Destroying"
  /\ \A o, p \in Owners : o # p /\ opc[o] \in Holding /\ opc[p] \in Holding
                            => opos[o] # opos[p]
  /\ \A v, w \in Workers : v # w /\ wpc[v] \in Destruction /\ wpc[w] \in Destruction
                             => wpos[v] # wpos[w]
  /\ \A s \in Slots : state[s] = "Reserved" =>
        \E o \in Owners : opc[o] \in Holding /\ opos[o] = s
  /\ \A s \in Slots : state[s] = "Destroying" =>
        \E w \in Workers : wpc[w] \in Destruction /\ wpos[w] = s

\* The scan of a worker starts at the first slot.
ScanStartInv == \A w \in Workers : wpc[w] \in {"off", "wait", "woken"} => wpos[w] = 0

\* Every step of bootstrap(), of an owner and of a worker keeps BootInv: slots
\* are touched only once the service is ready, and a failed one has no workers.
LEMMA BootInvStep == TypeOK /\ BootInv /\ [Next]_vars => BootInv'
<1> SUFFICES ASSUME TypeOK /\ BootInv, [Next]_vars PROVE BootInv'
  OBVIOUS
<1> USE DEF BootInv, TypeOK, bootVars, slotVars, workerVars, ownerVars, OwnerGoes, WorkerGoes,
           Holding, Destruction, OncePhases, SlotStates, WorkerSteps, OwnerSteps
<1>1. CASE PinFails BY <1>1 DEF PinFails
<1>2. CASE SemInit BY <1>2 DEF SemInit
<1>3. CASE StartFails BY <1>3 DEF StartFails
<1>4. CASE RollbackPost BY <1>4 DEF RollbackPost
<1>5. CASE RollbackJoin BY <1>5 DEF RollbackJoin
<1>6. ASSUME NEW w \in Workers, StartWorker(w) PROVE BootInv'
  BY <1>6 DEF StartWorker
<1>7. ASSUME NEW o \in Owners, Owner(o) PROVE BootInv'
  <2>1. CASE CallReserve(o) BY <2>1 DEF CallReserve
  <2>2. CASE BootstrapReturns(o) BY <2>2 DEF BootstrapReturns
  <2>3. CASE ReserveHit(o) BY <2>3 DEF ReserveHit
  <2>4. CASE ReserveMiss(o) BY <2>4 DEF ReserveMiss
  <2>5. CASE LeaseAllocated(o) BY <2>5 DEF LeaseAllocated
  <2>6. CASE LeaseAllocFails(o) BY <2>6 DEF LeaseAllocFails
  <2>7. CASE ReserveReturns(o) BY <2>7 DEF ReserveReturns
  <2>8. CASE ControlBlockFails(o) BY <2>8 DEF ControlBlockFails
  <2>9. CASE Publish(o) BY <2>9 DEF Publish
  <2>10. CASE DropLease(o) BY <2>10 DEF DropLease
  <2>11. CASE RetireNull(o) BY <2>11 DEF RetireNull
  <2>12. CASE StoreHandle(o) BY <2>12 DEF StoreHandle
  <2>13. CASE StoreQueued(o) BY <2>13 DEF StoreQueued
  <2>14. CASE PostWork(o) BY <2>14 DEF PostWork
  <2> QED BY <1>7, <2>1, <2>2, <2>3, <2>4, <2>5, <2>6, <2>7, <2>8, <2>9, <2>10, <2>11, <2>12, <2>13, <2>14 DEF Owner
<1>8. ASSUME NEW w \in Workers, Worker(w) PROVE BootInv'
  <2>1. CASE SemWait(w) BY <2>1 DEF SemWait
  <2>2. CASE SemWaitFails(w) BY <2>2 DEF SemWaitFails
  <2>3. CASE LoadStop(w) BY <2>3 DEF LoadStop
  <2>4. CASE ScanHit(w) BY <2>4 DEF ScanHit
  <2>5. CASE ScanMiss(w) BY <2>5 DEF ScanMiss
  <2>6. CASE TerminateDestroy(w) BY <2>6 DEF TerminateDestroy
  <2>7. CASE ClearHandle(w) BY <2>7 DEF ClearHandle
  <2>8. CASE FreeSlot(w) BY <2>8 DEF FreeSlot
  <2> QED BY <1>8, <2>1, <2>2, <2>3, <2>4, <2>5, <2>6, <2>7, <2>8 DEF Worker
<1>9. CASE UNCHANGED vars BY <1>9 DEF vars
<1> QED BY <1>1, <1>2, <1>3, <1>4, <1>5, <1>6, <1>7, <1>8, <1>9 DEF Next, Bootstrap

\* Every step keeps the agreement of slot states and program counters: the
\* compare-exchanges of reserve() and drain() hand a slot on, never out twice.
LEMMA HolderInvStep == TypeOK /\ HolderInv /\ BootInv /\ [Next]_vars => HolderInv'
<1> SUFFICES ASSUME TypeOK /\ HolderInv /\ BootInv, [Next]_vars PROVE HolderInv'
  OBVIOUS
<1> USE DEF HolderInv, BootInv, TypeOK, bootVars, slotVars, workerVars, ownerVars, OwnerGoes, WorkerGoes,
           Holding, Destruction, OncePhases, SlotStates, WorkerSteps, OwnerSteps
<1>1. CASE PinFails BY <1>1 DEF PinFails
<1>2. CASE SemInit BY <1>2 DEF SemInit
<1>3. CASE StartFails BY <1>3 DEF StartFails
<1>4. CASE RollbackPost BY <1>4 DEF RollbackPost
<1>5. CASE RollbackJoin BY <1>5 DEF RollbackJoin
<1>6. ASSUME NEW w \in Workers, StartWorker(w) PROVE HolderInv'
  BY <1>6 DEF StartWorker
<1>7. ASSUME NEW o \in Owners, Owner(o) PROVE HolderInv'
  <2>1. CASE CallReserve(o) BY <2>1 DEF CallReserve
  <2>2. CASE BootstrapReturns(o) BY <2>2 DEF BootstrapReturns
  <2>3. CASE ReserveHit(o) BY <2>3 DEF ReserveHit
  <2>4. CASE ReserveMiss(o) BY <2>4 DEF ReserveMiss
  <2>5. CASE LeaseAllocated(o) BY <2>5 DEF LeaseAllocated
  <2>6. CASE LeaseAllocFails(o) BY <2>6 DEF LeaseAllocFails
  <2>7. CASE ReserveReturns(o) BY <2>7 DEF ReserveReturns
  <2>8. CASE ControlBlockFails(o) BY <2>8 DEF ControlBlockFails
  <2>9. CASE Publish(o) BY <2>9 DEF Publish
  <2>10. CASE DropLease(o) BY <2>10 DEF DropLease
  <2>11. CASE RetireNull(o) BY <2>11 DEF RetireNull
  <2>12. CASE StoreHandle(o) BY <2>12 DEF StoreHandle
  <2>13. CASE StoreQueued(o) BY <2>13 DEF StoreQueued
  <2>14. CASE PostWork(o) BY <2>14 DEF PostWork
  <2> QED BY <1>7, <2>1, <2>2, <2>3, <2>4, <2>5, <2>6, <2>7, <2>8, <2>9, <2>10, <2>11, <2>12, <2>13, <2>14 DEF Owner
<1>8. ASSUME NEW w \in Workers, Worker(w) PROVE HolderInv'
  <2>1. CASE SemWait(w) BY <2>1 DEF SemWait
  <2>2. CASE SemWaitFails(w) BY <2>2 DEF SemWaitFails
  <2>3. CASE LoadStop(w) BY <2>3 DEF LoadStop
  <2>4. CASE ScanHit(w) BY <2>4 DEF ScanHit
  <2>5. CASE ScanMiss(w) BY <2>5 DEF ScanMiss
  <2>6. CASE TerminateDestroy(w) BY <2>6 DEF TerminateDestroy
  <2>7. CASE ClearHandle(w) BY <2>7 DEF ClearHandle
  <2>8. CASE FreeSlot(w) BY <2>8 DEF FreeSlot
  <2> QED BY <1>8, <2>1, <2>2, <2>3, <2>4, <2>5, <2>6, <2>7, <2>8 DEF Worker
<1>9. CASE UNCHANGED vars BY <1>9 DEF vars
<1> QED BY <1>1, <1>2, <1>3, <1>4, <1>5, <1>6, <1>7, <1>8, <1>9 DEF Next, Bootstrap

\* Every step keeps ScanStartInv: drain() declares a new index for each token.
LEMMA ScanStartInvStep == TypeOK /\ ScanStartInv /\ [Next]_vars => ScanStartInv'
<1> SUFFICES ASSUME TypeOK /\ ScanStartInv, [Next]_vars PROVE ScanStartInv'
  OBVIOUS
<1> USE DEF ScanStartInv, TypeOK, bootVars, slotVars, workerVars, ownerVars, OwnerGoes, WorkerGoes,
           Holding, Destruction, OncePhases, SlotStates, WorkerSteps, OwnerSteps
<1>1. CASE PinFails BY <1>1 DEF PinFails
<1>2. CASE SemInit BY <1>2 DEF SemInit
<1>3. CASE StartFails BY <1>3 DEF StartFails
<1>4. CASE RollbackPost BY <1>4 DEF RollbackPost
<1>5. CASE RollbackJoin BY <1>5 DEF RollbackJoin
<1>6. ASSUME NEW w \in Workers, StartWorker(w) PROVE ScanStartInv'
  BY <1>6 DEF StartWorker
<1>7. ASSUME NEW o \in Owners, Owner(o) PROVE ScanStartInv'
  <2>1. CASE CallReserve(o) BY <2>1 DEF CallReserve
  <2>2. CASE BootstrapReturns(o) BY <2>2 DEF BootstrapReturns
  <2>3. CASE ReserveHit(o) BY <2>3 DEF ReserveHit
  <2>4. CASE ReserveMiss(o) BY <2>4 DEF ReserveMiss
  <2>5. CASE LeaseAllocated(o) BY <2>5 DEF LeaseAllocated
  <2>6. CASE LeaseAllocFails(o) BY <2>6 DEF LeaseAllocFails
  <2>7. CASE ReserveReturns(o) BY <2>7 DEF ReserveReturns
  <2>8. CASE ControlBlockFails(o) BY <2>8 DEF ControlBlockFails
  <2>9. CASE Publish(o) BY <2>9 DEF Publish
  <2>10. CASE DropLease(o) BY <2>10 DEF DropLease
  <2>11. CASE RetireNull(o) BY <2>11 DEF RetireNull
  <2>12. CASE StoreHandle(o) BY <2>12 DEF StoreHandle
  <2>13. CASE StoreQueued(o) BY <2>13 DEF StoreQueued
  <2>14. CASE PostWork(o) BY <2>14 DEF PostWork
  <2> QED BY <1>7, <2>1, <2>2, <2>3, <2>4, <2>5, <2>6, <2>7, <2>8, <2>9, <2>10, <2>11, <2>12, <2>13, <2>14 DEF Owner
<1>8. ASSUME NEW w \in Workers, Worker(w) PROVE ScanStartInv'
  <2>1. CASE SemWait(w) BY <2>1 DEF SemWait
  <2>2. CASE SemWaitFails(w) BY <2>2 DEF SemWaitFails
  <2>3. CASE LoadStop(w) BY <2>3 DEF LoadStop
  <2>4. CASE ScanHit(w) BY <2>4 DEF ScanHit
  <2>5. CASE ScanMiss(w) BY <2>5 DEF ScanMiss
  <2>6. CASE TerminateDestroy(w) BY <2>6 DEF TerminateDestroy
  <2>7. CASE ClearHandle(w) BY <2>7 DEF ClearHandle
  <2>8. CASE FreeSlot(w) BY <2>8 DEF FreeSlot
  <2> QED BY <1>8, <2>1, <2>2, <2>3, <2>4, <2>5, <2>6, <2>7, <2>8 DEF Worker
<1>9. CASE UNCHANGED vars BY <1>9 DEF vars
<1> QED BY <1>1, <1>2, <1>3, <1>4, <1>5, <1>6, <1>7, <1>8, <1>9 DEF Next, Bootstrap


-----------------------------------------------------------------------------
(* Who holds a handle.                                                       *)

\* A lease holds a handle from publish() until its destructor has moved it.
LeaseInv == \A o \in Owners :
  /\ lease[o] # NoHandle => opc[o] \in {"published", "retire"}
  /\ opc[o] = "published" => lease[o] # NoHandle

\* Every step keeps LeaseInv: only publish() gives a lease a core, and retire()
\* takes it away before the slot is queued.
LEMMA LeaseInvStep == TypeOK /\ LeaseInv /\ [Next]_vars => LeaseInv'
<1> SUFFICES ASSUME TypeOK /\ LeaseInv, [Next]_vars PROVE LeaseInv'
  OBVIOUS
<1> USE DEF LeaseInv, TypeOK, bootVars, slotVars, workerVars, ownerVars, OwnerGoes, WorkerGoes,
           Holding, Destruction, OncePhases, SlotStates, WorkerSteps, OwnerSteps
<1>1. CASE PinFails BY <1>1 DEF PinFails
<1>2. CASE SemInit BY <1>2 DEF SemInit
<1>3. CASE StartFails BY <1>3 DEF StartFails
<1>4. CASE RollbackPost BY <1>4 DEF RollbackPost
<1>5. CASE RollbackJoin BY <1>5 DEF RollbackJoin
<1>6. ASSUME NEW w \in Workers, StartWorker(w) PROVE LeaseInv'
  BY <1>6 DEF StartWorker
<1>7. ASSUME NEW o \in Owners, Owner(o) PROVE LeaseInv'
  <2>1. CASE CallReserve(o) BY <2>1 DEF CallReserve
  <2>2. CASE BootstrapReturns(o) BY <2>2 DEF BootstrapReturns
  <2>3. CASE ReserveHit(o) BY <2>3 DEF ReserveHit
  <2>4. CASE ReserveMiss(o) BY <2>4 DEF ReserveMiss
  <2>5. CASE LeaseAllocated(o) BY <2>5 DEF LeaseAllocated
  <2>6. CASE LeaseAllocFails(o) BY <2>6 DEF LeaseAllocFails
  <2>7. CASE ReserveReturns(o) BY <2>7 DEF ReserveReturns
  <2>8. CASE ControlBlockFails(o) BY <2>8 DEF ControlBlockFails
  <2>9. CASE Publish(o) BY <2>9, NoHandleAssumption DEF Publish
  <2>10. CASE DropLease(o) BY <2>10 DEF DropLease
  <2>11. CASE RetireNull(o) BY <2>11 DEF RetireNull
  <2>12. CASE StoreHandle(o) BY <2>12 DEF StoreHandle
  <2>13. CASE StoreQueued(o) BY <2>13 DEF StoreQueued
  <2>14. CASE PostWork(o) BY <2>14 DEF PostWork
  <2> QED BY <1>7, <2>1, <2>2, <2>3, <2>4, <2>5, <2>6, <2>7, <2>8, <2>9, <2>10, <2>11, <2>12, <2>13, <2>14 DEF Owner
<1>8. ASSUME NEW w \in Workers, Worker(w) PROVE LeaseInv'
  <2>1. CASE SemWait(w) BY <2>1 DEF SemWait
  <2>2. CASE SemWaitFails(w) BY <2>2 DEF SemWaitFails
  <2>3. CASE LoadStop(w) BY <2>3 DEF LoadStop
  <2>4. CASE ScanHit(w) BY <2>4 DEF ScanHit
  <2>5. CASE ScanMiss(w) BY <2>5 DEF ScanMiss
  <2>6. CASE TerminateDestroy(w) BY <2>6 DEF TerminateDestroy
  <2>7. CASE ClearHandle(w) BY <2>7 DEF ClearHandle
  <2>8. CASE FreeSlot(w) BY <2>8 DEF FreeSlot
  <2> QED BY <1>8, <2>1, <2>2, <2>3, <2>4, <2>5, <2>6, <2>7, <2>8 DEF Worker
<1>9. CASE UNCHANGED vars BY <1>9 DEF vars
<1> QED BY <1>1, <1>2, <1>3, <1>4, <1>5, <1>6, <1>7, <1>8, <1>9 DEF Next, Bootstrap

\* Every step keeps HandleHasOneHolder: publish() gets a fresh address, retire()
\* moves it into its slot, mpv_terminate_destroy() ends it there.
LEMMA HandleHasOneHolderStep == TypeOK /\ BootInv /\ HolderInv /\ LeaseInv /\ HandleHasOneHolder /\ [Next]_vars => HandleHasOneHolder'
<1> SUFFICES ASSUME TypeOK /\ BootInv /\ HolderInv /\ LeaseInv /\ HandleHasOneHolder, [Next]_vars PROVE HandleHasOneHolder'
  OBVIOUS
<1> USE DEF HandleHasOneHolder, Pending, LeaseInv, HolderInv, BootInv, TypeOK, bootVars, slotVars, workerVars, ownerVars, OwnerGoes, WorkerGoes,
           Holding, Destruction, OncePhases, SlotStates, WorkerSteps, OwnerSteps
<1>1. CASE PinFails BY <1>1 DEF PinFails
<1>2. CASE SemInit BY <1>2 DEF SemInit
<1>3. CASE StartFails BY <1>3 DEF StartFails
<1>4. CASE RollbackPost BY <1>4 DEF RollbackPost
<1>5. CASE RollbackJoin BY <1>5 DEF RollbackJoin
<1>6. ASSUME NEW w \in Workers, StartWorker(w) PROVE HandleHasOneHolder'
  BY <1>6 DEF StartWorker
<1>7. ASSUME NEW o \in Owners, Owner(o) PROVE HandleHasOneHolder'
  <2>1. CASE CallReserve(o) BY <2>1 DEF CallReserve
  <2>2. CASE BootstrapReturns(o) BY <2>2 DEF BootstrapReturns
  <2>3. CASE ReserveHit(o) BY <2>3 DEF ReserveHit
  <2>4. CASE ReserveMiss(o) BY <2>4 DEF ReserveMiss
  <2>5. CASE LeaseAllocated(o) BY <2>5 DEF LeaseAllocated
  <2>6. CASE LeaseAllocFails(o) BY <2>6 DEF LeaseAllocFails
  <2>7. CASE ReserveReturns(o) BY <2>7 DEF ReserveReturns
  <2>8. CASE ControlBlockFails(o) BY <2>8 DEF ControlBlockFails
  <2>9. CASE Publish(o) BY <2>9, NoHandleAssumption DEF Publish
  <2>10. CASE DropLease(o) BY <2>10 DEF DropLease
  <2>11. CASE RetireNull(o) BY <2>11 DEF RetireNull
  <2>12. CASE StoreHandle(o) BY <2>12, NoHandleAssumption DEF StoreHandle
  <2>13. CASE StoreQueued(o) BY <2>13 DEF StoreQueued
  <2>14. CASE PostWork(o) BY <2>14, SMTT(60) DEF PostWork
  <2> QED BY <1>7, <2>1, <2>2, <2>3, <2>4, <2>5, <2>6, <2>7, <2>8, <2>9, <2>10, <2>11, <2>12, <2>13, <2>14 DEF Owner
<1>8. ASSUME NEW w \in Workers, Worker(w) PROVE HandleHasOneHolder'
  <2>1. CASE SemWait(w) BY <2>1 DEF SemWait
  <2>2. CASE SemWaitFails(w) BY <2>2, SMTT(60) DEF SemWaitFails
  <2>3. CASE LoadStop(w) BY <2>3 DEF LoadStop
  <2>4. CASE ScanHit(w) BY <2>4 DEF ScanHit
  <2>5. CASE ScanMiss(w) BY <2>5 DEF ScanMiss
  <2>6. CASE TerminateDestroy(w) BY <2>6 DEF TerminateDestroy
  <2>7. CASE ClearHandle(w) BY <2>7, NoHandleAssumption DEF ClearHandle
  <2>8. CASE FreeSlot(w) BY <2>8 DEF FreeSlot
  <2> QED BY <1>8, <2>1, <2>2, <2>3, <2>4, <2>5, <2>6, <2>7, <2>8 DEF Worker
<1>9. CASE UNCHANGED vars BY <1>9 DEF vars
<1> QED BY <1>1, <1>2, <1>3, <1>4, <1>5, <1>6, <1>7, <1>8, <1>9 DEF Next, Bootstrap


-----------------------------------------------------------------------------
(* Counting tokens, searchers and queued slots.                              *)

CountInv == QueueIsAccounted /\ SearchersWillFind

\* The sets that are counted are finite, so that their sizes are numbers.
LEMMA CountedSetsAreFinite ==
  ASSUME NEW p \in Slots
  PROVE  /\ IsFiniteSet(QueuedFrom(p))
         /\ IsFiniteSet(SearchersFrom(p))
         /\ IsFiniteSet(Posters)
         /\ Cardinality(QueuedFrom(p)) \in Nat
         /\ Cardinality(SearchersFrom(p)) \in Nat
         /\ Cardinality(Posters) \in Nat
<1>1. IsFiniteSet(Slots)
  BY CapacityAssumption, FS_Interval DEF Slots
<1>2. /\ IsFiniteSet(QueuedFrom(p))
      /\ IsFiniteSet(SearchersFrom(p))
      /\ IsFiniteSet(Posters)
  BY <1>1, ThreadAssumption, FS_Subset DEF QueuedFrom, SearchersFrom, Posters
<1> QED BY <1>2, FS_CardinalityType

\* A step that changes none of the counted sets keeps the counts.
LEMMA CountsUnchanged ==
  ASSUME CountInv, sem' = sem, stop' = stop,
         \A s \in Slots : state'[s] = "Queued" <=> state[s] = "Queued",
         \A w \in Workers : wpc'[w] \in Searching <=> wpc[w] \in Searching,
         \A w \in Workers : wpc[w] \in Searching => wpos'[w] = wpos[w],
         \A o \in Owners : opc'[o] = "post" <=> opc[o] = "post"
  PROVE  CountInv'
<1>1. Posters' = Posters
  BY DEF Posters
<1>2. ASSUME NEW p \in Slots
      PROVE  QueuedFrom(p)' = QueuedFrom(p) /\ SearchersFrom(p)' = SearchersFrom(p)
  BY DEF QueuedFrom, SearchersFrom
<1> QED BY <1>1, <1>2, SlotArithmetic DEF CountInv, QueueIsAccounted, SearchersWillFind

\* A worker whose scan reached the last slot finds it Queued: it is counted
\* among the searchers there, so by SearchersWillFind the slot must be.
LEMMA NoVainScan ==
  ASSUME TypeOK, CountInv, ~stop,
         NEW w \in Workers, wpc[w] = "scan", wpos[w] = Capacity - 1
  PROVE  state[wpos[w]] = "Queued"
<1> DEFINE s == wpos[w]
<1>1. s \in Slots /\ w \in SearchersFrom(s)
  BY CapacityAssumption DEF TypeOK, SearchersFrom, Searching, Slots
<1>2. Cardinality(SearchersFrom(s)) # 0
  BY <1>1, CountedSetsAreFinite, FS_EmptySet
<1>3. Cardinality(QueuedFrom(s)) # 0
  BY <1>1, <1>2, CountedSetsAreFinite DEF CountInv, SearchersWillFind
<1>4. QueuedFrom(s) # {}
  BY <1>1, <1>3, CountedSetsAreFinite, FS_EmptySet
<1>5. \A t \in Slots : t >= s => t = s
  BY <1>1, CapacityAssumption DEF Slots
<1> QED BY <1>4, <1>5 DEF QueuedFrom

\* Every step keeps the counts: a token is posted per Queued slot and spent by
\* the worker that goes on to find one at or after its scan position.
LEMMA CountInvStep == TypeOK /\ BootInv /\ HolderInv /\ ScanStartInv /\ CountInv /\ [Next]_vars => CountInv'
<1> SUFFICES ASSUME TypeOK /\ BootInv /\ HolderInv /\ ScanStartInv /\ CountInv, [Next]_vars PROVE CountInv'
  OBVIOUS
<1> USE DEF BootInv, HolderInv, Searching, TypeOK, bootVars, slotVars, workerVars, ownerVars, OwnerGoes, WorkerGoes,
           Holding, Destruction, OncePhases, SlotStates, WorkerSteps, OwnerSteps
<1>1. CASE PinFails BY <1>1, CountsUnchanged DEF PinFails
<1>2. CASE SemInit BY <1>2, CountsUnchanged DEF SemInit
<1>3. CASE StartFails BY <1>3 DEF StartFails, CountInv, QueueIsAccounted, SearchersWillFind
<1>4. CASE RollbackPost BY <1>4 DEF RollbackPost, CountInv, QueueIsAccounted, SearchersWillFind
<1>5. CASE RollbackJoin BY <1>5, CountsUnchanged DEF RollbackJoin
<1>6. ASSUME NEW w \in Workers, StartWorker(w) PROVE CountInv'
  BY <1>6, CountsUnchanged DEF StartWorker
<1>7. ASSUME NEW o \in Owners, Owner(o) PROVE CountInv'
  <2>1. CASE CallReserve(o) BY <2>1, CountsUnchanged DEF CallReserve
  <2>2. CASE BootstrapReturns(o) BY <2>2, CountsUnchanged DEF BootstrapReturns
  <2>3. CASE ReserveHit(o) BY <2>3, CountsUnchanged DEF ReserveHit
  <2>4. CASE ReserveMiss(o) BY <2>4, CountsUnchanged DEF ReserveMiss
  <2>5. CASE LeaseAllocated(o) BY <2>5, CountsUnchanged DEF LeaseAllocated
  <2>6. CASE LeaseAllocFails(o) BY <2>6, CountsUnchanged DEF LeaseAllocFails
  <2>7. CASE ReserveReturns(o) BY <2>7, CountsUnchanged DEF ReserveReturns
  <2>8. CASE ControlBlockFails(o) BY <2>8, CountsUnchanged DEF ControlBlockFails
  <2>9. CASE Publish(o) BY <2>9, CountsUnchanged DEF Publish
  <2>10. CASE DropLease(o) BY <2>10, CountsUnchanged DEF DropLease
  <2>11. CASE RetireNull(o) BY <2>11, CountsUnchanged DEF RetireNull
  <2>12. CASE StoreHandle(o) BY <2>12, CountsUnchanged DEF StoreHandle
  <2>13. CASE StoreQueued(o)
    <3> DEFINE s == opos[o]
    <3>1. s \in Slots /\ state[s] = "Reserved" /\ o \notin Posters
      BY <2>13 DEF StoreQueued, Posters
    <3>2. Posters' = Posters \cup {o}
      BY <2>13 DEF StoreQueued, Posters
    <3>3. ASSUME NEW p \in Slots
          PROVE  /\ SearchersFrom(p)' = SearchersFrom(p)
                 /\ s >= p => QueuedFrom(p)' = QueuedFrom(p) \cup {s}
                 /\ ~(s >= p) => QueuedFrom(p)' = QueuedFrom(p)
      BY <2>13, <3>1 DEF StoreQueued, SearchersFrom, QueuedFrom
    <3>4. Cardinality(Posters') = Cardinality(Posters) + 1
      BY <3>1, <3>2, SlotArithmetic, CountedSetsAreFinite, FS_AddElement
    <3>5. ASSUME NEW p \in Slots
          PROVE  /\ s >= p => Cardinality(QueuedFrom(p)') = Cardinality(QueuedFrom(p)) + 1
                 /\ ~(s >= p) => Cardinality(QueuedFrom(p)') = Cardinality(QueuedFrom(p))
      <4>1. s \notin QueuedFrom(p)
        BY <3>1 DEF QueuedFrom
      <4>2. CASE s >= p
        <5>1. QueuedFrom(p)' = QueuedFrom(p) \cup {s}
          BY <3>3, <4>2
        <5>2. IsFiniteSet(QueuedFrom(p))
          BY CountedSetsAreFinite
        <5>3. Cardinality(QueuedFrom(p) \cup {s}) = Cardinality(QueuedFrom(p)) + 1
          BY <4>1, <5>2, FS_AddElement
        <5> QED BY <4>2, <5>1, <5>3
      <4>3. CASE ~(s >= p)
        BY <3>3, <4>3
      <4> QED BY <4>2, <4>3
    <3>6. sem' = sem /\ stop' = stop /\ s >= 0
      BY <2>13, <3>1 DEF StoreQueued, Slots
    <3> HIDE DEF s
    <3> QED BY <3>3, <3>4, <3>5, <3>6, SlotArithmetic, CountedSetsAreFinite
            DEF CountInv, QueueIsAccounted, SearchersWillFind
  <2>14. CASE PostWork(o)
    <3>1. o \in Posters /\ Posters' = Posters \ {o}
      BY <2>14 DEF PostWork, Posters
    <3>2. ASSUME NEW p \in Slots
          PROVE  QueuedFrom(p)' = QueuedFrom(p) /\ SearchersFrom(p)' = SearchersFrom(p)
      BY <2>14 DEF PostWork, QueuedFrom, SearchersFrom
    <3>3. Cardinality(Posters') = Cardinality(Posters) - 1
      BY <3>1, SlotArithmetic, CountedSetsAreFinite, FS_RemoveElement
    <3>4. sem' = sem + 1 /\ stop' = stop
      BY <2>14 DEF PostWork
    <3> QED BY <3>2, <3>3, <3>4, SlotArithmetic, CountedSetsAreFinite
            DEF CountInv, QueueIsAccounted, SearchersWillFind
  <2> QED BY <1>7, <2>1, <2>2, <2>3, <2>4, <2>5, <2>6, <2>7, <2>8, <2>9, <2>10, <2>11, <2>12, <2>13, <2>14 DEF Owner
<1>8. ASSUME NEW w \in Workers, Worker(w) PROVE CountInv'
  <2>1. CASE SemWait(w)
    <3>1. wpos[w] = 0 /\ sem > 0 /\ sem' = sem - 1 /\ stop' = stop
      BY <2>1 DEF SemWait, ScanStartInv
    <3>2. w \notin SearchersFrom(0) /\ SearchersFrom(0)' = SearchersFrom(0) \cup {w}
      BY <2>1, <3>1 DEF SemWait, SearchersFrom
    <3>3. ASSUME NEW p \in Slots, p # 0 PROVE SearchersFrom(p)' = SearchersFrom(p)
      BY <2>1, <3>1, <3>3 DEF SemWait, SearchersFrom, Slots
    <3>4. Posters' = Posters /\ \A p \in Slots : QueuedFrom(p)' = QueuedFrom(p)
      BY <2>1 DEF SemWait, Posters, QueuedFrom
    <3>5. Cardinality(SearchersFrom(0)') = Cardinality(SearchersFrom(0)) + 1
      BY <3>2, SlotArithmetic, CountedSetsAreFinite, FS_AddElement
    <3> QED BY <3>1, <3>3, <3>4, <3>5, SlotArithmetic, CountedSetsAreFinite
            DEF CountInv, QueueIsAccounted, SearchersWillFind
  <2>2. CASE SemWaitFails(w) BY <2>2, CountsUnchanged DEF SemWaitFails
  <2>3. CASE LoadStop(w)
    <3>1. CASE stop
      BY <2>3, <3>1 DEF LoadStop, CountInv, QueueIsAccounted, SearchersWillFind
    <3>2. CASE ~stop
      BY <2>3, <3>2, CountsUnchanged DEF LoadStop
    <3> QED BY <3>1, <3>2
  <2>4. CASE ScanHit(w)
    <3> DEFINE s == wpos[w]
    <3>1. /\ s \in Slots /\ s >= 0
          /\ sem' = sem /\ stop' = stop /\ Posters' = Posters
      BY <2>4 DEF ScanHit, Posters, Slots
    <3>2. ASSUME NEW p \in Slots, s >= p
          PROVE  /\ s \in QueuedFrom(p) /\ QueuedFrom(p)' = QueuedFrom(p) \ {s}
                 /\ w \in SearchersFrom(p) /\ SearchersFrom(p)' = SearchersFrom(p) \ {w}
      BY <2>4, <3>2 DEF ScanHit, QueuedFrom, SearchersFrom
    <3>3. ASSUME NEW p \in Slots, ~(s >= p)
          PROVE  QueuedFrom(p)' = QueuedFrom(p) /\ SearchersFrom(p)' = SearchersFrom(p)
      BY <2>4, <3>3 DEF ScanHit, QueuedFrom, SearchersFrom
    <3>4. ASSUME NEW p \in Slots, s >= p
          PROVE  /\ Cardinality(QueuedFrom(p)') = Cardinality(QueuedFrom(p)) - 1
                 /\ Cardinality(SearchersFrom(p)') = Cardinality(SearchersFrom(p)) - 1
      BY <3>2, <3>4, CountedSetsAreFinite, FS_RemoveElement
    <3> HIDE DEF s
    <3> QED BY <3>1, <3>3, <3>4, SlotArithmetic, CountedSetsAreFinite
            DEF CountInv, QueueIsAccounted, SearchersWillFind
  <2>5. CASE ScanMiss(w)
    <3> PICK s \in Slots : s = wpos[w]
      OBVIOUS
    <3>1. /\ s >= 0 /\ state[s] # "Queued"
          /\ sem' = sem /\ stop' = stop /\ Posters' = Posters
          /\ \A p \in Slots : QueuedFrom(p)' = QueuedFrom(p)
      BY <2>5 DEF ScanMiss, Posters, QueuedFrom, Slots
    <3>2. CASE stop
      BY <3>1, <3>2 DEF CountInv, QueueIsAccounted, SearchersWillFind
    <3>3. ASSUME ~stop PROVE s # Capacity - 1
      BY <2>5, <3>3, NoVainScan DEF ScanMiss
    <3>4. CASE ~stop
      <4>1. /\ s + 1 \in Slots
            /\ wpc' = wpc /\ wpos' = [wpos EXCEPT ![w] = s + 1]
        BY <2>5, <3>3, <3>4, SlotArithmetic DEF ScanMiss
      <4>2. ASSUME NEW p \in Slots, p # s + 1 PROVE SearchersFrom(p)' = SearchersFrom(p)
        BY <2>5, <4>1, <4>2 DEF ScanMiss, SearchersFrom, Slots
      <4>3. QueuedFrom(s + 1) = QueuedFrom(s)
        BY <3>1 DEF QueuedFrom, Slots
      <4>4. SearchersFrom(s + 1)' \subseteq SearchersFrom(s)
        BY <2>5, <4>1 DEF ScanMiss, SearchersFrom, Slots
      <4>5. Cardinality(SearchersFrom(s + 1)') <= Cardinality(SearchersFrom(s))
        BY <3>1, <4>4, CountedSetsAreFinite, FS_Subset
      <4>6. Cardinality(SearchersFrom(s + 1)') \in Nat
        BY <3>1, <4>4, CountedSetsAreFinite, FS_Subset, FS_CardinalityType
      <4>7. ASSUME NEW p \in Slots
            PROVE Cardinality(SearchersFrom(p)') <= Cardinality(QueuedFrom(p)')
        <5>1. CASE p = s + 1
          <6>1. Cardinality(SearchersFrom(s)) <= Cardinality(QueuedFrom(s))
            BY <3>4 DEF CountInv, SearchersWillFind
          <6>2. Cardinality(QueuedFrom(p)') = Cardinality(QueuedFrom(s))
            BY <3>1, <4>3, <5>1
          <6> QED BY <4>5, <4>6, <5>1, <6>1, <6>2, CountedSetsAreFinite
        <5>2. CASE p # s + 1
          BY <3>1, <3>4, <4>2, <5>2 DEF CountInv, SearchersWillFind
        <5> QED BY <5>1, <5>2
      <4>8. SearchersFrom(0)' = SearchersFrom(0)
        BY <3>1, <4>2, SlotArithmetic DEF Slots
      <4> QED BY <3>1, <4>7, <4>8, SlotArithmetic DEF CountInv, QueueIsAccounted, SearchersWillFind
    <3> QED BY <3>2, <3>4
  <2>6. CASE TerminateDestroy(w) BY <2>6, CountsUnchanged DEF TerminateDestroy
  <2>7. CASE ClearHandle(w) BY <2>7, CountsUnchanged DEF ClearHandle
  <2>8. CASE FreeSlot(w) BY <2>8, CountsUnchanged DEF FreeSlot
  <2> QED BY <1>8, <2>1, <2>2, <2>3, <2>4, <2>5, <2>6, <2>7, <2>8 DEF Worker
<1>9. CASE UNCHANGED vars BY <1>9, CountsUnchanged DEF vars
<1> QED BY <1>1, <1>2, <1>3, <1>4, <1>5, <1>6, <1>7, <1>8, <1>9 DEF Next, Bootstrap

-----------------------------------------------------------------------------
(* The theorems.                                                             *)

\* The inductive invariant: each part relies on the ones before it.
IInv == /\ TypeOK /\ BootInv /\ HolderInv /\ ScanStartInv
        /\ LeaseInv /\ HandleHasOneHolder /\ CountInv

\* The empty service satisfies the inductive invariant.
LEMMA InitIInv == Init => IInv
<1> SUFFICES ASSUME Init PROVE IInv
  OBVIOUS
<1>1. TypeOK
  BY InitTypeOK
<1>2. BootInv /\ HolderInv /\ ScanStartInv /\ LeaseInv
  BY DEF Init, BootInv, HolderInv, ScanStartInv, LeaseInv, Holding, Destruction
<1>3. HandleHasOneHolder
  BY DEF Init, HandleHasOneHolder, Pending
<1>4. Posters = {} /\ \A p \in Slots : QueuedFrom(p) = {} /\ SearchersFrom(p) = {}
  BY DEF Init, Posters, QueuedFrom, SearchersFrom, Searching
<1>5. CountInv
  BY <1>4, SlotArithmetic, FS_EmptySet
     DEF Init, CountInv, QueueIsAccounted, SearchersWillFind
<1> QED BY <1>1, <1>2, <1>3, <1>5 DEF IInv

\* The inductive invariant holds in every reachable state of the service.
THEOREM Invariance == Spec => []IInv
<1>1. IInv /\ [Next]_vars => IInv'
  BY TypeOKStep, BootInvStep, HolderInvStep, ScanStartInvStep, LeaseInvStep,
     HandleHasOneHolderStep, CountInvStep DEF IInv
<1> QED BY InitIInv, <1>1, PTL DEF Spec

\* A slot has one holder, whatever the leases and workers do: neither a
\* reservation nor a destruction is ever shared.
THEOREM SlotsAreExclusive == Spec => []SlotHasOneHolder
<1>1. IInv => SlotHasOneHolder
  <2> SUFFICES ASSUME IInv, NEW s \in Slots
               PROVE  /\ state[s] \in {"Free", "Queued"} => SlotOwners(s) = {} /\ SlotWorkers(s) = {}
                      /\ state[s] = "Reserved" => SlotWorkers(s) = {} /\ \E o \in Owners : SlotOwners(s) = {o}
                      /\ state[s] = "Destroying" => SlotOwners(s) = {} /\ \E w \in Workers : SlotWorkers(s) = {w}
    BY DEF SlotHasOneHolder
  <2> USE DEF IInv, HolderInv, SlotOwners, SlotWorkers
  <2>1. state[s] # "Reserved" => SlotOwners(s) = {}
    OBVIOUS
  <2>2. state[s] # "Destroying" => SlotWorkers(s) = {}
    OBVIOUS
  <2>3. ASSUME state[s] = "Reserved" PROVE \E o \in Owners : SlotOwners(s) = {o}
    <3> PICK o \in Owners : opc[o] \in Holding /\ opos[o] = s
      BY <2>3
    <3> SlotOwners(s) = {o}
      OBVIOUS
    <3> QED OBVIOUS
  <2>4. ASSUME state[s] = "Destroying" PROVE \E w \in Workers : SlotWorkers(s) = {w}
    <3> PICK w \in Workers : wpc[w] \in Destruction /\ wpos[w] = s
      BY <2>4
    <3> SlotWorkers(s) = {w}
      OBVIOUS
    <3> QED OBVIOUS
  <2> QED BY <2>1, <2>2, <2>3, <2>4
<1> QED BY <1>1, Invariance, PTL

\* A live core is held in exactly one place and only live, retired cores are
\* passed to mpv_terminate_destroy: nothing leaks, nothing is destroyed twice.
THEOREM NoLeakNoDoubleDestroy == Spec => []HandleHasOneHolder
<1>1. IInv => HandleHasOneHolder
  BY DEF IInv
<1> QED BY <1>1, Invariance, PTL

\* No retirement is lost: the Queued slots are exactly accounted for by
\* semaphore tokens, searching workers and releasers about to post.
THEOREM NoLostRetirement == Spec => []QueueIsAccounted
<1>1. IInv => QueueIsAccounted
  BY DEF IInv, CountInv
<1> QED BY <1>1, Invariance, PTL

\* Every searching worker has a Queued slot ahead of it.
THEOREM NoSearcherIsDeceived == Spec => []SearchersWillFind
<1>1. IInv => SearchersWillFind
  BY DEF IInv, CountInv
<1> QED BY <1>1, Invariance, PTL

\* A core is admitted only after both workers started; a failed bootstrap
\* leaves no worker behind.
THEOREM BootstrapIsAtomic == Spec => []BootstrapAllOrNothing
<1>1. IInv => BootstrapAllOrNothing
  BY DEF IInv, BootInv, BootstrapAllOrNothing
<1> QED BY <1>1, Invariance, PTL

\* One pass over the slots always suffices for a worker that took a token.
THEOREM OneScanSuffices == Spec => TokenNeverWasted
<1>1. IInv /\ [Next]_vars => [\A w \in Workers : wpc[w] = "scan" => wpc'[w] # "wait"]_vars
  <2> SUFFICES ASSUME IInv, Next, NEW w \in Workers, wpc[w] = "scan"
               PROVE  wpc'[w] # "wait"
    OBVIOUS
  <2> USE DEF OwnerGoes, WorkerGoes, workerVars
  <2>1. ~stop /\ wpc \in [Workers -> WorkerSteps]
    BY DEF IInv, BootInv, TypeOK
  <2>2. CASE Bootstrap
    BY <2>1, <2>2 DEF Bootstrap, PinFails, SemInit, StartFails, RollbackPost, RollbackJoin, StartWorker
  <2>3. ASSUME NEW o \in Owners, Owner(o) PROVE wpc' = wpc
    BY <2>3 DEF Owner, CallReserve, BootstrapReturns, ReserveHit, ReserveMiss,
       LeaseAllocated, LeaseAllocFails, ReserveReturns, ControlBlockFails, Publish,
       DropLease, RetireNull, StoreHandle, StoreQueued, PostWork
  <2>4. ASSUME NEW v \in Workers, Worker(v) PROVE wpc'[w] # "wait"
    <3>1. CASE ScanMiss(v)
      BY <2>1, <3>1, NoVainScan DEF ScanMiss, IInv
    <3>2. CASE ~ScanMiss(v)
      BY <2>1, <2>4, <3>2 DEF Worker, SemWait, SemWaitFails, LoadStop, ScanHit,
         TerminateDestroy, ClearHandle, FreeSlot
    <3> QED BY <3>1, <3>2
  <2> QED BY <2>2, <2>3, <2>4 DEF Next
<1> QED BY <1>1, Invariance, PTL DEF Spec, TokenNeverWasted

-----------------------------------------------------------------------------
(* The service implements CoreLifecycle.                                     *)

\* Handle h will be destroyed through slot s.
Holds(h, s) == \/ \E p \in Owners : lease[p] = h /\ opos[p] = s
               \/ Pending(s) /\ handle[s] = h

\* While an owner has a lease without a core, fewer than Capacity cores live:
\* each live core has a slot of its own, and none of them is that lease's.
LEMMA RoomForOneMore ==
  ASSUME IInv, NEW o \in Owners, opc[o] = "leased"
  PROVE  IsFiniteSet(live) /\ Cardinality(live) < Capacity
<1> DEFINE others == Slots \ {opos[o]}
           f == [h \in live |-> CHOOSE s \in Slots : Holds(h, s)]
<1> USE DEF IInv, TypeOK, Holding, Destruction
<1>1. ASSUME NEW h \in live PROVE h \in Handles /\ \E s \in Slots : Holds(h, s)
  BY DEF HandleHasOneHolder, Holds
<1>2. ASSUME NEW h \in Handles PROVE ~Holds(h, opos[o])
  BY NoHandleAssumption DEF Holds, Pending, HolderInv, LeaseInv
<1>3. ASSUME NEW g \in Handles, NEW h \in Handles, NEW s \in Slots, Holds(g, s), Holds(h, s)
      PROVE  g = h
  <2>1. ASSUME NEW p \in Owners, lease[p] # NoHandle PROVE ~Pending(opos[p])
    BY <2>1 DEF Pending, HolderInv, LeaseInv
  <2>2. ASSUME NEW p \in Owners, NEW q \in Owners, opos[p] = opos[q],
               lease[p] # NoHandle, lease[q] # NoHandle
        PROVE  p = q
    BY <2>2 DEF HolderInv, LeaseInv
  <2> QED BY <1>3, <2>1, <2>2, NoHandleAssumption DEF Holds
<1>4. f \in Injection(live, others)
  <2>1. ASSUME NEW h \in live PROVE f[h] \in Slots /\ Holds(h, f[h])
    BY <1>1
  <2>2. f \in [live -> others]
    BY <1>1, <1>2, <2>1
  <2>3. \A g, h \in live : f[g] = f[h] => g = h
    <3> HIDE DEF f
    <3> QED BY <1>1, <1>3, <2>1
  <2> QED BY <2>2, <2>3 DEF Injection, IsInjective
<1>5. IsFiniteSet(Slots) /\ Cardinality(Slots) = Capacity
  BY CapacityAssumption, FS_Interval DEF Slots
<1>6. IsFiniteSet(others) /\ Cardinality(others) = Capacity - 1
  BY <1>5, FS_RemoveElement
<1>7. IsFiniteSet(live) /\ Cardinality(live) <= Cardinality(others)
  BY <1>4, <1>6, FS_Injection
<1>8. Cardinality(live) \in Nat
  BY <1>7, FS_CardinalityType
<1> QED BY <1>6, <1>7, <1>8, CapacityAssumption

\* A step that neither creates nor destroys a core, nor moves an owner into or
\* out of "published", is a stuttering step of the life cycle.
LEMMA PhaseUnchanged ==
  ASSUME live' = live,
         \A o \in Owners : opc[o] = "published" \/ opc'[o] = "published"
                          => opc'[o] = opc[o] /\ lease'[o] = lease[o]
  PROVE  CorePhase' = CorePhase
BY DEF CorePhase

\* Leases and workers together create, retire and destroy cores exactly as
\* CoreLifecycle allows, and never have more than Capacity of them.
THEOREM ImplementsLifecycle == Spec => LifecycleSafety
<1>1. Init => Lifecycle!Init
  BY DEF Init, Lifecycle!Init, CorePhase
<1>2. IInv /\ [Next]_vars => [Lifecycle!Next]_CorePhase
  <2> SUFFICES ASSUME IInv, [Next]_vars PROVE Lifecycle!Next \/ CorePhase' = CorePhase
    OBVIOUS
  <2> USE DEF IInv, TypeOK, OwnerGoes, WorkerGoes, ownerVars
  <2>1. ASSUME NEW o \in Owners, Publish(o) PROVE Lifecycle!Next
    <3> PICK h \in Handles \ live :
          /\ opc[o] = "leased" /\ opc' = [opc EXCEPT ![o] = "published"]
          /\ live' = live \cup {h} /\ lease' = [lease EXCEPT ![o] = h]
      BY <2>1 DEF Publish
    <3>1. Lifecycle!Outstanding = live
      BY DEF Lifecycle!Outstanding, CorePhase
    <3>2. Cardinality(live) < Capacity
      BY RoomForOneMore
    <3>3. CorePhase[h] = "none" /\ CorePhase' = [CorePhase EXCEPT ![h] = "owned"]
      <4>1. ASSUME NEW g \in Handles
            PROVE  CorePhase'[g] = IF g = h THEN "owned" ELSE CorePhase[g]
        <5>1. (\E p \in Owners : opc'[p] = "published" /\ lease'[p] = g)
                <=> g = h \/ \E p \in Owners : opc[p] = "published" /\ lease[p] = g
          OBVIOUS
        <5>2. g \in live' <=> g = h \/ g \in live
          OBVIOUS
        <5>3. CASE g = h
          BY <5>1, <5>2, <5>3 DEF CorePhase
        <5>4. CASE g # h
          <6>1. /\ g \in live' <=> g \in live
                /\ (\E p \in Owners : opc'[p] = "published" /\ lease'[p] = g)
                     <=> (\E p \in Owners : opc[p] = "published" /\ lease[p] = g)
            BY <5>1, <5>2, <5>4
          <6>2. CorePhase'[g] = CorePhase[g]
            BY <6>1, Zenon DEF CorePhase
          <6> QED BY <5>4, <6>2
        <5> QED BY <5>3, <5>4
      <4>2. CorePhase[h] = "none"
        BY DEF CorePhase
      <4>3. /\ CorePhase = [g \in Handles |-> CorePhase[g]]
            /\ CorePhase' = [g \in Handles |-> CorePhase'[g]]
        BY DEF CorePhase
      <4>4. [CorePhase EXCEPT ![h] = "owned"]
              = [g \in Handles |-> IF g = h THEN "owned" ELSE CorePhase[g]]
        BY <4>3
      <4>5. CorePhase' = [g \in Handles |-> IF g = h THEN "owned" ELSE CorePhase[g]]
        BY <4>1, <4>3
      <4> QED BY <4>2, <4>4, <4>5
    <3>4. Lifecycle!Cardinality(live) = Cardinality(live)
      BY DEF Lifecycle!Cardinality, Cardinality
    <3> QED BY <3>1, <3>2, <3>3, <3>4 DEF Lifecycle!Next, Lifecycle!Create
  <2>2. ASSUME NEW o \in Owners, DropLease(o) PROVE Lifecycle!Next \/ CorePhase' = CorePhase
    <3>1. CASE opc[o] = "leased"
      BY <2>2, <3>1, PhaseUnchanged DEF DropLease
    <3>2. CASE opc[o] = "published"
      <4> DEFINE h == lease[o]
      <4>1. h \in live /\ h \in Handles /\ CorePhase[h] = "owned"
        BY <3>2 DEF CorePhase, LeaseInv, HandleHasOneHolder
      <4>2. \A g \in Handles : CorePhase'[g] = IF g = h THEN "retired" ELSE CorePhase[g]
        BY <2>2, <3>2, <4>1 DEF DropLease, CorePhase, LeaseInv, HandleHasOneHolder
      <4>3. CorePhase' = [CorePhase EXCEPT ![h] = "retired"]
        BY <4>1, <4>2 DEF CorePhase
      <4> QED BY <4>1, <4>3 DEF Lifecycle!Next, Lifecycle!Retire
    <3> QED BY <2>2, <3>1, <3>2 DEF DropLease
  <2>3. ASSUME NEW o \in Owners, Owner(o), ~Publish(o), ~DropLease(o)
        PROVE  CorePhase' = CorePhase
    BY <2>3, PhaseUnchanged DEF Owner, CallReserve, BootstrapReturns, ReserveHit,
       ReserveMiss, LeaseAllocated, LeaseAllocFails, ReserveReturns, ControlBlockFails,
       RetireNull, StoreHandle, StoreQueued, PostWork
  <2>4. ASSUME NEW w \in Workers, TerminateDestroy(w) PROVE Lifecycle!Next
    <3> DEFINE h == handle[wpos[w]]
    <3>1. /\ Pending(wpos[w]) /\ live' = live \ {h} /\ opc' = opc /\ lease' = lease
      BY <2>4 DEF TerminateDestroy, Pending
    <3>2. h \in live /\ h \in Handles /\ \A o \in Owners : lease[o] # h
      BY <3>1 DEF HandleHasOneHolder
    <3>3. CorePhase[h] = "retired" /\ CorePhase' = [CorePhase EXCEPT ![h] = "none"]
      BY <3>1, <3>2 DEF CorePhase
    <3> QED BY <3>2, <3>3 DEF Lifecycle!Next, Lifecycle!Destroy
  <2>5. ASSUME NEW w \in Workers, Worker(w), ~TerminateDestroy(w)
        PROVE  CorePhase' = CorePhase
    BY <2>5, PhaseUnchanged DEF Worker, SemWait, SemWaitFails, LoadStop, ScanHit,
       ScanMiss, ClearHandle, FreeSlot
  <2>6. CASE Bootstrap
    BY <2>6, PhaseUnchanged DEF Bootstrap, PinFails, SemInit, StartFails, RollbackPost,
       RollbackJoin, StartWorker
  <2>7. CASE UNCHANGED vars
    BY <2>7, PhaseUnchanged DEF vars
  <2> QED BY <2>1, <2>2, <2>3, <2>4, <2>5, <2>6, <2>7 DEF Next
<1> QED BY <1>1, <1>2, Invariance, PTL DEF Spec, LifecycleSafety
=============================================================================
