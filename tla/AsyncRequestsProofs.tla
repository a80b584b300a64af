-------------------------- MODULE AsyncRequestsProofs --------------------------
(***************************************************************************)
(* Machine-checked proofs about AsyncRequests, for every bound on the ids  *)
(* and the tokens, and every set of request kinds.                         *)
(***************************************************************************)
EXTENDS AsyncRequests, FiniteSetTheorems, TLAPS

-----------------------------------------------------------------------------
(* Queues.                                                                   *)

\* The messages of a queue that are in a set; at most one of them is.
Single(queue, set) ==
  \A m, n \in DOMAIN queue : queue[m] \in set /\ queue[n] \in set => m = n
Holds(queue, set) == ToSet(queue) \cap set # {}

\* What the head of a queue leaves behind.
LEMMA TailQueue ==
  ASSUME NEW S, NEW s \in Seq(S), s # <<>>
  PROVE  /\ Tail(s) \in Seq(S) /\ Head(s) \in S /\ Head(s) \in ToSet(s)
         /\ ToSet(s) = ToSet(Tail(s)) \cup {Head(s)}
         /\ \A M : Single(s, M) => Single(Tail(s), M) /\ (Head(s) \in M => ~Holds(Tail(s), M))
<1> DEFINE t == Tail(s)
<1>1. /\ t \in Seq(S) /\ Len(t) = Len(s) - 1 /\ Len(s) \in Nat /\ Len(s) >= 1
      /\ \A n \in 1 .. Len(s) - 1 : t[n] = s[n + 1]
      /\ Head(s) = s[1] /\ s[1] \in S
  OBVIOUS
<1>2. DOMAIN s = 1 .. Len(s) /\ DOMAIN t = 1 .. Len(s) - 1
  BY <1>1
<1> HIDE DEF t
<1>3. ASSUME NEW m \in ToSet(s) PROVE m \in ToSet(t) \/ m = Head(s)
  <2>1. PICK n \in DOMAIN s : s[n] = m
    BY DEF ToSet
  <2>2. CASE n = 1 BY <2>1, <2>2, <1>1
  <2>3. CASE n # 1
    <3>1. n - 1 \in DOMAIN t /\ t[n - 1] = m
      BY <2>1, <2>3, <1>1, <1>2
    <3> QED BY <3>1 DEF ToSet
  <2> QED BY <2>2, <2>3
<1>4. ASSUME NEW m \in ToSet(t) PROVE \E n \in 2 .. Len(s) : s[n] = m
  BY <1>1, <1>2 DEF ToSet
<1>5. ToSet(s) = ToSet(t) \cup {Head(s)} /\ Head(s) \in ToSet(s)
  <2>1. Head(s) \in ToSet(s)
    BY <1>1, <1>2 DEF ToSet
  <2>2. ASSUME NEW m \in ToSet(t) PROVE m \in ToSet(s)
    BY <1>2, <1>4 DEF ToSet
  <2> QED BY <1>3, <2>1, <2>2
<1>6. ASSUME NEW M, Single(s, M) PROVE Single(t, M) /\ (Head(s) \in M => ~Holds(t, M))
  <2>1. Single(t, M)
    <3> SUFFICES ASSUME NEW m \in DOMAIN t, NEW n \in DOMAIN t, t[m] \in M, t[n] \in M PROVE m = n
      BY DEF Single
    <3>1. /\ m + 1 \in DOMAIN s /\ n + 1 \in DOMAIN s /\ m \in Int /\ n \in Int
          /\ s[m + 1] = t[m] /\ s[n + 1] = t[n]
      BY <1>1, <1>2
    <3>2. m + 1 = n + 1
      BY <3>1, <1>6 DEF Single
    <3> QED BY <3>1, <3>2
  <2>2. ASSUME Head(s) \in M, NEW m \in ToSet(t), m \in M PROVE FALSE
    <3>1. PICK n \in 2 .. Len(s) : s[n] = m
      BY <1>4
    <3>2. n \in DOMAIN s /\ 1 \in DOMAIN s /\ n # 1
      BY <1>1, <1>2
    <3> QED BY <1>1, <1>6, <2>2, <3>1, <3>2 DEF Single
  <2> QED BY <2>1, <2>2 DEF Holds
<1> QED BY <1>1, <1>5, <1>6 DEF t

\* A function on 1 .. n is a sequence.
LEMMA FunctionIsSeq == ASSUME NEW S, NEW n \in Nat, NEW f \in [1 .. n -> S] PROVE f \in Seq(S)
OBVIOUS

\* One queue after another.
LEMMA ConcatQueue ==
  ASSUME NEW S, NEW s \in Seq(S), NEW r \in Seq(S)
  PROVE  /\ s \o r \in Seq(S) /\ ToSet(s \o r) = ToSet(s) \cup ToSet(r)
         /\ \A M : Single(s, M) /\ Single(r, M) /\ ~(Holds(s, M) /\ Holds(r, M)) => Single(s \o r, M)
<1> DEFINE q == s \o r
<1>1. /\ q \in Seq(S) /\ Len(q) = Len(s) + Len(r) /\ Len(s) \in Nat /\ Len(r) \in Nat
      /\ \A n \in 1 .. Len(s) : q[n] = s[n]
      /\ \A n \in Len(s) + 1 .. Len(s) + Len(r) : q[n] = r[n - Len(s)]
  OBVIOUS
<1>2. DOMAIN s = 1 .. Len(s) /\ DOMAIN r = 1 .. Len(r) /\ DOMAIN q = 1 .. Len(s) + Len(r)
  BY <1>1
<1> HIDE DEF q
<1>3. ASSUME NEW n \in DOMAIN q
      PROVE  \/ n \in DOMAIN s /\ q[n] = s[n]
             \/ n - Len(s) \in DOMAIN r /\ q[n] = r[n - Len(s)]
  <2>1. CASE n <= Len(s) BY <2>1, <1>1, <1>2
  <2>2. CASE n > Len(s)
    <3>1. n \in Len(s) + 1 .. Len(s) + Len(r) /\ n - Len(s) \in 1 .. Len(r)
      BY <2>2, <1>1, <1>2
    <3> QED BY <3>1, <1>1, <1>2
  <2> QED BY <2>1, <2>2, <1>1, <1>2
<1>4. \A n \in DOMAIN s : n \in DOMAIN q /\ q[n] = s[n]
  BY <1>1, <1>2
<1>5. ASSUME NEW n \in DOMAIN r PROVE n + Len(s) \in DOMAIN q /\ q[n + Len(s)] = r[n]
  <2>1. n + Len(s) \in Len(s) + 1 .. Len(s) + Len(r) /\ (n + Len(s)) - Len(s) = n
    BY <1>1, <1>2
  <2> QED BY <2>1, <1>1, <1>2
<1>6. ToSet(q) = ToSet(s) \cup ToSet(r)
  BY <1>3, <1>4, <1>5 DEF ToSet
<1>7. ASSUME NEW M, Single(s, M), Single(r, M), ~(Holds(s, M) /\ Holds(r, M)) PROVE Single(q, M)
  <2> SUFFICES ASSUME NEW m \in DOMAIN q, NEW n \in DOMAIN q, q[m] \in M, q[n] \in M PROVE m = n
    BY DEF Single
  <2>1. CASE m \in DOMAIN s /\ q[m] = s[m] /\ n \in DOMAIN s /\ q[n] = s[n]
    BY <2>1, <1>7 DEF Single
  <2>2. CASE m - Len(s) \in DOMAIN r /\ q[m] = r[m - Len(s)] /\ n - Len(s) \in DOMAIN r /\ q[n] = r[n - Len(s)]
    <3>1. m - Len(s) = n - Len(s)
      BY <2>2, <1>7 DEF Single
    <3> QED BY <3>1, <1>1, <1>2
  <2>3. ASSUME NEW k \in DOMAIN s, NEW l \in DOMAIN r, s[k] \in M, r[l] \in M PROVE FALSE
    BY <1>7, <2>3 DEF Holds, ToSet
  <2> QED BY <1>3, <2>1, <2>2, <2>3
<1> QED BY <1>1, <1>6, <1>7 DEF q

\* A message behind a queue.
LEMMA AppendQueue ==
  ASSUME NEW S, NEW s \in Seq(S), NEW x \in S
  PROVE  /\ Append(s, x) \in Seq(S) /\ ToSet(Append(s, x)) = ToSet(s) \cup {x}
         /\ \A M : Single(s, M) /\ (x \in M => ~Holds(s, M)) => Single(Append(s, x), M)
<1>1. Append(s, x) = s \o <<x>> /\ <<x>> \in Seq(S) /\ DOMAIN <<x>> = {1} /\ <<x>>[1] = x
  OBVIOUS
<1>2. ToSet(<<x>>) = {x} /\ \A M : Single(<<x>>, M)
  BY <1>1 DEF ToSet, Single
<1>3. ASSUME NEW M, Holds(<<x>>, M) PROVE x \in M
  BY <1>2, <1>3 DEF Holds
<1>4. /\ s \o <<x>> \in Seq(S) /\ ToSet(s \o <<x>>) = ToSet(s) \cup ToSet(<<x>>)
      /\ \A M : Single(s, M) /\ Single(<<x>>, M) /\ ~(Holds(s, M) /\ Holds(<<x>>, M)) => Single(s \o <<x>>, M)
  BY <1>1, ConcatQueue
<1> QED BY <1>1, <1>2, <1>3, <1>4

\* An injection of a set that is as large as its domain is onto.
LEMMA InjectionIsOnto ==
  ASSUME NEW S, IsFiniteSet(S), NEW f \in SetToSeqs(S)
  PROVE  /\ f \in Seq(S) /\ DOMAIN f = 1 .. Cardinality(S)
         /\ \A m, n \in DOMAIN f : f[m] = f[n] => m = n
         /\ \A x \in S : \E n \in DOMAIN f : f[n] = x
<1> DEFINE N == Cardinality(S)
<1>1. N \in Nat
  BY FS_CardinalityType
<1>2. f \in [1 .. N -> S] /\ \A m, n \in 1 .. N : f[m] = f[n] => m = n
  BY DEF SetToSeqs
<1>3. ASSUME NEW x \in S, \A n \in 1 .. N : f[n] # x PROVE FALSE
  <2>1. f \in [1 .. N -> S \ {x}]
    BY <1>2, <1>3
  <2>2. IsFiniteSet(S \ {x}) /\ Cardinality(S \ {x}) = N - 1
    BY FS_RemoveElement
  <2>3. IsFiniteSet(1 .. N) /\ Cardinality(1 .. N) = N
    <3>1. 1 \in Int /\ N \in Int BY <1>1
    <3> QED BY <1>1, <3>1, FS_Interval
  <2>4. \E m, n \in 1 .. N : m # n /\ f[m] = f[n]
    BY <1>1, <2>1, <2>2, <2>3, FS_PigeonHole
  <2> QED BY <1>2, <2>4
<1> QED BY <1>1, <1>2, <1>3

-----------------------------------------------------------------------------
(* The inductive invariant.                                                  *)

\* The messages that complete a request, and those that report its loss.
Completion(i) == [type : {"finish", "complete"}, id : {i}, kind : Kinds, result : Results]
Loss(i) == [type : {"terminal"}, id : {i}, result : {"unavailable"}]
Delivery(i) == {i} \X Results
HasEntry(i) == \E t \in DOMAIN requests : requests[t].id = i

NativeKinds == Kinds \cup {"Command", "PropertySet"}
WorkMessage == [type : {"submit"}, token : Tokens, kind : Kinds] \cup {StopWorker}
NativeRequest == [token : Tokens, kind : NativeKinds]
NativeEvent == [type : {"answer"}, token : Tokens, kind : NativeKinds] \cup {NativeShutdown}

\* Every queue carries its own messages.
QueueInv ==
  /\ guiQueue \in Seq(GuiMessage) /\ workerQueue \in Seq(WorkMessage)
  /\ inflight \subseteq NativeRequest /\ events \in Seq(NativeEvent)

\* The phases of the facade, the adapter and the controller: what is still held in
\* each, and the generation that is compared.
PhaseInv ==
  /\ closing = shuttingDown /\ available = coreAvailable /\ (closing => ~available)
  /\ ~available => DOMAIN requests = {}
  /\ shuttingDown => DOMAIN owners = {}
  /\ generation = IF closing THEN 2 ELSE 1
  /\ wGeneration = IF wClosing THEN 2 ELSE 1
  /\ StopWorker \in ToSet(workerQueue) \/ wClosing => closing
  /\ quit /\ wAvailable => NativeShutdown \in ToSet(events)
  /\ \A t \in DOMAIN requests : requests[t].gen = generation

\* An id has one path to its completion from the adapter's entry on, and none before
\* it is handed out.
PathInv(i) ==
  /\ \A t, u \in DOMAIN requests : requests[t].id = i /\ requests[u].id = i => t = u
  /\ Single(guiQueue, Completion(i))
  /\ ~(HasEntry(i) /\ Holds(guiQueue, Completion(i)))
  /\ i \in DOMAIN owners =>
       /\ HasEntry(i) \/ Holds(guiQueue, Completion(i))
       /\ \A t \in DOMAIN requests : requests[t].id = i => requests[t].kind = owners[i]
       /\ \A m \in ToSet(guiQueue) \cap Completion(i) : m.kind = owners[i]
  /\ i >= nextPublicId => ~HasEntry(i) /\ ~Holds(guiQueue, Completion(i)) /\ i \notin DOMAIN owners

\* An id is owned by the facade, or a notification of it is queued, or one has been
\* delivered, and never two of these.
TerminalInv(i) ==
  /\ Single(guiQueue, Loss(i)) /\ Single(delivered, Delivery(i))
  /\ ~(Holds(guiQueue, Loss(i)) /\ Holds(delivered, Delivery(i)))
  /\ i \in DOMAIN owners => ~Holds(guiQueue, Loss(i)) /\ ~Holds(delivered, Delivery(i))
  /\ i >= nextPublicId => ~Holds(guiQueue, Loss(i)) /\ ~Holds(delivered, Delivery(i))

IInv ==
  /\ TypeOK /\ QueueInv /\ PhaseInv /\ RecoveryNeverSwallows /\ EntryIsUnderway
  /\ \A i \in Ids : PathInv(i) /\ TerminalInv(i)

-----------------------------------------------------------------------------
(* Messages.                                                                 *)

\* A message of the GUI thread's queue is one of its type.
LEMMA MessageOfType == ASSUME NEW m \in GuiMessage PROVE
  /\ m.type \in {"reply", "finish", "complete", "terminal", "coreUnavailable"}
  /\ m.type \in {"finish", "complete"} =>
       m.id \in Ids /\ m.kind \in Kinds /\ m.result \in Results /\ m \in Completion(m.id)
  /\ m.type = "terminal" => m.id \in Ids /\ m.result = "unavailable" /\ m \in Loss(m.id)
  /\ m.type = "reply" =>
       m.token \in Tokens /\ m.result \in Results /\ m = Reply(m.token, m.kind, m.gen, m.result)
<1>1. CASE m \in [type : {"reply"}, token : Tokens, kind : NativeKinds, gen : {1, 2}, result : Results]
  BY <1>1 DEF Reply
<1>2. CASE m \in [type : {"finish", "complete"}, id : Ids, kind : Kinds, result : Results]
  BY <1>2 DEF Completion
<1>3. CASE m \in [type : {"terminal"}, id : Ids, result : {"unavailable"}]
  BY <1>3 DEF Loss
<1>4. CASE m = CoreGone
  BY <1>4 DEF CoreGone
<1> QED BY <1>1, <1>2, <1>3, <1>4 DEF GuiMessage, NativeKinds

\* The messages that are made.
LEMMA Made ==
  /\ CoreGone \in GuiMessage
  /\ \A t \in Tokens, k \in NativeKinds, g \in {1, 2}, r \in Results : Reply(t, k, g, r) \in GuiMessage
  /\ \A i \in Ids, k \in Kinds, r \in Results :
       /\ [type |-> "finish", id |-> i, kind |-> k, result |-> r] \in GuiMessage \cap Completion(i)
       /\ [type |-> "complete", id |-> i, kind |-> k, result |-> r] \in GuiMessage \cap Completion(i)
  /\ \A i \in Ids : Terminal(i) \in GuiMessage \cap Loss(i)
BY DEF GuiMessage, CoreGone, Reply, Terminal, Completion, Loss, NativeKinds

\* What is in neither set of an id.
LEMMA Members == ASSUME NEW i, NEW m PROVE
  /\ m \in Completion(i) => m.type \in {"finish", "complete"} /\ m.id = i
  /\ m \in Loss(i) => m.type = "terminal" /\ m.id = i
BY DEF Completion, Loss

-----------------------------------------------------------------------------
(* What the loss of the core and shutdown() queue.                            *)

\* A finish for each request, and each of them once.
LEMMA SettledQueue ==
  ASSUME TypeOK, NEW q \in Seq(GuiMessage), NEW r \in SettledAs("unavailable", q)
  PROVE  /\ r \in Seq(GuiMessage)
         /\ ToSet(r) = ToSet(q) \cup {Finish(requests[t], "unavailable") : t \in DOMAIN requests}
         /\ \A i \in Ids :
              /\ \A t, u \in DOMAIN requests : requests[t].id = i /\ requests[u].id = i => t = u
              /\ Single(q, Completion(i)) /\ ~(HasEntry(i) /\ Holds(q, Completion(i)))
              => Single(r, Completion(i))
         /\ \A i \in Ids : Single(q, Loss(i)) => Single(r, Loss(i))
<1> DEFINE T == DOMAIN requests
           F(t) == Finish(requests[t], "unavailable")
<1>1. IsFiniteSet(T) /\ T \subseteq Tokens
  <2>1. T \subseteq 1 .. MaxToken /\ 1 \in Int /\ MaxToken \in Int
    BY BoundsAssumption DEF TypeOK, Tokens
  <2> QED BY <2>1, FS_Interval, FS_Subset DEF Tokens
<1>2. PICK order \in SetToSeqs(T) : r = q \o [n \in DOMAIN order |-> F(order[n])]
  BY DEF SettledAs
<1> DEFINE p == [n \in DOMAIN order |-> F(order[n])]
<1>3. /\ order \in Seq(T) /\ DOMAIN order = 1 .. Cardinality(T) /\ Cardinality(T) \in Nat
      /\ \A m, n \in DOMAIN order : order[m] = order[n] => m = n
      /\ \A t \in T : \E n \in DOMAIN order : order[n] = t
  BY <1>1, <1>2, InjectionIsOnto, FS_CardinalityType
<1>4. \A n \in DOMAIN order : order[n] \in T
  BY <1>3
<1>5. ASSUME NEW t \in T PROVE F(t) \in GuiMessage \cap Completion(requests[t].id)
  <2>1. requests[t].id \in Ids /\ requests[t].kind \in Kinds
    BY DEF TypeOK, Entry
  <2> QED BY <2>1, Made DEF Finish, Results
<1>6. p \in Seq(GuiMessage) /\ DOMAIN p = DOMAIN order /\ \A n \in DOMAIN order : p[n] = F(order[n])
  <2>1. p \in [1 .. Cardinality(T) -> GuiMessage]
    BY <1>3, <1>4, <1>5
  <2>2. DOMAIN p = DOMAIN order /\ \A n \in DOMAIN order : p[n] = F(order[n])
    OBVIOUS
  <2> QED BY <1>3, <2>1, <2>2, FunctionIsSeq
<1> HIDE DEF p
<1>7. ToSet(p) = {F(t) : t \in T}
  BY <1>3, <1>4, <1>6 DEF ToSet
<1>8. ASSUME NEW i, NEW m \in ToSet(p), m \in Completion(i) PROVE HasEntry(i)
  <2>1. PICK t \in T : m = F(t)
    BY <1>7
  <2> QED BY <2>1, <1>5, <1>8, Members DEF HasEntry
<1>9. ASSUME NEW i, \A t, u \in T : requests[t].id = i /\ requests[u].id = i => t = u
      PROVE  Single(p, Completion(i))
  <2> SUFFICES ASSUME NEW m \in DOMAIN p, NEW n \in DOMAIN p, p[m] \in Completion(i), p[n] \in Completion(i)
               PROVE  m = n
    BY DEF Single
  <2>1. requests[order[m]].id = i /\ requests[order[n]].id = i
    BY <1>4, <1>6, Members DEF Finish
  <2> QED BY <2>1, <1>3, <1>4, <1>6, <1>9
<1>10. ASSUME NEW i, NEW m \in ToSet(p) PROVE m \notin Loss(i)
  BY <1>7, Members DEF Finish
<1>11. \A i : Single(p, Loss(i)) /\ ~Holds(p, Loss(i))
  BY <1>10 DEF Single, Holds, ToSet
<1>12. /\ q \o p \in Seq(GuiMessage) /\ ToSet(q \o p) = ToSet(q) \cup ToSet(p)
       /\ \A M : Single(q, M) /\ Single(p, M) /\ ~(Holds(q, M) /\ Holds(p, M)) => Single(q \o p, M)
  BY <1>6, ConcatQueue
<1>13. r = q \o p
  BY <1>2 DEF p
<1>14. ASSUME NEW i \in Ids, \A t, u \in T : requests[t].id = i /\ requests[u].id = i => t = u,
              Single(q, Completion(i)), ~(HasEntry(i) /\ Holds(q, Completion(i)))
       PROVE  Single(r, Completion(i))
  <2>1. Holds(p, Completion(i)) => HasEntry(i)
    BY <1>8 DEF Holds
  <2> QED BY <2>1, <1>9, <1>12, <1>13, <1>14
<1> QED BY <1>7, <1>11, <1>12, <1>13, <1>14

\* A notification for each id, and each of them once.
LEMMA TerminalsQueue ==
  ASSUME TypeOK, NEW q \in Seq(GuiMessage), NEW ids \in SUBSET Ids, NEW r \in TerminalsFor(ids, q)
  PROVE  /\ r \in Seq(GuiMessage) /\ ToSet(r) = ToSet(q) \cup {Terminal(i) : i \in ids}
         /\ \A i \in Ids : Single(q, Loss(i)) /\ (i \in ids => ~Holds(q, Loss(i))) => Single(r, Loss(i))
         /\ \A i \in Ids : Single(q, Completion(i)) => Single(r, Completion(i))
<1>1. IsFiniteSet(ids)
  <2>1. 1 \in Int /\ MaxPublicId \in Int
    BY BoundsAssumption
  <2> QED BY <2>1, FS_Interval, FS_Subset DEF Ids
<1>2. PICK order \in SetToSeqs(ids) : r = q \o [n \in DOMAIN order |-> Terminal(order[n])]
  BY DEF TerminalsFor
<1> DEFINE p == [n \in DOMAIN order |-> Terminal(order[n])]
<1>3. /\ order \in Seq(ids) /\ DOMAIN order = 1 .. Cardinality(ids) /\ Cardinality(ids) \in Nat
      /\ \A m, n \in DOMAIN order : order[m] = order[n] => m = n
      /\ \A i \in ids : \E n \in DOMAIN order : order[n] = i
  BY <1>1, <1>2, InjectionIsOnto, FS_CardinalityType
<1>4. \A n \in DOMAIN order : order[n] \in ids
  BY <1>3
<1>5. \A i \in ids : Terminal(i) \in GuiMessage \cap Loss(i)
  BY Made
<1>6. p \in Seq(GuiMessage) /\ DOMAIN p = DOMAIN order /\ \A n \in DOMAIN order : p[n] = Terminal(order[n])
  <2>1. p \in [1 .. Cardinality(ids) -> GuiMessage]
    BY <1>3, <1>4, <1>5
  <2>2. DOMAIN p = DOMAIN order /\ \A n \in DOMAIN order : p[n] = Terminal(order[n])
    OBVIOUS
  <2> QED BY <1>3, <2>1, <2>2, FunctionIsSeq
<1> HIDE DEF p
<1>7. ToSet(p) = {Terminal(i) : i \in ids}
  BY <1>3, <1>4, <1>6 DEF ToSet
<1>8. ASSUME NEW i, NEW m \in ToSet(p), m \in Loss(i) PROVE i \in ids
  BY <1>7, <1>8, Members DEF Terminal
<1>9. ASSUME NEW i PROVE Single(p, Loss(i))
  <2> SUFFICES ASSUME NEW m \in DOMAIN p, NEW n \in DOMAIN p, p[m] \in Loss(i), p[n] \in Loss(i)
               PROVE  m = n
    BY DEF Single
  <2>1. order[m] = i /\ order[n] = i
    BY <1>4, <1>6, Members DEF Terminal
  <2> QED BY <2>1, <1>3, <1>6
<1>10. ASSUME NEW i, NEW m \in ToSet(p) PROVE m \notin Completion(i)
  BY <1>7, Members DEF Terminal
<1>11. \A i : Single(p, Completion(i)) /\ ~Holds(p, Completion(i))
  BY <1>10 DEF Single, Holds, ToSet
<1>12. /\ q \o p \in Seq(GuiMessage) /\ ToSet(q \o p) = ToSet(q) \cup ToSet(p)
       /\ \A M : Single(q, M) /\ Single(p, M) /\ ~(Holds(q, M) /\ Holds(p, M)) => Single(q \o p, M)
  BY <1>6, ConcatQueue
<1>13. r = q \o p
  BY <1>2 DEF p
<1>14. ASSUME NEW i \in Ids, Single(q, Loss(i)), i \in ids => ~Holds(q, Loss(i)) PROVE Single(r, Loss(i))
  <2>1. Holds(p, Loss(i)) => i \in ids
    BY <1>8 DEF Holds
  <2> QED BY <2>1, <1>9, <1>12, <1>13, <1>14
<1> QED BY <1>7, <1>11, <1>12, <1>13, <1>14

-----------------------------------------------------------------------------
(* What a step does to the queues.                                           *)

\* The queue of the GUI thread keeps what it held of the paths and notifications.
Quiet ==
  /\ guiQueue' \in Seq(GuiMessage)
  /\ \A i \in Ids :
       /\ Single(guiQueue, Completion(i)) => Single(guiQueue', Completion(i))
       /\ Single(guiQueue, Loss(i)) => Single(guiQueue', Loss(i))
       /\ ToSet(guiQueue') \cap Completion(i) = ToSet(guiQueue) \cap Completion(i)
       /\ ToSet(guiQueue') \cap Loss(i) = ToSet(guiQueue) \cap Loss(i)

\* A signal of the controller carries a reply, or the loss of the core.
LEMMA EmitIsQuiet ==
  ASSUME TypeOK, QueueInv, NEW m \in GuiMessage, m.type \in {"reply", "coreUnavailable"}, Emit(m)
  PROVE  /\ Quiet /\ ToSet(guiQueue) \subseteq ToSet(guiQueue')
         /\ ~closing => m \in ToSet(guiQueue')
<1>1. guiQueue \in Seq(GuiMessage)
  BY DEF QueueInv
<1>2. \A i \in Ids : m \notin Completion(i) /\ m \notin Loss(i)
  BY Members
<1>3. CASE closing
  BY <1>1, <1>3 DEF Emit, Quiet
<1>4. CASE ~closing
  <2>1. guiQueue' = Append(guiQueue, m)
    BY <1>4 DEF Emit
  <2>2. /\ guiQueue' \in Seq(GuiMessage) /\ ToSet(guiQueue') = ToSet(guiQueue) \cup {m}
        /\ \A M : Single(guiQueue, M) /\ (m \in M => ~Holds(guiQueue, M)) => Single(guiQueue', M)
    BY <1>1, <2>1, AppendQueue
  <2> QED BY <1>2, <2>2 DEF Quiet
<1> QED BY <1>3, <1>4

\* The events of a queue are of its types.
LEMMA WorkHead == ASSUME QueueInv, workerQueue # <<>> PROVE
  /\ Head(workerQueue) \in WorkMessage
  /\ Tail(workerQueue) \in Seq(WorkMessage)
  /\ ToSet(workerQueue) = ToSet(Tail(workerQueue)) \cup {Head(workerQueue)}
BY TailQueue DEF QueueInv
\* An event of libmpv's queue is one of its types.
LEMMA EventHead == ASSUME QueueInv, events # <<>> PROVE
  /\ Head(events) \in NativeEvent /\ Tail(events) \in Seq(NativeEvent)
  /\ ToSet(events) = ToSet(Tail(events)) \cup {Head(events)}
BY TailQueue DEF QueueInv
\* The head of the queue of the GUI thread, and what it leaves behind.
LEMMA GuiHead == ASSUME QueueInv, guiQueue # <<>> PROVE
  /\ Head(guiQueue) \in GuiMessage /\ Head(guiQueue) \in ToSet(guiQueue)
  /\ Tail(guiQueue) \in Seq(GuiMessage)
  /\ ToSet(guiQueue) = ToSet(Tail(guiQueue)) \cup {Head(guiQueue)}
  /\ \A M : Single(guiQueue, M) =>
       Single(Tail(guiQueue), M) /\ (Head(guiQueue) \in M => ~Holds(Tail(guiQueue), M))
BY TailQueue DEF QueueInv
\* A submission names its token and its kind.
LEMMA SubmitOfType == ASSUME NEW m \in WorkMessage, m.type = "submit" PROVE
  m.token \in Tokens /\ m.kind \in Kinds /\ m = Submit(m.token, m.kind)
<1>1. CASE m \in [type : {"submit"}, token : Tokens, kind : Kinds]
  BY <1>1 DEF Submit
<1>2. CASE m = StopWorker
  BY <1>2 DEF StopWorker
<1> QED BY <1>1, <1>2 DEF WorkMessage
\* An answer of libmpv names the token and the kind it answers.
LEMMA AnswerOfType == ASSUME NEW e \in NativeEvent, e.type = "answer" PROVE
  e.token \in Tokens /\ e.kind \in NativeKinds /\ e = NativeAnswer([token |-> e.token, kind |-> e.kind])
<1>1. CASE e \in [type : {"answer"}, token : Tokens, kind : NativeKinds]
  BY <1>1 DEF NativeAnswer
<1>2. CASE e = NativeShutdown
  BY <1>2 DEF NativeShutdown
<1> QED BY <1>1, <1>2 DEF NativeEvent

\* Each submission of the worker queue is run: it is answered at once, or libmpv
\* has accepted it.
LEMMA SubmissionRuns ==
  ASSUME TypeOK, QueueInv, RunSubmission
  PROVE  \E t \in Tokens, k \in Kinds :
           /\ Head(workerQueue) = Submit(t, k) /\ workerQueue # <<>> /\ workerQueue' = Tail(workerQueue) /\ ~wClosing
           /\ \/ /\ \E r \in Results : Emit(Reply(t, k, wGeneration, r))
                 /\ UNCHANGED inflight
              \/ WorkerAvailable /\ inflight' = inflight \cup {[token |-> t, kind |-> k]} /\ UNCHANGED guiQueue
           /\ NoteToken(t) \/ UNCHANGED nextToken
<1>1. Head(workerQueue) \in WorkMessage /\ Head(workerQueue).type = "submit" /\ workerQueue # <<>> /\ ~wClosing
  BY WorkHead DEF RunSubmission, NextWork
<1>2. PICK t \in Tokens, k \in Kinds : Head(workerQueue) = Submit(t, k)
  BY <1>1, SubmitOfType
<1>3. Head(workerQueue).token = t /\ Head(workerQueue).kind = k
  BY <1>2 DEF Submit
<1> QED BY <1>1, <1>2, <1>3 DEF RunSubmission, AnswerNow, Results

\* Each answer is swallowed by the recovery that asked for it, or signalled.
LEMMA AnswerDrains ==
  ASSUME TypeOK, QueueInv, DrainAnswer
  PROVE  \E t \in Tokens, k \in NativeKinds :
           /\ events # <<>> /\ Head(events) = NativeAnswer([token |-> t, kind |-> k]) /\ events' = Tail(events)
           /\ WorkerAvailable
           /\ \/ t \in recoveryRequests /\ recoveryRequests' = recoveryRequests \ {t} /\ UNCHANGED guiQueue
              \/ Emit(Reply(t, k, wGeneration, "native")) /\ UNCHANGED recoveryRequests
<1>1. Head(events) \in NativeEvent /\ Head(events).type = "answer" /\ events # <<>> /\ WorkerAvailable
  BY EventHead DEF DrainAnswer, NextEvent
<1>2. PICK t \in Tokens, k \in NativeKinds : Head(events) = NativeAnswer([token |-> t, kind |-> k])
  BY <1>1, AnswerOfType
<1>3. Head(events).token = t /\ Head(events).kind = k
  BY <1>2 DEF NativeAnswer
<1> QED BY <1>1, <1>2, <1>3 DEF DrainAnswer

\* The controller, libmpv and the callers leave the GUI thread's messages in place.
LEMMA WorkerIsQuiet ==
  ASSUME TypeOK, QueueInv, RunSubmission \/ DrainAnswer \/ DrainShutdown
  PROVE  Quiet /\ ToSet(guiQueue) \subseteq ToSet(guiQueue')
<1>0. guiQueue \in Seq(GuiMessage) /\ wGeneration \in {1, 2} /\ Kinds \subseteq NativeKinds
  BY DEF QueueInv, TypeOK, NativeKinds
<1>1. CASE UNCHANGED guiQueue
  BY <1>0, <1>1 DEF Quiet
<1>2. ASSUME NEW t \in Tokens, NEW k \in NativeKinds, NEW r \in Results, Emit(Reply(t, k, wGeneration, r))
      PROVE  Quiet /\ ToSet(guiQueue) \subseteq ToSet(guiQueue')
  <2>1. Reply(t, k, wGeneration, r) \in GuiMessage /\ Reply(t, k, wGeneration, r).type = "reply"
    BY <1>0, Made DEF Reply
  <2> QED BY <1>2, <2>1, EmitIsQuiet
<1>3. CASE Emit(CoreGone)
  <2>1. CoreGone \in GuiMessage /\ CoreGone.type = "coreUnavailable"
    BY Made DEF CoreGone
  <2> QED BY <1>3, <2>1, EmitIsQuiet
<1>4. CASE RunSubmission
  BY <1>0, <1>1, <1>2, <1>4, SubmissionRuns
<1>5. CASE DrainAnswer
  <2>1. "native" \in Results
    BY DEF Results
  <2> QED BY <1>1, <1>2, <1>5, <2>1, AnswerDrains
<1>6. CASE DrainShutdown
  BY <1>3, <1>6 DEF DrainShutdown
<1> QED BY <1>4, <1>5, <1>6

\* A message taken from the head of the queue of the GUI thread, and one put behind it.
LEMMA Replaced ==
  ASSUME QueueInv, guiQueue # <<>>, NEW x \in GuiMessage, guiQueue' = Append(Tail(guiQueue), x)
  PROVE  /\ guiQueue' \in Seq(GuiMessage) /\ ToSet(guiQueue') = ToSet(Tail(guiQueue)) \cup {x}
         /\ \A M : Single(guiQueue, M) /\ (x \in M => ~Holds(Tail(guiQueue), M)) => Single(guiQueue', M)
<1>1. Tail(guiQueue) \in Seq(GuiMessage) /\ \A M : Single(guiQueue, M) => Single(Tail(guiQueue), M)
  BY GuiHead
<1>2. /\ Append(Tail(guiQueue), x) \in Seq(GuiMessage)
      /\ ToSet(Append(Tail(guiQueue), x)) = ToSet(Tail(guiQueue)) \cup {x}
      /\ \A M : Single(Tail(guiQueue), M) /\ (x \in M => ~Holds(Tail(guiQueue), M)) => Single(Append(Tail(guiQueue), x), M)
  BY <1>1, AppendQueue
<1> QED BY <1>1, <1>2

\* receive() finishes the request it finds, or drops the reply.
LEMMA ReplyReceived ==
  ASSUME TypeOK, QueueInv, Receive
  PROVE  \E t \in Tokens, k \in NativeKinds, g \in {1, 2}, r \in Results :
           /\ guiQueue # <<>> /\ Head(guiQueue) = Reply(t, k, g, r)
           /\ \/ /\ t \in DOMAIN requests
                 /\ requests' = [u \in DOMAIN requests \ {t} |-> requests[u]]
                 /\ guiQueue' = Append(Tail(guiQueue), Finish(requests[t], r))
              \/ /\ ~(t \in DOMAIN requests /\ requests[t].kind = k /\ requests[t].gen = generation /\ g = generation)
                 /\ guiQueue' = Tail(guiQueue) /\ UNCHANGED requests
<1>1. Head(guiQueue) \in GuiMessage /\ Head(guiQueue).type = "reply" /\ guiQueue # <<>>
  BY GuiHead DEF Receive, NextGui
<1>2. PICK t \in Tokens, k \in NativeKinds, g \in {1, 2}, r \in Results : Head(guiQueue) = Reply(t, k, g, r)
  BY <1>1 DEF GuiMessage, Reply, NativeKinds, CoreGone
<1>3. /\ Head(guiQueue).token = t /\ Head(guiQueue).kind = k /\ Head(guiQueue).gen = g
      /\ Head(guiQueue).result = r
  BY <1>2 DEF Reply
<1>4. IF t \in DOMAIN requests /\ requests[t].kind = k /\ requests[t].gen = generation /\ g = generation
      THEN /\ requests' = [u \in DOMAIN requests \ {t} |-> requests[u]]
           /\ guiQueue' = Append(Tail(guiQueue), Finish(requests[t], r))
      ELSE guiQueue' = Tail(guiQueue) /\ UNCHANGED requests
  BY <1>3 DEF Receive
<1>5. \/ /\ t \in DOMAIN requests
         /\ requests' = [u \in DOMAIN requests \ {t} |-> requests[u]]
         /\ guiQueue' = Append(Tail(guiQueue), Finish(requests[t], r))
      \/ /\ ~(t \in DOMAIN requests /\ requests[t].kind = k /\ requests[t].gen = generation /\ g = generation)
         /\ guiQueue' = Tail(guiQueue) /\ UNCHANGED requests
  BY <1>4
<1> QED BY <1>1, <1>2, <1>5

\* A finish becomes a completion, which the facade takes.
LEMMA FinishTaken ==
  ASSUME TypeOK, QueueInv, EmitFinished \/ CompleteRequest
  PROVE  \E i \in Ids, k \in Kinds, r \in Results :
           /\ guiQueue # <<>> /\ Head(guiQueue) \in Completion(i) /\ Head(guiQueue).kind = k
           /\ EmitFinished =>
                guiQueue' = Append(Tail(guiQueue), [type |-> "complete", id |-> i, kind |-> k, result |-> r])
           /\ CompleteRequest => /\ guiQueue' = Tail(guiQueue)
                                 /\ Head(guiQueue).id = i /\ Head(guiQueue).result = r
<1>1. Head(guiQueue) \in GuiMessage /\ Head(guiQueue).type \in {"finish", "complete"} /\ guiQueue # <<>>
  BY GuiHead DEF EmitFinished, CompleteRequest, NextGui
<1> DEFINE m == Head(guiQueue)
<1>2. m.id \in Ids /\ m.kind \in Kinds /\ m.result \in Results /\ m \in Completion(m.id)
  BY <1>1, MessageOfType
<1> QED BY <1>1, <1>2 DEF EmitFinished, CompleteRequest, Complete
\* A notification of shutdown() is delivered as it was queued.
LEMMA TerminalTaken ==
  ASSUME TypeOK, QueueInv, DeliverTerminal
  PROVE  \E i \in Ids :
           /\ guiQueue # <<>> /\ Head(guiQueue) \in Loss(i) /\ guiQueue' = Tail(guiQueue)
           /\ delivered' = Append(delivered, <<i, "unavailable">>)
<1>1. Head(guiQueue) \in GuiMessage /\ Head(guiQueue).type = "terminal" /\ guiQueue # <<>>
  BY GuiHead DEF DeliverTerminal, NextGui
<1> QED BY <1>1, MessageOfType DEF DeliverTerminal

-----------------------------------------------------------------------------
(* One path for each request.                                                *)

\* What leaves the entries, the owners and the messages alone.
LEMMA QuietPath ==
  ASSUME NEW i \in Ids, PathInv(i), TypeOK, Quiet, UNCHANGED <<requests, owners>>,
         nextPublicId' \in {nextPublicId, nextPublicId + 1}
  PROVE  PathInv(i)'
<1>1. /\ Single(guiQueue', Completion(i)) /\ (HasEntry(i)' <=> HasEntry(i))
      /\ ToSet(guiQueue') \cap Completion(i) = ToSet(guiQueue) \cap Completion(i)
  BY DEF PathInv, Quiet, HasEntry
<1>2. Holds(guiQueue', Completion(i)) <=> Holds(guiQueue, Completion(i))
  BY <1>1 DEF Holds
<1>3. i >= nextPublicId' => i >= nextPublicId
  BY DEF TypeOK, Ids
<1> QED BY <1>1, <1>2, <1>3 DEF PathInv, HasEntry

\* Each step keeps one path for each request.
LEMMA PathInvStep ==
  ASSUME TypeOK, QueueInv, PhaseInv, RecoveryNeverSwallows, \A i \in Ids : PathInv(i), Next, NEW i \in Ids
  PROVE  PathInv(i)'
<1> USE DEF facadeVars, adapterVars, workerVars, nativeVars
<1>0. PathInv(i) /\ guiQueue \in Seq(GuiMessage)
  BY DEF QueueInv
<1>1. ASSUME NEW kind \in Kinds, Admit(kind) PROVE PathInv(i)'
  <2> DEFINE e == [id |-> nextPublicId, kind |-> kind, gen |-> generation]
  <2>1. /\ nextToken \in Tokens /\ nextPublicId \in Ids /\ nextPublicId' = nextPublicId + 1
        /\ nextToken \notin DOMAIN requests
    BY <1>1, BoundsAssumption DEF Admit, MayAdmit, TypeOK, Tokens, Ids, RecoveryNeverSwallows
  <2>2. /\ DOMAIN requests' = DOMAIN requests \cup {nextToken} /\ requests'[nextToken] = e
        /\ \A t \in DOMAIN requests : requests'[t] = requests[t]
    BY <1>1, <2>1 DEF Admit, Insert
  <2>3. /\ DOMAIN owners' = DOMAIN owners \cup {nextPublicId} /\ owners'[nextPublicId] = kind
        /\ \A j \in DOMAIN owners \ {nextPublicId} : owners'[j] = owners[j]
    BY <1>1 DEF Admit, Insert
  <2>4. UNCHANGED guiQueue
    BY <1>1 DEF Admit
  <2>5. CASE i = nextPublicId
    <3>1. ~HasEntry(i) /\ ~Holds(guiQueue, Completion(i)) /\ Single(guiQueue, Completion(i))
      BY <1>0, <2>1, <2>5 DEF PathInv, Ids
    <3>2. HasEntry(i)' /\ \A t \in DOMAIN requests' : requests'[t].id = i => t = nextToken
      BY <2>2, <2>5, <3>1 DEF HasEntry
    <3>3. ~(i >= nextPublicId') /\ owners'[i] = kind
      BY <2>1, <2>3, <2>5 DEF Ids
    <3> QED BY <2>2, <2>4, <3>1, <3>2, <3>3 DEF PathInv, Holds
  <2>6. CASE i # nextPublicId
    <3>1. HasEntry(i)' <=> HasEntry(i)
      BY <2>2, <2>6 DEF HasEntry
    <3>2. i >= nextPublicId' => i >= nextPublicId
      BY <2>1 DEF Ids
    <3>3. i \in DOMAIN owners' => i \in DOMAIN owners /\ owners'[i] = owners[i]
      BY <2>3, <2>6
    <3>4. \A t \in DOMAIN requests' : requests'[t].id = i => t \in DOMAIN requests /\ requests'[t] = requests[t]
      BY <2>2, <2>6
    <3> QED BY <1>0, <2>4, <3>1, <3>2, <3>3, <3>4 DEF PathInv
  <2> QED BY <2>5, <2>6
<1>2. CASE Receive
  <2>1. PICK t \in Tokens, k \in NativeKinds, g \in {1, 2}, r \in Results :
          /\ guiQueue # <<>> /\ Head(guiQueue) = Reply(t, k, g, r)
          /\ \/ /\ t \in DOMAIN requests
                /\ requests' = [u \in DOMAIN requests \ {t} |-> requests[u]]
                /\ guiQueue' = Append(Tail(guiQueue), Finish(requests[t], r))
             \/ guiQueue' = Tail(guiQueue) /\ UNCHANGED requests
    BY <1>2, ReplyReceived
  <2>2. /\ Tail(guiQueue) \in Seq(GuiMessage) /\ ToSet(guiQueue) = ToSet(Tail(guiQueue)) \cup {Head(guiQueue)}
        /\ \A M : Single(guiQueue, M) => Single(Tail(guiQueue), M)
    BY <2>1, GuiHead
  <2>3. Head(guiQueue).type = "reply"
    BY <2>1 DEF Reply
  <2>4. \A j \in Ids : Head(guiQueue) \notin Completion(j) /\ Head(guiQueue) \notin Loss(j)
    BY <2>3, Members
  <2>5. ToSet(Tail(guiQueue)) \cap Completion(i) = ToSet(guiQueue) \cap Completion(i)
    BY <2>2, <2>4
  <2>6. CASE guiQueue' = Tail(guiQueue) /\ UNCHANGED requests
    <3>1. Quiet
      BY <2>2, <2>4, <2>6 DEF Quiet
    <3> QED BY <1>0, <1>2, <2>6, <3>1, QuietPath DEF Receive
  <2>7. CASE /\ t \in DOMAIN requests
             /\ requests' = [u \in DOMAIN requests \ {t} |-> requests[u]]
             /\ guiQueue' = Append(Tail(guiQueue), Finish(requests[t], r))
    <3> DEFINE j == requests[t].id
               x == Finish(requests[t], r)
    <3>1. j \in Ids /\ requests[t].kind \in Kinds /\ x = [type |-> "finish", id |-> j, kind |-> requests[t].kind, result |-> r]
      BY <2>7 DEF TypeOK, Entry, Finish
    <3>2. x \in GuiMessage /\ x \in Completion(j)
      BY <3>1, Made
    <3> HIDE DEF x
    <3>3. /\ guiQueue' \in Seq(GuiMessage) /\ ToSet(guiQueue') = ToSet(Tail(guiQueue)) \cup {x}
          /\ \A M : Single(guiQueue, M) /\ (x \in M => ~Holds(Tail(guiQueue), M)) => Single(guiQueue', M)
      BY <2>1, <2>7, <3>2, Replaced DEF x
    <3>4. UNCHANGED <<owners, nextPublicId>>
      BY <1>2 DEF Receive
    <3>5. CASE i = j
      <4>1. HasEntry(i) /\ ~Holds(guiQueue, Completion(i)) /\ ~(i >= nextPublicId)
        BY <1>0, <2>7, <3>5 DEF HasEntry, PathInv
      <4>2. ~HasEntry(i)' /\ \A u \in DOMAIN requests' : requests'[u].id # i
        BY <1>0, <2>7, <3>5 DEF HasEntry, PathInv
      <4>3. ToSet(guiQueue') \cap Completion(i) = {x} /\ Single(guiQueue', Completion(i))
        BY <1>0, <2>5, <3>2, <3>3, <3>5, <4>1 DEF Holds, PathInv
      <4>4. i \in DOMAIN owners => x.kind = owners[i]
        BY <1>0, <2>7, <3>1, <3>5 DEF PathInv
      <4> QED BY <3>4, <4>1, <4>2, <4>3, <4>4 DEF PathInv, Holds
    <3>6. CASE i # j
      <4>1. x \notin Completion(i)
        BY <3>2, <3>6, Members
      <4>2. ToSet(guiQueue') \cap Completion(i) = ToSet(guiQueue) \cap Completion(i) /\ Single(guiQueue', Completion(i))
        BY <1>0, <2>5, <3>3, <4>1 DEF PathInv
      <4>3. /\ HasEntry(i)' <=> HasEntry(i)
            /\ \A u \in DOMAIN requests' : u \in DOMAIN requests /\ requests'[u] = requests[u]
        BY <2>7, <3>6 DEF HasEntry
      <4> QED BY <1>0, <3>4, <4>2, <4>3 DEF PathInv, Holds
    <3> QED BY <3>5, <3>6
  <2> QED BY <2>1, <2>6, <2>7
<1>3. CASE EmitFinished
  <2>1. PICK j \in Ids, k \in Kinds, r \in Results :
          /\ guiQueue # <<>> /\ Head(guiQueue) \in Completion(j) /\ Head(guiQueue).kind = k
          /\ guiQueue' = Append(Tail(guiQueue), [type |-> "complete", id |-> j, kind |-> k, result |-> r])
    BY <1>3, FinishTaken
  <2> DEFINE x == [type |-> "complete", id |-> j, kind |-> k, result |-> r]
  <2>2. x \in GuiMessage /\ x \in Completion(j) /\ x.kind = k
    BY Made
  <2> HIDE DEF x
  <2>3. /\ guiQueue' \in Seq(GuiMessage) /\ ToSet(guiQueue') = ToSet(Tail(guiQueue)) \cup {x}
        /\ \A M : Single(guiQueue, M) /\ (x \in M => ~Holds(Tail(guiQueue), M)) => Single(guiQueue', M)
    BY <2>1, <2>2, Replaced DEF x
  <2>4. /\ ToSet(guiQueue) = ToSet(Tail(guiQueue)) \cup {Head(guiQueue)}
        /\ Single(guiQueue, Completion(i)) => (Head(guiQueue) \in Completion(i) => ~Holds(Tail(guiQueue), Completion(i)))
    BY <2>1, GuiHead
  <2>5. UNCHANGED <<requests, owners, nextPublicId>>
    BY <1>3 DEF EmitFinished
  <2>6. CASE i = j
    <3>1. Holds(guiQueue, Completion(i)) /\ ~Holds(Tail(guiQueue), Completion(i)) /\ ~HasEntry(i)
      BY <1>0, <2>1, <2>4, <2>6 DEF Holds, PathInv
    <3>2. ToSet(guiQueue') \cap Completion(i) = {x} /\ Single(guiQueue', Completion(i))
      BY <1>0, <2>2, <2>3, <2>6, <3>1 DEF Holds, PathInv
    <3>3. i \in DOMAIN owners => x.kind = owners[i]
      BY <1>0, <2>1, <2>2, <2>4, <2>6 DEF PathInv
    <3> QED BY <1>0, <2>5, <3>1, <3>2, <3>3 DEF PathInv, Holds, HasEntry
  <2>7. CASE i # j
    <3>1. x \notin Completion(i) /\ Head(guiQueue) \notin Completion(i)
      BY <2>1, <2>2, <2>7, Members
    <3>2. ToSet(guiQueue') \cap Completion(i) = ToSet(guiQueue) \cap Completion(i) /\ Single(guiQueue', Completion(i))
      BY <1>0, <2>3, <2>4, <3>1 DEF PathInv
    <3> QED BY <1>0, <2>5, <3>2 DEF PathInv, Holds, HasEntry
  <2> QED BY <2>6, <2>7
<1>4. CASE CompleteRequest
  <2>1. PICK j \in Ids, k \in Kinds, r \in Results :
          /\ guiQueue # <<>> /\ Head(guiQueue) \in Completion(j) /\ Head(guiQueue).kind = k
          /\ guiQueue' = Tail(guiQueue) /\ Head(guiQueue).id = j
    BY <1>4, FinishTaken
  <2>2. /\ ToSet(guiQueue) = ToSet(guiQueue') \cup {Head(guiQueue)} /\ Head(guiQueue) \in ToSet(guiQueue)
        /\ \A M : Single(guiQueue, M) => Single(guiQueue', M) /\ (Head(guiQueue) \in M => ~Holds(guiQueue', M))
    BY <2>1, GuiHead
  <2>3. UNCHANGED <<requests, nextPublicId>>
    BY <1>4 DEF CompleteRequest
  <2>4. /\ \A l \in DOMAIN owners' : l \in DOMAIN owners /\ owners'[l] = owners[l]
        /\ j \in DOMAIN owners /\ owners[j] = k => j \notin DOMAIN owners'
        /\ \A l \in DOMAIN owners : l # j => l \in DOMAIN owners'
    BY <1>4, <2>1 DEF CompleteRequest
  <2>5. CASE i = j
    <3>1. Holds(guiQueue, Completion(i)) /\ ~Holds(guiQueue', Completion(i)) /\ ~HasEntry(i) /\ Single(guiQueue', Completion(i))
      BY <1>0, <2>1, <2>2, <2>5 DEF Holds, PathInv
    <3>2. i \notin DOMAIN owners'
      BY <1>0, <2>1, <2>2, <2>4, <2>5 DEF PathInv
    <3> QED BY <1>0, <2>3, <3>1, <3>2 DEF PathInv, HasEntry
  <2>6. CASE i # j
    <3>1. Head(guiQueue) \notin Completion(i)
      BY <2>1, <2>6, Members
    <3>2. ToSet(guiQueue') \cap Completion(i) = ToSet(guiQueue) \cap Completion(i) /\ Single(guiQueue', Completion(i))
      BY <1>0, <2>2, <3>1 DEF PathInv
    <3> QED BY <1>0, <2>3, <2>4, <3>2 DEF PathInv, Holds, HasEntry
  <2> QED BY <2>5, <2>6
<1>5. CASE DeliverTerminal
  <2>1. PICK j \in Ids : guiQueue # <<>> /\ Head(guiQueue) \in Loss(j) /\ guiQueue' = Tail(guiQueue)
    BY <1>5, TerminalTaken
  <2>2. /\ ToSet(guiQueue) = ToSet(guiQueue') \cup {Head(guiQueue)}
        /\ \A M : Single(guiQueue, M) => Single(guiQueue', M)
    BY <2>1, GuiHead
  <2>3. Head(guiQueue) \notin Completion(i)
    BY <2>1, Members
  <2>4. ToSet(guiQueue') \cap Completion(i) = ToSet(guiQueue) \cap Completion(i) /\ Single(guiQueue', Completion(i))
    BY <1>0, <2>2, <2>3 DEF PathInv
  <2> QED BY <1>0, <1>5, <2>4 DEF DeliverTerminal, PathInv, Holds, HasEntry
<1>6. CASE CoreUnavailable
  <2>1. /\ guiQueue # <<>> /\ guiQueue' \in SettledAs("unavailable", Tail(guiQueue)) /\ requests' = <<>>
        /\ Head(guiQueue).type = "coreUnavailable" /\ UNCHANGED <<owners, nextPublicId>>
    BY <1>6 DEF CoreUnavailable, NextGui
  <2>2. /\ ToSet(guiQueue) = ToSet(Tail(guiQueue)) \cup {Head(guiQueue)} /\ Tail(guiQueue) \in Seq(GuiMessage)
        /\ \A M : Single(guiQueue, M) => Single(Tail(guiQueue), M)
    BY <2>1, GuiHead
  <2>3. Head(guiQueue) \notin Completion(i)
    BY <2>1, Members
  <2>4. ToSet(Tail(guiQueue)) \cap Completion(i) = ToSet(guiQueue) \cap Completion(i) /\ Single(Tail(guiQueue), Completion(i))
    BY <1>0, <2>2, <2>3 DEF PathInv
  <2>5. /\ ToSet(guiQueue') = ToSet(Tail(guiQueue)) \cup {Finish(requests[t], "unavailable") : t \in DOMAIN requests}
        /\ /\ \A t, u \in DOMAIN requests : requests[t].id = i /\ requests[u].id = i => t = u
           /\ Single(Tail(guiQueue), Completion(i)) /\ ~(HasEntry(i) /\ Holds(Tail(guiQueue), Completion(i)))
           => Single(guiQueue', Completion(i))
    BY <2>1, <2>2, SettledQueue
  <2>6. Single(guiQueue', Completion(i))
    BY <1>0, <2>4, <2>5 DEF PathInv, Holds
  <2>7. ASSUME NEW m \in ToSet(guiQueue'), m \in Completion(i)
        PROVE  \/ m \in ToSet(guiQueue) \cap Completion(i)
               \/ \E t \in DOMAIN requests : requests[t].id = i /\ m.kind = requests[t].kind
    BY <2>4, <2>5, <2>7, Members DEF Finish
  <2>8. HasEntry(i) => Holds(guiQueue', Completion(i))
    <3>1. ASSUME NEW t \in DOMAIN requests, requests[t].id = i PROVE Finish(requests[t], "unavailable") \in Completion(i)
      <4>1. requests[t].kind \in Kinds
        BY DEF TypeOK, Entry
      <4> QED BY <3>1, <4>1, Made DEF Finish, Results
    <3> QED BY <2>5, <3>1 DEF HasEntry, Holds
  <2>9. Holds(guiQueue, Completion(i)) => Holds(guiQueue', Completion(i))
    BY <2>4, <2>5 DEF Holds
  <2>10. ~HasEntry(i)' /\ DOMAIN requests' = {}
    BY <2>1 DEF HasEntry
  <2>11. Holds(guiQueue', Completion(i)) => Holds(guiQueue, Completion(i)) \/ HasEntry(i)
    BY <2>7 DEF Holds, HasEntry
  <2>12. i \in DOMAIN owners => \A m \in ToSet(guiQueue') \cap Completion(i) : m.kind = owners[i]
    BY <1>0, <2>7 DEF PathInv
  <2> QED BY <1>0, <2>1, <2>6, <2>8, <2>9, <2>10, <2>11, <2>12 DEF PathInv
<1>7. CASE Shutdown
  <2>1. PICK q \in TerminalsFor(DOMAIN owners, guiQueue) : guiQueue' \in SettledAs("unavailable", q)
    BY <1>7 DEF Shutdown
  <2>2. /\ q \in Seq(GuiMessage) /\ ToSet(q) = ToSet(guiQueue) \cup {Terminal(j) : j \in DOMAIN owners}
        /\ Single(guiQueue, Completion(i)) => Single(q, Completion(i))
    <3>1. DOMAIN owners \in SUBSET Ids
      BY DEF TypeOK
    <3> QED BY <1>0, <2>1, <3>1, TerminalsQueue
  <2>3. ToSet(q) \cap Completion(i) = ToSet(guiQueue) \cap Completion(i)
    <3>1. \A j : Terminal(j) \notin Completion(i)
      BY Members DEF Terminal
    <3> QED BY <2>2, <3>1
  <2>4. /\ ToSet(guiQueue') = ToSet(q) \cup {Finish(requests[t], "unavailable") : t \in DOMAIN requests}
        /\ /\ \A t, u \in DOMAIN requests : requests[t].id = i /\ requests[u].id = i => t = u
           /\ Single(q, Completion(i)) /\ ~(HasEntry(i) /\ Holds(q, Completion(i)))
           => Single(guiQueue', Completion(i))
    BY <2>1, <2>2, SettledQueue
  <2>5. Single(guiQueue', Completion(i))
    BY <1>0, <2>2, <2>3, <2>4 DEF PathInv, Holds
  <2>6. ASSUME NEW m \in ToSet(guiQueue'), m \in Completion(i) PROVE Holds(guiQueue, Completion(i)) \/ HasEntry(i)
    BY <2>3, <2>4, <2>6, Members DEF Finish, HasEntry, Holds
  <2>7. Holds(guiQueue', Completion(i)) => Holds(guiQueue, Completion(i)) \/ HasEntry(i)
    BY <2>6 DEF Holds
  <2>8. DOMAIN requests' = {} /\ DOMAIN owners' = {} /\ UNCHANGED nextPublicId
    BY <1>7 DEF Shutdown
  <2> QED BY <1>0, <2>5, <2>7, <2>8 DEF PathInv, HasEntry
<1>8. CASE RunSubmission \/ DrainAnswer \/ DrainShutdown
  BY <1>0, <1>8, WorkerIsQuiet, QuietPath DEF RunSubmission, DrainAnswer, DrainShutdown
<1>9. CASE UNCHANGED <<guiQueue, requests, owners>> /\ nextPublicId' \in {nextPublicId, nextPublicId + 1}
  BY <1>0, <1>9, QuietPath DEF Quiet
<1> QED
  BY <1>1, <1>2, <1>3, <1>4, <1>5, <1>6, <1>7, <1>8, <1>9 DEF Next, GuiEvent, WorkerEvent, Drain, PostRefused,
    WorkerShutdown, SubmitRecovery, NativeReply, NativeQuit
-----------------------------------------------------------------------------
(* One terminal notification for each request.                               *)

\* What leaves the notifications alone.
LEMMA QuietTerminal ==
  ASSUME NEW i \in Ids, TerminalInv(i), TypeOK, UNCHANGED delivered,
         Single(guiQueue', Loss(i)), ToSet(guiQueue') \cap Loss(i) = ToSet(guiQueue) \cap Loss(i),
         i \in DOMAIN owners' => i \in DOMAIN owners, nextPublicId' \in {nextPublicId, nextPublicId + 1}
  PROVE  TerminalInv(i)'
<1>1. Holds(guiQueue', Loss(i)) <=> Holds(guiQueue, Loss(i))
  BY DEF Holds
<1>2. i >= nextPublicId' => i >= nextPublicId
  BY DEF TypeOK, Ids
<1> QED BY <1>1, <1>2 DEF TerminalInv

\* A notification is delivered once, when none is queued behind it.
LEMMA Delivered ==
  ASSUME NEW i \in Ids, TypeOK, NEW j \in Ids, NEW r \in Results, delivered' = Append(delivered, <<j, r>>)
  PROVE  /\ Single(delivered, Delivery(i)) /\ (i = j => ~Holds(delivered, Delivery(i))) => Single(delivered', Delivery(i))
         /\ i # j => (Holds(delivered', Delivery(i)) <=> Holds(delivered, Delivery(i)))
         /\ Holds(delivered', Delivery(j))
<1>1. delivered \in Seq(Ids \X Results) /\ <<j, r>> \in Ids \X Results /\ (<<j, r>> \in Delivery(i) <=> i = j)
      /\ <<j, r>> \in Delivery(j)
  BY DEF TypeOK, Delivery
<1>2. /\ ToSet(delivered') = ToSet(delivered) \cup {<<j, r>>}
      /\ \A M : Single(delivered, M) /\ (<<j, r>> \in M => ~Holds(delivered, M)) => Single(delivered', M)
  BY <1>1, AppendQueue
<1> QED BY <1>1, <1>2 DEF Holds

\* Each step keeps one notification for each request.
LEMMA TerminalInvStep ==
  ASSUME TypeOK, QueueInv, \A i \in Ids : PathInv(i) /\ TerminalInv(i), Next, NEW i \in Ids
  PROVE  TerminalInv(i)'
<1> USE DEF facadeVars, adapterVars, workerVars, nativeVars
<1>0. /\ TerminalInv(i) /\ guiQueue \in Seq(GuiMessage) /\ Single(guiQueue, Loss(i))
      /\ i \in DOMAIN owners => ~(i >= nextPublicId)
  BY DEF QueueInv, TerminalInv, PathInv
<1>1. ASSUME NEW kind \in Kinds, Admit(kind) PROVE TerminalInv(i)'
  <2>1. /\ DOMAIN owners' = DOMAIN owners \cup {nextPublicId} /\ UNCHANGED <<guiQueue, delivered>>
        /\ nextPublicId \in Ids /\ nextPublicId' = nextPublicId + 1
    BY <1>1, BoundsAssumption DEF Admit, MayAdmit, Insert, TypeOK, Ids
  <2>2. CASE i = nextPublicId
    <3>1. ~(i >= nextPublicId') /\ i >= nextPublicId
      BY <2>1, <2>2 DEF Ids
    <3> QED BY <1>0, <2>1, <3>1 DEF TerminalInv
  <2>3. CASE i # nextPublicId
    BY <1>0, <2>1, <2>3, QuietTerminal
  <2> QED BY <2>2, <2>3
<1>2. CASE Receive
  <2>1. PICK t \in Tokens, k \in NativeKinds, g \in {1, 2}, r \in Results :
          /\ guiQueue # <<>> /\ Head(guiQueue) = Reply(t, k, g, r)
          /\ \/ /\ t \in DOMAIN requests
                /\ guiQueue' = Append(Tail(guiQueue), Finish(requests[t], r))
             \/ guiQueue' = Tail(guiQueue)
    BY <1>2, ReplyReceived
  <2>2. /\ ToSet(guiQueue) = ToSet(Tail(guiQueue)) \cup {Head(guiQueue)}
        /\ \A M : Single(guiQueue, M) => Single(Tail(guiQueue), M)
    BY <2>1, GuiHead
  <2>3. Head(guiQueue) \notin Loss(i)
    BY <2>1, Members DEF Reply
  <2>4. UNCHANGED <<owners, nextPublicId, delivered>>
    BY <1>2 DEF Receive
  <2>5. CASE guiQueue' = Tail(guiQueue)
    BY <1>0, <2>2, <2>3, <2>4, <2>5, QuietTerminal
  <2>6. CASE t \in DOMAIN requests /\ guiQueue' = Append(Tail(guiQueue), Finish(requests[t], r))
    <3> DEFINE x == Finish(requests[t], r)
    <3>1. x \in GuiMessage
      <4>1. requests[t].id \in Ids /\ requests[t].kind \in Kinds
        BY <2>6 DEF TypeOK, Entry
      <4> QED BY <4>1, Made DEF Finish
    <3>2. x \notin Loss(i)
      BY Members DEF Finish
    <3> HIDE DEF x
    <3>3. /\ ToSet(guiQueue') = ToSet(Tail(guiQueue)) \cup {x}
          /\ \A M : Single(guiQueue, M) /\ (x \in M => ~Holds(Tail(guiQueue), M)) => Single(guiQueue', M)
      BY <2>1, <2>6, <3>1, Replaced DEF x
    <3> QED BY <1>0, <2>2, <2>3, <2>4, <3>2, <3>3, QuietTerminal
  <2> QED BY <2>1, <2>5, <2>6
<1>3. CASE EmitFinished
  <2>1. PICK j \in Ids, k \in Kinds, r \in Results :
          /\ guiQueue # <<>> /\ Head(guiQueue) \in Completion(j)
          /\ guiQueue' = Append(Tail(guiQueue), [type |-> "complete", id |-> j, kind |-> k, result |-> r])
    BY <1>3, FinishTaken
  <2> DEFINE x == [type |-> "complete", id |-> j, kind |-> k, result |-> r]
  <2>2. x \in GuiMessage /\ x \notin Loss(i) /\ Head(guiQueue) \notin Loss(i)
    <3>1. x \in GuiMessage /\ x.type = "complete"
      BY Made
    <3>2. Head(guiQueue).type # "terminal"
      BY <2>1, Members
    <3> QED BY <3>1, <3>2, Members
  <2> HIDE DEF x
  <2>3. /\ ToSet(guiQueue') = ToSet(Tail(guiQueue)) \cup {x}
        /\ \A M : Single(guiQueue, M) /\ (x \in M => ~Holds(Tail(guiQueue), M)) => Single(guiQueue', M)
    BY <2>1, <2>2, Replaced DEF x
  <2>4. ToSet(guiQueue) = ToSet(Tail(guiQueue)) \cup {Head(guiQueue)}
    BY <2>1, GuiHead
  <2> QED BY <1>0, <1>3, <2>2, <2>3, <2>4, QuietTerminal DEF EmitFinished
<1>4. CASE CompleteRequest
  <2>1. PICK j \in Ids, r \in Results :
          /\ guiQueue # <<>> /\ Head(guiQueue) \in Completion(j)
          /\ guiQueue' = Tail(guiQueue) /\ Head(guiQueue).id = j /\ Head(guiQueue).result = r
    BY <1>4, FinishTaken
  <2>2. /\ ToSet(guiQueue) = ToSet(guiQueue') \cup {Head(guiQueue)}
        /\ Single(guiQueue', Loss(i)) /\ Head(guiQueue) \notin Loss(i)
    BY <1>0, <2>1, GuiHead, Members
  <2>3. ToSet(guiQueue') \cap Loss(i) = ToSet(guiQueue) \cap Loss(i) /\ UNCHANGED nextPublicId
    BY <1>4, <2>2 DEF CompleteRequest
  <2>4. CASE UNCHANGED <<owners, delivered>>
    BY <1>0, <2>2, <2>3, <2>4, QuietTerminal
  <2>5. CASE /\ j \in DOMAIN owners
             /\ owners' = [l \in DOMAIN owners \ {j} |-> owners[l]]
             /\ delivered' = Append(delivered, <<j, r>>)
    <3>1. /\ Single(delivered, Delivery(i)) /\ (i = j => ~Holds(delivered, Delivery(i))) => Single(delivered', Delivery(i))
          /\ i # j => (Holds(delivered', Delivery(i)) <=> Holds(delivered, Delivery(i)))
      BY <2>5, Delivered
    <3>2. DOMAIN owners' = DOMAIN owners \ {j}
      BY <2>5
    <3> QED BY <1>0, <2>2, <2>3, <2>5, <3>1, <3>2 DEF TerminalInv, Holds
  <2> QED BY <1>4, <2>1, <2>4, <2>5 DEF CompleteRequest
<1>5. CASE DeliverTerminal
  <2>1. PICK j \in Ids : /\ guiQueue # <<>> /\ Head(guiQueue) \in Loss(j) /\ guiQueue' = Tail(guiQueue)
                         /\ delivered' = Append(delivered, <<j, "unavailable">>)
    BY <1>5, TerminalTaken
  <2>2. /\ ToSet(guiQueue) = ToSet(guiQueue') \cup {Head(guiQueue)} /\ Head(guiQueue) \in ToSet(guiQueue)
        /\ Single(guiQueue', Loss(i)) /\ (Head(guiQueue) \in Loss(i) => ~Holds(guiQueue', Loss(i)))
    BY <1>0, <2>1, GuiHead
  <2>3. /\ Single(delivered, Delivery(i)) /\ (i = j => ~Holds(delivered, Delivery(i))) => Single(delivered', Delivery(i))
        /\ i # j => (Holds(delivered', Delivery(i)) <=> Holds(delivered, Delivery(i)))
    <3>1. "unavailable" \in Results
      BY DEF Results
    <3> QED BY <2>1, <3>1, Delivered
  <2>4. UNCHANGED <<owners, nextPublicId>>
    BY <1>5 DEF DeliverTerminal
  <2>5. CASE i = j
    <3>1. Holds(guiQueue, Loss(i)) /\ ~Holds(guiQueue', Loss(i))
      BY <2>1, <2>2, <2>5 DEF Holds
    <3> QED BY <1>0, <2>2, <2>3, <2>4, <3>1 DEF TerminalInv
  <2>6. CASE i # j
    <3>1. Head(guiQueue) \notin Loss(i)
      BY <2>1, <2>6, Members
    <3>2. Holds(guiQueue', Loss(i)) <=> Holds(guiQueue, Loss(i))
      BY <2>2, <3>1 DEF Holds
    <3> QED BY <1>0, <2>2, <2>3, <2>4, <2>6, <3>2 DEF TerminalInv
  <2> QED BY <2>5, <2>6
<1>6. CASE CoreUnavailable
  <2>1. /\ guiQueue # <<>> /\ guiQueue' \in SettledAs("unavailable", Tail(guiQueue))
        /\ Head(guiQueue).type = "coreUnavailable" /\ UNCHANGED <<owners, nextPublicId, delivered>>
    BY <1>6 DEF CoreUnavailable, NextGui
  <2>2. /\ ToSet(guiQueue) = ToSet(Tail(guiQueue)) \cup {Head(guiQueue)} /\ Tail(guiQueue) \in Seq(GuiMessage)
        /\ Single(Tail(guiQueue), Loss(i)) /\ Head(guiQueue) \notin Loss(i)
    BY <1>0, <2>1, GuiHead, Members
  <2>3. /\ ToSet(guiQueue') = ToSet(Tail(guiQueue)) \cup {Finish(requests[t], "unavailable") : t \in DOMAIN requests}
        /\ Single(guiQueue', Loss(i))
    BY <2>1, <2>2, SettledQueue
  <2>4. \A q : Finish(q, "unavailable") \notin Loss(i)
    BY Members DEF Finish
  <2> QED BY <1>0, <2>1, <2>2, <2>3, <2>4, QuietTerminal
<1>7. CASE Shutdown
  <2>1. PICK q \in TerminalsFor(DOMAIN owners, guiQueue) : guiQueue' \in SettledAs("unavailable", q)
    BY <1>7 DEF Shutdown
  <2>2. /\ q \in Seq(GuiMessage) /\ ToSet(q) = ToSet(guiQueue) \cup {Terminal(j) : j \in DOMAIN owners}
        /\ (i \in DOMAIN owners => ~Holds(guiQueue, Loss(i))) => Single(q, Loss(i))
    <3>1. DOMAIN owners \in SUBSET Ids
      BY DEF TypeOK
    <3> QED BY <1>0, <2>1, <3>1, TerminalsQueue
  <2>3. /\ ToSet(guiQueue') = ToSet(q) \cup {Finish(requests[t], "unavailable") : t \in DOMAIN requests}
        /\ Single(q, Loss(i)) => Single(guiQueue', Loss(i))
    BY <2>1, <2>2, SettledQueue
  <2>4. \A r : Finish(r, "unavailable") \notin Loss(i)
    BY Members DEF Finish
  <2>5. \A j \in DOMAIN owners : Terminal(j) \in Loss(i) => i = j
    BY Members DEF Terminal
  <2>6. Holds(guiQueue', Loss(i)) => Holds(guiQueue, Loss(i)) \/ i \in DOMAIN owners
    BY <2>2, <2>3, <2>4, <2>5 DEF Holds
  <2>7. DOMAIN owners' = {} /\ UNCHANGED <<nextPublicId, delivered>>
    BY <1>7 DEF Shutdown
  <2> QED BY <1>0, <2>2, <2>3, <2>6, <2>7 DEF TerminalInv
<1>8. CASE RunSubmission \/ DrainAnswer \/ DrainShutdown
  <2>1. Quiet
    BY <1>8, WorkerIsQuiet
  <2> QED BY <1>0, <1>8, <2>1, QuietTerminal DEF RunSubmission, DrainAnswer, DrainShutdown, Quiet
<1>9. CASE UNCHANGED <<guiQueue, delivered, owners>> /\ nextPublicId' \in {nextPublicId, nextPublicId + 1}
  BY <1>0, <1>9, QuietTerminal
<1> QED
  BY <1>1, <1>2, <1>3, <1>4, <1>5, <1>6, <1>7, <1>8, <1>9 DEF Next, GuiEvent, WorkerEvent, Drain, PostRefused,
    WorkerShutdown, SubmitRecovery, NativeReply, NativeQuit
-----------------------------------------------------------------------------
(* The queues, the phases and the tokens.                                    *)

\* Each queue keeps carrying its own messages.
LEMMA QueueInvStep == ASSUME TypeOK, QueueInv, Next PROVE QueueInv'
<1> USE DEF facadeVars, adapterVars, workerVars, nativeVars
<1>0. /\ guiQueue \in Seq(GuiMessage) /\ workerQueue \in Seq(WorkMessage)
      /\ inflight \subseteq NativeRequest /\ events \in Seq(NativeEvent)
      /\ Kinds \subseteq NativeKinds
  BY DEF QueueInv, NativeKinds
<1>1. guiQueue' \in Seq(GuiMessage)
  <2>1. CASE Receive
    <3>1. PICK t \in Tokens, k \in NativeKinds, g \in {1, 2}, r \in Results :
            /\ guiQueue # <<>>
            /\ \/ t \in DOMAIN requests /\ guiQueue' = Append(Tail(guiQueue), Finish(requests[t], r))
               \/ guiQueue' = Tail(guiQueue)
      BY <2>1, ReplyReceived
    <3>2. Tail(guiQueue) \in Seq(GuiMessage)
      BY <3>1, GuiHead
    <3>3. t \in DOMAIN requests => Finish(requests[t], r) \in GuiMessage
      <4>1. t \in DOMAIN requests => requests[t].id \in Ids /\ requests[t].kind \in Kinds
        BY DEF TypeOK, Entry
      <4> QED BY <4>1, Made DEF Finish
    <3> QED BY <3>1, <3>2, <3>3
  <2>2. CASE EmitFinished
    <3>1. PICK j \in Ids, k \in Kinds, r \in Results :
            /\ guiQueue # <<>>
            /\ guiQueue' = Append(Tail(guiQueue), [type |-> "complete", id |-> j, kind |-> k, result |-> r])
      BY <2>2, FinishTaken
    <3>2. Tail(guiQueue) \in Seq(GuiMessage) /\ [type |-> "complete", id |-> j, kind |-> k, result |-> r] \in GuiMessage
      BY <3>1, GuiHead, Made
    <3> QED BY <3>1, <3>2
  <2>3. CASE CompleteRequest \/ DeliverTerminal
    BY <2>3, GuiHead DEF CompleteRequest, DeliverTerminal, NextGui
  <2>4. CASE CoreUnavailable
    <3>1. Tail(guiQueue) \in Seq(GuiMessage) /\ guiQueue' \in SettledAs("unavailable", Tail(guiQueue))
      BY <2>4, GuiHead DEF CoreUnavailable, NextGui
    <3> QED BY <3>1, SettledQueue
  <2>5. CASE Shutdown
    <3>1. PICK q \in TerminalsFor(DOMAIN owners, guiQueue) : guiQueue' \in SettledAs("unavailable", q)
      BY <2>5 DEF Shutdown
    <3>2. DOMAIN owners \in SUBSET Ids
      BY DEF TypeOK
    <3>3. q \in Seq(GuiMessage)
      BY <1>0, <3>1, <3>2, TerminalsQueue
    <3> QED BY <3>1, <3>3, SettledQueue
  <2>6. CASE RunSubmission \/ DrainAnswer \/ DrainShutdown
    BY <2>6, WorkerIsQuiet DEF Quiet
  <2>7. CASE UNCHANGED guiQueue
    BY <1>0, <2>7
  <2> QED BY <2>1, <2>2, <2>3, <2>4, <2>5, <2>6, <2>7 DEF Next, GuiEvent, WorkerEvent, Drain, Admit, PostRefused,
        WorkerShutdown, SubmitRecovery, NativeReply, NativeQuit
<1>2. workerQueue' \in Seq(WorkMessage)
  <2>1. ASSUME NEW kind \in Kinds, Admit(kind) PROVE workerQueue' \in Seq(WorkMessage)
    <3>1. nextToken \in Tokens
      BY <2>1 DEF Admit, MayAdmit, TypeOK, Tokens
    <3>2. Submit(nextToken, kind) \in WorkMessage
      BY <3>1 DEF WorkMessage, Submit
    <3> QED BY <1>0, <2>1, <3>2 DEF Admit
  <2>2. CASE Shutdown
    <3>1. StopWorker \in WorkMessage
      BY DEF WorkMessage
    <3> QED BY <1>0, <2>2, <3>1 DEF Shutdown
  <2>3. CASE RunSubmission \/ WorkerShutdown
    BY <2>3, WorkHead DEF RunSubmission, WorkerShutdown, NextWork
  <2>4. CASE UNCHANGED workerQueue
    BY <1>0, <2>4
  <2> QED BY <2>1, <2>2, <2>3, <2>4 DEF Next, GuiEvent, WorkerEvent, Drain, PostRefused, Receive, EmitFinished,
        CompleteRequest, DeliverTerminal, CoreUnavailable, SubmitRecovery, DrainAnswer, DrainShutdown, NativeReply,
        NativeQuit
<1>3. inflight' \subseteq NativeRequest
  <2>1. CASE RunSubmission
    <3>1. PICK t \in Tokens, k \in Kinds : UNCHANGED inflight \/ inflight' = inflight \cup {[token |-> t, kind |-> k]}
      BY <2>1, SubmissionRuns
    <3>2. [token |-> t, kind |-> k] \in NativeRequest
      BY <1>0 DEF NativeRequest
    <3> QED BY <1>0, <3>1, <3>2
  <2>2. CASE SubmitRecovery
    <3>1. nextToken \in Tokens
      BY <2>2 DEF SubmitRecovery, TypeOK, Tokens
    <3>2. PICK k \in NativeKinds : inflight' = inflight \cup {[token |-> nextToken, kind |-> k]}
      BY <1>0, <2>2 DEF SubmitRecovery
    <3>3. [token |-> nextToken, kind |-> k] \in NativeRequest
      BY <3>1 DEF NativeRequest
    <3> QED BY <1>0, <3>2, <3>3
  <2>3. CASE \E n \in inflight : NativeReply(n)
    BY <1>0, <2>3 DEF NativeReply
  <2>4. CASE UNCHANGED inflight
    BY <1>0, <2>4
  <2> QED BY <2>1, <2>2, <2>3, <2>4 DEF Next, GuiEvent, WorkerEvent, Drain, Admit, PostRefused, Shutdown, Receive,
        EmitFinished, CompleteRequest, DeliverTerminal, CoreUnavailable, WorkerShutdown, DrainAnswer, DrainShutdown,
        NativeQuit
<1>4. events' \in Seq(NativeEvent)
  <2>1. CASE DrainAnswer \/ DrainShutdown
    BY <2>1, EventHead DEF DrainAnswer, DrainShutdown, NextEvent
  <2>2. ASSUME NEW n \in inflight, NativeReply(n) PROVE events' \in Seq(NativeEvent)
    <3>1. NativeAnswer(n) \in NativeEvent
      BY <1>0 DEF NativeAnswer, NativeEvent, NativeRequest
    <3> QED BY <1>0, <2>2, <3>1 DEF NativeReply
  <2>3. CASE NativeQuit
    <3>1. NativeShutdown \in NativeEvent
      BY DEF NativeEvent
    <3> QED BY <1>0, <2>3, <3>1 DEF NativeQuit
  <2>4. CASE UNCHANGED events
    BY <1>0, <2>4
  <2> QED BY <2>1, <2>2, <2>3, <2>4 DEF Next, GuiEvent, WorkerEvent, Drain, Admit, PostRefused, Shutdown, Receive,
        EmitFinished, CompleteRequest, DeliverTerminal, CoreUnavailable, RunSubmission, WorkerShutdown, SubmitRecovery
<1> QED BY <1>1, <1>2, <1>3, <1>4 DEF QueueInv

\* What is appended to the queue of the worker.
LEMMA PostedWork ==
  ASSUME QueueInv, NEW m \in WorkMessage, workerQueue' = Append(workerQueue, m)
  PROVE  ToSet(workerQueue') = ToSet(workerQueue) \cup {m}
BY AppendQueue DEF QueueInv
\* What is appended to libmpv's events.
LEMMA PostedEvent ==
  ASSUME QueueInv, NEW e \in NativeEvent, events' = Append(events, e)
  PROVE  ToSet(events') = ToSet(events) \cup {e}
BY AppendQueue DEF QueueInv

\* What a step does to the two event queues behind the GUI thread.
LEMMA WorkPosted ==
  ASSUME TypeOK, QueueInv, Next
  PROVE  /\ StopWorker \in ToSet(workerQueue') => StopWorker \in ToSet(workerQueue) \/ Shutdown
         /\ \A t, k : Submit(t, k) \in ToSet(workerQueue) =>
              \/ Submit(t, k) \in ToSet(workerQueue')
              \/ RunSubmission /\ Head(workerQueue) = Submit(t, k)
              \/ WorkerShutdown
         /\ WorkerShutdown => StopWorker \in ToSet(workerQueue)
<1> USE DEF facadeVars, adapterVars, workerVars, nativeVars
<1>1. ASSUME NEW kind \in Kinds, Admit(kind)
      PROVE  ToSet(workerQueue') = ToSet(workerQueue) \cup {Submit(nextToken, kind)}
  <2>1. nextToken \in Tokens
    BY <1>1 DEF Admit, MayAdmit, TypeOK, Tokens
  <2>2. Submit(nextToken, kind) \in WorkMessage
    BY <2>1 DEF WorkMessage, Submit
  <2> QED BY <1>1, <2>2, PostedWork DEF Admit
<1>2. Shutdown => ToSet(workerQueue') = ToSet(workerQueue) \cup {StopWorker}
  <2>1. StopWorker \in WorkMessage
    BY DEF WorkMessage
  <2> QED BY <2>1, PostedWork DEF Shutdown
<1>3. RunSubmission => ToSet(workerQueue) = ToSet(workerQueue') \cup {Head(workerQueue)}
  BY WorkHead DEF RunSubmission, NextWork
<1>4. WorkerShutdown => /\ ToSet(workerQueue) = ToSet(workerQueue') \cup {Head(workerQueue)}
                        /\ Head(workerQueue) = StopWorker
  <2>1. ASSUME NEW m \in WorkMessage, m.type = "shutdown" PROVE m = StopWorker
    BY <2>1 DEF WorkMessage
  <2> QED BY <2>1, WorkHead DEF WorkerShutdown, NextWork
<1>5. \/ \E kind \in Kinds : Admit(kind)
      \/ Shutdown \/ RunSubmission \/ WorkerShutdown \/ UNCHANGED workerQueue
  BY DEF Next, GuiEvent, WorkerEvent, Drain, PostRefused, Receive, EmitFinished, CompleteRequest, DeliverTerminal,
    CoreUnavailable, SubmitRecovery, DrainAnswer, DrainShutdown, NativeReply, NativeQuit
<1>6. \A t, k : Submit(t, k) # StopWorker
  BY DEF Submit, StopWorker
<1>7. WorkerShutdown => StopWorker \in ToSet(workerQueue)
  BY <1>4
<1> HIDE DEF Admit, Shutdown, RunSubmission, WorkerShutdown
<1>8. CASE \E kind \in Kinds : Admit(kind)
  <2>1. PICK kind \in Kinds : ToSet(workerQueue') = ToSet(workerQueue) \cup {Submit(nextToken, kind)}
    BY <1>1, <1>8
  <2> QED BY <1>6, <1>7, <2>1
<1>9. CASE Shutdown
  BY <1>2, <1>7, <1>9
<1>10. CASE RunSubmission
  BY <1>3, <1>7, <1>10
<1>11. CASE WorkerShutdown
  BY <1>4, <1>11
<1>12. CASE UNCHANGED workerQueue
  BY <1>7, <1>12
<1> QED BY <1>5, <1>8, <1>9, <1>10, <1>11, <1>12
\* An answer of libmpv is appended to its events.
LEMMA AnswerPosted ==
  ASSUME QueueInv, NEW n \in inflight, NativeReply(n)
  PROVE  ToSet(events') = ToSet(events) \cup {NativeAnswer(n)}
<1>1. NativeAnswer(n) \in NativeEvent
  BY DEF NativeAnswer, NativeEvent, NativeRequest, QueueInv
<1> QED BY <1>1, PostedEvent DEF NativeReply
\* What a step does to libmpv's events.
LEMMA EventPosted ==
  ASSUME TypeOK, QueueInv, Next
  PROVE  /\ \A n : NativeAnswer(n) \in ToSet(events) =>
              NativeAnswer(n) \in ToSet(events') \/ (DrainAnswer /\ Head(events) = NativeAnswer(n))
         /\ NativeShutdown \in ToSet(events) => NativeShutdown \in ToSet(events') \/ DrainShutdown
         /\ NativeQuit => NativeShutdown \in ToSet(events')
<1> USE DEF facadeVars, adapterVars, workerVars, nativeVars
<1>1. ASSUME NEW n \in inflight, NativeReply(n) PROVE ToSet(events) \subseteq ToSet(events')
  BY <1>1, AnswerPosted
<1>2. NativeQuit => ToSet(events') = ToSet(events) \cup {NativeShutdown}
  <2>1. NativeShutdown \in NativeEvent
    BY DEF NativeEvent
  <2> QED BY <2>1, PostedEvent DEF NativeQuit
<1>3. DrainAnswer => /\ ToSet(events) = ToSet(events') \cup {Head(events)}
                     /\ Head(events) # NativeShutdown
  BY EventHead DEF DrainAnswer, NextEvent, NativeShutdown
<1>4. DrainShutdown => /\ ToSet(events) = ToSet(events') \cup {Head(events)}
                       /\ Head(events).type = "shutdown"
  BY EventHead DEF DrainShutdown, NextEvent
<1>5. \/ \E n \in inflight : NativeReply(n)
      \/ NativeQuit \/ DrainAnswer \/ DrainShutdown \/ UNCHANGED events
  BY DEF Next, GuiEvent, WorkerEvent, Drain, Admit, PostRefused, Shutdown, Receive, EmitFinished, CompleteRequest,
    DeliverTerminal, CoreUnavailable, RunSubmission, WorkerShutdown, SubmitRecovery
<1>6. \A n : NativeAnswer(n).type = "answer"
  BY DEF NativeAnswer
<1>8. NativeQuit => NativeShutdown \in ToSet(events')
  BY <1>2
<1>9. CASE ToSet(events) \subseteq ToSet(events')
  BY <1>8, <1>9
<1>10. CASE DrainAnswer
  BY <1>3, <1>8, <1>10
<1>11. CASE DrainShutdown
  BY <1>4, <1>6, <1>8, <1>11
<1> QED BY <1>1, <1>2, <1>5, <1>9, <1>10, <1>11
\* The phases of the two threads follow each other.
LEMMA PhaseInvStep == ASSUME TypeOK, QueueInv, PhaseInv, Next PROVE PhaseInv'
<1> USE DEF facadeVars, adapterVars, workerVars, nativeVars
<1>1. /\ closing' = shuttingDown' /\ available' = coreAvailable' /\ (closing' => ~available')
      /\ generation' = IF closing' THEN 2 ELSE 1
      /\ closing => closing'
      /\ Shutdown => closing'
  <2>1. CASE UNCHANGED <<closing, shuttingDown, available, coreAvailable, generation>> /\ ~Shutdown
    BY <2>1 DEF PhaseInv
  <2>2. CASE Shutdown
    <3>1. /\ shuttingDown' = TRUE /\ coreAvailable' = FALSE /\ closing' = TRUE /\ available' = FALSE
          /\ generation' = generation + 1 /\ ~shuttingDown
      BY <2>2 DEF Shutdown
    <3>2. generation = 1
      BY <3>1 DEF PhaseInv
    <3>3. generation' = 2
      BY <3>1, <3>2
    <3> QED BY <3>1, <3>3
  <2>3. CASE CoreUnavailable
    BY <2>3 DEF CoreUnavailable, Shutdown, PhaseInv
  <2> QED BY <2>1, <2>2, <2>3 DEF Next, GuiEvent, WorkerEvent, Drain, Admit, PostRefused, Receive, EmitFinished,
        CompleteRequest, DeliverTerminal, RunSubmission, WorkerShutdown, SubmitRecovery, DrainAnswer,
        DrainShutdown, NativeReply, NativeQuit
<1>2. wGeneration' = IF wClosing' THEN 2 ELSE 1
  <2>1. CASE UNCHANGED <<wGeneration, wClosing>>
    BY <2>1 DEF PhaseInv
  <2>2. CASE WorkerShutdown
    BY <2>2 DEF WorkerShutdown, PhaseInv, NextWork
  <2> QED BY <2>1, <2>2 DEF Next, GuiEvent, WorkerEvent, Drain, Admit, PostRefused, Shutdown, Receive, EmitFinished,
        CompleteRequest, DeliverTerminal, CoreUnavailable, RunSubmission, SubmitRecovery, DrainAnswer,
        DrainShutdown, NativeReply, NativeQuit
<1>3. /\ ~available' => DOMAIN requests' = {}
      /\ \A t \in DOMAIN requests' : requests'[t].gen = generation'
  <2>1. CASE UNCHANGED <<requests, available, generation>>
    BY <2>1 DEF PhaseInv
  <2>2. ASSUME NEW kind \in Kinds, Admit(kind)
        PROVE  available' /\ \A t \in DOMAIN requests' : requests'[t].gen = generation'
    BY <2>2 DEF Admit, MayAdmit, Insert, PhaseInv
  <2>3. CASE Shutdown \/ CoreUnavailable
    BY <2>3 DEF Shutdown, CoreUnavailable
  <2>4. CASE Receive
    <3>1. UNCHANGED <<available, generation>>
      BY <2>4 DEF Receive
    <3>2. \A t \in DOMAIN requests' : t \in DOMAIN requests /\ requests'[t] = requests[t]
      BY <2>4, ReplyReceived
    <3> QED BY <3>1, <3>2 DEF PhaseInv
  <2> QED BY <2>1, <2>2, <2>3, <2>4 DEF Next, GuiEvent, WorkerEvent, Drain, PostRefused, EmitFinished,
        CompleteRequest, DeliverTerminal, RunSubmission, WorkerShutdown, SubmitRecovery, DrainAnswer, DrainShutdown,
        NativeReply, NativeQuit
<1>4. shuttingDown' => DOMAIN owners' = {}
  <2>1. CASE UNCHANGED <<shuttingDown, owners>>
    BY <2>1 DEF PhaseInv
  <2>2. CASE \E kind \in Kinds : Admit(kind)
    BY <2>2 DEF Admit, MayAdmit
  <2>3. CASE Shutdown
    BY <2>3 DEF Shutdown
  <2>4. CASE CompleteRequest
    BY <2>4 DEF CompleteRequest, PhaseInv
  <2> QED BY <2>1, <2>2, <2>3, <2>4 DEF Next, GuiEvent, WorkerEvent, Drain, PostRefused, Receive, EmitFinished,
        DeliverTerminal, CoreUnavailable, RunSubmission, WorkerShutdown, SubmitRecovery, DrainAnswer, DrainShutdown,
        NativeReply, NativeQuit
<1>5. StopWorker \in ToSet(workerQueue') \/ wClosing' => closing'
  <2>1. wClosing' => wClosing \/ WorkerShutdown
    BY DEF Next, GuiEvent, WorkerEvent, Drain, Admit, PostRefused, Shutdown, Receive, EmitFinished,
      CompleteRequest, DeliverTerminal, CoreUnavailable, RunSubmission, SubmitRecovery, DrainAnswer,
      DrainShutdown, NativeReply, NativeQuit
  <2>2. /\ StopWorker \in ToSet(workerQueue') => StopWorker \in ToSet(workerQueue) \/ Shutdown
        /\ WorkerShutdown => StopWorker \in ToSet(workerQueue)
    BY WorkPosted
  <2> HIDE DEF Shutdown, WorkerShutdown
  <2> QED BY <1>1, <2>1, <2>2 DEF PhaseInv
<1>6. quit' /\ wAvailable' => NativeShutdown \in ToSet(events')
  <2>1. quit' => quit \/ NativeQuit
    BY DEF Next, GuiEvent, WorkerEvent, Drain, Admit, PostRefused, Shutdown, Receive, EmitFinished,
      CompleteRequest, DeliverTerminal, CoreUnavailable, RunSubmission, WorkerShutdown, SubmitRecovery, DrainAnswer,
      DrainShutdown, NativeReply
  <2>2. wAvailable' => wAvailable /\ ~DrainShutdown
    BY DEF Next, GuiEvent, WorkerEvent, Drain, Admit, PostRefused, Shutdown, Receive, EmitFinished,
      CompleteRequest, DeliverTerminal, CoreUnavailable, RunSubmission, WorkerShutdown, SubmitRecovery, DrainAnswer,
      DrainShutdown, NativeReply, NativeQuit
  <2>3. /\ NativeShutdown \in ToSet(events) => NativeShutdown \in ToSet(events') \/ DrainShutdown
        /\ NativeQuit => NativeShutdown \in ToSet(events')
    BY EventPosted
  <2> HIDE DEF NativeQuit, DrainShutdown
  <2> QED BY <2>1, <2>2, <2>3 DEF PhaseInv
<1> QED BY <1>1, <1>2, <1>3, <1>4, <1>5, <1>6 DEF PhaseInv

\* The counter moves past the token it has handed out, or stays at 0.
LEMMA TokenGrows ==
  ASSUME TypeOK
  PROVE  /\ nextToken # 0 => NextToken(nextToken) \in {0, nextToken + 1}
         /\ \A t \in Tokens : NoteToken(t) /\ nextToken' # 0 => nextToken # 0 /\ nextToken' >= nextToken
         /\ \A t \in Tokens : NoteToken(t) => nextToken' \in 0 .. MaxToken
         /\ NextToken(nextToken) \in 0 .. MaxToken
BY BoundsAssumption DEF NextToken, NoteToken, TypeOK, Tokens

\* No token is handed out twice, so that recovery and requests share none.
LEMMA NeverSwallowsStep ==
  ASSUME TypeOK, QueueInv, RecoveryNeverSwallows, Next
  PROVE  RecoveryNeverSwallows'
<1> USE DEF facadeVars, adapterVars, workerVars, nativeVars
<1>0. /\ nextToken \in 0 .. MaxToken /\ DOMAIN requests \subseteq Tokens /\ recoveryRequests \subseteq Tokens
      /\ Tokens \subseteq Nat /\ MaxToken \in Nat
  BY BoundsAssumption DEF TypeOK, Tokens
<1>1. ASSUME DOMAIN requests' \subseteq DOMAIN requests, recoveryRequests' \subseteq recoveryRequests,
             nextToken' # 0 => nextToken # 0 /\ nextToken' \in Nat /\ nextToken' >= nextToken
      PROVE  RecoveryNeverSwallows'
  <2>1. recoveryRequests' \cap DOMAIN requests' = {}
    BY <1>1 DEF RecoveryNeverSwallows
  <2>2. ASSUME nextToken' # 0, NEW t \in DOMAIN requests' \cup recoveryRequests' PROVE t < nextToken'
    <3>1. t \in DOMAIN requests \cup recoveryRequests
      BY <1>1
    <3>2. t \in Nat /\ nextToken <= nextToken' /\ nextToken \in Nat /\ nextToken' \in Nat /\ nextToken # 0
      <4>1. t \in Tokens
        BY <1>0, <3>1
      <4> QED BY <1>0, <1>1, <2>2, <4>1
    <3>3. t < nextToken
      BY <3>1, <3>2 DEF RecoveryNeverSwallows
    <3> QED BY <3>2, <3>3
  <2> QED BY <2>1, <2>2 DEF RecoveryNeverSwallows
<1>10. ASSUME nextToken # 0, nextToken' \in {0, nextToken + 1},
              \/ DOMAIN requests' = DOMAIN requests \cup {nextToken} /\ UNCHANGED recoveryRequests
              \/ recoveryRequests' = {nextToken} /\ UNCHANGED requests
       PROVE  RecoveryNeverSwallows'
  <2>1. ASSUME NEW t \in DOMAIN requests \cup recoveryRequests PROVE t < nextToken /\ t \in Nat /\ t # nextToken
    <3>1. t \in Tokens
      BY <1>0
    <3>2. t < nextToken
      BY <1>10 DEF RecoveryNeverSwallows
    <3> QED BY <1>0, <3>1, <3>2
  <2>2. recoveryRequests' \cap DOMAIN requests' = {}
    BY <1>10, <2>1 DEF RecoveryNeverSwallows
  <2>3. ASSUME nextToken' # 0, NEW t \in DOMAIN requests' \cup recoveryRequests' PROVE t < nextToken'
    <3>1. t \in DOMAIN requests \cup recoveryRequests \/ t = nextToken
      BY <1>10
    <3>2. nextToken' = nextToken + 1 /\ nextToken \in Nat
      BY <1>0, <1>10, <2>3
    <3> QED BY <2>1, <3>1, <3>2
  <2> QED BY <2>2, <2>3 DEF RecoveryNeverSwallows
<1>2. ASSUME NEW kind \in Kinds, Admit(kind) PROVE RecoveryNeverSwallows'
  <2>1. /\ DOMAIN requests' = DOMAIN requests \cup {nextToken} /\ UNCHANGED recoveryRequests
        /\ nextToken # 0 /\ nextToken' \in {0, nextToken + 1}
    BY <1>2, TokenGrows DEF Admit, MayAdmit, Insert
  <2> QED BY <1>10, <2>1
<1>3. CASE SubmitRecovery
  <2>1. /\ recoveryRequests' = {nextToken} /\ UNCHANGED requests
        /\ nextToken # 0 /\ nextToken' \in {0, nextToken + 1}
    BY <1>3, TokenGrows DEF SubmitRecovery
  <2> QED BY <1>10, <2>1
<1>4. CASE PostRefused
  <2>1. nextToken # 0 /\ nextToken' \in {0, nextToken + 1} /\ UNCHANGED <<requests, recoveryRequests>>
    BY <1>4, TokenGrows DEF PostRefused, MayAdmit
  <2> QED BY <1>0, <1>1, <2>1
<1>5. CASE RunSubmission
  <2>1. UNCHANGED <<requests, recoveryRequests>>
    BY <1>5 DEF RunSubmission
  <2>2. PICK t \in Tokens : NoteToken(t) \/ UNCHANGED nextToken
    BY <1>5, SubmissionRuns
  <2>3. nextToken' # 0 => nextToken # 0 /\ nextToken' \in Nat /\ nextToken' >= nextToken
    BY <1>0, <2>2, TokenGrows
  <2> QED BY <1>1, <2>1, <2>3
<1>6. CASE Receive
  <2>1. UNCHANGED <<nextToken, recoveryRequests>> /\ DOMAIN requests' \subseteq DOMAIN requests
    BY <1>6, ReplyReceived DEF Receive
  <2> QED BY <1>0, <1>1, <2>1
<1>7. CASE Shutdown \/ CoreUnavailable
  <2>1. UNCHANGED <<nextToken, recoveryRequests>> /\ DOMAIN requests' \subseteq DOMAIN requests
    BY <1>7 DEF Shutdown, CoreUnavailable
  <2> QED BY <1>0, <1>1, <2>1
<1>8. CASE DrainAnswer
  <2>1. UNCHANGED <<nextToken, requests>> /\ recoveryRequests' \subseteq recoveryRequests
    BY <1>8 DEF DrainAnswer
  <2> QED BY <1>0, <1>1, <2>1
<1>9. CASE UNCHANGED <<nextToken, requests, recoveryRequests>>
  BY <1>0, <1>1, <1>9
<1> QED BY <1>2, <1>3, <1>4, <1>5, <1>6, <1>7, <1>8, <1>9 DEF Next, GuiEvent, WorkerEvent, Drain, EmitFinished,
      CompleteRequest, DeliverTerminal, WorkerShutdown, DrainShutdown, NativeReply, NativeQuit
-----------------------------------------------------------------------------
(* Each entry of the adapter is on its way to an answer.                     *)

\* What one entry waits for.
Underway(t) ==
  \/ Submit(t, requests[t].kind) \in ToSet(workerQueue)
  \/ ~quit /\ [token |-> t, kind |-> requests[t].kind] \in inflight
  \/ NativeAnswer([token |-> t, kind |-> requests[t].kind]) \in ToSet(events)
  \/ \E r \in Results : Reply(t, requests[t].kind, generation, r) \in ToSet(guiQueue)
  \/ NativeShutdown \in ToSet(events) \/ CoreGone \in ToSet(guiQueue)

\* The property in the terms of the proof.
LEMMA UnderwayEntries == EntryIsUnderway <=> \A t \in DOMAIN requests : Underway(t)
BY DEF EntryIsUnderway, Underway, ToSet, Messages

\* A reply, or the loss of the core, stays in the queue of the GUI thread until it is
\* received.
LEMMA AnswerStays ==
  ASSUME TypeOK, QueueInv, Next, ~Shutdown, ~CoreUnavailable,
         NEW m \in ToSet(guiQueue), m.type \in {"reply", "coreUnavailable"}
  PROVE  m \in ToSet(guiQueue') \/ (Receive /\ guiQueue # <<>> /\ m = Head(guiQueue))
<1> USE DEF facadeVars, adapterVars, workerVars, nativeVars
<1>1. CASE Receive
  <2>1. PICK t \in Tokens, k \in NativeKinds, g \in {1, 2}, r \in Results :
          /\ guiQueue # <<>>
          /\ \/ t \in DOMAIN requests /\ guiQueue' = Append(Tail(guiQueue), Finish(requests[t], r))
             \/ guiQueue' = Tail(guiQueue)
    BY <1>1, ReplyReceived
  <2>2. ToSet(guiQueue) = ToSet(Tail(guiQueue)) \cup {Head(guiQueue)}
    BY <2>1, GuiHead
  <2>3. CASE t \in DOMAIN requests /\ guiQueue' = Append(Tail(guiQueue), Finish(requests[t], r))
    <3>1. Finish(requests[t], r) \in GuiMessage
      <4>1. requests[t].id \in Ids /\ requests[t].kind \in Kinds
        BY <2>3 DEF TypeOK, Entry
      <4> QED BY <4>1, Made DEF Finish
    <3>2. ToSet(guiQueue') = ToSet(Tail(guiQueue)) \cup {Finish(requests[t], r)}
      BY <2>1, <2>3, <3>1, Replaced
    <3> QED BY <1>1, <2>1, <2>2, <3>2
  <2> QED BY <1>1, <2>1, <2>2, <2>3
<1>2. CASE EmitFinished
  <2>1. PICK j \in Ids, k \in Kinds, r \in Results :
          /\ guiQueue # <<>> /\ Head(guiQueue) \in Completion(j)
          /\ guiQueue' = Append(Tail(guiQueue), [type |-> "complete", id |-> j, kind |-> k, result |-> r])
    BY <1>2, FinishTaken
  <2>2. ToSet(guiQueue) = ToSet(Tail(guiQueue)) \cup {Head(guiQueue)} /\ m # Head(guiQueue)
    BY <2>1, GuiHead, Members
  <2>3. [type |-> "complete", id |-> j, kind |-> k, result |-> r] \in GuiMessage
    BY Made
  <2>4. ToSet(Tail(guiQueue)) \subseteq ToSet(guiQueue')
    BY <2>1, <2>3, Replaced
  <2> QED BY <2>2, <2>4
<1>3. CASE CompleteRequest \/ DeliverTerminal
  BY <1>3, GuiHead DEF CompleteRequest, DeliverTerminal, NextGui
<1>4. CASE RunSubmission \/ DrainAnswer \/ DrainShutdown
  BY <1>4, WorkerIsQuiet
<1>5. CASE UNCHANGED guiQueue
  BY <1>5
<1> QED BY <1>1, <1>2, <1>3, <1>4, <1>5 DEF Next, GuiEvent, WorkerEvent, Drain, Admit, PostRefused,
      WorkerShutdown, SubmitRecovery, NativeReply, NativeQuit

\* A submission of a request is answered, or accepted by libmpv.
LEMMA SubmissionStays ==
  ASSUME TypeOK, QueueInv, PhaseInv, ~closing, RunSubmission, NEW t, NEW k, Head(workerQueue) = Submit(t, k)
  PROVE  \/ \E r \in Results : Reply(t, k, generation, r) \in ToSet(guiQueue')
         \/ ~quit' /\ [token |-> t, kind |-> k] \in inflight'
         \/ NativeShutdown \in ToSet(events')
<1>1. PICK u \in Tokens, l \in Kinds :
        /\ Head(workerQueue) = Submit(u, l)
        /\ \/ \E r \in Results : Emit(Reply(u, l, wGeneration, r))
           \/ WorkerAvailable /\ inflight' = inflight \cup {[token |-> u, kind |-> l]}
  BY SubmissionRuns
<1>2. u = t /\ l = k
  BY <1>1 DEF Submit
<1>3. UNCHANGED <<quit, events>>
  BY DEF RunSubmission
<1>4. CASE WorkerAvailable /\ inflight' = inflight \cup {[token |-> u, kind |-> l]}
  BY <1>2, <1>3, <1>4 DEF PhaseInv, WorkerAvailable
<1>5. ASSUME NEW r \in Results, Emit(Reply(u, l, wGeneration, r))
      PROVE  Reply(t, k, generation, r) \in ToSet(guiQueue')
  <2>1. wGeneration = generation /\ wGeneration \in {1, 2}
    BY DEF PhaseInv, TypeOK
  <2>2. Reply(u, l, wGeneration, r) \in GuiMessage /\ Reply(u, l, wGeneration, r).type = "reply"
    <3>1. l \in NativeKinds
      BY DEF NativeKinds
    <3> QED BY <2>1, <3>1, Made DEF Reply
  <2> QED BY <1>2, <1>5, <2>1, <2>2, EmitIsQuiet
<1> QED BY <1>1, <1>4, <1>5

\* An answer of libmpv is signalled, unless it answers the recovery.
LEMMA AnswerIsSignalled ==
  ASSUME TypeOK, QueueInv, PhaseInv, ~closing, DrainAnswer, NEW t \in Tokens \ recoveryRequests, NEW k,
         Head(events) = NativeAnswer([token |-> t, kind |-> k])
  PROVE  \E r \in Results : Reply(t, k, generation, r) \in ToSet(guiQueue')
<1>1. PICK u \in Tokens, l \in NativeKinds :
        /\ Head(events) = NativeAnswer([token |-> u, kind |-> l])
        /\ u \in recoveryRequests \/ Emit(Reply(u, l, wGeneration, "native"))
  BY AnswerDrains
<1>2. u = t /\ l = k
  BY <1>1 DEF NativeAnswer
<1>3. wGeneration = generation /\ wGeneration \in {1, 2} /\ "native" \in Results
  BY DEF PhaseInv, TypeOK, Results
<1>4. Reply(u, l, wGeneration, "native") \in GuiMessage /\ Reply(u, l, wGeneration, "native").type = "reply"
  BY <1>3, Made DEF Reply
<1> QED BY <1>1, <1>2, <1>3, <1>4, EmitIsQuiet

\* Each step keeps each entry underway.
LEMMA UnderwayStep ==
  ASSUME TypeOK, QueueInv, PhaseInv, RecoveryNeverSwallows, EntryIsUnderway, Next
  PROVE  EntryIsUnderway'
<1> USE DEF facadeVars, adapterVars, workerVars, nativeVars
<1>1. SUFFICES ASSUME NEW t \in DOMAIN requests' PROVE Underway(t)'
  BY UnderwayEntries DEF EntryIsUnderway, Underway, ToSet, Messages
<1>2. ASSUME NEW kind \in Kinds, Admit(kind), t \notin DOMAIN requests PROVE Underway(t)'
  <2>1. nextToken \in Tokens
    BY <1>2 DEF Admit, MayAdmit, TypeOK, Tokens
  <2>2. t = nextToken /\ requests'[t].kind = kind
    BY <1>2 DEF Admit, Insert
  <2>3. Submit(nextToken, kind) \in WorkMessage
    BY <2>1 DEF WorkMessage, Submit
  <2>4. Submit(t, kind) \in ToSet(workerQueue')
    BY <1>2, <2>2, <2>3, PostedWork DEF Admit
  <2> QED BY <2>2, <2>4 DEF Underway
<1>3. CASE Shutdown \/ CoreUnavailable
  BY <1>3 DEF Shutdown, CoreUnavailable
<1>4. ASSUME t \in DOMAIN requests, ~Shutdown, ~CoreUnavailable PROVE Underway(t)'
  <2>1. /\ requests'[t] = requests[t] /\ UNCHANGED generation /\ t \in Tokens /\ t \notin recoveryRequests
        /\ requests[t].gen = generation /\ available /\ ~closing
    <3>1. t \in Tokens /\ t \notin recoveryRequests /\ requests[t].gen = generation
      BY <1>4 DEF TypeOK, RecoveryNeverSwallows, PhaseInv
    <3>2. available /\ ~closing
      BY <1>4 DEF PhaseInv
    <3>3. ASSUME NEW kind \in Kinds, Admit(kind) PROVE requests'[t] = requests[t]
      <4>1. t # nextToken
        BY <1>4, <3>1, <3>3 DEF Admit, MayAdmit, RecoveryNeverSwallows, TypeOK, Tokens
      <4> QED BY <1>4, <3>3, <4>1 DEF Admit, Insert
    <3>4. requests'[t] = requests[t] /\ UNCHANGED generation
      BY <1>4, <3>3, ReplyReceived DEF Next, GuiEvent, WorkerEvent, Drain, Admit, PostRefused, Receive, EmitFinished,
        CompleteRequest, DeliverTerminal, RunSubmission, WorkerShutdown, SubmitRecovery, DrainAnswer, DrainShutdown,
        NativeReply, NativeQuit
    <3> QED BY <3>1, <3>2, <3>4
  <2> DEFINE k == requests[t].kind
  <2>2. requests'[t].kind = k /\ Underway(t)
    BY <1>4, <2>1, UnderwayEntries
  <2>3. CASE Submit(t, k) \in ToSet(workerQueue)
    <3>1. ~WorkerShutdown
      BY <2>1, WorkPosted DEF PhaseInv
    <3>2. Submit(t, k) \in ToSet(workerQueue') \/ (RunSubmission /\ Head(workerQueue) = Submit(t, k))
      BY <2>3, <3>1, WorkPosted
    <3> QED BY <2>1, <2>2, <3>2, SubmissionStays DEF Underway
  <2>4. CASE ~quit /\ [token |-> t, kind |-> k] \in inflight
    <3> DEFINE n == [token |-> t, kind |-> k]
    <3>1. CASE NativeReply(n)
      <4>1. NativeAnswer(n) \in ToSet(events')
        BY <2>4, <3>1, AnswerPosted
      <4> QED BY <2>2, <4>1 DEF Underway
    <3>2. CASE NativeQuit
      <4>1. NativeShutdown \in ToSet(events')
        BY <3>2, EventPosted
      <4> QED BY <4>1 DEF Underway
    <3>3. CASE ~NativeReply(n) /\ ~NativeQuit
      <4>1. ASSUME NEW o \in inflight, NativeReply(o) PROVE n \in inflight'
        <5>1. o # n
          BY <3>3, <4>1
        <5>2. inflight' = inflight \ {o}
          BY <4>1 DEF NativeReply
        <5> QED BY <2>4, <5>1, <5>2
      <4>2. inflight \subseteq inflight' \/ \E o \in inflight : NativeReply(o)
        BY <3>3 DEF Next, GuiEvent, WorkerEvent, Drain, Admit, PostRefused, Shutdown, Receive, EmitFinished,
          CompleteRequest, DeliverTerminal, CoreUnavailable, RunSubmission, AnswerNow, WorkerShutdown, SubmitRecovery,
          DrainAnswer, DrainShutdown
      <4>3. UNCHANGED quit
        BY <3>3 DEF Next, GuiEvent, WorkerEvent, Drain, Admit, PostRefused, Shutdown, Receive, EmitFinished,
          CompleteRequest, DeliverTerminal, CoreUnavailable, RunSubmission, WorkerShutdown, SubmitRecovery,
          DrainAnswer, DrainShutdown, NativeReply
      <4> QED BY <2>2, <2>4, <4>1, <4>2, <4>3 DEF Underway
    <3> QED BY <3>1, <3>2, <3>3
  <2>5. CASE NativeAnswer([token |-> t, kind |-> k]) \in ToSet(events)
    <3>1. \/ NativeAnswer([token |-> t, kind |-> k]) \in ToSet(events')
          \/ DrainAnswer /\ Head(events) = NativeAnswer([token |-> t, kind |-> k])
      BY <2>5, EventPosted
    <3>2. CASE DrainAnswer /\ Head(events) = NativeAnswer([token |-> t, kind |-> k])
      <4>1. \E r \in Results : Reply(t, k, generation, r) \in ToSet(guiQueue')
        BY <2>1, <3>2, AnswerIsSignalled
      <4> QED BY <2>1, <2>2, <4>1 DEF Underway
    <3> QED BY <2>2, <3>1, <3>2 DEF Underway
  <2>6. ASSUME NEW r \in Results, Reply(t, k, generation, r) \in ToSet(guiQueue) PROVE Underway(t)'
    <3> DEFINE m == Reply(t, k, generation, r)
    <3>1. m.type = "reply" /\ m.token = t /\ m.kind = k /\ m.gen = generation
      BY DEF Reply
    <3>2. ~(Receive /\ guiQueue # <<>> /\ m = Head(guiQueue))
      <4> SUFFICES ASSUME Receive, m = Head(guiQueue) PROVE FALSE
        OBVIOUS
      <4>1. requests' = [u \in DOMAIN requests \ {t} |-> requests[u]]
        BY <1>4, <2>1, <3>1 DEF Receive
      <4> QED BY <4>1
    <3>3. m \in ToSet(guiQueue')
      BY <1>4, <2>6, <3>1, <3>2, AnswerStays
    <3> QED BY <2>1, <2>2, <3>3 DEF Underway
  <2>7. CASE CoreGone \in ToSet(guiQueue)
    <3>1. CoreGone.type = "coreUnavailable" /\ (Receive => Head(guiQueue).type = "reply")
      BY DEF CoreGone, Receive, NextGui
    <3>2. CoreGone \in ToSet(guiQueue')
      BY <1>4, <2>7, <3>1, AnswerStays
    <3> QED BY <3>2 DEF Underway
  <2>8. CASE NativeShutdown \in ToSet(events)
    <3>1. NativeShutdown \in ToSet(events') \/ DrainShutdown
      BY <2>8, EventPosted
    <3>2. CASE DrainShutdown
      <4>1. CoreGone \in GuiMessage /\ CoreGone.type = "coreUnavailable"
        BY Made DEF CoreGone
      <4>2. CoreGone \in ToSet(guiQueue')
        BY <2>1, <3>2, <4>1, EmitIsQuiet DEF DrainShutdown
      <4> QED BY <4>2 DEF Underway
    <3> QED BY <3>1, <3>2 DEF Underway
  <2> QED BY <2>2, <2>3, <2>4, <2>5, <2>6, <2>7, <2>8 DEF Underway
<1>5. t \in DOMAIN requests \/ \E kind \in Kinds : Admit(kind)
  BY ReplyReceived DEF Next, GuiEvent, WorkerEvent, Drain, PostRefused, Shutdown, Receive, EmitFinished,
    CompleteRequest, DeliverTerminal, CoreUnavailable, RunSubmission, WorkerShutdown, SubmitRecovery, DrainAnswer,
    DrainShutdown, NativeReply, NativeQuit
<1> QED BY <1>2, <1>3, <1>4, <1>5
-----------------------------------------------------------------------------
(* The invariant.                                                            *)

\* Every variable keeps its type.
LEMMA TypeOKStep == ASSUME TypeOK, QueueInv, PhaseInv, PhaseInv', QueueInv', Next PROVE TypeOK'
<1> USE DEF facadeVars, adapterVars, workerVars, nativeVars
<1>1. {shuttingDown', coreAvailable', available', closing', wAvailable', wClosing', quit'} \subseteq BOOLEAN
  BY DEF TypeOK, Next, GuiEvent, WorkerEvent, Drain, Admit, PostRefused, Shutdown, Receive, EmitFinished,
    CompleteRequest, DeliverTerminal, CoreUnavailable, RunSubmission, WorkerShutdown, SubmitRecovery, DrainAnswer,
    DrainShutdown, NativeReply, NativeQuit
<1>2. generation' \in {1, 2} /\ wGeneration' \in {1, 2}
  BY DEF PhaseInv
<1>3. DOMAIN owners' \subseteq Ids /\ \A i \in DOMAIN owners' : owners'[i] \in Kinds
  <2>1. ASSUME NEW kind \in Kinds, Admit(kind)
        PROVE  DOMAIN owners' \subseteq Ids /\ \A i \in DOMAIN owners' : owners'[i] \in Kinds
    <3>1. nextPublicId \in Ids
      BY <2>1, BoundsAssumption DEF Admit, MayAdmit, TypeOK, Ids
    <3>2. owners' = Insert(owners, nextPublicId, kind)
      BY <2>1 DEF Admit
    <3> QED BY <3>1, <3>2 DEF Insert, TypeOK
  <2>2. CASE CompleteRequest
    BY <2>2 DEF CompleteRequest, TypeOK
  <2>3. CASE Shutdown
    BY <2>3 DEF Shutdown
  <2>4. CASE UNCHANGED owners
    BY <2>4 DEF TypeOK
  <2> QED BY <2>1, <2>2, <2>3, <2>4 DEF Next, GuiEvent, WorkerEvent, Drain, PostRefused, Receive, EmitFinished,
        DeliverTerminal, CoreUnavailable, RunSubmission, WorkerShutdown, SubmitRecovery, DrainAnswer, DrainShutdown,
        NativeReply, NativeQuit
<1>4. DOMAIN requests' \subseteq Tokens /\ \A t \in DOMAIN requests' : requests'[t] \in Entry
  <2>1. ASSUME NEW kind \in Kinds, Admit(kind)
        PROVE  DOMAIN requests' \subseteq Tokens /\ \A t \in DOMAIN requests' : requests'[t] \in Entry
    <3>1. nextPublicId \in Ids /\ nextToken \in Tokens
      BY <2>1, BoundsAssumption DEF Admit, MayAdmit, TypeOK, Ids, Tokens
    <3>2. [id |-> nextPublicId, kind |-> kind, gen |-> generation] \in Entry
      BY <3>1 DEF Entry, TypeOK
    <3>3. requests' = Insert(requests, nextToken, [id |-> nextPublicId, kind |-> kind, gen |-> generation])
      BY <2>1 DEF Admit
    <3> QED BY <3>1, <3>2, <3>3 DEF Insert, TypeOK
  <2>2. CASE Receive
    BY <2>2, ReplyReceived DEF TypeOK
  <2>3. CASE Shutdown \/ CoreUnavailable
    BY <2>3 DEF Shutdown, CoreUnavailable
  <2>4. CASE UNCHANGED requests
    BY <2>4 DEF TypeOK
  <2> QED BY <2>1, <2>2, <2>3, <2>4 DEF Next, GuiEvent, WorkerEvent, Drain, PostRefused, EmitFinished,
        CompleteRequest, DeliverTerminal, RunSubmission, WorkerShutdown, SubmitRecovery, DrainAnswer, DrainShutdown,
        NativeReply, NativeQuit
<1>5. nextPublicId' \in 1 .. MaxPublicId + 1
  <2>1. CASE MayAdmit /\ nextPublicId' = nextPublicId + 1
    BY <2>1, BoundsAssumption DEF MayAdmit, TypeOK
  <2>2. CASE UNCHANGED nextPublicId
    BY <2>2 DEF TypeOK
  <2> QED BY <2>1, <2>2 DEF Next, GuiEvent, WorkerEvent, Drain, Admit, PostRefused, Shutdown, Receive, EmitFinished,
        CompleteRequest, DeliverTerminal, CoreUnavailable, RunSubmission, WorkerShutdown, SubmitRecovery, DrainAnswer,
        DrainShutdown, NativeReply, NativeQuit
<1>6. nextToken' \in 0 .. MaxToken
  <2>1. CASE nextToken' = NextToken(nextToken)
    BY <2>1, TokenGrows
  <2>2. CASE UNCHANGED nextToken
    BY <2>2 DEF TypeOK
  <2>3. CASE RunSubmission
    BY <2>2, <2>3, SubmissionRuns, TokenGrows
  <2> QED BY <2>1, <2>2, <2>3 DEF Next, GuiEvent, WorkerEvent, Drain, Admit, PostRefused, Shutdown, Receive,
        EmitFinished, CompleteRequest, DeliverTerminal, CoreUnavailable, WorkerShutdown, SubmitRecovery, DrainAnswer,
        DrainShutdown, NativeReply, NativeQuit
<1>7. delivered' \in Seq(Ids \X Results)
  <2>1. CASE CompleteRequest
    <3>1. PICK j \in Ids, r \in Results : Head(guiQueue).id = j /\ Head(guiQueue).result = r
      BY <2>1, FinishTaken
    <3>2. <<Head(guiQueue).id, Head(guiQueue).result>> \in Ids \X Results
      BY <3>1
    <3>3. delivered' = Append(delivered, <<Head(guiQueue).id, Head(guiQueue).result>>) \/ UNCHANGED delivered
      BY <2>1 DEF CompleteRequest
    <3> QED BY <3>2, <3>3 DEF TypeOK
  <2>2. CASE DeliverTerminal
    <3>1. PICK j \in Ids : delivered' = Append(delivered, <<j, "unavailable">>)
      BY <2>2, TerminalTaken
    <3>2. <<j, "unavailable">> \in Ids \X Results
      BY DEF Results
    <3> QED BY <3>1, <3>2 DEF TypeOK
  <2>3. CASE UNCHANGED delivered
    BY <2>3 DEF TypeOK
  <2> QED BY <2>1, <2>2, <2>3 DEF Next, GuiEvent, WorkerEvent, Drain, Admit, PostRefused, Shutdown, Receive,
        EmitFinished, CoreUnavailable, RunSubmission, WorkerShutdown, SubmitRecovery, DrainAnswer, DrainShutdown,
        NativeReply, NativeQuit
<1>8. Messages' \subseteq GuiMessage
  <2>1. guiQueue' \in Seq(GuiMessage)
    BY DEF QueueInv
  <2> QED BY <2>1 DEF Messages
<1>9. recoveryRequests' \subseteq Tokens
  <2>1. CASE SubmitRecovery
    BY <2>1 DEF SubmitRecovery, TypeOK, Tokens
  <2>2. CASE DrainAnswer
    BY <2>2 DEF DrainAnswer, TypeOK
  <2>3. CASE UNCHANGED recoveryRequests
    BY <2>3 DEF TypeOK
  <2> QED BY <2>1, <2>2, <2>3 DEF Next, GuiEvent, WorkerEvent, Drain, Admit, PostRefused, Shutdown, Receive,
        EmitFinished, CompleteRequest, DeliverTerminal, CoreUnavailable, RunSubmission, WorkerShutdown, DrainShutdown,
        NativeReply, NativeQuit
<1> QED BY <1>1, <1>2, <1>3, <1>4, <1>5, <1>6, <1>7, <1>8, <1>9 DEF TypeOK

\* The invariant holds when the player has been created.
LEMMA InitIInv == Init => IInv
<1> SUFFICES ASSUME Init PROVE IInv
  OBVIOUS
<1>1. TypeOK
  <2>1. {shuttingDown, coreAvailable, available, closing, wAvailable, wClosing, quit} \subseteq BOOLEAN
    BY DEF Init
  <2>2. DOMAIN owners = {} /\ DOMAIN requests = {} /\ Messages = {} /\ delivered \in Seq(Ids \X Results)
    BY DEF Init, Messages
  <2>3. nextPublicId \in 1 .. MaxPublicId + 1 /\ nextToken \in 0 .. MaxToken
    BY BoundsAssumption DEF Init
  <2> QED BY <2>1, <2>2, <2>3 DEF Init, TypeOK
<1>2. QueueInv
  BY DEF Init, QueueInv
<1>3. /\ ToSet(guiQueue) = {} /\ ToSet(workerQueue) = {} /\ ToSet(events) = {} /\ ToSet(delivered) = {}
      /\ DOMAIN requests = {} /\ DOMAIN owners = {} /\ DOMAIN guiQueue = {} /\ DOMAIN delivered = {}
  BY DEF Init, ToSet
<1>4. PhaseInv
  BY <1>3 DEF Init, PhaseInv
<1>5. RecoveryNeverSwallows /\ EntryIsUnderway
  BY <1>3 DEF Init, RecoveryNeverSwallows, EntryIsUnderway
<1>6. ASSUME NEW i \in Ids PROVE PathInv(i) /\ TerminalInv(i)
  BY <1>3 DEF PathInv, TerminalInv, HasEntry, Holds, Single
<1> QED BY <1>1, <1>2, <1>4, <1>5, <1>6 DEF IInv

\* Each step keeps the invariant.
LEMMA IInvStep == IInv /\ [Next]_vars => IInv'
<1> SUFFICES ASSUME IInv, [Next]_vars PROVE IInv'
  OBVIOUS
<1>1. /\ TypeOK /\ QueueInv /\ PhaseInv /\ RecoveryNeverSwallows /\ EntryIsUnderway
      /\ \A i \in Ids : PathInv(i) /\ TerminalInv(i)
  BY DEF IInv
<1>2. CASE Next
  <2>1. QueueInv' /\ PhaseInv' /\ RecoveryNeverSwallows' /\ EntryIsUnderway'
    BY <1>1, <1>2, QueueInvStep, PhaseInvStep, NeverSwallowsStep, UnderwayStep
  <2>2. TypeOK'
    BY <1>1, <1>2, <2>1, TypeOKStep
  <2>3. ASSUME NEW i \in Ids PROVE PathInv(i)' /\ TerminalInv(i)'
    BY <1>1, <1>2, PathInvStep, TerminalInvStep
  <2> QED BY <2>1, <2>2, <2>3 DEF IInv
<1>3. CASE UNCHANGED vars
  <2> USE <1>3 DEF vars, facadeVars, adapterVars, workerVars, nativeVars
  <2>1. TypeOK'
    BY <1>1 DEF TypeOK, Messages
  <2>2. QueueInv'
    BY <1>1 DEF QueueInv
  <2>3. PhaseInv'
    BY <1>1 DEF PhaseInv
  <2>4. RecoveryNeverSwallows' /\ EntryIsUnderway'
    BY <1>1 DEF RecoveryNeverSwallows, EntryIsUnderway, Messages
  <2>5. \A i \in Ids : PathInv(i)' /\ TerminalInv(i)'
    BY <1>1 DEF PathInv, TerminalInv, HasEntry
  <2> QED BY <2>1, <2>2, <2>3, <2>4, <2>5 DEF IInv
<1> QED BY <1>2, <1>3

\* The inductive invariant holds in every behaviour.
THEOREM Invariance == Spec => []IInv
<1>1. Init => IInv
  BY InitIInv
<1>2. IInv /\ [Next]_vars => IInv'
  BY IInvStep
<1> QED BY <1>1, <1>2, PTL DEF Spec

\* Every variable of the request path keeps its type: ids and tokens stay within
\* their bounds, and a queue carries only its own messages.
THEOREM TypeCorrect == Spec => []TypeOK
<1>1. IInv => TypeOK
  BY DEF IInv
<1> QED BY <1>1, Invariance, PTL

\* handleRecoveryReply() never takes the answer of a request for its own, although
\* both draw their tokens from the same counter of the lease.
THEOREM RecoveryIsolated == Spec => []RecoveryNeverSwallows
<1>1. IInv => RecoveryNeverSwallows
  BY DEF IInv
<1> QED BY <1>1, Invariance, PTL

-----------------------------------------------------------------------------
(* Counting.                                                                 *)

\* A set with at most one element.
LEMMA AtMostOne ==
  ASSUME NEW S, \A x, y \in S : x = y
  PROVE  /\ S = {} => Cardinality(S) = 0
         /\ S # {} => Cardinality(S) = 1
<1>1. S = {} => Cardinality(S) = 0
  BY FS_EmptySet
<1>2. ASSUME S # {} PROVE Cardinality(S) = 1
  <2>1. PICK x \in S : TRUE
    BY <1>2
  <2>2. S = {x}
    BY <2>1
  <2> QED BY <2>2, FS_Singleton
<1> QED BY <1>1, <1>2

\* The messages of a queue that the run's properties count.
LEMMA Counted ==
  ASSUME QueueInv, TypeOK, NEW i \in Ids
  PROVE  /\ Carrying({"finish", "complete"}, i) = {n \in DOMAIN guiQueue : guiQueue[n] \in Completion(i)}
         /\ Carrying({"terminal"}, i) = {n \in DOMAIN guiQueue : guiQueue[n] \in Loss(i)}
         /\ DeliveriesOf(i) = {n \in DOMAIN delivered : delivered[n] \in Delivery(i)}
         /\ Carrying({"finish", "complete"}, i) # {} <=> Holds(guiQueue, Completion(i))
         /\ Carrying({"terminal"}, i) # {} <=> Holds(guiQueue, Loss(i))
         /\ DeliveriesOf(i) # {} <=> Holds(delivered, Delivery(i))
         /\ EntriesFor(i) # {} <=> HasEntry(i)
<1>1. ASSUME NEW n \in DOMAIN guiQueue
      PROVE  /\ guiQueue[n].type \in {"finish", "complete"} /\ guiQueue[n].id = i <=> guiQueue[n] \in Completion(i)
             /\ guiQueue[n].type \in {"terminal"} /\ guiQueue[n].id = i <=> guiQueue[n] \in Loss(i)
  <2>1. guiQueue[n] \in GuiMessage
    BY DEF TypeOK, Messages
  <2> QED BY <2>1, MessageOfType, Members
<1>2. ASSUME NEW n \in DOMAIN delivered PROVE delivered[n][1] = i <=> delivered[n] \in Delivery(i)
  <2>1. delivered \in Seq(Ids \X Results)
    BY DEF TypeOK
  <2>2. delivered[n] \in Ids \X Results
    BY <2>1
  <2> QED BY <2>2 DEF Delivery
<1>3. /\ Carrying({"finish", "complete"}, i) = {n \in DOMAIN guiQueue : guiQueue[n] \in Completion(i)}
      /\ Carrying({"terminal"}, i) = {n \in DOMAIN guiQueue : guiQueue[n] \in Loss(i)}
      /\ DeliveriesOf(i) = {n \in DOMAIN delivered : delivered[n] \in Delivery(i)}
  BY <1>1, <1>2 DEF Carrying, DeliveriesOf
<1>4. EntriesFor(i) # {} <=> HasEntry(i)
  BY DEF EntriesFor, HasEntry
<1> QED BY <1>3, <1>4 DEF Holds, ToSet

\* While the facade waits for a request, exactly one thing will complete it, and
\* that thing is still on its way through the layers: nothing is lost between
\* admit(), the worker, libmpv, receive() and complete(), and nothing is settled twice.
THEOREM EachRequestUnderway == Spec => []RequestIsUnderway
<1>1. IInv => RequestIsUnderway
  <2> SUFFICES ASSUME IInv, NEW i \in DOMAIN owners
               PROVE  /\ Cardinality(EntriesFor(i)) + Cardinality(Carrying({"finish", "complete"}, i)) = 1
                      /\ \A n \in Carrying({"finish", "complete"}, i) : guiQueue[n].kind = owners[i]
                      /\ \A t \in EntriesFor(i) : requests[t].kind = owners[i] /\ requests[t].gen = generation
    BY DEF IInv, RequestIsUnderway, OnePathPerRequest
  <2>1. TypeOK /\ QueueInv /\ PhaseInv /\ i \in Ids /\ PathInv(i)
    BY DEF IInv, TypeOK
  <2>2. /\ \A s, t \in EntriesFor(i) : s = t
        /\ \A m, n \in Carrying({"finish", "complete"}, i) : m = n
    BY <2>1, Counted DEF PathInv, EntriesFor, Single
  <2>3. Cardinality(EntriesFor(i)) + Cardinality(Carrying({"finish", "complete"}, i)) = 1
    BY <2>1, <2>2, Counted, AtMostOne DEF PathInv
  <2>4. \A n \in Carrying({"finish", "complete"}, i) : guiQueue[n].kind = owners[i]
    BY <2>1, Counted DEF PathInv, ToSet
  <2>5. \A t \in EntriesFor(i) : requests[t].kind = owners[i] /\ requests[t].gen = generation
    BY <2>1 DEF PathInv, PhaseInv, EntriesFor
  <2> QED BY <2>3, <2>4, <2>5
<1> QED BY <1>1, Invariance, PTL

\* At most one terminal notification reaches the caller of a request, none for an
\* id that was not handed out, and none while the facade could still complete it.
THEOREM OneTerminalEach == Spec => []ExactlyOneTerminal
<1>1. IInv => ExactlyOneTerminal
  <2> SUFFICES ASSUME IInv, NEW i \in Ids
               PROVE  /\ Cardinality(DeliveriesOf(i)) + Cardinality(Carrying({"terminal"}, i))
                           + (IF i \in DOMAIN owners THEN 1 ELSE 0) <= 1
                      /\ i >= nextPublicId => DeliveriesOf(i) = {}
    BY DEF ExactlyOneTerminal
  <2>1. TypeOK /\ QueueInv /\ TerminalInv(i)
    BY DEF IInv
  <2>2. /\ \A m, n \in DeliveriesOf(i) : m = n
        /\ \A m, n \in Carrying({"terminal"}, i) : m = n
    BY <2>1, Counted DEF TerminalInv, Single
  <2>3. /\ ~(DeliveriesOf(i) # {} /\ Carrying({"terminal"}, i) # {})
        /\ i \in DOMAIN owners => DeliveriesOf(i) = {} /\ Carrying({"terminal"}, i) = {}
        /\ i >= nextPublicId => DeliveriesOf(i) = {}
    BY <2>1, Counted DEF TerminalInv
  <2> QED BY <2>2, <2>3, AtMostOne
<1> QED BY <1>1, Invariance, PTL
-----------------------------------------------------------------------------
(* Steps.                                                                    *)

\* After shutdown() no caller sees a native result, although libmpv, the worker and
\* the queue of the GUI thread may still carry some: complete() finds no owner.
THEOREM NoLateResults == Spec => NoNativeResultAfterShutdown
<1> DEFINE Step == shuttingDown /\ delivered' # delivered => delivered'[Len(delivered')][2] = "unavailable"
<1>1. IInv /\ [Next]_vars => [Step]_vars
  <2> SUFFICES ASSUME IInv, Next, shuttingDown, delivered' # delivered
               PROVE  delivered'[Len(delivered')][2] = "unavailable"
    OBVIOUS
  <2>1. TypeOK /\ QueueInv /\ DOMAIN owners = {} /\ delivered \in Seq(Ids \X Results)
    BY DEF IInv, PhaseInv, TypeOK
  <2>2. ~CompleteRequest
    BY <2>1 DEF CompleteRequest
  <2>3. CASE DeliverTerminal
    <3>1. PICK j \in Ids : delivered' = Append(delivered, <<j, "unavailable">>)
      BY <2>1, <2>3, TerminalTaken
    <3>2. Len(delivered') = Len(delivered) + 1 /\ delivered'[Len(delivered) + 1] = <<j, "unavailable">>
      <4>1. <<j, "unavailable">> \in Ids \X Results
        BY DEF Results
      <4> QED BY <2>1, <3>1, <4>1
    <3> QED BY <3>2
  <2>4. DeliverTerminal
    BY <2>2 DEF Next, GuiEvent, WorkerEvent, Drain, Admit, PostRefused, Shutdown, Receive, EmitFinished,
      CoreUnavailable, RunSubmission, WorkerShutdown, SubmitRecovery, DrainAnswer, DrainShutdown, NativeReply,
      NativeQuit, facadeVars
  <2> QED BY <2>3, <2>4
<1> QED BY Invariance, <1>1, PTL DEF Spec, NoNativeResultAfterShutdown, Step

-----------------------------------------------------------------------------
(* The request contract.                                                     *)

\* A step moves no notification but the one that is delivered, and shutdown() queues
\* one for each request the facade waits for.
LEMMA LossStays ==
  ASSUME TypeOK, QueueInv, Next, NEW i \in Ids
  PROVE  /\ ~Shutdown /\ ~DeliverTerminal => (Holds(guiQueue', Loss(i)) <=> Holds(guiQueue, Loss(i)))
         /\ Shutdown => (Holds(guiQueue', Loss(i)) <=> Holds(guiQueue, Loss(i)) \/ i \in DOMAIN owners)
         /\ DeliverTerminal /\ Head(guiQueue) \notin Loss(i) =>
              (Holds(guiQueue', Loss(i)) <=> Holds(guiQueue, Loss(i)))
<1> USE DEF facadeVars, adapterVars, workerVars, nativeVars
<1>0. guiQueue \in Seq(GuiMessage) /\ \A q : Finish(q, "unavailable") \notin Loss(i)
  BY Members DEF QueueInv, Finish
<1>1. CASE Shutdown
  <2>1. PICK q \in TerminalsFor(DOMAIN owners, guiQueue) : guiQueue' \in SettledAs("unavailable", q)
    BY <1>1 DEF Shutdown
  <2>2. q \in Seq(GuiMessage) /\ ToSet(q) = ToSet(guiQueue) \cup {Terminal(j) : j \in DOMAIN owners}
    <3>1. DOMAIN owners \in SUBSET Ids
      BY DEF TypeOK
    <3> QED BY <1>0, <2>1, <3>1, TerminalsQueue
  <2>3. ToSet(guiQueue') = ToSet(q) \cup {Finish(requests[t], "unavailable") : t \in DOMAIN requests}
    BY <2>1, <2>2, SettledQueue
  <2>4. \A j \in DOMAIN owners : Terminal(j) \in Loss(i) <=> i = j
    BY Members, Made DEF Terminal
  <2>5. Holds(guiQueue', Loss(i)) <=> Holds(guiQueue, Loss(i)) \/ i \in DOMAIN owners
    BY <1>0, <2>2, <2>3, <2>4 DEF Holds
  <2>6. ~DeliverTerminal
    BY <1>1 DEF Shutdown, DeliverTerminal
  <2> QED BY <1>1, <2>5, <2>6
<1>2. CASE DeliverTerminal
  <2>1. ToSet(guiQueue) = ToSet(guiQueue') \cup {Head(guiQueue)}
    BY <1>2, GuiHead DEF DeliverTerminal, NextGui
  <2>2. ~Shutdown
    BY <1>2 DEF Shutdown, DeliverTerminal
  <2> QED BY <1>2, <2>1, <2>2 DEF Holds
<1>3. ASSUME ~Shutdown, ~DeliverTerminal PROVE Holds(guiQueue', Loss(i)) <=> Holds(guiQueue, Loss(i))
  <2>1. CASE Receive
    <3>1. PICK t \in Tokens, k \in NativeKinds, g \in {1, 2}, r \in Results :
            /\ guiQueue # <<>> /\ Head(guiQueue) = Reply(t, k, g, r)
            /\ \/ t \in DOMAIN requests /\ guiQueue' = Append(Tail(guiQueue), Finish(requests[t], r))
               \/ guiQueue' = Tail(guiQueue)
      BY <2>1, ReplyReceived
    <3>2. ToSet(guiQueue) = ToSet(Tail(guiQueue)) \cup {Head(guiQueue)} /\ Head(guiQueue) \notin Loss(i)
      BY <3>1, GuiHead, Members DEF Reply
    <3>3. CASE t \in DOMAIN requests /\ guiQueue' = Append(Tail(guiQueue), Finish(requests[t], r))
      <4>1. Finish(requests[t], r) \in GuiMessage /\ Finish(requests[t], r) \notin Loss(i)
        <5>1. requests[t].id \in Ids /\ requests[t].kind \in Kinds
          BY <3>3 DEF TypeOK, Entry
        <5>2. Finish(requests[t], r) \in GuiMessage /\ Finish(requests[t], r).type = "finish"
          BY <5>1, Made DEF Finish
        <5> QED BY <5>2, Members
      <4>2. ToSet(guiQueue') = ToSet(Tail(guiQueue)) \cup {Finish(requests[t], r)}
        BY <3>1, <3>3, <4>1, Replaced
      <4> QED BY <3>2, <4>1, <4>2 DEF Holds
    <3> QED BY <3>1, <3>2, <3>3 DEF Holds
  <2>2. CASE EmitFinished
    <3>1. PICK j \in Ids, k \in Kinds, r \in Results :
            /\ guiQueue # <<>> /\ Head(guiQueue) \in Completion(j)
            /\ guiQueue' = Append(Tail(guiQueue), [type |-> "complete", id |-> j, kind |-> k, result |-> r])
      BY <2>2, FinishTaken
    <3>2. ToSet(guiQueue) = ToSet(Tail(guiQueue)) \cup {Head(guiQueue)} /\ Head(guiQueue) \notin Loss(i)
      BY <3>1, GuiHead, Members
    <3> DEFINE x == [type |-> "complete", id |-> j, kind |-> k, result |-> r]
    <3>3. x \in GuiMessage /\ x.type = "complete"
      BY Made
    <3> HIDE DEF x
    <3>4. ToSet(guiQueue') = ToSet(Tail(guiQueue)) \cup {x} /\ x \notin Loss(i)
      BY <3>1, <3>3, Replaced, Members DEF x
    <3> QED BY <3>2, <3>4 DEF Holds
  <2>3. CASE CompleteRequest
    <3>1. PICK j \in Ids : guiQueue # <<>> /\ Head(guiQueue) \in Completion(j) /\ guiQueue' = Tail(guiQueue)
      BY <2>3, FinishTaken
    <3>2. ToSet(guiQueue) = ToSet(guiQueue') \cup {Head(guiQueue)} /\ Head(guiQueue) \notin Loss(i)
      BY <3>1, GuiHead, Members
    <3> QED BY <3>2 DEF Holds
  <2>4. CASE CoreUnavailable
    <3>1. /\ guiQueue # <<>> /\ guiQueue' \in SettledAs("unavailable", Tail(guiQueue))
          /\ Head(guiQueue).type = "coreUnavailable"
      BY <2>4 DEF CoreUnavailable, NextGui
    <3>2. /\ ToSet(guiQueue) = ToSet(Tail(guiQueue)) \cup {Head(guiQueue)} /\ Tail(guiQueue) \in Seq(GuiMessage)
          /\ Head(guiQueue) \notin Loss(i)
      BY <3>1, GuiHead, Members
    <3>3. ToSet(guiQueue') = ToSet(Tail(guiQueue)) \cup {Finish(requests[t], "unavailable") : t \in DOMAIN requests}
      BY <3>1, <3>2, SettledQueue
    <3> QED BY <1>0, <3>2, <3>3 DEF Holds
  <2>5. CASE RunSubmission \/ DrainAnswer \/ DrainShutdown
    BY <2>5, WorkerIsQuiet DEF Quiet, Holds
  <2>6. CASE UNCHANGED guiQueue
    BY <2>6
  <2> QED BY <1>3, <2>1, <2>2, <2>3, <2>4, <2>5, <2>6 DEF Next, GuiEvent, WorkerEvent, Drain, Admit, PostRefused,
        WorkerShutdown, SubmitRecovery, NativeReply, NativeQuit
<1> QED BY <1>1, <1>2, <1>3

\* What a caller knows about an id, in the terms of the invariant.
StatusOf(i) ==
  IF Holds(delivered, Delivery(i)) THEN "settled"
  ELSE IF i \in DOMAIN owners \/ Holds(guiQueue, Loss(i)) THEN "pending"
  ELSE "unused"
StatusKnown == Status = [i \in Ids |-> StatusOf(i)]

\* The refinement mapping agrees with the invariant's view.
LEMMA StatusIsKnown == IInv => StatusKnown
<1> SUFFICES ASSUME IInv PROVE StatusKnown
  OBVIOUS
<1>1. ASSUME NEW i \in Ids
      PROVE  /\ Carrying({"terminal"}, i) # {} <=> Holds(guiQueue, Loss(i))
             /\ DeliveriesOf(i) # {} <=> Holds(delivered, Delivery(i))
  BY Counted DEF IInv
<1>2. \A i \in Ids : StatusOf(i) = IF DeliveriesOf(i) # {} THEN "settled"
                                  ELSE IF i \in DOMAIN owners \/ Carrying({"terminal"}, i) # {} THEN "pending"
                                  ELSE "unused"
  BY <1>1 DEF StatusOf
<1> QED BY <1>2 DEF StatusKnown, Status

\* What a step changes of an id's status.
LEMMA StatusStep ==
  ASSUME IInv, Next, NEW i \in Ids
  PROVE  \/ StatusOf(i)' = StatusOf(i)
         \/ \E kind \in Kinds : Admit(kind) /\ i = nextPublicId /\ StatusOf(i) = "unused" /\ StatusOf(i)' = "pending"
         \/ /\ CompleteRequest \/ DeliverTerminal
            /\ Head(guiQueue).id = i /\ StatusOf(i) = "pending" /\ StatusOf(i)' = "settled"
<1> USE DEF facadeVars, adapterVars, workerVars, nativeVars
<1>0. TypeOK /\ QueueInv /\ PathInv(i) /\ TerminalInv(i)
  BY DEF IInv
<1>1. CASE Shutdown
  <2>1. DOMAIN owners' = {} /\ UNCHANGED delivered
    BY <1>1 DEF Shutdown
  <2>2. Holds(guiQueue', Loss(i)) <=> Holds(guiQueue, Loss(i)) \/ i \in DOMAIN owners
    BY <1>0, <1>1, LossStays
  <2> QED BY <2>1, <2>2 DEF StatusOf
<1>2. ASSUME NEW kind \in Kinds, Admit(kind)
      PROVE  \/ StatusOf(i)' = StatusOf(i)
             \/ Admit(kind) /\ i = nextPublicId /\ StatusOf(i) = "unused" /\ StatusOf(i)' = "pending"
  <2>1. UNCHANGED <<guiQueue, delivered>> /\ DOMAIN owners' = DOMAIN owners \cup {nextPublicId}
    BY <1>2 DEF Admit, Insert
  <2>2. CASE i = nextPublicId
    <3>1. i >= nextPublicId
      BY <2>2 DEF Ids
    <3>2. i \notin DOMAIN owners /\ ~Holds(guiQueue, Loss(i)) /\ ~Holds(delivered, Delivery(i))
      BY <1>0, <3>1 DEF PathInv, TerminalInv
    <3> QED BY <1>2, <2>1, <2>2, <3>2 DEF StatusOf
  <2>3. CASE i # nextPublicId
    BY <2>1, <2>3 DEF StatusOf
  <2> QED BY <2>2, <2>3
<1>3. CASE CompleteRequest
  <2>1. PICK j \in Ids, r \in Results : Head(guiQueue).id = j /\ Head(guiQueue).result = r
    BY <1>0, <1>3, FinishTaken
  <2>2. Holds(guiQueue', Loss(i)) <=> Holds(guiQueue, Loss(i))
    <3>1. ~Shutdown /\ ~DeliverTerminal
      BY <1>3 DEF CompleteRequest, Shutdown, DeliverTerminal, NextGui
    <3> QED BY <1>0, <3>1, LossStays
  <2>3. CASE UNCHANGED <<owners, delivered>>
    BY <2>2, <2>3 DEF StatusOf
  <2>4. CASE /\ j \in DOMAIN owners
             /\ owners' = [l \in DOMAIN owners \ {j} |-> owners[l]]
             /\ delivered' = Append(delivered, <<j, r>>)
    <3>1. /\ i # j => (Holds(delivered', Delivery(i)) <=> Holds(delivered, Delivery(i)))
          /\ Holds(delivered', Delivery(j))
      BY <1>0, <2>4, Delivered
    <3>2. CASE i = j
      BY <1>0, <1>3, <2>1, <2>4, <3>1, <3>2 DEF StatusOf, TerminalInv
    <3>3. CASE i # j
      BY <2>2, <2>4, <3>1, <3>3 DEF StatusOf
    <3> QED BY <3>2, <3>3
  <2> QED BY <1>3, <2>1, <2>3, <2>4 DEF CompleteRequest
<1>4. CASE DeliverTerminal
  <2>1. PICK j \in Ids : /\ guiQueue # <<>> /\ Head(guiQueue) \in Loss(j)
                         /\ delivered' = Append(delivered, <<j, "unavailable">>)
    BY <1>0, <1>4, TerminalTaken
  <2>2. Head(guiQueue).id = j /\ Head(guiQueue) \in ToSet(guiQueue)
    BY <1>0, <2>1, Members, GuiHead
  <2>3. /\ i # j => (Holds(delivered', Delivery(i)) <=> Holds(delivered, Delivery(i)))
        /\ Holds(delivered', Delivery(j))
    <3>1. "unavailable" \in Results
      BY DEF Results
    <3> QED BY <1>0, <2>1, <3>1, Delivered
  <2>4. UNCHANGED owners
    BY <1>4 DEF DeliverTerminal
  <2>5. CASE i = j
    <3>1. Holds(guiQueue, Loss(i))
      BY <2>1, <2>2, <2>5 DEF Holds
    <3> QED BY <1>0, <1>4, <2>2, <2>3, <2>5, <3>1 DEF StatusOf, TerminalInv
  <2>6. CASE i # j
    <3>1. Head(guiQueue) \notin Loss(i)
      BY <2>1, <2>6, Members
    <3>2. Holds(guiQueue', Loss(i)) <=> Holds(guiQueue, Loss(i))
      BY <1>0, <1>4, <3>1, LossStays
    <3> QED BY <2>3, <2>4, <2>6, <3>2 DEF StatusOf
  <2> QED BY <2>5, <2>6
<1>5. CASE UNCHANGED <<owners, delivered>> /\ ~Shutdown /\ ~DeliverTerminal
  <2>1. Holds(guiQueue', Loss(i)) <=> Holds(guiQueue, Loss(i))
    BY <1>0, <1>5, LossStays
  <2> QED BY <1>5, <2>1 DEF StatusOf
<1> QED BY <1>1, <1>2, <1>3, <1>4, <1>5 DEF Next, GuiEvent, WorkerEvent, Drain, PostRefused, Receive, EmitFinished,
      CoreUnavailable, RunSubmission, WorkerShutdown, SubmitRecovery, DrainAnswer, DrainShutdown, NativeReply,
      NativeQuit
\* A step of the request path is a step of the contract, or none.
LEMMA ContractStep == ASSUME IInv, StatusKnown, StatusKnown', Next PROVE [Contract!Next]_(Contract!vars)
<1> USE DEF facadeVars, adapterVars, workerVars, nativeVars
<1> DEFINE Open == coreAvailable /\ ~shuttingDown
<1>0. /\ TypeOK /\ QueueInv
      /\ Status = [i \in Ids |-> StatusOf(i)] /\ Status' = [i \in Ids |-> StatusOf(i)']
  BY DEF IInv, StatusKnown
<1>1. ASSUME \A i \in Ids : StatusOf(i)' = StatusOf(i) PROVE UNCHANGED Status
  BY <1>0, <1>1
<1>2. ASSUME NEW i \in Ids, NEW s, StatusOf(i)' = s, \A j \in Ids \ {i} : StatusOf(j)' = StatusOf(j)
      PROVE  Status' = [Status EXCEPT ![i] = s]
  BY <1>0, <1>2
<1>3. ASSUME NEW kind \in Kinds, Admit(kind) PROVE Contract!Next
  <2>1. /\ Open /\ Open' = Open /\ nextPublicId \in Ids /\ nextPublicId' = nextPublicId + 1
        /\ UNCHANGED <<guiQueue, delivered>> /\ DOMAIN owners' = DOMAIN owners \cup {nextPublicId}
    BY <1>0, <1>3, BoundsAssumption DEF Admit, MayAdmit, Insert, TypeOK, Ids
  <2>2. PICK i \in Ids : i = nextPublicId
    BY <2>1
  <2>3. PathInv(i) /\ TerminalInv(i) /\ i >= nextPublicId
    BY <2>2 DEF IInv, Ids
  <2>4. StatusOf(i) = "unused" /\ StatusOf(i)' = "pending"
    BY <2>1, <2>2, <2>3 DEF StatusOf, PathInv, TerminalInv
  <2>5. \A j \in Ids \ {i} : StatusOf(j)' = StatusOf(j)
    BY <2>1, <2>2 DEF StatusOf
  <2>6. Status' = [Status EXCEPT ![i] = "pending"] /\ Status[i] = "unused"
    BY <1>0, <1>2, <2>4, <2>5
  <2>7. i > nextPublicId - 1 /\ nextPublicId' - 1 = i
    BY <2>1, <2>2 DEF Ids
  <2>8. Contract!Admit(i)
    BY <2>1, <2>6, <2>7 DEF Contract!Admit
  <2> QED BY <2>8 DEF Contract!Next, Contract!Ids, Ids
<1>4. CASE PostRefused
  <2>1. /\ Open /\ Open' = Open /\ nextPublicId \in Ids /\ nextPublicId' = nextPublicId + 1
        /\ UNCHANGED <<guiQueue, delivered, owners>>
    BY <1>0, <1>4, BoundsAssumption DEF PostRefused, MayAdmit, TypeOK, Ids
  <2>2. UNCHANGED Status
    BY <1>1, <2>1 DEF StatusOf
  <2>3. nextPublicId > nextPublicId - 1 /\ nextPublicId' - 1 = nextPublicId
    BY <2>1 DEF Ids
  <2>4. Contract!Skip(nextPublicId)
    BY <2>1, <2>2, <2>3 DEF Contract!Skip
  <2> QED BY <2>1, <2>4 DEF Contract!Next, Contract!Ids, Ids
<1>5. CASE Shutdown \/ CoreUnavailable
  <2>1. Open' = FALSE /\ UNCHANGED <<nextPublicId, delivered>>
    BY <1>5 DEF Shutdown, CoreUnavailable
  <2>2. ASSUME NEW i \in Ids PROVE StatusOf(i)' = StatusOf(i)
    <3>1. CASE Shutdown
      <4>1. DOMAIN owners' = {}
        BY <3>1 DEF Shutdown
      <4>2. Holds(guiQueue', Loss(i)) <=> Holds(guiQueue, Loss(i)) \/ i \in DOMAIN owners
        BY <1>0, <3>1, LossStays
      <4> QED BY <2>1, <4>1, <4>2 DEF StatusOf
    <3>2. CASE CoreUnavailable
      <4>1. UNCHANGED owners /\ ~DeliverTerminal
        BY <3>2 DEF CoreUnavailable, DeliverTerminal, NextGui
      <4>2. CASE ~Shutdown
        <5>1. Holds(guiQueue', Loss(i)) <=> Holds(guiQueue, Loss(i))
          BY <1>0, <4>1, <4>2, LossStays
        <5> QED BY <2>1, <4>1, <5>1 DEF StatusOf
      <4> QED BY <3>1, <4>2
    <3> QED BY <1>5, <3>1, <3>2
  <2>3. UNCHANGED Status
    BY <1>1, <2>2
  <2>4. CASE Open
    <3>1. Contract!Close
      BY <2>1, <2>3, <2>4 DEF Contract!Close
    <3> QED BY <3>1 DEF Contract!Next
  <2>5. CASE ~Open
    BY <2>1, <2>3, <2>5 DEF Contract!vars
  <2> QED BY <2>4, <2>5
<1>6. CASE CompleteRequest \/ DeliverTerminal
  <2>1. Open' = Open /\ UNCHANGED nextPublicId /\ nextPublicId \in Int
    BY <1>0, <1>6 DEF CompleteRequest, DeliverTerminal, TypeOK
  <2>2. \A kind \in Kinds : ~Admit(kind)
    BY <2>1 DEF Admit
  <2>3. ASSUME NEW i \in Ids
        PROVE  \/ StatusOf(i)' = StatusOf(i)
               \/ Head(guiQueue).id = i /\ StatusOf(i) = "pending" /\ StatusOf(i)' = "settled"
    BY <2>2, StatusStep
  <2>4. CASE \A i \in Ids : StatusOf(i)' = StatusOf(i)
    BY <1>1, <2>1, <2>4 DEF Contract!vars
  <2>5. ASSUME NEW i \in Ids, StatusOf(i)' # StatusOf(i) PROVE Contract!Next
    <3>1. StatusOf(i) = "pending" /\ StatusOf(i)' = "settled" /\ \A j \in Ids \ {i} : StatusOf(j)' = StatusOf(j)
      BY <2>3, <2>5
    <3>2. Status' = [Status EXCEPT ![i] = "settled"] /\ Status[i] = "pending"
      BY <1>0, <1>2, <3>1
    <3>3. Contract!Settle(i)
      BY <2>1, <3>2 DEF Contract!Settle
    <3> QED BY <3>3 DEF Contract!Next, Contract!Ids, Ids
  <2> QED BY <2>4, <2>5
<1>7. CASE /\ UNCHANGED <<shuttingDown, coreAvailable, owners, delivered, nextPublicId>>
           /\ ~Shutdown /\ ~DeliverTerminal
  <2>1. ASSUME NEW i \in Ids PROVE StatusOf(i)' = StatusOf(i)
    <3>1. Holds(guiQueue', Loss(i)) <=> Holds(guiQueue, Loss(i))
      BY <1>0, <1>7, LossStays
    <3> QED BY <1>7, <3>1 DEF StatusOf
  <2> QED BY <1>1, <1>7, <2>1 DEF Contract!vars
<1> QED BY <1>3, <1>4, <1>5, <1>6, <1>7 DEF Next, GuiEvent, WorkerEvent, Drain, Receive, EmitFinished,
      RunSubmission, WorkerShutdown, SubmitRecovery, DrainAnswer, DrainShutdown, NativeReply, NativeQuit

\* The request path implements the steps of the contract of API.md: ids increase, an
\* admitted id is pending until it is settled once, and none is admitted after the end.
THEOREM ContractSteps == Spec => Contract!Init /\ [][Contract!Next]_(Contract!vars)
<1>1. Init => Contract!Init
  <2> SUFFICES ASSUME Init PROVE Contract!Init
    OBVIOUS
  <2>1. \A i \in Ids : DeliveriesOf(i) = {} /\ i \notin DOMAIN owners /\ Carrying({"terminal"}, i) = {}
    BY DEF Init, DeliveriesOf, Carrying
  <2>2. Status = [i \in Ids |-> "unused"]
    BY <2>1 DEF Status
  <2>3. nextPublicId - 1 = 0 /\ (coreAvailable /\ ~shuttingDown) \in BOOLEAN
    BY DEF Init
  <2> QED BY <2>2, <2>3 DEF Contract!Init, Contract!Ids, Ids
<1>2. IInv /\ StatusKnown /\ StatusKnown' /\ [Next]_vars => [Contract!Next]_(Contract!vars)
  <2>1. IInv /\ StatusKnown /\ StatusKnown' /\ Next => [Contract!Next]_(Contract!vars)
    BY ContractStep
  <2>2. UNCHANGED vars => UNCHANGED Contract!vars
    BY DEF vars, Contract!vars, Status, DeliveriesOf, Carrying, facadeVars, adapterVars
  <2> QED BY <2>1, <2>2
<1>3. IInv => StatusKnown
  BY StatusIsKnown
<1> QED BY Invariance, <1>1, <1>2, <1>3, PTL DEF Spec
=============================================================================
