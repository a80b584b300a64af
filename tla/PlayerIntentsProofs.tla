------------------------ MODULE PlayerIntentsProofs ------------------------
(***************************************************************************)
(* Proofs about PlayerIntents, for any properties, setters, keys, budgets  *)
(* and depth of handlers: no operation of the application is lost or done  *)
(* twice, and none is submitted for a media interest of the past.          *)
(*                                                                         *)
(* An operation is in one place: deferred, held by a frame, submitted or   *)
(* failed (OnceInv); wherever it waits, it is as it was called (WaitInv);  *)
(* and one that is nowhere is superseded, for good (KnownInv).             *)
(***************************************************************************)
EXTENDS PlayerIntents, FiniteSetTheorems, TLAPS

-----------------------------------------------------------------------------
(* The inductive invariant.                                                  *)

\* The operations a frame is still to submit, those of a stack, and those deferred.
Ids(f) == IF f.type = "source" THEN {f.id}
          ELSE IF f.type = "run" THEN {f.todo[i].id : i \in DOMAIN f.todo}
          ELSE {}
Held(frames) == UNION {Ids(frames[n]) : n \in DOMAIN frames}
ListIds(list) == {list[n].id : n \in DOMAIN list}

\* No operation waits twice.
Distinct(list) == \A i, j \in DOMAIN list : list[i].id = list[j].id => i = j
Apart(frames) == \A m, n \in DOMAIN frames : m # n => Ids(frames[m]) \cap Ids(frames[n]) = {}

\* What waits is what was called, for the media interest of that time.
Recorded(d, known) == d.id \in DOMAIN known /\ known[d.id].key = d.key /\ known[d.id].rev = d.rev
ListInv(list, known) == Distinct(list) /\ \A n \in DOMAIN list : Recorded(list[n], known)
FrameInv(f, known) ==
  /\ f.type = "source" => f.id \in DOMAIN known /\ known[f.id].key = NoKey /\ known[f.id].rev = f.rev
  /\ f.type = "run" => ListInv(f.todo, known)
FramesInv(frames, known) == Apart(frames) /\ \A n \in DOMAIN frames : FrameInv(frames[n], known)

\* One operation at most is deferred for a state.
KeyOnce(list) == \A i, j \in DOMAIN list : list[i].key = list[j].key /\ list[i].key # NoKey => i = j

WaitInv == FramesInv(stack, ops) /\ ListInv(deferred, ops) /\ KeyOnce(deferred)

\* An operation is deferred, held by a frame, submitted or refused, and in one of
\* these ways only.
OnceInv ==
  /\ \A i, j \in DOMAIN sent : sent[i] = sent[j] => i = j
  /\ ToSet(sent) \cap rejected = {}
  /\ (ToSet(sent) \cup rejected) \cap (Held(stack) \cup ListIds(deferred)) = {}
  /\ Held(stack) \cap ListIds(deferred) = {}

\* What is in none of these is superseded.
KnownInv ==
  /\ \A id \in DOMAIN ops : ops[id].rev <= mediaRevision
  /\ \A id \in DOMAIN ops : \/ id \in ToSet(sent) \cup rejected \cup Held(stack) \cup ListIds(deferred)
                            \/ Superseded(id)
  /\ shuttingDown => ~available

IInv == TypeOK /\ WaitInv /\ OnceInv /\ KnownInv

-----------------------------------------------------------------------------
(* Stacks of frames.                                                         *)

\* A frame that submits no operation.
Plain(f) == f \in Frames /\ f.type \notin {"source", "run"}

\* Such a frame holds no operation.
LEMMA PlainFrame ==
  ASSUME NEW f, Plain(f), NEW known
  PROVE  f \in Frames /\ Ids(f) = {} /\ FrameInv(f, known)
BY DEF Plain, Ids, FrameInv

\* A frame on top of others.
LEMMA PushFrame ==
  ASSUME NEW s \in Seq(Frames), NEW f \in Frames, NEW known,
         FramesInv(s, known), FrameInv(f, known), Ids(f) \cap Held(s) = {}
  PROVE  /\ <<f>> \o s \in Seq(Frames)
         /\ Held(<<f>> \o s) = Ids(f) \cup Held(s)
         /\ FramesInv(<<f>> \o s, known)
<1> DEFINE t == <<f>> \o s
<1>1. t \in Seq(Frames) /\ Len(t) = Len(s) + 1 /\ Len(s) \in Nat
  OBVIOUS
<1>2. t[1] = f /\ \A n \in DOMAIN s : n + 1 \in DOMAIN t /\ t[n + 1] = s[n]
  OBVIOUS
<1>3. \A n \in DOMAIN t : n = 1 \/ (n - 1 \in DOMAIN s /\ t[n] = s[n - 1])
  OBVIOUS
<1>4. 1 \in DOMAIN t /\ DOMAIN t \subseteq Nat /\ DOMAIN s \subseteq Nat
  BY <1>1
<1> HIDE DEF t
<1>5. Held(t) = Ids(f) \cup Held(s)
  BY <1>2, <1>3, <1>4 DEF Held
<1>6. \A n \in DOMAIN t : FrameInv(t[n], known)
  BY <1>2, <1>3 DEF FramesInv
<1>7. ASSUME NEW m \in DOMAIN t, NEW n \in DOMAIN t, m # n
      PROVE  Ids(t[m]) \cap Ids(t[n]) = {}
  <2>1. CASE m = 1
    <3>1. n - 1 \in DOMAIN s /\ t[n] = s[n - 1]
      BY <1>3, <1>7, <2>1
    <3>2. Ids(t[n]) \subseteq Held(s)
      BY <3>1 DEF Held
    <3> QED BY <1>2, <2>1, <3>2
  <2>2. CASE n = 1
    <3>1. m - 1 \in DOMAIN s /\ t[m] = s[m - 1]
      BY <1>3, <1>7, <2>2
    <3>2. Ids(t[m]) \subseteq Held(s)
      BY <3>1 DEF Held
    <3> QED BY <1>2, <2>2, <3>2
  <2>3. CASE m # 1 /\ n # 1
    <3>1. m - 1 \in DOMAIN s /\ n - 1 \in DOMAIN s /\ t[m] = s[m - 1] /\ t[n] = s[n - 1] /\ m - 1 # n - 1
      BY <1>3, <1>4, <1>7, <2>3
    <3> QED BY <3>1 DEF FramesInv, Apart
  <2> QED BY <2>1, <2>2, <2>3
<1> QED BY <1>1, <1>5, <1>6, <1>7 DEF FramesInv, Apart, t

\* A frame that submits nothing, on top of others.
LEMMA PushPlain ==
  ASSUME NEW s \in Seq(Frames), NEW f, Plain(f), NEW known, FramesInv(s, known)
  PROVE  /\ <<f>> \o s \in Seq(Frames)
         /\ Held(<<f>> \o s) = Held(s)
         /\ FramesInv(<<f>> \o s, known)
<1>1. f \in Frames /\ Ids(f) = {} /\ FrameInv(f, known)
  BY PlainFrame
<1> QED BY <1>1, PushFrame

\* The frame on top, and those below it.
LEMMA PopFrame ==
  ASSUME stack \in Seq(Frames), stack # <<>>, NEW known, FramesInv(stack, known)
  PROVE  /\ Top \in Frames /\ Below \in Seq(Frames)
         /\ Held(stack) = Ids(Top) \cup Held(Below) /\ Ids(Top) \cap Held(Below) = {}
         /\ FrameInv(Top, known) /\ FramesInv(Below, known)
<1>1. /\ Top \in Frames /\ Below \in Seq(Frames) /\ Top = stack[1] /\ 1 \in DOMAIN stack
      /\ \A n \in DOMAIN Below : n + 1 \in DOMAIN stack /\ Below[n] = stack[n + 1] /\ n + 1 # 1
      /\ \A n \in DOMAIN stack : n = 1 \/ (n - 1 \in DOMAIN Below /\ stack[n] = Below[n - 1])
      /\ DOMAIN Below \subseteq Nat
  BY DEF Top, Below
<1>2. Held(stack) = Ids(Top) \cup Held(Below)
  <2>1. ASSUME NEW x \in Held(stack)
        PROVE  x \in Ids(Top) \cup Held(Below)
    <3>1. PICK n \in DOMAIN stack : x \in Ids(stack[n])
      BY DEF Held
    <3>2. CASE n = 1
      BY <1>1, <3>1, <3>2
    <3>3. CASE n # 1
      BY <1>1, <3>1, <3>3 DEF Held
    <3> QED BY <3>2, <3>3
  <2>2. Ids(Top) \subseteq Held(stack)
    BY <1>1 DEF Held
  <2>3. Held(Below) \subseteq Held(stack)
    BY <1>1 DEF Held
  <2> QED BY <2>1, <2>2, <2>3
<1>3. Ids(Top) \cap Held(Below) = {}
  BY <1>1 DEF Held, FramesInv, Apart
<1>4. FrameInv(Top, known) /\ \A n \in DOMAIN Below : FrameInv(Below[n], known)
  BY <1>1 DEF FramesInv
<1>5. Apart(Below)
  <2> SUFFICES ASSUME NEW m \in DOMAIN Below, NEW n \in DOMAIN Below, m # n
               PROVE  Ids(Below[m]) \cap Ids(Below[n]) = {}
    BY DEF Apart
  <2>1. m + 1 # n + 1
    BY <1>1
  <2> QED BY <1>1, <2>1 DEF FramesInv, Apart
<1> QED BY <1>1, <1>2, <1>3, <1>4, <1>5 DEF FramesInv

\* What was called stays known.
Extends(known, more) ==
  \A id \in DOMAIN known : id \in DOMAIN more /\ more[id] = known[id]

\* What is recorded stays recorded.
LEMMA KnownGrows ==
  ASSUME NEW known, NEW more, Extends(known, more)
  PROVE  /\ \A list : ListInv(list, known) => ListInv(list, more)
         /\ \A frames : FramesInv(frames, known) => FramesInv(frames, more)
<1>1. \A d : Recorded(d, known) => Recorded(d, more)
  BY DEF Recorded, Extends
<1>2. \A list : ListInv(list, known) => ListInv(list, more)
  BY <1>1 DEF ListInv
<1>3. \A f : FrameInv(f, known) => FrameInv(f, more)
  BY <1>2 DEF FrameInv, Extends
<1> QED BY <1>2, <1>3 DEF FramesInv

\* One more operation is called.
LEMMA CallRecorded ==
  ASSUME ops \in Seq(Operations), NEW o \in Operations
  PROVE  /\ Extends(ops, Append(ops, o)) /\ Append(ops, o) \in Seq(Operations)
         /\ DOMAIN Append(ops, o) = DOMAIN ops \cup {Len(ops) + 1}
         /\ Len(Append(ops, o)) = Len(ops) + 1 /\ Len(ops) + 1 \notin DOMAIN ops
         /\ Append(ops, o)[Len(ops) + 1] = o
<1>1. DOMAIN ops = 1 .. Len(ops) /\ Len(ops) \in Nat
  OBVIOUS
<1> QED BY <1>1 DEF Extends

-----------------------------------------------------------------------------
(* The list of deferred operations.                                          *)

\* One sequence after another.
LEMMA Joined ==
  ASSUME NEW a \in Seq(Deferred), NEW b \in Seq(Deferred), NEW w, w = a \o b
  PROVE  /\ w \in Seq(Deferred) /\ Len(w) = Len(a) + Len(b)
         /\ \A n \in 1 .. Len(a) : w[n] = a[n]
         /\ \A n \in 1 .. Len(b) : w[Len(a) + n] = b[n]
OBVIOUS

\* A list without one of its elements.
LEMMA Removal ==
  ASSUME NEW list \in Seq(Deferred), NEW p \in DOMAIN list, NEW w, w = RemoveAt(list, p)
  PROVE  /\ w \in Seq(Deferred)
         /\ \A n \in DOMAIN w : \E m \in DOMAIN list : m # p /\ w[n] = list[m]
         /\ \A m \in DOMAIN list : m # p => \E n \in DOMAIN w : w[n] = list[m]
         /\ \A i, j \in DOMAIN w : i # j =>
              \E k, l \in DOMAIN list : k # l /\ w[i] = list[k] /\ w[j] = list[l]
<1> DEFINE a == SubSeq(list, 1, p - 1)
           b == SubSeq(list, p + 1, Len(list))
           up(n) == IF n < p THEN n ELSE n + 1
<1>1. p \in 1 .. Len(list) /\ Len(list) \in Nat /\ DOMAIN list = 1 .. Len(list) /\ p \in Nat
  OBVIOUS
<1>2. a \in Seq(Deferred) /\ b \in Seq(Deferred)
  BY <1>1
<1>3. Len(a) = p - 1 /\ \A n \in 1 .. p - 1 : a[n] = list[n]
  BY <1>1
<1>4. Len(b) = Len(list) - p /\ \A n \in 1 .. Len(list) - p : b[n] = list[p + n]
  BY <1>1
<1>5. w = a \o b
  BY DEF RemoveAt
<1> HIDE DEF a, b
<1>6. /\ w \in Seq(Deferred) /\ Len(w) = Len(a) + Len(b)
      /\ \A n \in 1 .. Len(a) : w[n] = a[n]
      /\ \A n \in 1 .. Len(b) : w[Len(a) + n] = b[n]
  BY <1>2, <1>5, Joined
<1>7. w \in Seq(Deferred) /\ DOMAIN w = 1 .. Len(list) - 1
  <2>1. Len(w) = Len(list) - 1
    BY <1>1, <1>3, <1>4, <1>6
  <2> QED BY <1>6, <2>1
<1>8. ASSUME NEW n \in 1 .. Len(list) - 1, n < p
      PROVE  w[n] = list[n]
  <2>1. n \in 1 .. p - 1
    BY <1>1, <1>8
  <2> QED BY <1>3, <1>6, <2>1
<1>9. ASSUME NEW n \in 1 .. Len(list) - 1, n >= p
      PROVE  w[n] = list[n + 1]
  <2> DEFINE m == n - (p - 1)
  <2>1. m \in 1 .. Len(list) - p /\ (p - 1) + m = n /\ p + m = n + 1
    BY <1>1, <1>9
  <2> HIDE DEF m
  <2>2. w[(p - 1) + m] = b[m]
    BY <1>3, <1>4, <1>6, <2>1
  <2>3. b[m] = list[p + m]
    BY <1>4, <2>1
  <2> QED BY <2>1, <2>2, <2>3
<1>10. \A n \in 1 .. Len(list) - 1 : up(n) \in 1 .. Len(list) /\ up(n) # p /\ w[n] = list[up(n)]
  <2> SUFFICES ASSUME NEW n \in 1 .. Len(list) - 1
               PROVE  up(n) \in 1 .. Len(list) /\ up(n) # p /\ w[n] = list[up(n)]
    OBVIOUS
  <2>1. CASE n < p
    BY <1>1, <1>8, <2>1
  <2>2. CASE n >= p
    BY <1>1, <1>9, <2>2
  <2> QED BY <1>1, <2>1, <2>2
<1>11. \A i, j \in Nat : i # j => up(i) # up(j)
  BY <1>1
<1>12. \A m \in 1 .. Len(list) : m # p => \E n \in 1 .. Len(list) - 1 : up(n) = m
  <2> SUFFICES ASSUME NEW m \in 1 .. Len(list), m # p
               PROVE  \E n \in 1 .. Len(list) - 1 : up(n) = m
    OBVIOUS
  <2>1. CASE m < p
    <3>1. m \in 1 .. Len(list) - 1 /\ up(m) = m
      BY <1>1, <2>1
    <3> QED BY <3>1
  <2>2. CASE m > p
    <3>1. m - 1 \in 1 .. Len(list) - 1 /\ up(m - 1) = m
      BY <1>1, <2>2
    <3> QED BY <3>1
  <2> QED BY <1>1, <2>1, <2>2
<1> HIDE DEF up
<1>13. \A n \in DOMAIN w : \E m \in DOMAIN list : m # p /\ w[n] = list[m]
  BY <1>1, <1>7, <1>10
<1>14. ASSUME NEW m \in DOMAIN list, m # p
       PROVE  \E n \in DOMAIN w : w[n] = list[m]
  <2>1. PICK n \in 1 .. Len(list) - 1 : up(n) = m
    BY <1>1, <1>12, <1>14
  <2> QED BY <1>7, <1>10, <2>1
<1>15. ASSUME NEW i \in DOMAIN w, NEW j \in DOMAIN w, i # j
       PROVE  \E k, l \in DOMAIN list : k # l /\ w[i] = list[k] /\ w[j] = list[l]
  <2>1. i \in Nat /\ j \in Nat /\ up(i) # up(j)
    BY <1>1, <1>7, <1>11, <1>15
  <2> QED BY <1>1, <1>7, <1>10, <2>1
<1> QED BY <1>7, <1>13, <1>14, <1>15

\* The places of an older state with this key: one at most.
Older(key) == {n \in DOMAIN deferred : key # NoKey /\ deferred[n].key = key}

\* A list is another one without an older state.
Without(list, w, key) ==
  /\ \A n \in DOMAIN w : key = NoKey \/ w[n].key # key
  /\ \A n \in DOMAIN w : \E m \in DOMAIN list : w[n] = list[m]
  /\ \A m \in DOMAIN list : (key # NoKey /\ list[m].key = key) \/ \E n \in DOMAIN w : w[n] = list[m]

\* What is left of the list once an older state is given up.
LEMMA OlderGone ==
  ASSUME deferred \in Seq(Deferred), Distinct(deferred), KeyOnce(deferred),
         NEW key, NEW w, w = WithoutFirst(Older(key))
  PROVE  w \in Seq(Deferred) /\ Distinct(w) /\ KeyOnce(w) /\ Without(deferred, w, key)
<1>1. CASE Older(key) = {}
  <2>1. w = deferred
    BY <1>1 DEF WithoutFirst
  <2>2. \A n \in DOMAIN w : key = NoKey \/ w[n].key # key
    BY <1>1, <2>1 DEF Older
  <2> QED BY <2>1, <2>2 DEF Without
<1>2. CASE Older(key) # {}
  <2>1. PICK p : p \in Older(key)
    BY <1>2
  <2>2. p \in DOMAIN deferred /\ key # NoKey /\ deferred[p].key = key
    BY <2>1 DEF Older
  <2>3. p \in Nat
    BY <2>2
  <2>4. Older(key) = {p}
    BY <2>1, <2>2 DEF Older, KeyOnce
  <2>5. Min({p}) = p
    BY <2>3 DEF Min
  <2>6. w = RemoveAt(deferred, p)
    BY <1>2, <2>4, <2>5 DEF WithoutFirst
  <2>7. /\ w \in Seq(Deferred)
        /\ \A n \in DOMAIN w : \E m \in DOMAIN deferred : m # p /\ w[n] = deferred[m]
        /\ \A m \in DOMAIN deferred : m # p => \E n \in DOMAIN w : w[n] = deferred[m]
        /\ \A i, j \in DOMAIN w : i # j =>
             \E k, l \in DOMAIN deferred : k # l /\ w[i] = deferred[k] /\ w[j] = deferred[l]
    BY <2>2, <2>6, Removal
  <2>8. Distinct(w)
    <3> SUFFICES ASSUME NEW i \in DOMAIN w, NEW j \in DOMAIN w, i # j
                 PROVE  w[i].id # w[j].id
      BY DEF Distinct
    <3>1. PICK k \in DOMAIN deferred, l \in DOMAIN deferred :
                 k # l /\ w[i] = deferred[k] /\ w[j] = deferred[l]
      BY <2>7
    <3> QED BY <3>1 DEF Distinct
  <2>9. KeyOnce(w)
    <3> SUFFICES ASSUME NEW i \in DOMAIN w, NEW j \in DOMAIN w, i # j, w[i].key # NoKey
                 PROVE  w[i].key # w[j].key
      BY DEF KeyOnce
    <3>1. PICK k \in DOMAIN deferred, l \in DOMAIN deferred :
                 k # l /\ w[i] = deferred[k] /\ w[j] = deferred[l]
      BY <2>7
    <3> QED BY <3>1 DEF KeyOnce
  <2>10. \A m \in DOMAIN deferred : m # p => deferred[m].key # key
    BY <2>2 DEF KeyOnce
  <2>11. \A n \in DOMAIN w : w[n].key # key
    <3> SUFFICES ASSUME NEW n \in DOMAIN w
                 PROVE  w[n].key # key
      OBVIOUS
    <3>1. PICK m \in DOMAIN deferred : m # p /\ w[n] = deferred[m]
      BY <2>7
    <3> QED BY <2>10, <3>1
  <2>12. \A m \in DOMAIN deferred : m = p \/ \E n \in DOMAIN w : w[n] = deferred[m]
    BY <2>7
  <2>13. \A n \in DOMAIN w : \E m \in DOMAIN deferred : w[n] = deferred[m]
    BY <2>7
  <2>14. Without(deferred, w, key)
    BY <2>2, <2>11, <2>12, <2>13 DEF Without
  <2> QED BY <2>7, <2>8, <2>9, <2>14
<1> QED BY <1>1, <1>2

\* An operation deferred: an older one for the same state goes, the others stay.
LEMMA Deferral ==
  ASSUME TypeOK, Distinct(deferred), KeyOnce(deferred), NEW id \in Nat, id \notin ListIds(deferred),
         NEW key \in Keys \cup {NoKey}, NEW q, q = Defer(id, key)
  PROVE  /\ q \in Seq(Deferred) /\ Distinct(q) /\ KeyOnce(q)
         /\ \A n \in DOMAIN q : \/ q[n] = [id |-> id, key |-> key, rev |-> mediaRevision]
                                \/ \E m \in DOMAIN deferred : q[n] = deferred[m]
         /\ id \in ListIds(q) /\ ListIds(q) \subseteq ListIds(deferred) \cup {id}
         /\ \A m \in DOMAIN deferred : \/ deferred[m].id \in ListIds(q)
                                       \/ key # NoKey /\ deferred[m].key = key
<1> DEFINE w == WithoutFirst(Older(key))
           d == [id |-> id, key |-> key, rev |-> mediaRevision]
<1>1. deferred \in Seq(Deferred) /\ mediaRevision \in Nat
  BY DEF TypeOK
<1>2. q = Append(w, d) /\ d \in Deferred /\ d.id = id /\ d.key = key
  BY <1>1 DEF Defer, Older, Deferred
<1>3. w = WithoutFirst(Older(key))
  OBVIOUS
<1> HIDE DEF w, d
<1>4. w \in Seq(Deferred) /\ Distinct(w) /\ KeyOnce(w) /\ Without(deferred, w, key)
  BY <1>1, <1>3, OlderGone
<1>5. w \in Seq(Deferred)
  BY <1>4
<1>6. /\ q \in Seq(Deferred) /\ Len(w) + 1 \in DOMAIN q /\ q[Len(w) + 1] = d
      /\ \A n \in DOMAIN w : n \in DOMAIN q /\ q[n] = w[n]
      /\ \A n \in DOMAIN q : n = Len(w) + 1 \/ n \in DOMAIN w
  BY <1>2, <1>5
<1>7. \A n \in DOMAIN w : w[n].id # id
  BY <1>4 DEF ListIds, Without
<1>8. Distinct(q)
  BY <1>2, <1>4, <1>6, <1>7 DEF Distinct
<1>9. KeyOnce(q)
  BY <1>2, <1>4, <1>6 DEF KeyOnce, Without
<1>10. \A n \in DOMAIN q : q[n] = d \/ \E m \in DOMAIN deferred : q[n] = deferred[m]
  BY <1>4, <1>6 DEF Without
<1>11. id \in ListIds(q) /\ ListIds(q) \subseteq ListIds(deferred) \cup {id}
  BY <1>2, <1>6, <1>10 DEF ListIds
<1>12. ASSUME NEW m \in DOMAIN deferred
       PROVE  deferred[m].id \in ListIds(q) \/ (key # NoKey /\ deferred[m].key = key)
  BY <1>4, <1>6 DEF ListIds, Without
<1> QED BY <1>6, <1>8, <1>9, <1>10, <1>11, <1>12 DEF d

-----------------------------------------------------------------------------
(* Operations go from one place to another.                                  *)

\* The record of an operation.
LEMMA OpsTyped ==
  ASSUME ops \in Seq(Operations), NEW id \in DOMAIN ops
  PROVE  ops[id] \in Operations /\ ops[id].rev \in Nat /\ ops[id].key \in Keys \cup {NoKey}
<1>1. ops[id] \in Operations
  OBVIOUS
<1> QED BY <1>1 DEF Operations

\* What is superseded stays so: revisions grow, the core does not come back, and
\* what was called stays known.
LEMMA SupersededStays ==
  ASSUME KnownInv, mediaRevision \in Nat, mediaRevision' \in Nat, mediaRevision' >= mediaRevision,
         ops \in Seq(Operations), Extends(ops, ops'), available' => available,
         NEW id \in DOMAIN ops, Superseded(id)
  PROVE  Superseded(id)'
<1>1. id \in DOMAIN ops' /\ ops'[id] = ops[id] /\ ops[id].rev \in Nat /\ ops[id].rev <= mediaRevision
  BY OpsTyped DEF Extends, KnownInv
<1>2. CASE ops[id].rev # mediaRevision
  BY <1>1, <1>2 DEF Superseded
<1>3. CASE ~available
  BY <1>3 DEF Superseded
<1>4. CASE ops[id].key # NoKey /\ \E i \in DOMAIN ops \ {id} : ops[i].key = ops[id].key
  <2>1. PICK i \in DOMAIN ops \ {id} : ops[i].key = ops[id].key
    BY <1>4
  <2>2. i \in DOMAIN ops' \ {id} /\ ops'[i].key = ops'[id].key
    BY <1>1, <2>1 DEF Extends
  <2> QED BY <1>1, <1>4, <2>2 DEF Superseded, NoKey
<1> QED BY <1>2, <1>3, <1>4 DEF Superseded

\* The operations that have been submitted or have failed.
Done == ToSet(sent) \cup rejected

\* Operations that leave a frame or the list, with nothing submitted, are superseded
\* or wait at the other place.
LEMMA Moved ==
  ASSUME TypeOK, OnceInv, KnownInv, UNCHANGED <<sent, rejected, ops>>,
         mediaRevision' \in Nat, mediaRevision' >= mediaRevision, available' => available,
         (shuttingDown => ~available)',
         Held(stack') \cup ListIds(deferred') \subseteq Held(stack) \cup ListIds(deferred),
         Held(stack') \cap ListIds(deferred') = {},
         \A id \in Held(stack) \cup ListIds(deferred) :
           id \in Held(stack') \cup ListIds(deferred') \/ (id \in DOMAIN ops => Superseded(id)')
  PROVE  OnceInv' /\ KnownInv'
<1>1. OnceInv'
  BY DEF OnceInv
<1>2. mediaRevision \in Nat /\ ops \in Seq(Operations) /\ Extends(ops, ops')
  BY DEF TypeOK, Extends
<1>3. ASSUME NEW id \in DOMAIN ops
      PROVE  ops'[id].rev <= mediaRevision'
  <2>1. ops[id].rev \in Nat /\ ops[id].rev <= mediaRevision
    BY <1>2, OpsTyped DEF KnownInv
  <2> QED BY <1>2, <2>1
<1>4. ASSUME NEW id \in DOMAIN ops
      PROVE  \/ id \in ToSet(sent') \cup rejected' \cup Held(stack') \cup ListIds(deferred')
             \/ Superseded(id)'
  <2>1. CASE Superseded(id)
    BY <1>2, <2>1, SupersededStays
  <2>2. CASE id \in ToSet(sent) \cup rejected \cup Held(stack) \cup ListIds(deferred)
    BY <2>2
  <2> QED BY <2>1, <2>2 DEF KnownInv
<1> QED BY <1>1, <1>3, <1>4 DEF KnownInv

\* A signal is left to run before the rest.
LEMMA SignalFirst ==
  ASSUME NEW s \in Seq(Frames), NEW known, FramesInv(s, known)
  PROVE  /\ <<Signal>> \o s \in Seq(Frames)
         /\ Held(<<Signal>> \o s) = Held(s)
         /\ FramesInv(<<Signal>> \o s, known)
<1>1. Plain(Signal)
  BY DEF Plain, Signal, Frames
<1> QED BY <1>1, PushPlain

\* What TypeOK says of the operations and of where they are.
MediaOK ==
  /\ mediaRevision \in Nat /\ ops \in Seq(Operations) /\ sent \in Seq(Nat)
  /\ deferred \in Seq(Deferred)
  /\ \A n \in DOMAIN deferred : deferred[n].id \in DOMAIN ops /\ deferred[n].rev = mediaRevision
  /\ ToSet(sent) \cup rejected \subseteq DOMAIN ops

\* An operation id that waits nowhere, or only where it is taken from.
Requested(id, key, then) ==
  /\ then \in Seq(Frames) /\ FramesInv(then, ops')
  /\ Held(then) \subseteq Held(stack) /\ Held(stack) \subseteq Held(then) \cup {id}
  /\ id \notin Held(then) \cup ListIds(deferred) \cup Done
  /\ ops' \in Seq(Operations) /\ Extends(ops, ops')
  /\ DOMAIN ops' \subseteq DOMAIN ops \cup {id} /\ id \in DOMAIN ops'
  /\ ops'[id].key = key /\ ops'[id].rev = mediaRevision
  /\ UNCHANGED <<mediaRevision, available, shuttingDown>>

\* The conditions on id and its record, for what follows of them.
LEMMA Known ==
  ASSUME TypeOK, KnownInv, NEW id, NEW key, NEW then, Requested(id, key, then),
         OnceInv', Done \cup Held(stack) \subseteq (Done \cup Held(stack) \cup ListIds(deferred))',
         id \in (Done \cup Held(stack) \cup ListIds(deferred))',
         \A x \in ListIds(deferred) : x \in ListIds(deferred') \/ (x \in DOMAIN ops => Superseded(x)')
  PROVE  KnownInv'
<1>1. /\ mediaRevision \in Nat /\ ops \in Seq(Operations) /\ mediaRevision' = mediaRevision
      /\ available' = available /\ Extends(ops, ops') /\ shuttingDown' = shuttingDown
  BY DEF TypeOK, Requested
<1>2. ASSUME NEW x \in DOMAIN ops'
      PROVE  /\ ops'[x].rev <= mediaRevision'
             /\ \/ x \in ToSet(sent') \cup rejected' \cup Held(stack') \cup ListIds(deferred')
                \/ Superseded(x)'
  <2>1. CASE x = id
    BY <1>1, <2>1 DEF Requested, Done
  <2>2. CASE x \in DOMAIN ops
    <3>1. ops'[x].rev <= mediaRevision'
      BY <1>1, <2>2 DEF Extends, KnownInv
    <3>2. CASE Superseded(x)
      BY <1>1, <2>2, <3>1, <3>2, SupersededStays
    <3>3. CASE x \in ToSet(sent) \cup rejected \cup Held(stack)
      BY <3>1, <3>3 DEF Done
    <3>4. CASE x \in ListIds(deferred)
      BY <2>2, <3>1, <3>4
    <3> QED BY <2>2, <3>2, <3>3, <3>4 DEF KnownInv
  <2> QED BY <2>1, <2>2 DEF Requested
<1> QED BY <1>1, <1>2 DEF KnownInv

\* load() and operations on state: submitted, deferred or refused, an operation is
\* in one place afterwards, and one it replaces is superseded.
LEMMA RequestInv ==
  ASSUME TypeOK, WaitInv, OnceInv, KnownInv, NEW id \in Nat, NEW key \in Keys \cup {NoKey}, NEW then,
         Requested(id, key, then), Request(id, key, then)
  PROVE  stack' \in Seq(Frames) /\ MediaOK' /\ WaitInv' /\ OnceInv' /\ KnownInv'
<1>1. /\ mediaRevision \in Nat /\ ops \in Seq(Operations) /\ mediaRevision' = mediaRevision
      /\ Extends(ops, ops') /\ then \in Seq(Frames) /\ FramesInv(then, ops') /\ ops' \in Seq(Operations)
      /\ deferred \in Seq(Deferred) /\ sent \in Seq(Nat)
  BY DEF TypeOK, Requested
<1>2. ListInv(deferred, ops') /\ Distinct(deferred) /\ KeyOnce(deferred) /\ ListInv(deferred, ops)
  BY <1>1, KnownGrows DEF WaitInv, ListInv
<1>3. id \notin Held(then) \cup ListIds(deferred) \cup Done /\ Held(then) \subseteq Held(stack)
      /\ Held(stack) \subseteq Held(then) \cup {id} /\ id \in DOMAIN ops' /\ DOMAIN ops \subseteq DOMAIN ops'
      /\ ops'[id].key = key /\ ops'[id].rev = mediaRevision
  BY DEF Requested, Extends
<1>4. Done \subseteq DOMAIN ops /\ \A n \in DOMAIN deferred : deferred[n].id \in DOMAIN ops /\ deferred[n].rev = mediaRevision
  BY DEF Done, TypeOK
<1>5. CASE /\ deferred' = Defer(id, key) /\ stack' = then
           /\ UNCHANGED <<sent, rejected, refusals>>
  <2>1. /\ deferred' \in Seq(Deferred) /\ Distinct(deferred') /\ KeyOnce(deferred')
        /\ \A n \in DOMAIN deferred' : \/ deferred'[n] = [id |-> id, key |-> key, rev |-> mediaRevision]
                                       \/ \E m \in DOMAIN deferred : deferred'[n] = deferred[m]
        /\ id \in ListIds(deferred') /\ ListIds(deferred') \subseteq ListIds(deferred) \cup {id}
        /\ \A m \in DOMAIN deferred : \/ deferred[m].id \in ListIds(deferred')
                                      \/ key # NoKey /\ deferred[m].key = key
    BY <1>2, <1>3, <1>5, Deferral
  <2>2. ASSUME NEW n \in DOMAIN deferred'
        PROVE  Recorded(deferred'[n], ops') /\ deferred'[n].rev = mediaRevision
    <3>1. CASE deferred'[n] = [id |-> id, key |-> key, rev |-> mediaRevision]
      BY <1>3, <3>1 DEF Recorded
    <3>2. CASE \E m \in DOMAIN deferred : deferred'[n] = deferred[m]
      BY <1>2, <1>4, <3>2 DEF ListInv
    <3> QED BY <2>1, <3>1, <3>2
  <2>3. WaitInv'
    BY <1>1, <1>5, <2>1, <2>2 DEF WaitInv, ListInv
  <2>4. MediaOK'
    BY <1>1, <1>3, <1>4, <1>5, <2>1, <2>2 DEF MediaOK, Recorded, Done
  <2>5. OnceInv'
    BY <1>3, <1>5, <2>1 DEF OnceInv, Done
  <2>6. ASSUME NEW x \in ListIds(deferred)
        PROVE  x \in ListIds(deferred') \/ Superseded(x)'
    <3> SUFFICES ASSUME x \notin ListIds(deferred')
                 PROVE  Superseded(x)'
      OBVIOUS
    <3>1. PICK m \in DOMAIN deferred : x = deferred[m].id
      BY DEF ListIds
    <3>2. key # NoKey /\ deferred[m].key = key
      BY <2>1, <3>1
    <3>3. ops'[x].key = key /\ x # id
      BY <1>2, <1>3, <3>1, <3>2 DEF ListInv, Recorded
    <3>4. ops'[x].key # NoKey /\ id \in DOMAIN ops' \ {x} /\ ops'[id].key = ops'[x].key
      BY <1>3, <3>2, <3>3
    <3> QED BY <3>4 DEF Superseded
  <2>7. KnownInv'
    BY <1>3, <1>5, <2>1, <2>5, <2>6, Known DEF Done
  <2> QED BY <1>1, <1>5, <2>3, <2>4, <2>5, <2>7
<1>6. CASE /\ sent' = Append(sent, id) /\ stack' = then
           /\ UNCHANGED <<deferred, rejected, refusals>>
  <2>1. /\ sent' \in Seq(Nat) /\ Len(sent) + 1 \in DOMAIN sent' /\ sent'[Len(sent) + 1] = id
        /\ \A n \in DOMAIN sent : n \in DOMAIN sent' /\ sent'[n] = sent[n]
        /\ \A n \in DOMAIN sent' : n = Len(sent) + 1 \/ n \in DOMAIN sent
    BY <1>1, <1>6
  <2>2. ToSet(sent') = ToSet(sent) \cup {id}
    BY <2>1 DEF ToSet
  <2>3. WaitInv'
    BY <1>1, <1>2, <1>6 DEF WaitInv
  <2>4. MediaOK'
    BY <1>1, <1>3, <1>4, <1>6, <2>1, <2>2 DEF MediaOK, Done
  <2>5. \A i, j \in DOMAIN sent' : sent'[i] = sent'[j] => i = j
    <3>1. \A i \in DOMAIN sent : sent[i] # id
      BY <1>3 DEF Done, ToSet
    <3> QED BY <2>1, <3>1 DEF OnceInv
  <2>6. OnceInv'
    BY <1>3, <1>6, <2>2, <2>5 DEF OnceInv, Done
  <2>7. \A x \in ListIds(deferred) : x \in ListIds(deferred')
    BY <1>6
  <2>8. KnownInv'
    BY <1>3, <1>6, <2>2, <2>6, <2>7, Known DEF Done
  <2> QED BY <1>1, <1>6, <2>3, <2>4, <2>6, <2>8
<1>7. CASE /\ rejected' = rejected \cup {id} /\ stack' = <<Signal>> \o then
           /\ UNCHANGED <<deferred, sent>>
  <2>1. stack' \in Seq(Frames) /\ Held(stack') = Held(then) /\ FramesInv(stack', ops')
    BY <1>1, <1>7, SignalFirst
  <2>2. WaitInv'
    BY <1>2, <1>7, <2>1 DEF WaitInv
  <2>3. MediaOK'
    BY <1>1, <1>3, <1>4, <1>7 DEF MediaOK, Done
  <2>4. OnceInv'
    BY <1>3, <1>7, <2>1 DEF OnceInv, Done
  <2>5. \A x \in ListIds(deferred) : x \in ListIds(deferred')
    BY <1>7
  <2>6. KnownInv'
    BY <1>3, <1>7, <2>1, <2>4, <2>5, Known DEF Done
  <2> QED BY <2>1, <2>2, <2>3, <2>4, <2>6
<1> QED BY <1>5, <1>6, <1>7 DEF Request

-----------------------------------------------------------------------------
(* Frames by their type.                                                     *)

\* What a frame carries.
LEMMA FrameTyped ==
  ASSUME NEW f \in Frames
  PROVE  /\ f.type \in {"signal", "ready", "failure", "flush", "source", "sync", "run", "status"}
         /\ f.type = "flush" => /\ f.todo \in Seq([name : Names, rev : Nat]) \ {<<>>}
                                /\ f = [type |-> "flush", todo |-> f.todo]
         /\ f.type = "source" => f.id \in Nat /\ f.rev \in Nat
         /\ f.type = "sync" => /\ f.todo \in Seq(Names) /\ f.revs \in [Names -> Nat]
                               /\ f.pending \in UNION {[some -> Values] : some \in SUBSET Names}
                               /\ f = [type |-> "sync", todo |-> f.todo, revs |-> f.revs, pending |-> f.pending]
         /\ f.type = "run" => f.todo \in Seq(Deferred) /\ f = [type |-> "run", todo |-> f.todo]
         /\ f.type = "status" => f.ready \in BOOLEAN /\ f.error \in BOOLEAN
<1>1. CASE f \in [type : {"signal", "ready", "failure"}]
  BY <1>1
<1>2. CASE f \in [type : {"flush"}, todo : Seq([name : Names, rev : Nat]) \ {<<>>}]
  BY <1>2
<1>3. CASE f \in [type : {"source"}, id : Nat, rev : Nat]
  BY <1>3
<1>4. CASE f \in [type : {"sync"}, todo : Seq(Names), revs : [Names -> Nat],
                  pending : UNION {[some -> Values] : some \in SUBSET Names}]
  BY <1>4
<1>5. CASE f \in [type : {"run"}, todo : Seq(Deferred)]
  BY <1>5
<1>6. CASE f \in [type : {"status"}, ready : BOOLEAN, error : BOOLEAN]
  BY <1>6
<1> QED BY <1>1, <1>2, <1>3, <1>4, <1>5, <1>6 DEF Frames

\* A frame that retries what was deferred, once its first operation is taken.
LEMMA RunFrame ==
  ASSUME NEW f \in Frames, f.type = "run", f.todo # <<>>, NEW known, FrameInv(f, known),
         NEW rest, rest = [f EXCEPT !.todo = Tail(@)], NEW d, d = Head(f.todo)
  PROVE  /\ rest \in Frames /\ FrameInv(rest, known)
         /\ d \in Deferred /\ Recorded(d, known)
         /\ Ids(f) = {d.id} \cup Ids(rest) /\ d.id \notin Ids(rest)
<1>1. f.todo \in Seq(Deferred) /\ f = [type |-> "run", todo |-> f.todo]
  BY FrameTyped
<1>2. rest = [type |-> "run", todo |-> Tail(f.todo)] /\ rest.type = "run" /\ rest.todo = Tail(f.todo)
  BY <1>1
<1> DEFINE l == f.todo
           t == Tail(f.todo)
<1>3. l \in Seq(Deferred) /\ l # <<>>
  BY <1>1
<1>4. ListInv(l, known)
  BY DEF FrameInv
<1>5. d = Head(l)
  OBVIOUS
<1>6. t = Tail(l)
  OBVIOUS
<1>7. rest.todo = t /\ rest = [type |-> "run", todo |-> t]
  BY <1>2
<1>8. Ids(f) = ListIds(l)
  BY DEF Ids, ListIds
<1>9. Ids(rest) = ListIds(t)
  BY <1>2 DEF Ids, ListIds
<1>10. FrameInv(rest, known) <=> ListInv(t, known)
  BY <1>2 DEF FrameInv
<1> HIDE DEF l, t
<1>11. /\ t \in Seq(Deferred) /\ 1 \in DOMAIN l /\ d = l[1] /\ d \in Deferred
       /\ \A n \in DOMAIN t : n + 1 \in DOMAIN l /\ t[n] = l[n + 1] /\ n + 1 # 1
       /\ \A n \in DOMAIN l : n = 1 \/ (n - 1 \in DOMAIN t /\ l[n] = t[n - 1])
       /\ DOMAIN t \subseteq Nat
  BY <1>3, <1>5, <1>6
<1>12. rest \in Frames
  BY <1>7, <1>11 DEF Frames
<1>13. ListInv(t, known)
  <2>1. Distinct(t)
    <3> SUFFICES ASSUME NEW i \in DOMAIN t, NEW j \in DOMAIN t, t[i].id = t[j].id
                 PROVE  i = j
      BY DEF Distinct
    <3>1. i + 1 = j + 1
      BY <1>4, <1>11 DEF ListInv, Distinct
    <3> QED BY <1>11, <3>1
  <2> QED BY <1>4, <1>11, <2>1 DEF ListInv
<1>14. ListIds(l) = {d.id} \cup ListIds(t)
  <2>1. ASSUME NEW x \in ListIds(l)
        PROVE  x \in {d.id} \cup ListIds(t)
    <3>1. PICK n \in DOMAIN l : x = l[n].id
      BY DEF ListIds
    <3> QED BY <1>11, <3>1 DEF ListIds
  <2>2. {d.id} \cup ListIds(t) \subseteq ListIds(l)
    BY <1>11 DEF ListIds
  <2> QED BY <2>1, <2>2
<1>15. d.id \notin ListIds(t)
  BY <1>4, <1>11 DEF ListInv, Distinct, ListIds
<1>16. Recorded(d, known)
  BY <1>4, <1>11 DEF ListInv
<1> QED BY <1>8, <1>9, <1>10, <1>11, <1>12, <1>13, <1>14, <1>15, <1>16

-----------------------------------------------------------------------------
(* Steps that submit nothing.                                                *)

\* Where operations wait, and what is known of them, before and after a step.
MediaInv == MediaOK /\ stack \in Seq(Frames) /\ WaitInv /\ OnceInv /\ KnownInv

\* The invariant by its parts.
LEMMA Parts ==
  IInv => MediaInv /\ TypeOK
BY DEF IInv, MediaInv, MediaOK, TypeOK

\* An operation that waits or is done has been called.
LEMMA WaitsKnown ==
  ASSUME MediaInv
  PROVE  Held(stack) \cup ListIds(deferred) \cup Done \subseteq DOMAIN ops
<1>1. \A n \in DOMAIN stack : FrameInv(stack[n], ops)
  BY DEF MediaInv, WaitInv, FramesInv
<1>2. \A n \in DOMAIN stack : Ids(stack[n]) \subseteq DOMAIN ops
  BY <1>1 DEF FrameInv, Ids, ListInv, Recorded
<1> QED BY <1>2 DEF Held, ListIds, Done, MediaInv, MediaOK

\* Frames come and go, and no operation with them.
LEMMA QuietStep ==
  ASSUME IInv, stack' \in Seq(Frames), FramesInv(stack', ops), Held(stack') = Held(stack),
         UNCHANGED mediaVars, UNCHANGED <<available, shuttingDown>>
  PROVE  MediaInv'
<1>1. UNCHANGED <<mediaRevision, deferred, ops, sent, rejected>>
  BY DEF mediaVars
<1>2. MediaInv /\ TypeOK
  BY Parts
<1>3. MediaOK'
  BY <1>1, <1>2 DEF MediaInv, MediaOK
<1>4. WaitInv'
  BY <1>1, <1>2 DEF MediaInv, WaitInv
<1>5. ListIds(deferred') = ListIds(deferred)
  BY <1>1
<1>6. OnceInv' /\ KnownInv'
  BY <1>1, <1>2, <1>5, Moved DEF MediaInv, MediaOK, KnownInv, OnceInv
<1> QED BY <1>3, <1>4, <1>6 DEF MediaInv

\* The frame on top gives way to frames that submit nothing.
LEMMA PlainStep ==
  ASSUME IInv, stack # <<>>, Plain(Top),
         \/ stack' = Below
         \/ \E f : Plain(f) /\ stack' = <<f>> \o Below
         \/ \E f, g : Plain(f) /\ Plain(g) /\ stack' = <<f>> \o (<<g>> \o Below),
         UNCHANGED mediaVars, UNCHANGED <<available, shuttingDown>>
  PROVE  MediaInv'
<1>1. stack \in Seq(Frames) /\ FramesInv(stack, ops)
  BY DEF IInv, TypeOK, WaitInv
<1>2. Below \in Seq(Frames) /\ Held(Below) = Held(stack) /\ FramesInv(Below, ops)
  BY <1>1, PopFrame, PlainFrame
<1>3. CASE stack' = Below
  BY <1>2, <1>3, QuietStep
<1>4. CASE \E f : Plain(f) /\ stack' = <<f>> \o Below
  <2>1. PICK f : Plain(f) /\ stack' = <<f>> \o Below
    BY <1>4
  <2>2. stack' \in Seq(Frames) /\ Held(stack') = Held(stack) /\ FramesInv(stack', ops)
    BY <1>2, <2>1, PushPlain
  <2> QED BY <2>2, QuietStep
<1>5. CASE \E f, g : Plain(f) /\ Plain(g) /\ stack' = <<f>> \o (<<g>> \o Below)
  <2>1. PICK f, g : Plain(f) /\ Plain(g) /\ stack' = <<f>> \o (<<g>> \o Below)
    BY <1>5
  <2> DEFINE s == <<g>> \o Below
  <2>2. s \in Seq(Frames) /\ Held(s) = Held(stack) /\ FramesInv(s, ops)
    BY <1>2, <2>1, PushPlain
  <2>3. stack' = <<f>> \o s
    BY <2>1
  <2> HIDE DEF s
  <2>4. stack' \in Seq(Frames) /\ Held(stack') = Held(stack) /\ FramesInv(stack', ops)
    BY <2>1, <2>2, <2>3, PushPlain
  <2> QED BY <2>4, QuietStep
<1> QED BY <1>3, <1>4, <1>5

\* Frames that submit nothing come on top.
LEMMA PushStep ==
  ASSUME IInv,
         \/ stack' = stack
         \/ \E f : Plain(f) /\ stack' = <<f>> \o stack
         \/ \E f, g : Plain(f) /\ Plain(g) /\ stack' = <<f>> \o (<<g>> \o stack),
         UNCHANGED mediaVars, UNCHANGED <<available, shuttingDown>>
  PROVE  MediaInv'
<1>1. stack \in Seq(Frames) /\ FramesInv(stack, ops)
  BY DEF IInv, TypeOK, WaitInv
<1>2. CASE stack' = stack
  BY <1>1, <1>2, QuietStep
<1>3. CASE \E f : Plain(f) /\ stack' = <<f>> \o stack
  <2>1. PICK f : Plain(f) /\ stack' = <<f>> \o stack
    BY <1>3
  <2>2. stack' \in Seq(Frames) /\ Held(stack') = Held(stack) /\ FramesInv(stack', ops)
    BY <1>1, <2>1, PushPlain
  <2> QED BY <2>2, QuietStep
<1>4. CASE \E f, g : Plain(f) /\ Plain(g) /\ stack' = <<f>> \o (<<g>> \o stack)
  <2>1. PICK f, g : Plain(f) /\ Plain(g) /\ stack' = <<f>> \o (<<g>> \o stack)
    BY <1>4
  <2> DEFINE s == <<g>> \o stack
  <2>2. s \in Seq(Frames) /\ Held(s) = Held(stack) /\ FramesInv(s, ops)
    BY <1>1, <2>1, PushPlain
  <2>3. stack' = <<f>> \o s
    BY <2>1
  <2> HIDE DEF s
  <2>4. stack' \in Seq(Frames) /\ Held(stack') = Held(stack) /\ FramesInv(stack', ops)
    BY <2>1, <2>2, <2>3, PushPlain
  <2> QED BY <2>4, QuietStep
<1> QED BY <1>2, <1>3, <1>4

\* The deferred operations are given up: the media interest changes, or the core
\* is lost.
LEMMA GiveUp ==
  ASSUME IInv, stack' = stack \/ stack' = <<Signal>> \o stack, deferred' = <<>>,
         UNCHANGED <<ops, sent, rejected>>, available' => available, (shuttingDown => ~available)',
         \/ mediaRevision' = mediaRevision + 1
         \/ mediaRevision' = mediaRevision /\ ~available'
  PROVE  MediaInv'
<1>1. MediaInv /\ TypeOK /\ stack \in Seq(Frames) /\ FramesInv(stack, ops) /\ mediaRevision \in Nat
      /\ ops \in Seq(Operations)
  BY Parts DEF MediaInv, TypeOK, WaitInv
<1>2. stack' \in Seq(Frames) /\ Held(stack') = Held(stack) /\ FramesInv(stack', ops)
  BY <1>1, SignalFirst
<1>3. deferred' \in Seq(Deferred) /\ DOMAIN deferred' = {}
  OBVIOUS
<1>4. ListIds(deferred') = {}
  BY <1>3 DEF ListIds
<1>5. MediaOK'
  BY <1>1, <1>3 DEF MediaInv, MediaOK
<1>6. WaitInv'
  BY <1>1, <1>2, <1>3 DEF WaitInv, ListInv, Distinct, KeyOnce
<1>7. ASSUME NEW id \in DOMAIN ops
      PROVE  Superseded(id)'
  <2>1. CASE mediaRevision' = mediaRevision + 1
    <3>1. ops[id].rev <= mediaRevision /\ ops[id].rev \in Nat
      BY <1>1, OpsTyped DEF MediaInv, KnownInv
    <3>2. ops'[id].rev # mediaRevision'
      BY <1>1, <2>1, <3>1
    <3> QED BY <3>2 DEF Superseded
  <2>2. CASE ~available'
    BY <2>2 DEF Superseded
  <2> QED BY <2>1, <2>2
<1>8. mediaRevision' \in Nat /\ mediaRevision' >= mediaRevision
  BY <1>1
<1>9. OnceInv' /\ KnownInv'
  BY <1>1, <1>2, <1>4, <1>7, <1>8, Moved DEF MediaInv
<1> QED BY <1>2, <1>5, <1>6, <1>9 DEF MediaInv

-----------------------------------------------------------------------------
(* The calls of the application.                                             *)

\* What TypeOK says of all else: intents, status, the core and its queues, budgets.
RestOK ==
  /\ member \in [Setters -> Values] /\ revision \in [Names -> Nat]
  /\ DOMAIN pending \subseteq Names /\ pending \in [DOMAIN pending -> Values]
  /\ {initialized, failed, available, shuttingDown, unsynced} \subseteq BOOLEAN
  /\ core \in [Names -> Values] /\ refused \subseteq Names /\ unshown \subseteq Observed
  /\ commands \in Seq([name : Names, value : Values \cup {NoValue}])
  /\ reports \in Seq([name : Observed, value : Values])
  /\ ~available => (pending = <<>> /\ deferred = <<>>)
  /\ {calls, events, refusals} \subseteq Nat

\* The invariant by its parts, with the rest of the types.
LEMMA Whole ==
  /\ IInv => MediaInv /\ RestOK
  /\ MediaInv /\ RestOK => IInv
BY DEF IInv, MediaInv, MediaOK, TypeOK, RestOK

\* What is left of a budget.
LEMMA BudgetTyped ==
  ASSUME RestOK
  PROVE  /\ MayCall => {calls', events'} \subseteq Nat
         /\ MayHappen => {calls', events'} \subseteq Nat
         /\ MayBeRefused => refusals' \in Nat
         /\ SubmissionFails => refusals' \in Nat
BY DEF RestOK, MayCall, MayHappen, MayBeRefused, SubmissionFails

\* A setter sets names.
LEMMA SettersTyped ==
  ASSUME NEW s \in Setters
  PROVE  s \in Seq(Names) /\ s # <<>> /\ DOMAIN s = 1 .. Len(s) /\ ToSet(s) \subseteq Names
         /\ \A i \in DOMAIN s : s[i] \in Names
<1>1. s \in Seq(Names) /\ s # <<>>
  BY ConstantsAssumption
<1>2. DOMAIN s = 1 .. Len(s) /\ \A i \in DOMAIN s : s[i] \in Names
  BY <1>1
<1> QED BY <1>1, <1>2 DEF ToSet

\* A property is set: its flush is left to run.
LEMMA SetStep ==
  ASSUME IInv, NEW s \in Setters, NEW v \in Values, Set(s, v)
  PROVE  MediaInv' /\ RestOK'
<1>1. MediaInv /\ RestOK
  BY Whole
<1>2. s \in Seq(Names) /\ s # <<>> /\ DOMAIN s = 1 .. Len(s) /\ ToSet(s) \subseteq Names
      /\ \A i \in DOMAIN s : s[i] \in Names
  BY SettersTyped
<1>3. revision' \in [Names -> Nat] /\ member' \in [Setters -> Values]
  <2>1. revision' = [n \in Names |-> revision[n] + IF n \in ToSet(s) THEN 1 ELSE 0]
        /\ member' = [member EXCEPT ![s] = v]
    BY DEF Set
  <2>2. revision \in [Names -> Nat] /\ member \in [Setters -> Values]
    BY <1>1 DEF RestOK
  <2> QED BY <2>1, <2>2
<1> DEFINE steps == [i \in DOMAIN s |-> [name |-> s[i], rev |-> revision'[s[i]]]]
           f == [type |-> "flush", todo |-> steps]
<1>4. Plain(f)
  <2>1. steps \in [1 .. Len(s) -> [name : Names, rev : Nat]] /\ Len(s) \in Nat /\ Len(s) # 0
    BY <1>2, <1>3
  <2>2. steps \in Seq([name : Names, rev : Nat])
    BY <2>1
  <2>3. steps # <<>>
    BY <1>2, <2>1
  <2> HIDE DEF steps
  <2>4. f \in [type : {"flush"}, todo : Seq([name : Names, rev : Nat]) \ {<<>>}]
    BY <2>2, <2>3
  <2>5. f.type = "flush"
    OBVIOUS
  <2> QED BY <2>4, <2>5 DEF Plain, Frames
<1>5. Plain(Signal)
  BY DEF Plain, Signal, Frames
<1>6. stack' = <<Signal, f>> \o stack
  BY DEF Set
<1>7. stack \in Seq(Frames) /\ f \in Frames /\ Signal \in Frames
  BY <1>1, <1>4, <1>5 DEF MediaInv, Plain
<1> HIDE DEF f, steps
<1>8. stack' = <<Signal>> \o (<<f>> \o stack)
  BY <1>6, <1>7
<1>9. MediaInv'
  BY <1>4, <1>5, <1>8, PushStep DEF Set, statusVars
<1>10. DOMAIN pending' \subseteq Names /\ pending' \in [DOMAIN pending' -> Values]
       /\ (~available' => (pending' = <<>> /\ deferred' = <<>>))
  <2>1. CASE available
    <3>1. pending' = Stated(s, v) /\ available'
      BY <2>1 DEF Set, statusVars
    <3> QED BY <1>1, <1>2, <3>1 DEF Stated, RestOK
  <2>2. CASE ~available
    BY <1>1, <2>2 DEF Set, RestOK, statusVars, mediaVars
  <2> QED BY <2>1, <2>2
<1>11. {calls', events'} \subseteq Nat
  BY <1>1, BudgetTyped DEF Set
<1>12. RestOK'
  BY <1>1, <1>3, <1>10, <1>11 DEF Set, RestOK, statusVars, coreVars
<1> QED BY <1>9, <1>12

\* load() and operations on state.
LEMMA OperateStep ==
  ASSUME IInv, NEW key \in Keys \cup {NoKey}, Operate(key)
  PROVE  MediaInv' /\ RestOK'
<1>1. MediaInv /\ RestOK /\ TypeOK
  BY Whole, Parts
<1>2. ops \in Seq(Operations) /\ mediaRevision \in Nat /\ stack \in Seq(Frames) /\ FramesInv(stack, ops)
      /\ Len(ops) \in Nat
  BY <1>1 DEF MediaInv, MediaOK, WaitInv
<1> DEFINE o == [key |-> key, rev |-> mediaRevision]
           id == Len(ops) + 1
<1>3. o \in Operations /\ o.key = key /\ o.rev = mediaRevision
  BY <1>2 DEF Operations
<1>4. ops' = Append(ops, o)
  BY DEF Operate, Called
<1> HIDE DEF o
<1>5. /\ Extends(ops, ops') /\ ops' \in Seq(Operations) /\ DOMAIN ops' = DOMAIN ops \cup {id}
      /\ Len(ops') = id /\ id \notin DOMAIN ops /\ ops'[id] = o
  BY <1>2, <1>3, <1>4, CallRecorded
<1>6. FramesInv(stack, ops')
  BY <1>2, <1>5, KnownGrows
<1>7. id \notin Held(stack) \cup ListIds(deferred) \cup Done
  BY <1>1, <1>5, WaitsKnown
<1>8. Request(id, key, stack) /\ UNCHANGED <<mediaRevision, available, shuttingDown>> /\ id \in Nat
  BY <1>2, <1>5 DEF Operate, statusVars
<1> HIDE DEF id
<1>9. Requested(id, key, stack)
  BY <1>2, <1>3, <1>5, <1>6, <1>7, <1>8 DEF Requested
<1>10. MediaInv'
  BY <1>1, <1>8, <1>9, RequestInv DEF MediaInv
<1>11. refusals' \in Nat /\ {calls', events'} \subseteq Nat
  BY <1>1, <1>8, BudgetTyped DEF Operate, Request, RestOK
<1>12. ~available' => deferred' = <<>>
  BY <1>1, <1>8 DEF Request, RestOK
<1>13. RestOK'
  BY <1>1, <1>11, <1>12 DEF Operate, RestOK, intentVars, statusVars, coreVars
<1> QED BY <1>10, <1>13

\* setSource(): what was deferred is given up, and the new source is loaded later.
LEMMA SetSourceStep ==
  ASSUME IInv, SetSource
  PROVE  MediaInv' /\ RestOK'
<1>1. MediaInv /\ RestOK /\ TypeOK
  BY Whole, Parts
<1>2. ops \in Seq(Operations) /\ mediaRevision \in Nat /\ stack \in Seq(Frames) /\ FramesInv(stack, ops)
      /\ Len(ops) \in Nat
  BY <1>1 DEF MediaInv, MediaOK, WaitInv
<1> DEFINE o == [key |-> NoKey, rev |-> mediaRevision']
           id == Len(ops) + 1
           f == [type |-> "source", id |-> id, rev |-> mediaRevision']
<1>3. mediaRevision' = mediaRevision + 1 /\ mediaRevision' \in Nat /\ deferred' = <<>>
  BY <1>2 DEF SetSource
<1>4. o \in Operations /\ o.key = NoKey /\ o.rev = mediaRevision'
  BY <1>3 DEF Operations
<1>5. ops' = Append(ops, o)
  BY DEF SetSource, Called
<1>6. f \in Frames /\ f.type = "source" /\ f.id = id /\ f.rev = mediaRevision'
  BY <1>2, <1>3 DEF Frames
<1> HIDE DEF o
<1>7. /\ Extends(ops, ops') /\ ops' \in Seq(Operations) /\ DOMAIN ops' = DOMAIN ops \cup {id}
      /\ Len(ops') = id /\ id \notin DOMAIN ops /\ ops'[id] = o
  BY <1>2, <1>4, <1>5, CallRecorded
<1>8. FramesInv(stack, ops')
  BY <1>2, <1>7, KnownGrows
<1>9. id \notin Held(stack) \cup ListIds(deferred) \cup Done
  BY <1>1, <1>7, WaitsKnown
<1>10. stack' = <<Signal, f>> \o stack
  BY <1>7 DEF SetSource
<1>11. Signal \in Frames
  BY DEF Signal, Frames
<1> HIDE DEF f, id
<1>12. stack' = <<Signal>> \o (<<f>> \o stack)
  BY <1>2, <1>6, <1>10, <1>11
<1>13. Ids(f) = {id} /\ FrameInv(f, ops')
  BY <1>4, <1>6, <1>7 DEF Ids, FrameInv
<1> DEFINE s == <<f>> \o stack
<1>14. s \in Seq(Frames) /\ Held(s) = {id} \cup Held(stack) /\ FramesInv(s, ops')
  BY <1>2, <1>6, <1>8, <1>9, <1>13, PushFrame
<1> HIDE DEF s
<1>15. stack' = <<Signal>> \o s
  BY <1>12 DEF s
<1>16. stack' \in Seq(Frames) /\ Held(stack') = {id} \cup Held(stack) /\ FramesInv(stack', ops')
  BY <1>14, <1>15, SignalFirst
<1>17. deferred' \in Seq(Deferred) /\ DOMAIN deferred' = {} /\ ListIds(deferred') = {}
  BY <1>3 DEF ListIds
<1>18. UNCHANGED <<sent, rejected>>
  BY DEF SetSource
<1>19. MediaOK'
  BY <1>1, <1>3, <1>7, <1>17, <1>18 DEF MediaInv, MediaOK, Extends
<1>20. WaitInv'
  BY <1>16, <1>17 DEF WaitInv, ListInv, Distinct, KeyOnce
<1>21. OnceInv'
  BY <1>1, <1>9, <1>16, <1>17, <1>18 DEF MediaInv, OnceInv, Done
<1>22. ASSUME NEW x \in DOMAIN ops'
       PROVE  /\ ops'[x].rev <= mediaRevision'
              /\ \/ x \in ToSet(sent') \cup rejected' \cup Held(stack') \cup ListIds(deferred')
                 \/ Superseded(x)'
  <2>1. CASE x = id
    <3>1. ops'[x].rev <= mediaRevision'
      BY <1>3, <1>4, <1>7, <2>1
    <3> QED BY <1>16, <2>1, <3>1
  <2>2. CASE x \in DOMAIN ops
    <3>1. ops[x].rev \in Nat /\ ops[x].rev <= mediaRevision /\ ops'[x] = ops[x]
      BY <1>1, <1>2, <1>7, <2>2, OpsTyped DEF MediaInv, KnownInv, Extends
    <3>2. ops'[x].rev # mediaRevision' /\ ops'[x].rev <= mediaRevision'
      BY <1>2, <1>3, <3>1
    <3> QED BY <3>2 DEF Superseded
  <2> QED BY <1>7, <2>1, <2>2
<1>23. KnownInv'
  BY <1>1, <1>22 DEF MediaInv, KnownInv, SetSource, statusVars
<1>24. {calls', events'} \subseteq Nat
  BY <1>1, BudgetTyped DEF SetSource
<1>25. RestOK'
  BY <1>1, <1>24 DEF SetSource, RestOK, intentVars, statusVars, coreVars
<1> QED BY <1>16, <1>19, <1>20, <1>21, <1>23, <1>25 DEF MediaInv

\* stop(), next(), previous().
LEMMA NavigateStep ==
  ASSUME IInv, Navigate
  PROVE  MediaInv' /\ RestOK'
<1>1. MediaInv /\ RestOK
  BY Whole
<1>2. MediaInv'
  BY <1>1, GiveUp DEF Navigate, statusVars, MediaInv, KnownInv
<1>3. refusals' \in Nat /\ {calls', events'} \subseteq Nat
  BY <1>1, BudgetTyped DEF Navigate, RestOK
<1>4. RestOK'
  BY <1>1, <1>3 DEF Navigate, RestOK, intentVars, statusVars, coreVars
<1> QED BY <1>2, <1>4

\* shutdown()
LEMMA ShutdownStep ==
  ASSUME IInv, Shutdown
  PROVE  MediaInv' /\ RestOK'
<1>1. MediaInv /\ RestOK
  BY Whole
<1>2. MediaInv'
  BY <1>1, GiveUp DEF Shutdown
<1>3. {calls', events'} \subseteq Nat
  BY <1>1, BudgetTyped DEF Shutdown
<1>4. DOMAIN pending' \subseteq Names /\ pending' \in [DOMAIN pending' -> Values]
  BY DEF Shutdown
<1>5. RestOK'
  BY <1>1, <1>3, <1>4 DEF Shutdown, RestOK, coreVars
<1> QED BY <1>2, <1>5

-----------------------------------------------------------------------------
(* Frames go on.                                                             *)

\* A handler submits nothing when it returns.
LEMMA PlainSignal == Plain(Signal)
BY DEF Plain, Signal, Frames

\* A handler returns.
LEMMA ReturnStep ==
  ASSUME IInv, Return, UNCHANGED <<calls, events>>
  PROVE  MediaInv' /\ RestOK'
<1>1. MediaInv /\ RestOK /\ stack # <<>> /\ Top.type = "signal"
  BY Whole DEF Return, Runs
<1>2. Plain(Top)
  BY <1>1, PopFrame DEF Plain, MediaInv, WaitInv
<1>3. MediaInv'
  BY <1>1, <1>2, PlainStep DEF Return, statusVars
<1>4. RestOK'
  BY <1>1 DEF Return, RestOK, intentVars, mediaVars, statusVars, coreVars
<1> QED BY <1>3, <1>4

\* A submission or a refusal leaves the queue of commands typed.
LEMMA SubmitTyped ==
  ASSUME RestOK, NEW n \in Names, NEW v \in Values \cup {NoValue}, NEW then, SubmitProperty(n, v, then)
  PROVE  /\ refused' \subseteq Names /\ commands' \in Seq([name : Names, value : Values \cup {NoValue}])
         /\ refusals' \in Nat
         /\ stack' = then \/ stack' = <<Signal>> \o then
<1>1. [name |-> n, value |-> v] \in [name : Names, value : Values \cup {NoValue}]
  OBVIOUS
<1> DEFINE C == [name : Names, value : Values \cup {NoValue}]
           c == [name |-> n, value |-> v]
<1>2. commands \in Seq(C)
  BY DEF RestOK
<1>3. c \in C
  BY <1>1
<1>4. commands' = Append(commands, c) \/ commands' = commands
  BY DEF SubmitProperty
<1> HIDE DEF C, c
<1>5. commands' \in Seq(C)
  BY <1>2, <1>3, <1>4
<1>6. refusals' \in Nat
  BY BudgetTyped DEF SubmitProperty, RestOK
<1> QED BY <1>5, <1>6 DEF SubmitProperty, RestOK, C

\* A frame that flushes a setter, once its first name is taken.
LEMMA FlushFrame ==
  ASSUME NEW f \in Frames, f.type = "flush", NEW rest, rest = [f EXCEPT !.todo = Tail(@)],
         NEW d, d = Head(f.todo)
  PROVE  /\ d.name \in Names /\ (Len(f.todo) # 1 => Plain(rest))
         /\ rest.type = "flush" /\ rest.todo = Tail(f.todo)
         /\ Head(f.todo) = f.todo[1] /\ (Len(f.todo) = 1 => DOMAIN f.todo = {1})
         /\ \A i \in DOMAIN f.todo : i # 1 => i - 1 \in DOMAIN Tail(f.todo) /\ Tail(f.todo)[i - 1] = f.todo[i]
<1> DEFINE S == [name : Names, rev : Nat]
           l == f.todo
<1>1. l \in Seq(S) \ {<<>>} /\ f = [type |-> "flush", todo |-> l]
  BY FrameTyped
<1>2. rest = [type |-> "flush", todo |-> Tail(l)] /\ d = Head(l)
  BY <1>1
<1> HIDE DEF l, S
<1>3. l \in Seq(S) /\ l # <<>> /\ d = Head(l) /\ f.type = "flush"
  BY <1>1, <1>2
<1>4. d \in S
  BY <1>3
<1>5. d.name \in Names
  BY <1>4 DEF S
<1>6. ASSUME Len(l) # 1
      PROVE  Plain(rest)
  <2> DEFINE t == Tail(l)
  <2>1. t \in Seq(S) \ {<<>>}
    <3>1. t \in Seq(S) /\ Len(t) = Len(l) - 1 /\ Len(l) \in Nat /\ Len(l) # 0
      BY <1>3
    <3>2. Len(t) # 0
      BY <1>6, <3>1
    <3> QED BY <3>1, <3>2
  <2>2. rest = [type |-> "flush", todo |-> t]
    BY <1>2
  <2> HIDE DEF t
  <2> DEFINE T == Seq(S) \ {<<>>}
  <2>3. t \in T
    BY <2>1
  <2> HIDE DEF T
  <2>4. [type |-> "flush", todo |-> t] \in [type : {"flush"}, todo : T]
    BY <2>3
  <2>5. rest \in Frames
    BY <2>2, <2>4 DEF T, S, Frames
  <2> QED BY <2>2, <2>5 DEF Plain
<1>7. rest.type = "flush" /\ rest.todo = Tail(l)
  <2> PICK t : t = Tail(l)
    OBVIOUS
  <2>1. rest = [type |-> "flush", todo |-> t]
    BY <1>2
  <2>2. [type |-> "flush", todo |-> t].type = "flush" /\ [type |-> "flush", todo |-> t].todo = t
    OBVIOUS
  <2> QED BY <2>1, <2>2, Zenon
<1>8. /\ Head(l) = l[1] /\ (Len(l) = 1 => DOMAIN l = {1})
      /\ \A i \in DOMAIN l : i # 1 => i - 1 \in DOMAIN Tail(l) /\ Tail(l)[i - 1] = l[i]
  <2>1. Len(l) \in Nat /\ DOMAIN l = 1 .. Len(l) /\ Len(l) # 0 /\ Len(Tail(l)) = Len(l) - 1
    BY <1>3
  <2>2. Head(l) = l[1] /\ (Len(l) = 1 => DOMAIN l = {1})
    BY <1>3, <2>1
  <2>3. ASSUME NEW i \in DOMAIN l, i # 1
        PROVE  i - 1 \in DOMAIN Tail(l) /\ Tail(l)[i - 1] = l[i]
    BY <1>3, <2>1, <2>3
  <2> QED BY <2>2, <2>3
<1> QED BY <1>5, <1>6, <1>7, <1>8 DEF l

\* The flush of a setter goes on with its next name.
LEMMA FlushStep ==
  ASSUME IInv, Flush, UNCHANGED <<calls, events>>
  PROVE  MediaInv' /\ RestOK'
<1>1. MediaInv /\ RestOK /\ stack # <<>> /\ Top.type = "flush"
  BY Whole DEF Flush, Runs
<1>2. Top \in Frames /\ Plain(Top)
  BY <1>1, PopFrame DEF Plain, MediaInv, WaitInv
<1> DEFINE l == Top.todo
           f == Head(l)
           rest == [Top EXCEPT !.todo = Tail(@)]
           then == IF Len(l) = 1 THEN Below ELSE <<rest>> \o Below
           v == IF f.name \in DOMAIN pending THEN pending[f.name] ELSE NoValue
<1>3. f.name \in Names /\ (Len(l) # 1 => Plain(rest))
  BY <1>1, <1>2, FlushFrame
<1>5. \/ /\ IsNewest(f) /\ available /\ Ready
         /\ pending' = [n \in DOMAIN pending \ {f.name} |-> pending[n]]
         /\ SubmitProperty(f.name, v, then)
      \/ /\ stack' = <<Signal>> \o then \/ stack' = then
         /\ UNCHANGED <<pending, commands, refused, refusals>>
  BY DEF Flush
<1>6. then = Below \/ (Len(l) # 1 /\ then = <<rest>> \o Below)
  OBVIOUS
<1> HIDE DEF l, then, rest
<1>10. v \in Values \cup {NoValue}
  BY <1>1 DEF RestOK
<1> HIDE DEF f, v
<1>11. /\ DOMAIN pending' \subseteq Names /\ pending' \in [DOMAIN pending' -> Values]
       /\ refused' \subseteq Names /\ commands' \in Seq([name : Names, value : Values \cup {NoValue}])
       /\ refusals' \in Nat
       /\ stack' = then \/ stack' = <<Signal>> \o then
       /\ ~available => pending' = <<>>
  <2>1. CASE /\ IsNewest(f) /\ available /\ Ready
             /\ pending' = [n \in DOMAIN pending \ {f.name} |-> pending[n]]
             /\ SubmitProperty(f.name, v, then)
    <3>1. DOMAIN pending' \subseteq Names /\ pending' \in [DOMAIN pending' -> Values]
      BY <1>1, <2>1 DEF RestOK
    <3> QED BY <1>1, <1>3, <1>10, <2>1, <3>1, SubmitTyped
  <2>2. CASE /\ stack' = <<Signal>> \o then \/ stack' = then
             /\ UNCHANGED <<pending, commands, refused, refusals>>
    BY <1>1, <2>2 DEF RestOK
  <2> QED BY <1>5, <2>1, <2>2
<1>12. \/ stack' = Below
       \/ \E g : Plain(g) /\ stack' = <<g>> \o Below
       \/ \E g, h : Plain(g) /\ Plain(h) /\ stack' = <<g>> \o (<<h>> \o Below)
  BY <1>6, <1>3, <1>11, PlainSignal
<1>13. MediaInv'
  BY <1>1, <1>2, <1>12, PlainStep DEF Flush, statusVars
<1>14. RestOK'
  BY <1>1, <1>11 DEF Flush, RestOK, mediaVars, statusVars
<1> QED BY <1>13, <1>14

\* The rest of setSource(): the source is loaded, or has been superseded.
LEMMA LoadSourceStep ==
  ASSUME IInv, LoadSource, UNCHANGED <<calls, events>>
  PROVE  MediaInv' /\ RestOK'
<1>1. MediaInv /\ RestOK /\ TypeOK /\ stack # <<>> /\ Top.type = "source"
  BY Whole, Parts DEF LoadSource, Runs
<1>2. /\ Top \in Frames /\ Below \in Seq(Frames) /\ Held(stack) = Ids(Top) \cup Held(Below)
      /\ Ids(Top) \cap Held(Below) = {} /\ FrameInv(Top, ops) /\ FramesInv(Below, ops)
  BY <1>1, PopFrame DEF MediaInv, WaitInv
<1> PICK id : id = Top.id
  OBVIOUS
<1>3. id \in Nat /\ Ids(Top) = {id} /\ id \in DOMAIN ops /\ ops[id].key = NoKey /\ ops[id].rev = Top.rev
  BY <1>1, <1>2, FrameTyped DEF Ids, FrameInv
<1>4. UNCHANGED <<ops, mediaRevision, available, shuttingDown>>
  BY DEF LoadSource, statusVars
<1>5. CASE Top.rev = mediaRevision /\ Request(Top.id, NoKey, Below)
  <2>1. ops \in Seq(Operations) /\ Extends(ops, ops')
    BY <1>1, <1>4 DEF MediaInv, MediaOK, Extends
  <2>2. id \notin Held(Below) \cup ListIds(deferred) \cup Done
    BY <1>1, <1>2, <1>3 DEF MediaInv, OnceInv, Done
    <2>3. Requested(id, NoKey, Below)
    BY <1>2, <1>3, <1>4, <1>5, <2>1, <2>2 DEF Requested
  <2>4. MediaInv'
    BY <1>1, <1>3, <1>5, <2>3, RequestInv DEF MediaInv
  <2>5. refusals' \in Nat /\ (~available => deferred' = <<>>)
    BY <1>1, <1>5, BudgetTyped DEF Request, RestOK
  <2>6. RestOK'
    BY <1>1, <1>4, <2>5 DEF LoadSource, RestOK, intentVars, statusVars, coreVars
  <2> QED BY <2>4, <2>6
<1>6. CASE /\ Top.rev # mediaRevision \/ shuttingDown
           /\ stack' = Below /\ UNCHANGED <<deferred, sent, rejected, refusals>>
  <2>1. Superseded(id)'
    BY <1>1, <1>3, <1>4, <1>6 DEF Superseded, MediaInv, KnownInv
    <2>2. MediaOK' /\ WaitInv' /\ stack' \in Seq(Frames)
    BY <1>1, <1>2, <1>4, <1>6 DEF MediaInv, MediaOK, WaitInv
  <2>3. ListIds(deferred') = ListIds(deferred) /\ Held(stack') = Held(Below)
    BY <1>6
  <2>4. Held(stack') \cap ListIds(deferred') = {}
    BY <1>1, <1>2, <2>3 DEF MediaInv, OnceInv
  <2>5. \A x \in Held(stack) \cup ListIds(deferred) :
          x \in Held(stack') \cup ListIds(deferred') \/ (x \in DOMAIN ops => Superseded(x)')
    BY <1>2, <1>3, <2>1, <2>3
  <2>6. mediaRevision' \in Nat /\ mediaRevision' >= mediaRevision
    BY <1>1, <1>4 DEF MediaInv, MediaOK
  <2>7. OnceInv' /\ KnownInv'
    BY <1>1, <1>2, <1>4, <1>6, <2>3, <2>4, <2>5, <2>6, Moved DEF MediaInv, KnownInv
  <2>8. RestOK'
    BY <1>1, <1>4, <1>6 DEF LoadSource, RestOK, intentVars, statusVars, coreVars
  <2> QED BY <2>2, <2>7, <2>8 DEF MediaInv
<1> QED BY <1>5, <1>6 DEF LoadSource

\* A synchronization starts with all there is pending.
LEMMA BeginSyncStep ==
  ASSUME IInv, BeginSync, UNCHANGED <<calls, events>>
  PROVE  MediaInv' /\ RestOK'
<1>1. MediaInv /\ RestOK /\ stack # <<>> /\ Top.type = "ready"
  BY Whole DEF BeginSync, Runs
<1>2. Plain(Top)
  BY <1>1, PopFrame DEF Plain, MediaInv, WaitInv
<1> DEFINE f == [type |-> "sync", todo |-> Order, pending |-> pending, revs |-> revision]
<1>3. f.type = "sync"
  OBVIOUS
<1>4. \/ stack' = Below /\ UNCHANGED pending
      \/ stack' = <<f>> \o Below /\ pending' = <<>>
  BY DEF BeginSync
<1>5. stack' = Below \/ f \in Frames
  <2>1. Order \in Seq(Names)
    BY ConstantsAssumption
  <2>2. revision \in [Names -> Nat] /\ pending \in UNION {[some -> Values] : some \in SUBSET Names}
    BY <1>1 DEF RestOK
  <2>3. f \in [type : {"sync"}, todo : Seq(Names), revs : [Names -> Nat],
               pending : UNION {[some -> Values] : some \in SUBSET Names}]
    BY <2>1, <2>2
  <2> QED BY <2>3 DEF Frames
<1> HIDE DEF f
<1>6. MediaInv'
  BY <1>1, <1>2, <1>3, <1>4, <1>5, PlainStep DEF BeginSync, statusVars, Plain
<1>7. DOMAIN pending' \subseteq Names /\ pending' \in [DOMAIN pending' -> Values]
      /\ (~available => pending' = <<>>)
  <2>1. CASE UNCHANGED pending
    BY <1>1, <2>1 DEF RestOK
  <2>2. CASE pending' = <<>>
    BY <2>2
  <2> QED BY <1>4, <2>1, <2>2
<1>8. RestOK'
  BY <1>1, <1>7 DEF BeginSync, RestOK, mediaVars, statusVars, coreVars
<1> QED BY <1>6, <1>8

\* A frame that synchronizes, once it has submitted the name at place k.
LEMMA SyncFrame ==
  ASSUME NEW f \in Frames, f.type = "sync", NEW k \in DOMAIN f.todo, f.todo[k] \in DOMAIN f.pending,
         NEW rest, rest = [f EXCEPT !.todo = SubSeq(@, k + 1, Len(@))]
  PROVE  f.todo[k] \in Names /\ f.pending[f.todo[k]] \in Values /\ Plain(rest)
<1> DEFINE l == f.todo
           t == SubSeq(l, k + 1, Len(l))
           p == f.pending
           r == f.revs
<1>1. /\ l \in Seq(Names) /\ r \in [Names -> Nat] /\ p \in UNION {[some -> Values] : some \in SUBSET Names}
      /\ f = [type |-> "sync", todo |-> l, revs |-> r, pending |-> p]
  BY FrameTyped
<1>2. rest = [type |-> "sync", todo |-> t, revs |-> r, pending |-> p]
  BY <1>1
<1>3. l \in Seq(Names) /\ k \in DOMAIN l /\ l[k] \in DOMAIN p
  BY <1>1
<1> HIDE DEF l, p, r
<1>4. k \in Nat /\ Len(l) \in Nat /\ l[k] \in Names /\ k >= 1
  BY <1>3
<1>5. t \in Seq(Names)
  BY <1>3, <1>4
<1>6. p[l[k]] \in Values
  <2>1. PICK some \in SUBSET Names : p \in [some -> Values]
    BY <1>1
  <2> QED BY <1>3, <2>1
<1> HIDE DEF t
<1>7. [type |-> "sync", todo |-> t, revs |-> r, pending |-> p]
        \in [type : {"sync"}, todo : Seq(Names), revs : [Names -> Nat],
             pending : UNION {[some -> Values] : some \in SUBSET Names}]
  <2> DEFINE S == Seq(Names)
             R == [Names -> Nat]
             P == UNION {[some -> Values] : some \in SUBSET Names}
  <2>1. t \in S /\ r \in R /\ p \in P
    BY <1>1, <1>5
  <2> HIDE DEF S, R, P
  <2>2. [type |-> "sync", todo |-> t, revs |-> r, pending |-> p] \in [type : {"sync"}, todo : S, revs : R, pending : P]
    BY <2>1
  <2> QED BY <2>2 DEF S, R, P
<1>8. Plain(rest)
  <2>1. rest \in Frames
    BY <1>2, <1>7 DEF Frames
  <2> QED BY <1>2, <2>1 DEF Plain
<1> QED BY <1>4, <1>6, <1>8 DEF l, p

\* syncProperties() submits the next property.
LEMMA SubmitDueStep ==
  ASSUME IInv, Sync, NEW k \in DOMAIN Top.todo, SubmitDue(k), UNCHANGED <<calls, events>>
  PROVE  MediaInv' /\ RestOK'
<1>1. MediaInv /\ RestOK /\ stack # <<>> /\ Top.type = "sync"
  BY Whole DEF Sync, Runs
<1>2. Top \in Frames /\ Plain(Top)
  BY <1>1, PopFrame DEF Plain, MediaInv, WaitInv
<1> DEFINE rest == [Top EXCEPT !.todo = SubSeq(@, k + 1, Len(@))]
<1>3. Top.todo[k] \in DOMAIN Top.pending
  BY DEF SubmitDue, Due
<1>4. Top.todo[k] \in Names /\ Top.pending[Top.todo[k]] \in Values /\ Plain(rest)
  BY <1>1, <1>2, <1>3, SyncFrame
<1>5. SubmitProperty(Top.todo[k], Top.pending[Top.todo[k]], <<rest>> \o Below)
  BY DEF SubmitDue
<1> HIDE DEF rest
<1>6. /\ refused' \subseteq Names /\ commands' \in Seq([name : Names, value : Values \cup {NoValue}])
      /\ refusals' \in Nat
      /\ stack' = <<rest>> \o Below \/ stack' = <<Signal>> \o (<<rest>> \o Below)
  BY <1>1, <1>4, <1>5, SubmitTyped
<1>7. UNCHANGED <<mediaVars, intentVars, statusVars, core, reports>>
  BY DEF Sync, SubmitDue, mediaVars
<1>8. MediaInv'
  BY <1>1, <1>2, <1>4, <1>6, <1>7, PlainSignal, PlainStep DEF statusVars
<1>9. RestOK'
  BY <1>1, <1>6, <1>7 DEF RestOK, intentVars, mediaVars, statusVars
<1> QED BY <1>8, <1>9

\* syncProperties() ends: all that is deferred is taken, to be retried.
LEMMA EndSyncStep ==
  ASSUME IInv, Sync, EndSync, UNCHANGED <<calls, events>>
  PROVE  MediaInv' /\ RestOK'
<1>1. MediaInv /\ RestOK /\ TypeOK /\ stack # <<>> /\ Top.type = "sync"
  BY Whole, Parts DEF Sync, Runs
<1>2. Top \in Frames /\ Plain(Top) /\ stack \in Seq(Frames)
  BY <1>1, PopFrame DEF Plain, MediaInv, WaitInv
<1>3. Below \in Seq(Frames) /\ Held(Below) = Held(stack) /\ FramesInv(Below, ops)
  BY <1>1, <1>2, PopFrame, PlainFrame DEF MediaInv, WaitInv
<1>4. UNCHANGED <<mediaRevision, ops, sent, rejected, intentVars, statusVars, coreVars, refusals>>
  BY DEF Sync, EndSync, coreVars
<1>5. CASE ~available
  <2>1. stack' = Below /\ UNCHANGED mediaVars
    BY <1>4, <1>5 DEF EndSync, mediaVars
  <2>2. MediaInv'
    BY <1>1, <1>2, <1>4, <2>1, PlainStep DEF statusVars
  <2>3. RestOK'
    BY <1>1, <1>4, <2>1 DEF RestOK, intentVars, mediaVars, statusVars, coreVars
  <2> QED BY <2>2, <2>3
<1>6. CASE available
  <2> DEFINE f == [type |-> "run", todo |-> deferred]
  <2>1. stack' = <<f>> \o Below /\ deferred' = <<>>
    BY <1>6 DEF EndSync
  <2>2. f \in Frames /\ Ids(f) = ListIds(deferred) /\ FrameInv(f, ops)
    BY <1>1 DEF MediaInv, MediaOK, WaitInv, Frames, Ids, ListIds, FrameInv
  <2>3. Ids(f) \cap Held(Below) = {}
    BY <1>1, <1>3, <2>2 DEF MediaInv, OnceInv
  <2> HIDE DEF f
  <2>4. stack' \in Seq(Frames) /\ Held(stack') = ListIds(deferred) \cup Held(stack) /\ FramesInv(stack', ops)
    BY <1>3, <2>1, <2>2, <2>3, PushFrame
  <2>5. deferred' \in Seq(Deferred) /\ DOMAIN deferred' = {} /\ ListIds(deferred') = {}
    BY <2>1 DEF ListIds
  <2>6. MediaOK'
    BY <1>1, <1>4, <2>5 DEF MediaInv, MediaOK
  <2>7. WaitInv'
    BY <1>4, <2>4, <2>5 DEF WaitInv, ListInv, Distinct, KeyOnce
  <2>8. mediaRevision' \in Nat /\ mediaRevision' >= mediaRevision /\ available' = available
        /\ (shuttingDown => ~available)'
    BY <1>1, <1>4 DEF MediaInv, MediaOK, KnownInv, statusVars
  <2>9. OnceInv' /\ KnownInv'
    BY <1>1, <1>4, <2>4, <2>5, <2>8, Moved DEF MediaInv
  <2>10. RestOK'
    BY <1>1, <1>4, <2>1 DEF RestOK, intentVars, statusVars, coreVars
  <2> QED BY <2>4, <2>6, <2>7, <2>9, <2>10 DEF MediaInv
<1> QED BY <1>5, <1>6

\* One of the deferred operations is retried, or has been superseded.
LEMMA RunDeferredStep ==
  ASSUME IInv, RunDeferred, UNCHANGED <<calls, events>>
  PROVE  MediaInv' /\ RestOK'
<1>1. MediaInv /\ RestOK /\ TypeOK /\ stack # <<>> /\ Top.type = "run"
  BY Whole, Parts DEF RunDeferred, Runs
<1>2. /\ Top \in Frames /\ Below \in Seq(Frames) /\ Held(stack) = Ids(Top) \cup Held(Below)
      /\ Ids(Top) \cap Held(Below) = {} /\ FrameInv(Top, ops) /\ FramesInv(Below, ops)
  BY <1>1, PopFrame DEF MediaInv, WaitInv
<1>3. UNCHANGED <<ops, mediaRevision, available, shuttingDown, intentVars, statusVars, coreVars>>
  BY DEF RunDeferred, statusVars
<1>4. ASSUME stack' \in Seq(Frames), FramesInv(stack', ops), Held(stack') \subseteq Held(stack),
             UNCHANGED <<deferred, sent, rejected, refusals>>,
             \A x \in Held(stack) \ Held(stack') : x \in DOMAIN ops => Superseded(x)'
      PROVE  MediaInv' /\ RestOK'
  <2>1. MediaOK' /\ WaitInv'
    BY <1>1, <1>3, <1>4 DEF MediaInv, MediaOK, WaitInv
  <2>2. ListIds(deferred') = ListIds(deferred)
    BY <1>4
  <2>3. Held(stack') \cap ListIds(deferred') = {}
    BY <1>1, <1>4, <2>2 DEF MediaInv, OnceInv
  <2>4. mediaRevision' \in Nat /\ mediaRevision' >= mediaRevision /\ (shuttingDown => ~available)'
    BY <1>1, <1>3 DEF MediaInv, MediaOK, KnownInv
  <2>5. OnceInv' /\ KnownInv'
    BY <1>1, <1>3, <1>4, <2>2, <2>3, <2>4, Moved DEF MediaInv
  <2>6. RestOK'
    BY <1>1, <1>3, <1>4 DEF RestOK, intentVars, statusVars, coreVars
  <2> QED BY <1>4, <2>1, <2>5, <2>6 DEF MediaInv
<1>5. CASE Top.todo = <<>> \/ ~available
  <2>1. stack' = Below /\ UNCHANGED <<deferred, sent, rejected, refusals>>
    BY <1>5 DEF RunDeferred
  <2>2. CASE ~available
    <3>1. \A x \in Held(stack) : Superseded(x)'
      BY <1>3, <2>2 DEF Superseded
    <3> QED BY <1>2, <1>4, <2>1, <3>1
  <2>3. CASE Top.todo = <<>>
    <3>1. Ids(Top) = {}
      BY <1>1, <2>3 DEF Ids
    <3> QED BY <1>2, <1>4, <2>1, <3>1
  <2> QED BY <1>5, <2>2, <2>3
<1>6. CASE Top.todo # <<>> /\ available
  <2> PICK d : d = Head(Top.todo)
    OBVIOUS
  <2> PICK rest : rest = [Top EXCEPT !.todo = Tail(@)]
    OBVIOUS
  <2>1. /\ rest \in Frames /\ FrameInv(rest, ops) /\ d \in Deferred /\ Recorded(d, ops)
        /\ Ids(Top) = {d.id} \cup Ids(rest) /\ d.id \notin Ids(rest)
    BY <1>1, <1>2, <1>6, RunFrame
  <2> PICK then : then = <<rest>> \o Below
    OBVIOUS
  <2>2. then \in Seq(Frames) /\ Held(then) = Ids(rest) \cup Held(Below) /\ FramesInv(then, ops)
    BY <1>2, <2>1, PushFrame
  <2>3. CASE ~MayRetry(d)
    <3>1. stack' = then /\ UNCHANGED <<deferred, sent, rejected, refusals>>
      BY <1>6, <2>3 DEF RunDeferred
    <3>2. ASSUME NEW x \in Held(stack) \ Held(stack')
          PROVE  Superseded(x)'
      <4>1. x = d.id
        BY <1>2, <2>1, <2>2, <3>1
      <4>2. ops'[x].rev # mediaRevision'
        BY <1>3, <2>1, <2>3, <4>1 DEF Recorded, MayRetry
      <4> QED BY <4>2 DEF Superseded
    <3> QED BY <1>2, <1>4, <2>1, <2>2, <3>1, <3>2
  <2>4. CASE MayRetry(d)
    <3> PICK id, key : id = d.id /\ key = d.key
      OBVIOUS
    <3>1. Request(id, key, then)
      BY <1>6, <2>4 DEF RunDeferred
    <3>2. id \in Nat /\ key \in Keys \cup {NoKey}
      BY <2>1 DEF Deferred
    <3>3. /\ id \in DOMAIN ops /\ ops[id].key = key /\ ops[id].rev = mediaRevision
      BY <2>1, <2>4 DEF Recorded, MayRetry
    <3>4. id \in Held(stack) /\ id \notin Held(then) /\ Held(stack) = Held(then) \cup {id}
      BY <1>2, <2>1, <2>2
    <3>5. id \notin Held(then) \cup ListIds(deferred) \cup Done
      BY <1>1, <3>4 DEF MediaInv, OnceInv, Done
    <3>6. ops \in Seq(Operations) /\ Extends(ops, ops')
      BY <1>1, <1>3 DEF MediaInv, MediaOK, Extends
    <3>7. Requested(id, key, then)
      BY <1>3, <2>2, <3>3, <3>4, <3>5, <3>6 DEF Requested
    <3>8. MediaInv'
      BY <1>1, <3>1, <3>2, <3>7, RequestInv DEF MediaInv
    <3>9. refusals' \in Nat /\ (~available => deferred' = <<>>)
      BY <1>1, <1>6, <3>1, BudgetTyped DEF Request, RestOK
    <3>10. RestOK'
      BY <1>1, <1>3, <3>9 DEF RestOK, intentVars, statusVars, coreVars
    <3> QED BY <3>8, <3>10
  <2> QED BY <2>3, <2>4
<1> QED BY <1>5, <1>6

-----------------------------------------------------------------------------
(* Events of the renderer and of the core.                                   *)

\* The status of the renderer arrives.
LEMMA StatusStep ==
  ASSUME IInv, NEW ready \in BOOLEAN, NEW error \in BOOLEAN, Status(ready, error)
  PROVE  MediaInv' /\ RestOK'
<1>1. MediaInv /\ RestOK
  BY Whole
<1> DEFINE f == [type |-> "status", ready |-> ready, error |-> error]
<1>2. Plain(f)
  <2>1. f \in [type : {"status"}, ready : BOOLEAN, error : BOOLEAN] /\ f.type = "status"
    OBVIOUS
  <2> QED BY <2>1 DEF Plain, Frames
<1>3. stack' = <<Signal>> \o <<f>> \o stack \/ stack' = <<>> \o <<f>> \o stack
  BY DEF Status
<1>4. stack \in Seq(Frames) /\ f \in Frames /\ Signal \in Frames
  BY <1>1, <1>2, PlainSignal DEF MediaInv, Plain
<1> HIDE DEF f
<1>5. stack' = <<Signal>> \o (<<f>> \o stack) \/ stack' = <<f>> \o stack
  BY <1>3, <1>4
<1>6. MediaInv'
  BY <1>2, <1>5, PlainSignal, PushStep DEF Status
<1>7. {calls', events'} \subseteq Nat
  BY <1>1, BudgetTyped DEF Status
<1>8. RestOK'
  BY <1>1, <1>7 DEF Status, RestOK, intentVars, mediaVars, coreVars
<1> QED BY <1>6, <1>8

\* rendererStatus() goes on: it publishes loss of readiness, failure or readiness.
LEMMA ContinueStatusStep ==
  ASSUME IInv, ContinueStatus, UNCHANGED <<calls, events>>
  PROVE  MediaInv' /\ RestOK'
<1>1. MediaInv /\ RestOK /\ stack # <<>> /\ Top.type = "status" /\ stack \in Seq(Frames)
  BY Whole DEF ContinueStatus, Runs, MediaInv
<1>2. Top \in Frames /\ Plain(Top) /\ Below \in Seq(Frames)
  BY <1>1, PopFrame DEF Plain, MediaInv, WaitInv
<1> DEFINE f == [type |-> "ready"]
           g == [type |-> "failure"]
<1>3. Plain(f) /\ Plain(g)
  BY DEF Plain, Frames
<1>4. \/ stack' = Below /\ UNCHANGED initialized
      \/ stack' = <<Signal>> \o <<g>> \o Below /\ initialized' = FALSE
      \/ stack' = <<Signal>> \o <<>> \o Below /\ initialized' = FALSE
      \/ stack' = <<Signal>> \o Below /\ UNCHANGED initialized
      \/ stack' = <<Signal, f>> \o Below /\ initialized' = available
      \/ stack' = <<>> \o Below /\ initialized' = available
  BY DEF ContinueStatus
<1>5. Signal \in Frames /\ f \in Frames /\ g \in Frames
  BY <1>3, PlainSignal DEF Plain
<1> HIDE DEF f, g
<1>6. /\ <<Signal, f>> \o Below = <<Signal>> \o (<<f>> \o Below) /\ <<>> \o Below = Below
      /\ <<Signal>> \o <<g>> \o Below = <<Signal>> \o (<<g>> \o Below)
      /\ <<Signal>> \o <<>> \o Below = <<Signal>> \o Below
  <2>1. <<Signal>> \o <<>> = <<Signal>>
    BY <1>5
  <2>2. <<Signal, f>> \o Below = <<Signal>> \o (<<f>> \o Below)
    BY <1>2, <1>5
  <2>3. <<Signal>> \o <<g>> \o Below = <<Signal>> \o (<<g>> \o Below)
    BY <1>2, <1>5
  <2>4. <<>> \o Below = Below
    BY <1>2
  <2> QED BY <2>1, <2>2, <2>3, <2>4
<1>7. UNCHANGED mediaVars /\ UNCHANGED <<available, shuttingDown>>
  BY DEF ContinueStatus
<1>8. \/ stack' = Below
      \/ stack' = <<Signal>> \o Below
      \/ stack' = <<Signal>> \o (<<f>> \o Below)
      \/ stack' = <<Signal>> \o (<<g>> \o Below)
  BY <1>4, <1>6
<1>9. MediaInv'
  BY <1>1, <1>2, <1>3, <1>7, <1>8, PlainSignal, PlainStep
<1>10. initialized' \in BOOLEAN
  BY <1>1, <1>4 DEF RestOK
<1>11. RestOK'
  BY <1>1, <1>10 DEF ContinueStatus, RestOK, intentVars, mediaVars, coreVars
<1> QED BY <1>9, <1>11

\* renderingFailed() is signalled.
LEMMA SignalFailureStep ==
  ASSUME IInv, SignalFailure, UNCHANGED <<calls, events>>
  PROVE  MediaInv' /\ RestOK'
<1>1. MediaInv /\ RestOK /\ stack # <<>> /\ Top.type = "failure" /\ stack \in Seq(Frames)
  BY Whole DEF SignalFailure, Runs, MediaInv
<1>2. Plain(Top) /\ Below \in Seq(Frames)
  BY <1>1, PopFrame DEF Plain, MediaInv, WaitInv
<1>3. stack' = <<>> \o Below \/ stack' = <<Signal>> \o Below
  BY DEF SignalFailure
<1>4. <<>> \o Below = Below
  BY <1>2
<1>5. MediaInv'
  BY <1>1, <1>2, <1>3, <1>4, PlainSignal, PlainStep DEF SignalFailure, statusVars
<1>6. RestOK'
  BY <1>1 DEF SignalFailure, RestOK, intentVars, mediaVars, statusVars, coreVars
<1> QED BY <1>5, <1>6

\* The core is lost: what waits for it is given up.
LEMMA CoreUnavailableStep ==
  ASSUME IInv, CoreUnavailable
  PROVE  MediaInv' /\ RestOK'
<1>1. MediaInv /\ RestOK
  BY Whole
<1>2. MediaInv'
  BY <1>1, GiveUp DEF CoreUnavailable
<1>3. DOMAIN pending' \subseteq Names /\ pending' \in [DOMAIN pending' -> Values]
  BY DEF CoreUnavailable
<1>4. RestOK'
  BY <1>1, <1>3 DEF CoreUnavailable, RestOK, coreVars, budgetVars
<1> QED BY <1>2, <1>4

\* Each name has a setter.
LEMMA SetterOfTyped ==
  ASSUME NEW n \in Names
  PROVE  SetterOf(n) \in Setters
<1>1. \E s \in Setters : n \in ToSet(s)
  BY ConstantsAssumption
<1> QED BY <1>1 DEF SetterOf

\* The core reports a value.
LEMMA PropertyChangedStep ==
  ASSUME IInv, PropertyChanged
  PROVE  MediaInv' /\ RestOK'
<1>1. MediaInv /\ RestOK
  BY Whole
<1> DEFINE R == [name : Observed, value : Values]
<1> PICK r : r = Head(reports)
  OBVIOUS
<1>2. reports \in Seq(R) /\ reports # <<>> /\ reports' = Tail(reports)
  BY <1>1 DEF RestOK, PropertyChanged
<1> HIDE DEF R
<1>3. r \in R /\ reports' \in Seq(R)
  BY <1>2
<1> PICK s : s = SetterOf(r.name)
  OBVIOUS
<1>4. s \in Setters /\ r.value \in Values
  BY <1>3, SetterOfTyped, ConstantsAssumption DEF R
<1>5. \/ UNCHANGED <<member, stack>>
      \/ member' = [member EXCEPT ![s] = r.value] /\ stack' = <<Signal>> \o stack
  BY DEF PropertyChanged
<1>6. member' \in [Setters -> Values]
  BY <1>1, <1>4, <1>5 DEF RestOK
<1>7. MediaInv'
  BY <1>5, PlainSignal, PushStep DEF PropertyChanged, statusVars
<1>8. unshown' \subseteq Observed
  <2>1. unshown' \subseteq unshown \cup {r.name}
    BY DEF PropertyChanged
  <2> QED BY <1>1, <1>3, <2>1 DEF RestOK, R
<1>9. RestOK'
  BY <1>1, <1>3, <1>6, <1>8 DEF PropertyChanged, RestOK, R, mediaVars, statusVars, budgetVars
<1> QED BY <1>7, <1>9

-----------------------------------------------------------------------------
(* The core.                                                                 *)

\* The core has another value, and may report it.
LEMMA AssignsTyped ==
  ASSUME RestOK, NEW n \in Names, NEW v \in Values, Assigns(n, v)
  PROVE  core' \in [Names -> Values] /\ reports' \in Seq([name : Observed, value : Values])
<1> DEFINE R == [name : Observed, value : Values]
           r == [name |-> n, value |-> v]
<1>1. reports \in Seq(R) /\ core' \in [Names -> Values]
  BY DEF RestOK, Assigns
<1>2. n \in Observed => r \in R
  OBVIOUS
<1>3. reports' = reports \/ (n \in Observed /\ reports' = Append(reports, r))
  BY DEF Assigns
<1> HIDE DEF R, r
<1>4. reports' \in Seq(R)
  BY <1>1, <1>2, <1>3
<1> QED BY <1>1, <1>4 DEF R

\* A submission is executed, or fails.
LEMMA ExecuteStep ==
  ASSUME IInv, Execute
  PROVE  MediaInv' /\ RestOK'
<1>1. MediaInv /\ RestOK
  BY Whole
<1>2. MediaInv'
  BY PushStep DEF Execute, statusVars
<1> DEFINE C == [name : Names, value : Values \cup {NoValue}]
<1> PICK c : c = Head(commands)
  OBVIOUS
<1>3. commands \in Seq(C) /\ commands # <<>> /\ commands' = Tail(commands)
  BY <1>1 DEF RestOK, Execute
<1> HIDE DEF C
<1>4. c \in C /\ commands' \in Seq(C)
  BY <1>3
<1>5. c.name \in Names /\ c.value \in Values \cup {NoValue}
  BY <1>4 DEF C
<1>6. \/ c.value # NoValue /\ Assigns(c.name, c.value) /\ UNCHANGED <<refused, refusals>>
      \/ /\ refused' \in {refused, refused \cup {c.name}} /\ UNCHANGED <<core, reports>>
         /\ MayBeRefused \/ UNCHANGED refusals
  BY DEF Execute
<1>7. /\ core' \in [Names -> Values] /\ reports' \in Seq([name : Observed, value : Values])
      /\ refused' \subseteq Names /\ refusals' \in Nat
  <2>1. CASE c.value # NoValue /\ Assigns(c.name, c.value) /\ UNCHANGED <<refused, refusals>>
    <3>1. c.value \in Values
      BY <1>5, <2>1
    <3> QED BY <1>1, <1>5, <2>1, <3>1, AssignsTyped DEF RestOK
  <2>2. CASE /\ refused' \in {refused, refused \cup {c.name}} /\ UNCHANGED <<core, reports>>
             /\ MayBeRefused \/ UNCHANGED refusals
    BY <1>1, <1>5, <2>2, BudgetTyped DEF RestOK
  <2> QED BY <1>6, <2>1, <2>2
<1>8. RestOK'
  BY <1>1, <1>4, <1>7 DEF Execute, RestOK, C, intentVars, mediaVars, statusVars
<1> QED BY <1>2, <1>8

\* The core changes a property.
LEMMA ChangeByCoreStep ==
  ASSUME IInv, NEW n \in Names, NEW v \in Values, ChangeByCore(n, v)
  PROVE  MediaInv' /\ RestOK'
<1>1. MediaInv /\ RestOK
  BY Whole
<1>2. MediaInv'
  BY PushStep DEF ChangeByCore, statusVars
<1>3. core' \in [Names -> Values] /\ reports' \in Seq([name : Observed, value : Values])
      /\ {calls', events'} \subseteq Nat
  BY <1>1, AssignsTyped, BudgetTyped DEF ChangeByCore
<1>4. RestOK'
  BY <1>1, <1>3 DEF ChangeByCore, RestOK, intentVars, mediaVars, statusVars
<1> QED BY <1>2, <1>4

-----------------------------------------------------------------------------
(* The theorems.                                                             *)

\* The initial states: nothing waits, and some intents are stated.
LEMMA Initially == Init => IInv
<1> SUFFICES ASSUME Init
             PROVE  MediaInv /\ RestOK
  BY Whole
<1>1. Other \in Values
  BY ConstantsAssumption DEF Other
<1>2. /\ stack = <<>> /\ stack \in Seq(Frames) /\ DOMAIN stack = {}
      /\ deferred \in Seq(Deferred) /\ DOMAIN deferred = {}
      /\ ops \in Seq(Operations) /\ DOMAIN ops = {}
      /\ sent \in Seq(Nat) /\ DOMAIN sent = {} /\ ToSet(sent) = {} /\ rejected = {}
  BY DEF Init, ToSet
<1>3. Held(stack) = {} /\ ListIds(deferred) = {}
  BY <1>2 DEF Held, ListIds
<1>4. MediaOK
  BY <1>2 DEF MediaOK, Init
<1>5. WaitInv
  BY <1>2 DEF WaitInv, FramesInv, Apart, ListInv, Distinct, KeyOnce
<1>6. OnceInv
  BY <1>2, <1>3 DEF OnceInv
<1>7. KnownInv
  BY <1>2 DEF KnownInv, Init
<1>8. /\ member \in [Setters -> Values] /\ revision \in [Names -> Nat]
      /\ DOMAIN pending \subseteq Names /\ pending \in [DOMAIN pending -> Values]
      /\ core \in [Names -> Values]
  BY <1>1, ConstantsAssumption DEF Init
<1>9. {calls, events, refusals} \subseteq Nat
  <2>1. PICK b \in Budgets : calls = b.calls /\ events = b.events /\ refusals = b.refusals
    BY DEF Init
  <2>2. b \in [calls : Nat, events : Nat, refusals : Nat]
    BY ConstantsAssumption
  <2> QED BY <2>1, <2>2
<1>10. commands \in Seq([name : Names, value : Values \cup {NoValue}])
       /\ reports \in Seq([name : Observed, value : Values])
  BY DEF Init
<1>11. RestOK
  BY <1>8, <1>9, <1>10 DEF RestOK, Init
<1> QED BY <1>2, <1>4, <1>5, <1>6, <1>7, <1>11 DEF MediaInv

\* Every step keeps the invariant.
LEMMA Inductive == IInv /\ [Next]_vars => IInv'
<1> SUFFICES ASSUME IInv, [Next]_vars
             PROVE  MediaInv' /\ RestOK'
  BY DEF IInv, MediaInv, MediaOK, TypeOK, RestOK
<1>1. CASE Call
  BY <1>1, SetStep, OperateStep, SetSourceStep, NavigateStep, ShutdownStep DEF Call
<1>2. CASE Go
  <2>1. UNCHANGED <<calls, events>>
    BY <1>2 DEF Go
  <2>2. CASE Sync
    <3>1. CASE EndSync
      BY <2>1, <2>2, <3>1, EndSyncStep
    <3>2. CASE \E k \in DOMAIN Top.todo : SubmitDue(k)
      BY <2>1, <2>2, <3>2, SubmitDueStep
    <3> QED BY <2>2, <3>1, <3>2 DEF Sync
  <2> QED BY <1>2, <2>1, <2>2, ReturnStep, FlushStep, LoadSourceStep, BeginSyncStep, RunDeferredStep,
             ContinueStatusStep, SignalFailureStep DEF Go
<1>3. CASE Deliver
  BY <1>3, StatusStep, CoreUnavailableStep, PropertyChangedStep DEF Deliver
<1>4. CASE Core
  BY <1>4, ExecuteStep, ChangeByCoreStep DEF Core
<1>5. CASE UNCHANGED vars
  <2>1. MediaInv /\ RestOK
    BY Whole
  <2>2. MediaInv'
    BY <1>5, PushStep DEF vars, statusVars
  <2>3. RestOK'
    BY <1>5, <2>1 DEF vars, RestOK, intentVars, mediaVars, statusVars, coreVars, budgetVars
  <2> QED BY <2>2, <2>3
<1> QED BY <1>1, <1>2, <1>3, <1>4, <1>5 DEF Next

\* The inductive invariant holds.
THEOREM Invariance == Spec => []IInv
<1> QED BY Initially, Inductive, PTL DEF Spec

\* The types of TypeOK, the operations known and the media interest of what is
\* deferred included.
THEOREM TypeCorrect == Spec => []TypeOK
<1>1. IInv => TypeOK
  BY DEF IInv
<1> QED BY Invariance, <1>1, PTL

\* What waits is what the frames hold or the list has.
LEMMA WaitingIsHeld ==
  ASSUME stack \in Seq(Frames), NEW id, Waiting(id)
  PROVE  id \in Held(stack) \cup ListIds(deferred)
<1>1. CASE \E n \in DOMAIN deferred : deferred[n].id = id
  BY <1>1 DEF ListIds
<1>2. ASSUME NEW n \in DOMAIN stack, stack[n].type = "source", stack[n].id = id
      PROVE  id \in Held(stack)
  <2>1. id \in Ids(stack[n])
    BY <1>2 DEF Ids
  <2> QED BY <2>1 DEF Held
<1>3. ASSUME NEW n \in DOMAIN stack, stack[n].type = "run", NEW i \in DOMAIN stack[n].todo,
             stack[n].todo[i].id = id
      PROVE  id \in Held(stack)
  <2>1. id \in Ids(stack[n])
    BY <1>3 DEF Ids
  <2> QED BY <2>1 DEF Held
<1> QED BY <1>1, <1>2, <1>3 DEF Waiting

\* And conversely.
LEMMA HeldIsWaiting ==
  ASSUME NEW id \in Held(stack) \cup ListIds(deferred)
  PROVE  Waiting(id)
<1>1. CASE id \in ListIds(deferred)
  BY <1>1 DEF ListIds, Waiting
<1>2. CASE id \in Held(stack)
  <2>1. PICK n \in DOMAIN stack : id \in Ids(stack[n])
    BY <1>2 DEF Held
  <2> QED BY <2>1 DEF Ids, Waiting
<1> QED BY <1>1, <1>2

\* Every operation is submitted once, fails once or waits once, and one that did
\* none of these is superseded, whatever handlers do and whenever readiness changes.
THEOREM Accounted == Spec => []NothingForgotten
<1>1. IInv => NothingForgotten
  <2> SUFFICES ASSUME IInv, NEW id \in DOMAIN ops
               PROVE  /\ Cardinality({n \in DOMAIN sent : sent[n] = id}) + Cardinality(rejected \cap {id})
                           + (IF Waiting(id) THEN 1 ELSE 0) <= 1
                      /\ id \in ToSet(sent) \cup rejected \/ Waiting(id) \/ Superseded(id)
    BY DEF NothingForgotten
  <2>1. MediaInv
    BY Parts
  <2>2. Waiting(id) <=> id \in Held(stack) \cup ListIds(deferred)
    BY <2>1, WaitingIsHeld, HeldIsWaiting DEF MediaInv
  <2> DEFINE places == {n \in DOMAIN sent : sent[n] = id}
             failures == rejected \cap {id}
  <2>3. places = {} \/ \E n : places = {n}
    BY <2>1 DEF MediaInv, OnceInv
  <2>4. places # {} <=> id \in ToSet(sent)
    BY DEF ToSet
  <2>5. failures = {} \/ failures = {id}
    OBVIOUS
  <2>6. failures # {} <=> id \in rejected
    OBVIOUS
  <2> HIDE DEF places, failures
  <2>7. Cardinality(places) = IF id \in ToSet(sent) THEN 1 ELSE 0
    BY <2>3, <2>4, FS_EmptySet, FS_Singleton
  <2>8. Cardinality(failures) = IF id \in rejected THEN 1 ELSE 0
    BY <2>5, <2>6, FS_EmptySet, FS_Singleton
  <2>9. /\ ~(id \in ToSet(sent) /\ id \in rejected)
        /\ ~(id \in ToSet(sent) \cup rejected /\ Waiting(id))
    BY <2>1, <2>2 DEF MediaInv, OnceInv
  <2>10. id \in ToSet(sent) \cup rejected \/ Waiting(id) \/ Superseded(id)
    BY <2>1, <2>2 DEF MediaInv, KnownInv
  <2>11. Cardinality(places) + Cardinality(failures) + (IF Waiting(id) THEN 1 ELSE 0) <= 1
    BY <2>7, <2>8, <2>9
  <2> QED BY <2>10, <2>11 DEF places, failures
<1> QED BY Invariance, <1>1, PTL

\* A request submits its operation, to a core there is, or nothing.
LEMMA RequestSends ==
  ASSUME sent \in Seq(Nat), NEW id \in Nat, NEW key, NEW then, Request(id, key, then), sent' # sent
  PROVE  available /\ Last(sent') = id
<1>1. available /\ sent' = Append(sent, id)
  BY DEF Request
<1>2. Len(sent') = Len(sent) + 1 /\ sent'[Len(sent) + 1] = id
  BY <1>1
<1> QED BY <1>1, <1>2 DEF Last

\* Whatever is submitted was called for the present media interest, and there is a
\* core: a retry never brings back an operation of a source given up.
THEOREM SentForThisMedia == Spec => SupersededNeverSent
<1>1. IInv /\ [Next]_vars => [sent' # sent => available /\ ops'[Last(sent')].rev = mediaRevision]_vars
  <2> SUFFICES ASSUME IInv, Next, sent' # sent
               PROVE  available /\ ops'[Last(sent')].rev = mediaRevision
    OBVIOUS
  <2>1. MediaInv /\ TypeOK
    BY Parts
  <2>2. sent \in Seq(Nat) /\ ops \in Seq(Operations) /\ Len(ops) \in Nat /\ mediaRevision \in Nat
    BY <2>1 DEF MediaInv, MediaOK
  <2>3. ASSUME NEW key \in Keys \cup {NoKey}, Operate(key)
        PROVE  available /\ ops'[Last(sent')].rev = mediaRevision
    <3> DEFINE o == [key |-> key, rev |-> mediaRevision]
    <3>1. ops' = Append(ops, o) /\ o.rev = mediaRevision
      BY <2>3 DEF Operate, Called
    <3> HIDE DEF o
    <3>2. Len(ops') = Len(ops) + 1 /\ ops'[Len(ops) + 1] = o
      BY <2>2, <3>1
    <3>3. Request(Len(ops) + 1, key, stack)
      BY <2>3, <3>2 DEF Operate
    <3>4. available /\ Last(sent') = Len(ops) + 1
      BY <2>2, <3>3, RequestSends
    <3> QED BY <3>1, <3>2, <3>4
  <2>4. CASE LoadSource
    <3>1. stack # <<>> /\ Top.type = "source"
      BY <2>4 DEF LoadSource, Runs
    <3>2. Top \in Frames /\ FrameInv(Top, ops)
      BY <2>1, <3>1, PopFrame DEF MediaInv, WaitInv
    <3> PICK id : id = Top.id
      OBVIOUS
    <3>3. Request(id, NoKey, Below) /\ Top.rev = mediaRevision /\ ops' = ops
      BY <2>4 DEF LoadSource
    <3>4. id \in Nat /\ ops[id].rev = Top.rev
      BY <3>1, <3>2, FrameTyped DEF FrameInv
    <3>5. available /\ Last(sent') = id
      BY <2>2, <3>3, <3>4, RequestSends
    <3> QED BY <3>3, <3>4, <3>5
  <2>5. CASE RunDeferred
    <3>1. stack # <<>> /\ Top.type = "run" /\ ops' = ops
      BY <2>5 DEF RunDeferred, Runs
    <3>2. Top \in Frames /\ FrameInv(Top, ops)
      BY <2>1, <3>1, PopFrame DEF MediaInv, WaitInv
    <3> PICK d : d = Head(Top.todo)
      OBVIOUS
    <3> PICK then : then = <<[Top EXCEPT !.todo = Tail(@)]>> \o Below
      OBVIOUS
    <3>3. Top.todo # <<>> /\ MayRetry(d) /\ Request(d.id, d.key, then)
      BY <2>5 DEF RunDeferred
    <3>4. d \in Deferred /\ Recorded(d, ops)
      BY <3>1, <3>2, <3>3, RunFrame
    <3> PICK id, key : id = d.id /\ key = d.key
      OBVIOUS
    <3>5. id \in Nat /\ ops[id].rev = mediaRevision /\ Request(id, key, then)
      BY <3>3, <3>4 DEF Deferred, Recorded, MayRetry
    <3>6. available /\ Last(sent') = id
      BY <2>2, <3>5, RequestSends
    <3> QED BY <3>1, <3>5, <3>6
  <2>6. CASE Call
    <3>1. \E key \in Keys \cup {NoKey} : Operate(key)
      BY <2>6 DEF Call, Set, SetSource, Navigate, Shutdown, mediaVars
    <3> QED BY <2>3, <3>1
  <2>7. CASE Go
    BY <2>4, <2>5, <2>7 DEF Go, Return, Flush, BeginSync, Sync, ContinueStatus, SignalFailure, mediaVars
  <2>8. CASE Deliver \/ Core
    BY <2>8 DEF Deliver, Core, Status, CoreUnavailable, PropertyChanged, Execute, ChangeByCore, mediaVars
  <2> QED BY <2>6, <2>7, <2>8 DEF Next
<1> QED BY Invariance, <1>1, PTL DEF Spec, SupersededNeverSent

-----------------------------------------------------------------------------
(* The intents. Where the newest intent of a name is, there is the value the *)
(* player shows, unless a report is on its way that makes it show another:   *)
(* it is pending, held by a synchronization, the last command, or what the   *)
(* core has.                                                                 *)

\* Frames of a type under way, and whether there is one.
Under(type) == {f \in ToSet(stack) : f.type = type}
Awaits(type) == Under(type) # {}

\* A synchronization is still to come, or was missed: the renderer has failed
\* since, or its failure was overtaken by a readiness.
Losing == \E f \in Under("status") : ~f.ready
Resync == unsynced \/ Awaits("ready") \/ Losing

\* A setter still under way flushes the newest intent of the name.
InFlush(n) == \E f \in Under("flush") : \E i \in DOMAIN f.todo : f.todo[i] = [name |-> n, rev |-> revision[n]]

\* Nothing that waits is forgotten while the renderer is initialized.
ReadyInv == available /\ initialized =>
  /\ failed => Resync
  /\ \A n \in DOMAIN pending : InFlush(n) \/ Resync
  /\ deferred # <<>> => Awaits("sync") \/ Resync

\* A synchronization has the newest intent of the name, and has not come to it yet.
Holds(f, n) == n \in ToSet(f.todo) /\ n \in DOMAIN f.pending /\ f.revs[n] = revision[n]

\* What a synchronization remembers is not newer than what is stated, and is older
\* when the name is pending again.
RevisionInv == \A f \in Under("sync"), n \in Names :
  f.revs[n] <= revision[n] /\ (n \in DOMAIN pending => ~Holds(f, n))

\* The last report of a name has the value of the core.
LastReport(i) == \A j \in DOMAIN reports : j > i => reports[j].name # reports[i].name
ReportInv == \A i \in DOMAIN reports : LastReport(i) => reports[i].value = core[reports[i].name]

\* What the player shows of a name; that reports will have it show what the core
\* has, or one that would have was ignored.
Shown(n) == member[SetterOf(n)]
Reported(n) == \E i \in DOMAIN reports : reports[i].name = n
Owed(n) == n \in Observed /\ (Reported(n) \/ Shown(n) = core[n] \/ n \in unshown)

\* The core has it, or will have it from the last command.
LastOf(queue, i, n) == i \in Submits(queue, n) /\ \A j \in Submits(queue, n) : j <= i
SentLast(n) == \/ Submits(commands, n) = {} /\ core[n] = Shown(n)
               \/ \E i \in DOMAIN commands : LastOf(commands, i, n) /\ commands[i].value = Shown(n)
Skipped(n) == n \in SkipsEmpty /\ Shown(n) = Empty
Passed(n) == n \in refused \/ Skipped(n) \/ SentLast(n) \/ Owed(n)

NameInv(n) ==
  /\ n \in DOMAIN pending => pending[n] = Shown(n) \/ Owed(n)
  /\ \A f \in Under("sync") : Holds(f, n) => f.pending[n] = Shown(n) \/ Owed(n)
  /\ n \notin DOMAIN pending /\ (\A f \in Under("sync") : ~Holds(f, n)) => Passed(n)

IntentInv == available => \A n \in Names : NameInv(n)

AgreeInv == ReadyInv /\ RevisionInv /\ ReportInv /\ IntentInv

-----------------------------------------------------------------------------
(* Stacks of frames, as the intents see them.                                *)

\* A frame on top of others.
LEMMA PushedSet ==
  ASSUME NEW s \in Seq(Frames), NEW f \in Frames
  PROVE  <<f>> \o s \in Seq(Frames) /\ ToSet(<<f>> \o s) = {f} \cup ToSet(s)
<1> DEFINE t == <<f>> \o s
<1>1. /\ t \in Seq(Frames) /\ 1 \in DOMAIN t /\ t[1] = f
      /\ \A n \in DOMAIN s : n + 1 \in DOMAIN t /\ t[n + 1] = s[n]
      /\ \A n \in DOMAIN t : n = 1 \/ (n - 1 \in DOMAIN s /\ t[n] = s[n - 1])
  OBVIOUS
<1> HIDE DEF t
<1>2. ToSet(t) = {f} \cup ToSet(s)
  <2>1. ASSUME NEW x \in ToSet(t)
        PROVE  x \in {f} \cup ToSet(s)
    <3>1. PICK n \in DOMAIN t : x = t[n]
      BY DEF ToSet
    <3> QED BY <1>1, <3>1 DEF ToSet
  <2>2. {f} \cup ToSet(s) \subseteq ToSet(t)
    BY <1>1 DEF ToSet
  <2> QED BY <2>1, <2>2
<1> QED BY <1>1, <1>2 DEF t

\* The frame on top, and those below it.
LEMMA PoppedSet ==
  ASSUME stack \in Seq(Frames), stack # <<>>
  PROVE  Top \in Frames /\ Below \in Seq(Frames) /\ ToSet(stack) = {Top} \cup ToSet(Below)
<1>1. /\ Top \in Frames /\ Below \in Seq(Frames) /\ Top = stack[1] /\ 1 \in DOMAIN stack
      /\ \A n \in DOMAIN Below : n + 1 \in DOMAIN stack /\ Below[n] = stack[n + 1]
      /\ \A n \in DOMAIN stack : n = 1 \/ (n - 1 \in DOMAIN Below /\ stack[n] = Below[n - 1])
  BY DEF Top, Below
<1>2. ASSUME NEW x \in ToSet(stack)
      PROVE  x \in {Top} \cup ToSet(Below)
  <2>1. PICK n \in DOMAIN stack : x = stack[n]
    BY DEF ToSet
  <2> QED BY <1>1, <2>1 DEF ToSet
<1>3. {Top} \cup ToSet(Below) \subseteq ToSet(stack)
  BY <1>1 DEF ToSet
<1> QED BY <1>1, <1>2, <1>3

\* A handler, perhaps, on top of others.
LEMMA SignalledSet ==
  ASSUME NEW s \in Seq(Frames), stack' = s \/ stack' = <<Signal>> \o s
  PROVE  ToSet(s) \subseteq ToSet(stack') /\ ToSet(stack') \subseteq {Signal} \cup ToSet(s)
BY PlainSignal, PushedSet DEF Plain

\* What a step leaves alone of the frames that matter to intents.
KeepsReady == \A f \in ToSet(stack) : f.type \in {"ready", "flush", "status"} => f \in ToSet(stack')
KeepsSync == \A f : f.type = "sync" => (f \in ToSet(stack') <=> f \in ToSet(stack))

\* Handlers come and go.
LEMMA SignalsKeep ==
  ASSUME stack \in Seq(Frames), stack' = stack \/ stack' = <<Signal>> \o stack
  PROVE  KeepsReady /\ KeepsSync
<1>1. ToSet(stack) \subseteq ToSet(stack') /\ ToSet(stack') \subseteq {Signal} \cup ToSet(stack)
  BY SignalledSet
<1>2. Signal.type = "signal"
  BY DEF Signal
<1> QED BY <1>1, <1>2 DEF KeepsReady, KeepsSync

\* The frame on top gives way to another, neither a synchronization nor one that
\* still has to.
LEMMA FramesKeep ==
  ASSUME stack \in Seq(Frames), stack # <<>>,
         \/ stack' = Below \/ stack' = <<Signal>> \o Below
         \/ \E f \in Frames : f.type # "sync" /\ (stack' = <<f>> \o Below \/ stack' = <<Signal>> \o (<<f>> \o Below))
  PROVE  /\ Top.type \notin {"ready", "flush", "status"} => KeepsReady
         /\ Top.type # "sync" => KeepsSync
<1>1. Below \in Seq(Frames) /\ ToSet(stack) = {Top} \cup ToSet(Below)
  BY PoppedSet
<1>2. Signal.type = "signal"
  BY DEF Signal
<1>3. CASE stack' = Below \/ stack' = <<Signal>> \o Below
  <2>1. ToSet(Below) \subseteq ToSet(stack') /\ ToSet(stack') \subseteq {Signal} \cup ToSet(Below)
    BY <1>1, <1>3, SignalledSet
  <2> QED BY <1>1, <1>2, <2>1 DEF KeepsReady, KeepsSync
<1>4. ASSUME NEW f \in Frames, f.type # "sync", stack' = <<f>> \o Below \/ stack' = <<Signal>> \o (<<f>> \o Below)
      PROVE  /\ Top.type \notin {"ready", "flush", "status"} => KeepsReady
             /\ Top.type # "sync" => KeepsSync
  <2> DEFINE s == <<f>> \o Below
  <2>1. s \in Seq(Frames) /\ ToSet(s) = {f} \cup ToSet(Below)
    BY <1>1, PushedSet
  <2> HIDE DEF s
  <2>2. stack' = s \/ stack' = <<Signal>> \o s
    BY <1>4 DEF s
  <2>3. ToSet(s) \subseteq ToSet(stack') /\ ToSet(stack') \subseteq {Signal} \cup ToSet(s)
    BY <2>1, <2>2, SignalledSet
  <2> QED BY <1>1, <1>2, <1>4, <2>1, <2>3 DEF KeepsReady, KeepsSync
<1> QED BY <1>3, <1>4

-----------------------------------------------------------------------------
(* Steps that leave the intents alone.                                       *)

\* Nothing of readiness changes, and what is deferred then waits for it.
LEMMA ReadyKept ==
  ASSUME ReadyInv, KeepsReady, UNCHANGED <<initialized, failed, unsynced, revision>>, available' => available,
         DOMAIN pending' \subseteq DOMAIN pending,
         deferred' = <<>> \/ (KeepsSync /\ (deferred' = deferred \/ ~Ready))
  PROVE  ReadyInv'
<1> SUFFICES ASSUME available', initialized'
             PROVE  /\ failed' => Resync'
                    /\ \A n \in DOMAIN pending' : InFlush(n)' \/ Resync'
                    /\ deferred' # <<>> => Awaits("sync")' \/ Resync'
  BY DEF ReadyInv
<1>1. Resync => Resync'
  <2>1. Awaits("ready") => Awaits("ready")'
    BY DEF Awaits, Under, KeepsReady
  <2>2. Losing => Losing'
    BY DEF Losing, Under, KeepsReady
  <2> QED BY <2>1, <2>2 DEF Resync
<1>2. \A n : InFlush(n) => InFlush(n)'
  BY DEF InFlush, Under, KeepsReady
<1>3. KeepsSync /\ Awaits("sync") => Awaits("sync")'
  BY DEF Awaits, Under, KeepsSync
<1> QED BY <1>1, <1>2, <1>3 DEF ReadyInv, Ready

\* Nothing of the intents changes, nor of the core.
LEMMA IntentsKept ==
  ASSUME AgreeInv, KeepsSync, UNCHANGED <<intentVars, coreVars>>, available' => available
  PROVE  RevisionInv' /\ ReportInv' /\ IntentInv'
<1>1. Under("sync")' = Under("sync")
  BY DEF Under, KeepsSync
<1>2. UNCHANGED <<member, revision, pending, unshown, core, commands, reports, refused>>
  BY DEF intentVars, coreVars
<1>3. RevisionInv'
  BY <1>1, <1>2 DEF AgreeInv, RevisionInv, Holds
<1>4. ReportInv'
  BY <1>2 DEF AgreeInv, ReportInv, LastReport
<1>5. \A n : Owed(n)' = Owed(n) /\ Passed(n)' = Passed(n)
  BY <1>2 DEF Owed, Reported, Shown, Passed, Skipped, SentLast
<1>6. \A n : NameInv(n)' = NameInv(n)
  BY <1>1, <1>2, <1>5 DEF NameInv, Holds, Shown
<1> QED BY <1>3, <1>4, <1>6 DEF AgreeInv, IntentInv

\* A core that is gone asks nothing.
LEMMA NoCore ==
  ASSUME AgreeInv, ~available', KeepsSync, pending' = <<>>, UNCHANGED <<revision, core, reports>>
  PROVE  AgreeInv'
<1>1. Under("sync")' = Under("sync") /\ DOMAIN pending' = {}
  BY DEF Under, KeepsSync
<1>2. RevisionInv'
  BY <1>1 DEF AgreeInv, RevisionInv, Holds
<1>3. ReportInv'
  BY DEF AgreeInv, ReportInv, LastReport
<1> QED BY <1>2, <1>3 DEF AgreeInv, ReadyInv, IntentInv

\* A request defers when there is no readiness only, and signals at most.
LEMMA RequestKeeps ==
  ASSUME NEW id, NEW key, NEW then, Request(id, key, then)
  PROVE  /\ deferred' = deferred \/ ~Ready
         /\ stack' = then \/ stack' = <<Signal>> \o then
BY DEF Request

\* The calls that state no intent.
LEMMA CallAgrees ==
  ASSUME IInv, AgreeInv,
         \/ \E key \in Keys \cup {NoKey} : Operate(key)
         \/ SetSource \/ Navigate \/ Shutdown
  PROVE  AgreeInv'
<1>1. stack \in Seq(Frames)
  BY DEF IInv, TypeOK
<1>2. ASSUME NEW key, Operate(key)
      PROVE  AgreeInv'
  <2> PICK id : id = Len(ops')
    OBVIOUS
  <2>1. Request(id, key, stack)
    BY <1>2 DEF Operate
  <2>2. KeepsReady /\ KeepsSync
    BY <1>1, <2>1, RequestKeeps, SignalsKeep
  <2>3. UNCHANGED <<intentVars, statusVars, coreVars>>
    BY <1>2 DEF Operate
  <2>4. RevisionInv' /\ ReportInv' /\ IntentInv'
    BY <2>2, <2>3, IntentsKept DEF statusVars
  <2>5. ReadyInv'
    BY <2>1, <2>2, <2>3, RequestKeeps, ReadyKept DEF AgreeInv, statusVars, intentVars
  <2> QED BY <2>4, <2>5 DEF AgreeInv
<1>3. CASE SetSource
  <2> DEFINE f == [type |-> "source", id |-> Len(ops'), rev |-> mediaRevision']
  <2>1. f.type = "source" /\ f \in Frames
    <3>1. Len(ops') \in Nat /\ mediaRevision' \in Nat
      BY <1>3, SetSourceStep DEF MediaInv, MediaOK
    <3> QED BY <3>1 DEF Frames
  <2>2. stack' = <<Signal, f>> \o stack
    BY <1>3 DEF SetSource
  <2> HIDE DEF f
  <2>3. stack' = <<Signal>> \o (<<f>> \o stack)
    BY <1>1, <2>1, <2>2, PlainSignal DEF Plain
  <2> DEFINE s == <<f>> \o stack
  <2>4. s \in Seq(Frames) /\ ToSet(s) = {f} \cup ToSet(stack)
    BY <1>1, <2>1, PushedSet
  <2>5. stack' = <<Signal>> \o s
    BY <2>3
  <2> HIDE DEF s
  <2>6. ToSet(s) \subseteq ToSet(stack') /\ ToSet(stack') \subseteq {Signal} \cup ToSet(s)
    BY <2>4, <2>5, SignalledSet
  <2>7. KeepsReady /\ KeepsSync
    BY <2>1, <2>4, <2>6 DEF KeepsReady, KeepsSync, Signal
  <2>8. UNCHANGED <<intentVars, statusVars, coreVars>> /\ deferred' = <<>>
    BY <1>3 DEF SetSource
  <2>9. RevisionInv' /\ ReportInv' /\ IntentInv'
    BY <2>7, <2>8, IntentsKept DEF statusVars
  <2>10. ReadyInv'
    BY <2>7, <2>8, ReadyKept DEF AgreeInv, statusVars, intentVars
  <2> QED BY <2>9, <2>10 DEF AgreeInv
<1>4. CASE Navigate
  <2>1. KeepsReady /\ KeepsSync
    BY <1>1, <1>4, SignalsKeep DEF Navigate
  <2>2. UNCHANGED <<intentVars, statusVars, coreVars>> /\ deferred' = <<>>
    BY <1>4 DEF Navigate
  <2>3. RevisionInv' /\ ReportInv' /\ IntentInv'
    BY <2>1, <2>2, IntentsKept DEF statusVars
  <2>4. ReadyInv'
    BY <2>1, <2>2, ReadyKept DEF AgreeInv, statusVars, intentVars
  <2> QED BY <2>3, <2>4 DEF AgreeInv
<1>5. CASE Shutdown
  BY <1>1, <1>5, SignalsKeep, NoCore DEF Shutdown, coreVars
<1> QED BY <1>2, <1>3, <1>4, <1>5

\* Frames that have nothing to do with intents go on.
LEMMA GoAgrees ==
  ASSUME IInv, AgreeInv, Return \/ LoadSource \/ RunDeferred \/ SignalFailure
  PROVE  AgreeInv'
<1>1. stack \in Seq(Frames) /\ stack # <<>> /\ Below \in Seq(Frames) /\ Top \in Frames
  BY PoppedSet DEF IInv, TypeOK, Return, LoadSource, RunDeferred, SignalFailure, Runs
<1>2. UNCHANGED <<intentVars, statusVars, coreVars>>
  BY DEF Return, LoadSource, RunDeferred, SignalFailure
<1>3. SUFFICES KeepsReady /\ KeepsSync /\ (deferred' = deferred \/ ~Ready)
  <2>1. ASSUME KeepsReady, KeepsSync, deferred' = deferred \/ ~Ready
        PROVE  AgreeInv'
    <3>1. RevisionInv' /\ ReportInv' /\ IntentInv'
      BY <1>2, <2>1, IntentsKept DEF statusVars
    <3>2. ReadyInv'
      BY <1>2, <2>1, ReadyKept DEF AgreeInv, statusVars, intentVars
    <3> QED BY <3>1, <3>2 DEF AgreeInv
  <2> QED BY <2>1
<1>4. CASE Return
  BY <1>1, <1>4, FramesKeep DEF Return, Runs, mediaVars
<1>5. CASE LoadSource
  <2> PICK id : id = Top.id
    OBVIOUS
  <2>1. Request(id, NoKey, Below) \/ (stack' = Below /\ UNCHANGED deferred)
    BY <1>5 DEF LoadSource
  <2>2. (deferred' = deferred \/ ~Ready) /\ (stack' = Below \/ stack' = <<Signal>> \o Below)
    BY <2>1, RequestKeeps
  <2> QED BY <1>1, <1>5, <2>2, FramesKeep DEF LoadSource, Runs
<1>6. CASE RunDeferred
  <2> PICK d : d = Head(Top.todo)
    OBVIOUS
  <2> PICK id, key : id = d.id /\ key = d.key
    OBVIOUS
  <2> PICK rest : rest = [Top EXCEPT !.todo = Tail(@)]
    OBVIOUS
  <2> PICK then : then = <<rest>> \o Below
    OBVIOUS
  <2>1. \/ stack' = Below /\ UNCHANGED deferred
        \/ Top.todo # <<>> /\ Request(id, key, then)
        \/ Top.todo # <<>> /\ stack' = then /\ UNCHANGED deferred
    BY <1>6 DEF RunDeferred
  <2>2. /\ deferred' = deferred \/ ~Ready
        /\ stack' = Below \/ (Top.todo # <<>> /\ (stack' = then \/ stack' = <<Signal>> \o then))
    BY <2>1, RequestKeeps
  <2>3. Top.type = "run"
    BY <1>6 DEF RunDeferred, Runs
  <2>4. ASSUME Top.todo # <<>>
        PROVE  rest \in Frames /\ rest.type = "run"
    <3>1. FrameInv(Top, ops)
      BY <1>1, PopFrame DEF IInv, WaitInv
    <3>2. rest \in Frames
      BY <1>1, <2>3, <2>4, <3>1, RunFrame
    <3>3. Top = [type |-> "run", todo |-> Top.todo]
      BY <1>1, <2>3, FrameTyped
    <3>4. rest.type = "run"
      BY <3>3
    <3> QED BY <3>2, <3>4
  <2> QED BY <1>1, <2>2, <2>3, <2>4, FramesKeep
<1>7. CASE SignalFailure
  <2>1. stack' = <<>> \o Below \/ stack' = <<Signal>> \o Below
    BY <1>7 DEF SignalFailure
  <2>2. <<>> \o Below = Below
    BY <1>1
  <2> QED BY <1>1, <1>7, <2>1, <2>2, FramesKeep DEF SignalFailure, Runs, mediaVars
<1> QED BY <1>4, <1>5, <1>6, <1>7

-----------------------------------------------------------------------------
(* Readiness comes and goes.                                                 *)

\* The status of the renderer arrives: a failure comes with the loss of readiness.
LEMMA StatusAgrees ==
  ASSUME IInv, AgreeInv, NEW ready \in BOOLEAN, NEW error \in BOOLEAN, ~(ready /\ error), Status(ready, error)
  PROVE  AgreeInv'
<1> DEFINE f == [type |-> "status", ready |-> ready, error |-> error]
<1>1. stack \in Seq(Frames) /\ f \in Frames /\ f.type = "status" /\ f.ready = ready
  BY DEF IInv, TypeOK, Frames
<1>2. stack' = <<Signal>> \o <<f>> \o stack \/ stack' = <<>> \o <<f>> \o stack
  BY DEF Status
<1> HIDE DEF f
<1>3. stack' = <<Signal>> \o (<<f>> \o stack) \/ stack' = <<f>> \o stack
  BY <1>1, <1>2, PlainSignal DEF Plain
<1> DEFINE s == <<f>> \o stack
<1>4. s \in Seq(Frames) /\ ToSet(s) = {f} \cup ToSet(stack)
  BY <1>1, PushedSet
<1>5. stack' = s \/ stack' = <<Signal>> \o s
  BY <1>3
<1> HIDE DEF s
<1>6. ToSet(s) \subseteq ToSet(stack') /\ ToSet(stack') \subseteq {Signal} \cup ToSet(s)
  BY <1>4, <1>5, SignalledSet
<1>7. KeepsReady /\ KeepsSync /\ f \in ToSet(stack')
  BY <1>1, <1>4, <1>6 DEF KeepsReady, KeepsSync, Signal
<1>8. UNCHANGED <<intentVars, coreVars, initialized, available, unsynced, deferred>> /\ failed' = error
  BY DEF Status, mediaVars
<1>9. RevisionInv' /\ ReportInv' /\ IntentInv'
  BY <1>7, <1>8, IntentsKept
<1>10. CASE error
  <2>1. f \in Under("status")' /\ ~f.ready
    BY <1>1, <1>7, <1>10 DEF Under
  <2>2. Resync'
    BY <2>1 DEF Resync, Losing
  <2> QED BY <1>9, <2>2 DEF AgreeInv, ReadyInv
<1>11. CASE ~error
  <2>1. Resync => Resync'
    BY <1>7, <1>8 DEF Resync, Losing, Awaits, Under, KeepsReady
  <2>2. \A n : InFlush(n) => InFlush(n)'
    BY <1>7, <1>8 DEF InFlush, Under, KeepsReady, intentVars
  <2>3. Awaits("sync") => Awaits("sync")'
    BY <1>7 DEF Awaits, Under, KeepsSync
  <2>4. ReadyInv'
    BY <1>8, <1>11, <2>1, <2>2, <2>3 DEF AgreeInv, ReadyInv, intentVars
  <2> QED BY <1>9, <2>4 DEF AgreeInv
<1> QED BY <1>10, <1>11

\* rendererStatus() goes on: a readiness lost asks nothing, and one published has
\* its synchronization under way.
LEMMA ContinueStatusAgrees ==
  ASSUME IInv, AgreeInv, ContinueStatus
  PROVE  AgreeInv'
<1>1. stack \in Seq(Frames) /\ stack # <<>> /\ Top.type = "status" /\ (shuttingDown => ~available)
  BY DEF IInv, TypeOK, KnownInv, ContinueStatus, Runs
<1>2. Below \in Seq(Frames) /\ ToSet(stack) = {Top} \cup ToSet(Below)
  BY <1>1, PoppedSet
<1> DEFINE f == [type |-> "ready"]
           g == [type |-> "failure"]
<1>3. f \in Frames /\ g \in Frames /\ f.type = "ready" /\ g.type = "failure"
  BY DEF Frames
<1>4. \/ stack' = Below /\ shuttingDown /\ UNCHANGED initialized
      \/ initialized' = FALSE /\ stack' \in {<<Signal>> \o <<g>> \o Below, <<Signal>> \o <<>> \o Below}
      \/ stack' \in {Below, <<Signal>> \o Below} /\ (Top.ready \/ ~initialized) /\ UNCHANGED initialized
      \/ stack' = <<Signal, f>> \o Below
      \/ stack' = <<>> \o Below /\ ~available
  BY DEF ContinueStatus
<1> HIDE DEF f, g
<1>5. /\ <<Signal, f>> \o Below = <<Signal>> \o (<<f>> \o Below) /\ <<>> \o Below = Below
      /\ <<Signal>> \o <<g>> \o Below = <<Signal>> \o (<<g>> \o Below)
      /\ <<Signal>> \o <<>> \o Below = <<Signal>> \o Below
  <2>1. Signal \in Frames
    BY PlainSignal DEF Plain
  <2>2. <<Signal, f>> \o Below = <<Signal>> \o (<<f>> \o Below)
    BY <1>2, <1>3, <2>1
  <2>3. <<Signal>> \o <<g>> \o Below = <<Signal>> \o (<<g>> \o Below)
    BY <1>2, <1>3, <2>1
  <2>4. <<>> \o Below = Below
    BY <1>2
  <2>5. <<Signal>> \o <<>> = <<Signal>>
    BY <2>1
  <2> QED BY <2>2, <2>3, <2>4, <2>5
<1>6. KeepsSync
  <2>1. \/ stack' = Below \/ stack' = <<Signal>> \o Below
        \/ stack' = <<Signal>> \o (<<f>> \o Below) \/ stack' = <<Signal>> \o (<<g>> \o Below)
    BY <1>4, <1>5
  <2> QED BY <1>1, <1>3, <2>1, FramesKeep
<1>7. UNCHANGED <<intentVars, coreVars, failed, available, unsynced, deferred>>
  BY DEF ContinueStatus, mediaVars
<1>8. RevisionInv' /\ ReportInv' /\ IntentInv'
  BY <1>6, <1>7, IntentsKept
<1>9. CASE ~available \/ ~initialized'
  BY <1>7, <1>8, <1>9 DEF AgreeInv, ReadyInv
<1>10. CASE stack' = <<Signal, f>> \o Below
  <2> DEFINE s == <<f>> \o Below
  <2>1. s \in Seq(Frames) /\ ToSet(s) = {f} \cup ToSet(Below) /\ stack' = <<Signal>> \o s
    BY <1>2, <1>3, <1>5, <1>10, PushedSet
  <2> HIDE DEF s
  <2>2. f \in ToSet(stack')
    BY <2>1, SignalledSet
  <2>3. Resync'
    BY <1>3, <2>2 DEF Resync, Awaits, Under
  <2> QED BY <1>8, <2>3 DEF AgreeInv, ReadyInv
<1>11. CASE stack' \in {Below, <<Signal>> \o Below} /\ Top.ready /\ UNCHANGED initialized
  <2>1. ToSet(Below) \subseteq ToSet(stack')
    BY <1>2, <1>11, SignalledSet
  <2>2. \A h \in ToSet(stack) : h \in ToSet(stack') \/ (h.type = "status" /\ h.ready)
    BY <1>1, <1>2, <1>11, <2>1
  <2>3. Resync => Resync'
    BY <1>7, <2>2 DEF Resync, Losing, Awaits, Under
  <2>4. \A n : InFlush(n) => InFlush(n)'
    BY <1>7, <2>2 DEF InFlush, Under, intentVars
  <2>5. Awaits("sync") => Awaits("sync")'
    BY <1>6 DEF Awaits, Under, KeepsSync
  <2>6. ReadyInv'
    BY <1>7, <1>11, <2>3, <2>4, <2>5 DEF AgreeInv, ReadyInv, intentVars
  <2> QED BY <1>8, <2>6 DEF AgreeInv
<1> QED BY <1>1, <1>4, <1>9, <1>10, <1>11

-----------------------------------------------------------------------------
(* Intents are stated and submitted.                                         *)

\* A name belongs to one setter.
LEMMA OneSetter ==
  ASSUME NEW n \in Names, NEW s \in Setters
  PROVE  /\ SetterOf(n) \in Setters
         /\ n \in ToSet(s) <=> SetterOf(n) = s
<1>1. \E t \in Setters : n \in ToSet(t)
  BY ConstantsAssumption
<1>2. SetterOf(n) \in Setters /\ n \in ToSet(SetterOf(n))
  BY <1>1 DEF SetterOf
<1>3. n \in ToSet(s) => s = SetterOf(n)
  <2>1. \A t \in Setters : s # t => ToSet(s) \cap ToSet(t) = {}
    BY ConstantsAssumption
  <2> QED BY <1>2, <2>1
<1> QED BY <1>2, <1>3

\* The types the intents are about.
LEMMA IntentTypes ==
  ASSUME IInv
  PROVE  /\ member \in [Setters -> Values] /\ revision \in [Names -> Nat]
         /\ DOMAIN pending \subseteq Names /\ pending \in [DOMAIN pending -> Values]
         /\ core \in [Names -> Values] /\ stack \in Seq(Frames) /\ unshown \subseteq Observed
         /\ commands \in Seq([name : Names, value : Values \cup {NoValue}])
         /\ reports \in Seq([name : Observed, value : Values])
         /\ \A f \in Under("sync") : f \in Frames
<1>1. \A f \in ToSet(stack) : f \in Frames
  BY DEF IInv, TypeOK, ToSet
<1> QED BY <1>1 DEF IInv, TypeOK, Under

\* A property is set: its intent is pending, and no synchronization has it.
LEMMA SetAgrees ==
  ASSUME IInv, AgreeInv, NEW s \in Setters, NEW v \in Values, Set(s, v)
  PROVE  AgreeInv'
<1>1. s \in Seq(Names) /\ s # <<>> /\ DOMAIN s = 1 .. Len(s) /\ ToSet(s) \subseteq Names
      /\ \A i \in DOMAIN s : s[i] \in Names
  BY SettersTyped
<1>2. /\ member' = [member EXCEPT ![s] = v]
      /\ revision' = [n \in Names |-> revision[n] + IF n \in ToSet(s) THEN 1 ELSE 0]
      /\ pending' = IF available THEN Stated(s, v) ELSE pending
      /\ unshown' = unshown \ ToSet(s)
      /\ UNCHANGED <<deferred, initialized, failed, available, unsynced, core, commands, reports, refused>>
  BY DEF Set, mediaVars, statusVars, coreVars
<1>3. /\ \A n \in Names : revision[n] \in Nat /\ revision'[n] = revision[n] + IF n \in ToSet(s) THEN 1 ELSE 0
      /\ \A t \in Setters : member'[t] = IF t = s THEN v ELSE member[t]
  BY <1>2, IntentTypes
<1> DEFINE steps == [i \in DOMAIN s |-> [name |-> s[i], rev |-> revision'[s[i]]]]
           f == [type |-> "flush", todo |-> steps]
<1>4. f.type = "flush" /\ f.todo = steps /\ \A i \in DOMAIN s : i \in DOMAIN steps /\ steps[i] = [name |-> s[i], rev |-> revision'[s[i]]]
  OBVIOUS
<1>5. f \in Frames
  <2>1. steps \in [1 .. Len(s) -> [name : Names, rev : Nat]] /\ Len(s) \in Nat
    BY <1>1, <1>3
  <2>2. steps \in Seq([name : Names, rev : Nat]) /\ steps # <<>>
    BY <1>1, <2>1
  <2> HIDE DEF steps
  <2>3. f \in [type : {"flush"}, todo : Seq([name : Names, rev : Nat]) \ {<<>>}]
    BY <2>2
  <2> QED BY <2>3 DEF Frames
<1>6. stack' = <<Signal, f>> \o stack /\ stack \in Seq(Frames)
  BY IntentTypes DEF Set
<1> HIDE DEF f, steps
<1> DEFINE t == <<f>> \o stack
<1>7. t \in Seq(Frames) /\ ToSet(t) = {f} \cup ToSet(stack) /\ stack' = <<Signal>> \o t
  BY <1>5, <1>6, PlainSignal, PushedSet DEF Plain
<1> HIDE DEF t
<1>8. ToSet(t) \subseteq ToSet(stack') /\ ToSet(stack') \subseteq {Signal} \cup ToSet(t)
  BY <1>7, SignalledSet
<1>9. KeepsReady /\ KeepsSync /\ f \in ToSet(stack')
  BY <1>4, <1>7, <1>8 DEF KeepsReady, KeepsSync, Signal
<1>10. Under("sync")' = Under("sync")
  BY <1>9 DEF Under, KeepsSync
<1>11. \A n \in ToSet(s) : InFlush(n)'
  <2> SUFFICES ASSUME NEW n \in ToSet(s)
               PROVE  InFlush(n)'
    OBVIOUS
  <2>1. PICK i \in DOMAIN s : n = s[i]
    BY DEF ToSet
  <2>2. f \in Under("flush")' /\ i \in DOMAIN f.todo /\ f.todo[i] = [name |-> n, rev |-> revision'[n]]
    BY <1>4, <1>9, <2>1 DEF Under
  <2> QED BY <2>2 DEF InFlush
<1>12. \A n \in Names \ ToSet(s) : InFlush(n) => InFlush(n)'
  BY <1>3, <1>9 DEF InFlush, Under, KeepsReady
<1>13. /\ \A n \in DOMAIN pending' : n \in ToSet(s) \/ n \in DOMAIN pending
       /\ available => \A n \in ToSet(s) : n \in DOMAIN pending' /\ pending'[n] = v
       /\ \A n \in Names \ ToSet(s) : (n \in DOMAIN pending' <=> n \in DOMAIN pending)
                                      /\ (n \in DOMAIN pending => pending'[n] = pending[n])
  BY <1>2 DEF Stated
<1>14. ReadyInv'
  <2>1. Resync => Resync'
    BY <1>2, <1>9 DEF Resync, Losing, Awaits, Under, KeepsReady
  <2>2. Awaits("sync") => Awaits("sync")'
    BY <1>10 DEF Awaits
  <2>3. ASSUME available', initialized', NEW n \in DOMAIN pending'
        PROVE  InFlush(n)' \/ Resync'
    <3>1. CASE n \in ToSet(s)
      BY <1>11, <3>1
    <3>2. CASE n \notin ToSet(s)
      BY <1>2, <1>12, <1>13, <2>1, <2>3, <3>2, IntentTypes DEF AgreeInv, ReadyInv
    <3> QED BY <3>1, <3>2
  <2> QED BY <1>2, <2>1, <2>2, <2>3 DEF AgreeInv, ReadyInv
<1>15. ASSUME NEW h \in Under("sync"), NEW n \in Names
       PROVE  h.revs[n] <= revision[n] /\ h.revs[n] \in Nat /\ h.revs[n] <= revision'[n]
              /\ (n \in ToSet(s) => ~Holds(h, n)')
              /\ (n \notin ToSet(s) => Holds(h, n)' = Holds(h, n))
  <2>1. h \in Frames /\ h.type = "sync"
    BY IntentTypes DEF Under
  <2>2. h.revs \in [Names -> Nat]
    BY <2>1, FrameTyped
  <2>3. h.revs[n] \in Nat /\ h.revs[n] <= revision[n]
    BY <2>2 DEF AgreeInv, RevisionInv
  <2>4. n \in ToSet(s) => h.revs[n] # revision'[n]
    BY <1>3, <2>3
  <2>5. n \notin ToSet(s) => revision'[n] = revision[n]
    BY <1>3
  <2>6. h.revs[n] <= revision'[n]
    BY <1>3, <2>3
  <2> QED BY <2>3, <2>4, <2>5, <2>6 DEF Holds
<1>16. RevisionInv'
  <2> SUFFICES ASSUME NEW h \in Under("sync"), NEW n \in Names
               PROVE  h.revs[n] <= revision'[n] /\ (n \in DOMAIN pending' => ~Holds(h, n)')
    BY <1>10 DEF RevisionInv
  <2> QED BY <1>13, <1>15 DEF AgreeInv, RevisionInv
<1>17. ReportInv'
  BY <1>2 DEF AgreeInv, ReportInv, LastReport
<1>18. ASSUME available, NEW n \in Names
       PROVE  NameInv(n)'
  <2>1. CASE n \in ToSet(s)
    <3>1. Shown(n)' = v
      BY <1>3, <2>1, OneSetter DEF Shown
    <3> QED BY <1>10, <1>13, <1>15, <1>18, <2>1, <3>1 DEF NameInv
  <2>2. CASE n \notin ToSet(s)
    <3>1. Shown(n)' = Shown(n)
      BY <1>3, <2>2, OneSetter DEF Shown
    <3>2. Owed(n)' = Owed(n) /\ Passed(n)' = Passed(n)
      BY <1>2, <2>2, <3>1 DEF Owed, Reported, Passed, Skipped, SentLast
    <3>3. NameInv(n)
      BY <1>18 DEF AgreeInv, IntentInv
    <3> QED BY <1>10, <1>13, <1>15, <2>2, <3>1, <3>2, <3>3 DEF NameInv
  <2> QED BY <2>1, <2>2
<1> QED BY <1>2, <1>14, <1>16, <1>17, <1>18 DEF AgreeInv, IntentInv

\* What the queue of the core holds.
Command == [name : Names, value : Values \cup {NoValue}]

\* One more command is queued.
Queued(q, c, w) == w = Append(q, c)

\* Commands queued, before and after one more.
LEMMA OneMore ==
  ASSUME NEW q \in Seq(Command), NEW c \in Command, NEW w, Queued(q, c, w), NEW n
  PROVE  /\ ~(c.name = n /\ c.value # NoValue) => Submits(w, n) = Submits(q, n)
         /\ \A i \in DOMAIN q : i \in DOMAIN w /\ w[i] = q[i]
         /\ c.name = n /\ c.value # NoValue => \E i \in DOMAIN w : LastOf(w, i, n) /\ w[i] = c
<1>1. /\ \A i \in DOMAIN q : i \in DOMAIN w /\ w[i] = q[i]
      /\ Len(q) + 1 \in DOMAIN w /\ w[Len(q) + 1] = c
      /\ \A i \in DOMAIN w : i <= Len(q) + 1 /\ (i = Len(q) + 1 \/ i \in DOMAIN q)
  BY DEF Queued
<1>2. ASSUME ~(c.name = n /\ c.value # NoValue)
      PROVE  Submits(w, n) = Submits(q, n)
  BY <1>1, <1>2 DEF Submits
<1>3. ASSUME c.name = n, c.value # NoValue
      PROVE  LastOf(w, Len(q) + 1, n)
  <2>1. Len(q) + 1 \in Submits(w, n)
    BY <1>1, <1>3 DEF Submits
  <2>2. \A j \in Submits(w, n) : j <= Len(q) + 1
    BY <1>1 DEF Submits
  <2> QED BY <2>1, <2>2 DEF LastOf
<1> QED BY <1>1, <1>2, <1>3

\* A submission: the core will have the value, or refused it.
LEMMA SubmitPasses ==
  ASSUME IInv, NEW n \in Names, NEW v \in Values \cup {NoValue}, NEW then, SubmitProperty(n, v, then),
         UNCHANGED <<member, core, reports, unshown>>
  PROVE  /\ stack' = then \/ stack' = <<Signal>> \o then
         /\ \A m : Shown(m)' = Shown(m) /\ Owed(m)' = Owed(m)
         /\ \A m : (m # n \/ v = NoValue) /\ Passed(m) => Passed(m)'
         /\ v # NoValue /\ (v = Shown(n) \/ Owed(n)) => Passed(n)'
<1> PICK c : c = [name |-> n, value |-> v]
  OBVIOUS
<1>1. commands \in Seq(Command) /\ c \in Command /\ c.name = n /\ c.value = v
  BY IntentTypes DEF Command
<1>2. \/ commands' = Append(commands, c) /\ refused' = (IF v = NoValue THEN refused ELSE refused \ {n})
      \/ UNCHANGED commands /\ refused' = (IF v = NoValue THEN refused ELSE refused \cup {n})
  BY DEF SubmitProperty
<1>3. \A m : Shown(m)' = Shown(m) /\ Owed(m)' = Owed(m)
  BY DEF Owed, Reported, Shown
<1>4. ASSUME NEW m, m # n \/ v = NoValue, Passed(m)
      PROVE  Passed(m)'
  <2>1. m \in refused => m \in refused'
    BY <1>2, <1>4
  <2>2. SentLast(m) => SentLast(m)'
    <3>1. CASE UNCHANGED commands
      BY <1>3, <3>1 DEF SentLast
    <3>2. CASE commands' = Append(commands, c)
      <4> PICK q, w : q = commands /\ w = commands'
        OBVIOUS
      <4>0. q \in Seq(Command) /\ c \in Command /\ Queued(q, c, w) /\ ~(c.name = m /\ c.value # NoValue)
        BY <1>1, <1>4, <3>2 DEF Queued
      <4>1. /\ Submits(w, m) = Submits(q, m)
            /\ \A i \in DOMAIN q : i \in DOMAIN w /\ w[i] = q[i]
        BY <4>0, OneMore
      <4>2. Submits(commands, m) = {} => Submits(commands', m) = {}
        BY <4>1
      <4>3. ASSUME NEW i \in DOMAIN commands, LastOf(commands, i, m)
            PROVE  i \in DOMAIN commands' /\ commands'[i] = commands[i] /\ LastOf(commands', i, m)
        BY <4>1, <4>3 DEF LastOf
      <4> QED BY <1>3, <4>2, <4>3 DEF SentLast
    <3> QED BY <1>2, <3>1, <3>2
  <2> QED BY <1>3, <1>4, <2>1, <2>2 DEF Passed, Skipped
<1>5. ASSUME v # NoValue, v = Shown(n) \/ Owed(n)
      PROVE  Passed(n)'
  <2>1. CASE UNCHANGED commands /\ n \in refused'
    BY <2>1 DEF Passed
  <2>2. CASE commands' = Append(commands, c)
    <3> PICK q, w : q = commands /\ w = commands'
      OBVIOUS
    <3>0. q \in Seq(Command) /\ c \in Command /\ Queued(q, c, w) /\ c.name = n /\ c.value # NoValue
      BY <1>1, <1>5, <2>2 DEF Queued
    <3>1. \E i \in DOMAIN w : LastOf(w, i, n) /\ w[i] = c
      BY <3>0, OneMore
    <3>2. \E i \in DOMAIN commands' : LastOf(commands', i, n) /\ commands'[i].value = v
      BY <1>1, <3>1
    <3>3. v = Shown(n) => SentLast(n)'
      BY <1>3, <3>2 DEF SentLast
    <3> QED BY <1>3, <1>5, <3>3 DEF Passed
  <2> QED BY <1>2, <1>5, <2>1, <2>2
<1> QED BY <1>3, <1>4, <1>5 DEF SubmitProperty

\* A setter flushes a name: the newest intent, or what is not pending any more.
LEMMA FlushAgrees ==
  ASSUME IInv, AgreeInv, Flush
  PROVE  AgreeInv'
<1>1. stack \in Seq(Frames) /\ stack # <<>> /\ Top.type = "flush"
  BY IntentTypes DEF Flush, Runs
<1>2. Top \in Frames /\ Below \in Seq(Frames) /\ ToSet(stack) = {Top} \cup ToSet(Below)
  BY <1>1, PoppedSet
<1> DEFINE l == Top.todo
           rest == [Top EXCEPT !.todo = Tail(@)]
           then == IF Len(l) = 1 THEN Below ELSE <<rest>> \o Below
<1> PICK f : f = Head(l)
  OBVIOUS
<1>3. f.name \in Names /\ (Len(l) # 1 => rest \in Frames)
  BY <1>1, <1>2, FlushFrame DEF Plain
<1>4. rest.type = "flush" /\ rest.todo = Tail(l)
  BY <1>1, <1>2, FlushFrame
<1>5. /\ l[1] = f /\ (Len(l) = 1 => DOMAIN l = {1})
      /\ \A i \in DOMAIN l : i # 1 => i - 1 \in DOMAIN Tail(l) /\ Tail(l)[i - 1] = l[i]
  BY <1>1, <1>2, FlushFrame
<1> PICK v : v = IF f.name \in DOMAIN pending THEN pending[f.name] ELSE NoValue
  OBVIOUS
<1>7. \/ /\ IsNewest(f) /\ available /\ Ready
         /\ pending' = [n \in DOMAIN pending \ {f.name} |-> pending[n]]
         /\ SubmitProperty(f.name, v, then)
      \/ /\ ~(IsNewest(f) /\ available /\ Ready)
         /\ stack' = <<Signal>> \o then \/ stack' = then
         /\ UNCHANGED <<pending, commands, refused>>
  BY DEF Flush
<1>8. UNCHANGED <<member, revision, unshown, deferred, initialized, failed, available, unsynced, core, reports>>
  BY DEF Flush, mediaVars, statusVars
<1>9. then = Below \/ (Len(l) # 1 /\ then = <<rest>> \o Below)
  OBVIOUS
<1> HIDE DEF l, rest, then
<1>11. stack' = then \/ stack' = <<Signal>> \o then
  BY <1>7 DEF SubmitProperty
<1>12. then \in Seq(Frames) /\ ToSet(Below) \subseteq ToSet(then) /\ ToSet(then) \subseteq {rest} \cup ToSet(Below)
       /\ (Len(l) # 1 => rest \in ToSet(then))
  <2>1. CASE Len(l) = 1
    <3>1. then = Below
      BY <2>1 DEF then
    <3> QED BY <1>2, <2>1, <3>1
  <2>2. CASE Len(l) # 1
    <3>1. then = <<rest>> \o Below
      BY <2>2 DEF then
    <3> QED BY <1>2, <1>3, <2>2, <3>1, PushedSet
  <2> QED BY <2>1, <2>2
<1>13. ToSet(then) \subseteq ToSet(stack') /\ ToSet(stack') \subseteq {Signal} \cup ToSet(then)
  BY <1>11, <1>12, SignalledSet
<1>14. KeepsSync
  BY <1>1, <1>2, <1>4, <1>12, <1>13 DEF KeepsSync, Signal
<1>15. Under("sync")' = Under("sync")
  BY <1>14 DEF Under, KeepsSync
<1>16. DOMAIN pending' \subseteq DOMAIN pending
       /\ \A n : n # f.name => /\ n \in DOMAIN pending' <=> n \in DOMAIN pending
                               /\ n \in DOMAIN pending => pending'[n] = pending[n]
  BY <1>7
<1>17. RevisionInv' /\ ReportInv'
  BY <1>8, <1>15, <1>16 DEF AgreeInv, RevisionInv, Holds, ReportInv, LastReport
<1>18. ReadyInv'
  <2> SUFFICES ASSUME available, initialized
               PROVE  /\ failed => Resync'
                      /\ \A n \in DOMAIN pending' : InFlush(n)' \/ Resync'
                      /\ deferred # <<>> => Awaits("sync")' \/ Resync'
    BY <1>8 DEF ReadyInv
  <2>1. Resync => Resync'
    <3>1. \A h \in ToSet(stack) : h.type # "flush" => h \in ToSet(stack')
      BY <1>1, <1>2, <1>12, <1>13
    <3> QED BY <1>8, <3>1 DEF Resync, Losing, Awaits, Under
  <2>2. Awaits("sync")' = Awaits("sync")
    BY <1>15 DEF Awaits
  <2>3. ASSUME NEW n \in DOMAIN pending', ~Resync
        PROVE  InFlush(n)'
    <3>1. n \in DOMAIN pending /\ InFlush(n) /\ ~failed
      BY <1>16, <2>3 DEF AgreeInv, ReadyInv
    <3>2. PICK h \in Under("flush") : \E i \in DOMAIN h.todo : h.todo[i] = [name |-> n, rev |-> revision[n]]
      BY <3>1 DEF InFlush
    <3> PICK i \in DOMAIN h.todo : h.todo[i] = [name |-> n, rev |-> revision[n]]
      BY <3>2
    <3>3. CASE h \in ToSet(Below)
      <4>1. h \in Under("flush")'
        BY <1>12, <1>13, <3>2, <3>3 DEF Under
      <4> QED BY <1>8, <3>2, <4>1 DEF InFlush
    <3>4. CASE h = Top
      <4>1. l[i] = [name |-> n, rev |-> revision[n]] /\ i \in DOMAIN l
        BY <3>2, <3>4 DEF l
      <4>2. i # 1
        <5>1. ASSUME i = 1
              PROVE  FALSE
          <6>1. f.name = n /\ f.rev = revision[n]
            BY <1>5, <4>1, <5>1
          <6>2. IsNewest(f) /\ Ready
            BY <3>1, <6>1 DEF IsNewest, Ready
          <6> QED BY <1>7, <2>3, <6>1, <6>2
        <5> QED BY <5>1
      <4>3. Len(l) # 1 /\ i - 1 \in DOMAIN rest.todo /\ rest.todo[i - 1] = [name |-> n, rev |-> revision[n]]
        BY <1>4, <1>5, <4>1, <4>2
      <4>4. rest \in Under("flush")'
        BY <1>4, <1>12, <1>13, <4>3 DEF Under
      <4> QED BY <1>8, <4>3, <4>4 DEF InFlush
    <3> QED BY <1>2, <3>2, <3>3, <3>4 DEF Under
  <2> QED BY <2>1, <2>2, <2>3 DEF AgreeInv, ReadyInv
<1>19. CASE UNCHANGED <<pending, commands, refused>>
  <2>1. UNCHANGED <<intentVars, coreVars>>
    BY <1>8, <1>19 DEF intentVars, coreVars
  <2> QED BY <1>8, <1>14, <1>18, <2>1, IntentsKept DEF AgreeInv
<1>20. CASE /\ IsNewest(f) /\ available /\ Ready
            /\ pending' = [n \in DOMAIN pending \ {f.name} |-> pending[n]]
            /\ SubmitProperty(f.name, v, then)
  <2>1. v \in Values \cup {NoValue} /\ (f.name \in DOMAIN pending => v = pending[f.name] /\ v # NoValue)
    BY ConstantsAssumption, IntentTypes DEF NoValue
  <2> PICK m : m = f.name
    OBVIOUS
  <2>2. SubmitProperty(m, v, then)
    BY <1>20
  <2>3. /\ \A n : Shown(n)' = Shown(n) /\ Owed(n)' = Owed(n)
        /\ \A n : (n # m \/ v = NoValue) /\ Passed(n) => Passed(n)'
        /\ v # NoValue /\ (v = Shown(m) \/ Owed(m)) => Passed(m)'
    BY <1>3, <1>8, <2>1, <2>2, SubmitPasses
  <2>4. ASSUME NEW n \in Names
        PROVE  NameInv(n)'
    <3>1. NameInv(n)
      BY <1>20 DEF AgreeInv, IntentInv
    <3>2. \A h \in Under("sync") : Holds(h, n)' = Holds(h, n)
      BY <1>8 DEF Holds
    <3>3. CASE n # m
      BY <1>15, <1>16, <2>3, <3>1, <3>2, <3>3 DEF NameInv
    <3>4. CASE n = m /\ n \notin DOMAIN pending
      <4>1. v = NoValue /\ n \notin DOMAIN pending'
        BY <1>16, <3>4
      <4> QED BY <1>15, <2>3, <3>1, <3>2, <3>4, <4>1 DEF NameInv
    <3>5. CASE n = m /\ n \in DOMAIN pending
      <4>1. v = pending[n] /\ v # NoValue /\ n \notin DOMAIN pending'
        BY <1>20, <2>1, <3>5
      <4>2. \A h \in Under("sync") : ~Holds(h, n)
        BY <3>5 DEF AgreeInv, RevisionInv
      <4>3. Passed(n)'
        BY <2>3, <3>1, <3>5, <4>1 DEF NameInv
      <4> QED BY <1>15, <3>2, <4>1, <4>2, <4>3 DEF NameInv
    <3> QED BY <3>3, <3>4, <3>5
  <2> QED BY <1>17, <1>18, <2>4 DEF AgreeInv, IntentInv
<1> QED BY <1>7, <1>19, <1>20

\* A frame that synchronizes, once it has submitted the name at place k.
After(f, k) == [f EXCEPT !.todo = SubSeq(@, k + 1, Len(@))]
CameTo(f, k, n) == \E i \in 1 .. k : i \in DOMAIN f.todo /\ n = f.todo[i]

\* What it remembers stays, and what it has passed is one of the first names.
LEMMA SyncRest ==
  ASSUME NEW f \in Frames, f.type = "sync", NEW k \in DOMAIN f.todo, f.todo[k] \in DOMAIN f.pending,
         NEW rest, rest = After(f, k)
  PROVE  /\ f.todo[k] \in Names /\ f.pending[f.todo[k]] \in Values
         /\ rest \in Frames /\ rest.type = "sync" /\ rest.pending = f.pending /\ rest.revs = f.revs
         /\ ToSet(rest.todo) \subseteq ToSet(f.todo)
         /\ \A n \in ToSet(f.todo) \ ToSet(rest.todo) : CameTo(f, k, n)
<1> PICK l, p, r : l = f.todo /\ p = f.pending /\ r = f.revs
  OBVIOUS
<1> PICK t : t = SubSeq(l, k + 1, Len(l))
  OBVIOUS
<1>1. l \in Seq(Names) /\ f = [type |-> "sync", todo |-> l, revs |-> r, pending |-> p]
  BY FrameTyped
<1>2. rest = [type |-> "sync", todo |-> t, revs |-> r, pending |-> p]
  BY <1>1 DEF After
<1>3. rest.type = "sync" /\ rest.pending = p /\ rest.revs = r /\ rest.todo = t
  <2>1. [type |-> "sync", todo |-> t, revs |-> r, pending |-> p].type = "sync"
        /\ [type |-> "sync", todo |-> t, revs |-> r, pending |-> p].pending = p
        /\ [type |-> "sync", todo |-> t, revs |-> r, pending |-> p].revs = r
        /\ [type |-> "sync", todo |-> t, revs |-> r, pending |-> p].todo = t
    OBVIOUS
  <2> QED BY <1>2, <2>1, Zenon
<1>4. k \in DOMAIN l /\ k \in Nat /\ Len(l) \in Nat /\ DOMAIN l = 1 .. Len(l) /\ k \in 1 .. Len(l)
  BY <1>1
<1>5. /\ DOMAIN t = 1 .. Len(l) - k
      /\ \A i \in DOMAIN t : k + i \in DOMAIN l /\ t[i] = l[k + i]
  <2>1. t \in Seq(Names) /\ Len(t) = Len(l) - k
    BY <1>1, <1>4
  <2>2. \A i \in 1 .. Len(l) - k : t[i] = l[k + i]
    BY <1>1, <1>4
  <2>3. DOMAIN t = 1 .. Len(l) - k
    BY <2>1
  <2>4. \A i \in 1 .. Len(l) - k : k + i \in DOMAIN l
    BY <1>4
  <2> QED BY <2>2, <2>3, <2>4
<1>6. ToSet(t) \subseteq ToSet(l)
  BY <1>5 DEF ToSet
<1>7. ASSUME NEW n \in ToSet(l) \ ToSet(t)
      PROVE  \E i \in 1 .. k : i \in DOMAIN l /\ n = l[i]
  <2>1. PICK i \in DOMAIN l : n = l[i]
    BY <1>7 DEF ToSet
  <2>2. i \in 1 .. k
    <3>1. ASSUME i > k
          PROVE  FALSE
      <4>1. i - k \in DOMAIN t /\ k + (i - k) = i
        BY <1>4, <1>5, <3>1
      <4>2. t[i - k] = n
        BY <1>5, <2>1, <4>1
      <4> QED BY <1>7, <4>1, <4>2 DEF ToSet
    <3> QED BY <1>4, <3>1
  <2> QED BY <2>1, <2>2
<1>8. rest \in Frames /\ f.todo[k] \in Names /\ f.pending[f.todo[k]] \in Values
  <2>1. rest = [f EXCEPT !.todo = SubSeq(@, k + 1, Len(@))]
    BY DEF After
  <2> QED BY <2>1, SyncFrame DEF Plain
<1> QED BY <1>3, <1>6, <1>7, <1>8 DEF CameTo

\* A synchronization takes what is pending, or is missed.
LEMMA BeginSyncAgrees ==
  ASSUME IInv, AgreeInv, BeginSync
  PROVE  AgreeInv'
<1>1. stack \in Seq(Frames) /\ stack # <<>> /\ Top.type = "ready"
  BY IntentTypes DEF BeginSync, Runs
<1>2. Below \in Seq(Frames) /\ ToSet(stack) = {Top} \cup ToSet(Below)
  BY <1>1, PoppedSet
<1>3. UNCHANGED <<member, revision, unshown, deferred, initialized, failed, available,
                  core, commands, reports, refused>>
  BY DEF BeginSync, mediaVars, coreVars
<1>4. CASE ~(available /\ ~failed)
  <2>1. stack' = Below /\ unsynced' /\ UNCHANGED pending
    BY <1>4 DEF BeginSync
  <2>2. KeepsSync
    BY <1>1, <2>1, FramesKeep
  <2>3. RevisionInv' /\ ReportInv' /\ IntentInv'
    BY <1>3, <2>1, <2>2, IntentsKept DEF intentVars, coreVars
  <2>4. ReadyInv'
    BY <2>1 DEF ReadyInv, Resync
  <2> QED BY <2>3, <2>4 DEF AgreeInv
<1>5. CASE available /\ ~failed
  <2> PICK f : f = [type |-> "sync", todo |-> Order, pending |-> pending, revs |-> revision]
    OBVIOUS
  <2>1. f.type = "sync" /\ f.todo = Order /\ f.pending = pending /\ f.revs = revision
    OBVIOUS
  <2>2. f \in Frames
    <3>1. Order \in Seq(Names) /\ revision \in [Names -> Nat]
          /\ pending \in UNION {[some -> Values] : some \in SUBSET Names}
      BY ConstantsAssumption, IntentTypes
    <3>2. f \in [type : {"sync"}, todo : Seq(Names), revs : [Names -> Nat],
                 pending : UNION {[some -> Values] : some \in SUBSET Names}]
      BY <3>1
    <3> QED BY <3>2 DEF Frames
  <2>3. stack' = <<f>> \o Below /\ DOMAIN pending' = {}
    BY <1>5 DEF BeginSync
  <2>4. ToSet(stack') = {f} \cup ToSet(Below)
    BY <1>2, <2>2, <2>3, PushedSet
  <2>5. Under("sync")' = Under("sync") \cup {f}
    BY <1>1, <1>2, <2>1, <2>4 DEF Under
  <2>6. ReadyInv'
    BY <1>3, <1>5, <2>3, <2>5 DEF ReadyInv, Awaits
  <2>7. RevisionInv'
    <3> SUFFICES ASSUME NEW h \in Under("sync")', NEW n \in Names
                 PROVE  h.revs[n] <= revision[n]
      BY <1>3, <2>3 DEF RevisionInv
    <3>1. revision[n] \in Nat
      BY IntentTypes
    <3> QED BY <2>1, <2>5, <3>1 DEF AgreeInv, RevisionInv
  <2>8. ReportInv'
    BY <1>3 DEF AgreeInv, ReportInv, LastReport
  <2>9. ASSUME NEW n \in Names
        PROVE  NameInv(n)'
    <3>1. NameInv(n)
      BY <1>5 DEF AgreeInv, IntentInv
    <3>2. Shown(n)' = Shown(n) /\ Owed(n)' = Owed(n) /\ Passed(n)' = Passed(n)
      BY <1>3 DEF Owed, Reported, Shown, Passed, Skipped, SentLast
    <3>3. \A h : Holds(h, n)' = Holds(h, n)
      BY <1>3 DEF Holds
    <3>4. Holds(f, n) <=> n \in DOMAIN pending
      <4>1. n \in ToSet(Order)
        BY DEF Names
      <4> QED BY <2>1, <4>1 DEF Holds
    <3> QED BY <2>1, <2>3, <2>5, <3>1, <3>2, <3>3, <3>4 DEF NameInv
  <2> QED BY <2>6, <2>7, <2>8, <2>9 DEF AgreeInv, IntentInv
<1> QED BY <1>4, <1>5

\* What a synchronization holds and need not submit.
LEMMA NotDue ==
  ASSUME AgreeInv, available, NEW n \in Names, NEW f \in Under("sync"), Holds(f, n), ~Due(f, n)
  PROVE  Passed(n)
<1>1. f.pending[n] = Shown(n) \/ Owed(n)
  BY DEF AgreeInv, IntentInv, NameInv
<1>2. n \in SkipsEmpty /\ f.pending[n] = Empty
  BY DEF Due, Holds
<1> QED BY <1>1, <1>2 DEF Passed, Skipped

\* A synchronization submits the next name.
LEMMA SubmitDueAgrees ==
  ASSUME IInv, AgreeInv, Sync, NEW k \in DOMAIN Top.todo, SubmitDue(k)
  PROVE  AgreeInv'
<1>1. stack \in Seq(Frames) /\ stack # <<>> /\ Top.type = "sync"
  BY IntentTypes DEF Sync, Runs
<1>2. Top \in Frames /\ Below \in Seq(Frames) /\ ToSet(stack) = {Top} \cup ToSet(Below)
  BY <1>1, PoppedSet
<1> PICK top : top = Top
  OBVIOUS
<1> PICK rest : rest = After(top, k)
  OBVIOUS
<1> PICK then : then = <<rest>> \o Below
  OBVIOUS
<1> PICK m : m = top.todo[k]
  OBVIOUS
<1> PICK v : v = top.pending[m]
  OBVIOUS
<1>3. available /\ Due(top, m) /\ (\A i \in 1 .. k - 1 : ~Due(top, top.todo[i])) /\ SubmitProperty(m, v, then)
  BY DEF SubmitDue, After
<1>4. UNCHANGED <<member, revision, pending, unshown, deferred, initialized, failed, available, unsynced, core, reports>>
  BY DEF Sync, SubmitDue, intentVars, statusVars
<1>5. top \in Frames /\ top.type = "sync" /\ k \in DOMAIN top.todo /\ m \in DOMAIN top.pending
      /\ top.revs[m] = revision[m]
  BY <1>1, <1>2, <1>3 DEF Due
<1>6. /\ top.todo[k] \in Names /\ top.pending[top.todo[k]] \in Values
      /\ rest \in Frames /\ rest.type = "sync" /\ rest.pending = top.pending /\ rest.revs = top.revs
      /\ ToSet(rest.todo) \subseteq ToSet(top.todo)
      /\ \A n \in ToSet(top.todo) \ ToSet(rest.todo) : CameTo(top, k, n)
  <2>1. top \in Frames /\ top.type = "sync" /\ k \in DOMAIN top.todo /\ top.todo[k] \in DOMAIN top.pending
    BY <1>5
  <2>2. rest = After(top, k)
    OBVIOUS
  <2> QED BY <2>1, <2>2, SyncRest
<1>7. m \in Names /\ v \in Values /\ v # NoValue
  BY <1>6, ConstantsAssumption DEF NoValue
<1>8. stack' = then \/ stack' = <<Signal>> \o then
  BY <1>3 DEF SubmitProperty
<1>9. then \in Seq(Frames) /\ ToSet(then) = {rest} \cup ToSet(Below)
  BY <1>2, <1>6, PushedSet
<1>10. ToSet(then) \subseteq ToSet(stack') /\ ToSet(stack') \subseteq {Signal} \cup ToSet(then)
  BY <1>8, <1>9, SignalledSet
<1> DEFINE others == {h \in ToSet(Below) : h.type = "sync"}
<1>11. Under("sync") = {top} \cup others /\ Under("sync")' = {rest} \cup others
  BY <1>2, <1>5, <1>6, <1>9, <1>10 DEF Under, Signal
<1> HIDE DEF others
<1>12. ReadyInv'
  <2>1. KeepsReady
    BY <1>1, <1>2, <1>9, <1>10 DEF KeepsReady
  <2>2. Resync => Resync'
    BY <1>4, <2>1 DEF Resync, Losing, Awaits, Under, KeepsReady
  <2>3. \A n : InFlush(n) => InFlush(n)'
    BY <1>4, <2>1 DEF InFlush, Under, KeepsReady
  <2>4. Awaits("sync")'
    BY <1>11 DEF Awaits
  <2> QED BY <1>4, <2>2, <2>3, <2>4 DEF AgreeInv, ReadyInv
<1>13. \A n : Holds(rest, n) => Holds(top, n)
  BY <1>6 DEF Holds
<1>14. \A h, n : Holds(h, n)' = Holds(h, n)
  BY <1>4 DEF Holds
<1>15. RevisionInv'
  <2> SUFFICES ASSUME NEW h \in Under("sync")', NEW n \in Names
               PROVE  h.revs[n] <= revision[n] /\ (n \in DOMAIN pending => ~Holds(h, n))
    BY <1>4, <1>14 DEF RevisionInv
  <2>1. h \in others => h \in Under("sync")
    BY <1>11
  <2>2. top \in Under("sync") /\ (h = rest \/ h \in others)
    BY <1>11
  <2>3. \A g \in Under("sync") : g.revs[n] <= revision[n] /\ (n \in DOMAIN pending => ~Holds(g, n))
    BY DEF AgreeInv, RevisionInv
  <2>4. CASE h = rest
    <3>1. rest.revs[n] = top.revs[n]
      BY <1>6
    <3> QED BY <1>13, <2>2, <2>3, <2>4, <3>1
  <2> QED BY <2>1, <2>2, <2>3, <2>4
<1>16. ReportInv'
  BY <1>4 DEF AgreeInv, ReportInv, LastReport
<1>17. /\ \A n : Shown(n)' = Shown(n) /\ Owed(n)' = Owed(n)
       /\ \A n : n # m /\ Passed(n) => Passed(n)'
       /\ v = Shown(m) \/ Owed(m) => Passed(m)'
  BY <1>3, <1>4, <1>7, SubmitPasses
<1>18. Holds(top, m)
  BY <1>5 DEF Holds, ToSet
<1>19. ASSUME NEW n \in Names
       PROVE  NameInv(n)'
  <2>1. NameInv(n)
    BY <1>3 DEF AgreeInv, IntentInv
  <2>2. n \in DOMAIN pending' => pending'[n] = Shown(n)' \/ Owed(n)'
    BY <1>4, <1>17, <2>1 DEF NameInv
  <2>3. \A h \in Under("sync")' : Holds(h, n)' => h.pending[n] = Shown(n)' \/ Owed(n)'
    <3> SUFFICES ASSUME NEW h \in Under("sync")', Holds(h, n)
                 PROVE  h.pending[n] = Shown(n) \/ Owed(n)
      BY <1>14, <1>17
    <3>1. \A g \in Under("sync") : Holds(g, n) => g.pending[n] = Shown(n) \/ Owed(n)
      BY <2>1 DEF NameInv
    <3>2. CASE h = rest
      <4>1. Holds(top, n) /\ rest.pending[n] = top.pending[n] /\ top \in Under("sync")
        BY <1>6, <1>11, <1>13, <3>2
      <4> QED BY <3>1, <3>2, <4>1
    <3>3. CASE h \in others
      BY <1>11, <3>1, <3>3
    <3> QED BY <1>11, <3>2, <3>3
  <2>4. ASSUME n \notin DOMAIN pending', \A h \in Under("sync")' : ~Holds(h, n)'
        PROVE  Passed(n)'
    <3>1. CASE n = m
      <4>1. v = Shown(m) \/ Owed(m)
        BY <1>11, <1>18, <2>1, <3>1 DEF NameInv
      <4> QED BY <1>17, <3>1, <4>1
    <3>2. CASE n # m /\ Holds(top, n)
      <4>1. ~Holds(rest, n)
        BY <1>11, <1>14, <2>4
      <4>2. n \in ToSet(top.todo) \ ToSet(rest.todo)
        BY <1>6, <3>2, <4>1 DEF Holds
      <4>3. PICK i \in 1 .. k : i \in DOMAIN top.todo /\ n = top.todo[i]
        BY <1>6, <4>2 DEF CameTo
      <4>4. k \in Nat /\ i # k
        <5>1. top.todo \in Seq(Names)
          BY <1>5, FrameTyped
        <5> QED BY <1>5, <3>2, <4>3, <5>1
      <4>5. i \in 1 .. k - 1
        BY <4>3, <4>4
      <4>6. ~Due(top, n)
        BY <1>3, <4>3, <4>5
      <4>7. Passed(n)
        BY <1>3, <1>11, <3>2, <4>6, NotDue
      <4> QED BY <1>17, <3>2, <4>7
    <3>3. CASE n # m /\ ~Holds(top, n)
      <4>1. Passed(n)
        BY <1>4, <1>11, <1>14, <2>1, <2>4, <3>3 DEF NameInv
      <4> QED BY <1>17, <3>3, <4>1
    <3> QED BY <3>1, <3>2, <3>3
  <2> QED BY <2>2, <2>3, <2>4 DEF NameInv
<1> QED BY <1>12, <1>15, <1>16, <1>19 DEF AgreeInv, IntentInv

\* A synchronization ends: what it still holds need not be submitted.
LEMMA EndSyncAgrees ==
  ASSUME IInv, AgreeInv, Sync, EndSync
  PROVE  AgreeInv'
<1>1. stack \in Seq(Frames) /\ stack # <<>> /\ Top.type = "sync"
  BY IntentTypes DEF Sync, Runs
<1>2. Top \in Frames /\ Below \in Seq(Frames) /\ ToSet(stack) = {Top} \cup ToSet(Below)
  BY <1>1, PoppedSet
<1>3. UNCHANGED <<member, revision, pending, unshown, initialized, failed, available, unsynced,
                  core, commands, reports, refused>>
  BY DEF Sync, EndSync, intentVars, statusVars
<1> DEFINE others == {h \in ToSet(Below) : h.type = "sync"}
<1>4. ToSet(Below) \subseteq ToSet(stack') /\ Under("sync")' = others
  <2>1. CASE ~available
    <3>1. stack' = Below
      BY <2>1 DEF EndSync
    <3> QED BY <3>1 DEF Under
  <2>2. CASE available
    <3> PICK f : f = [type |-> "run", todo |-> deferred]
      OBVIOUS
    <3>1. f.type = "run" /\ f \in Frames
      BY DEF IInv, TypeOK, Frames
    <3>2. stack' = <<f>> \o Below
      BY <2>2 DEF EndSync
    <3>3. ToSet(stack') = {f} \cup ToSet(Below)
      BY <1>2, <3>1, <3>2, PushedSet
    <3> QED BY <3>1, <3>3 DEF Under
  <2> QED BY <2>1, <2>2
<1>5. Under("sync") = {Top} \cup others
  BY <1>1, <1>2 DEF Under
<1> HIDE DEF others
<1>6. \A h, n : Holds(h, n)' = Holds(h, n)
  BY <1>3 DEF Holds
<1>7. ReadyInv'
  <2>1. KeepsReady
    BY <1>1, <1>2, <1>4 DEF KeepsReady
  <2>2. available => deferred' = <<>>
    BY DEF EndSync
  <2>3. Resync => Resync'
    BY <1>3, <2>1 DEF Resync, Losing, Awaits, Under, KeepsReady
  <2>4. \A n : InFlush(n) => InFlush(n)'
    BY <1>3, <2>1 DEF InFlush, Under, KeepsReady
  <2> QED BY <1>3, <2>2, <2>3, <2>4 DEF AgreeInv, ReadyInv
<1>8. RevisionInv'
  BY <1>3, <1>4, <1>5, <1>6 DEF AgreeInv, RevisionInv
<1>9. ReportInv'
  BY <1>3 DEF AgreeInv, ReportInv, LastReport
<1>10. ASSUME available, NEW n \in Names
       PROVE  NameInv(n)'
  <2>1. NameInv(n)
    BY <1>10 DEF AgreeInv, IntentInv
  <2>2. Shown(n)' = Shown(n) /\ Owed(n)' = Owed(n) /\ Passed(n)' = Passed(n)
    BY <1>3 DEF Owed, Reported, Shown, Passed, Skipped, SentLast
  <2>3. Holds(Top, n) => Passed(n)
    <3> SUFFICES ASSUME Holds(Top, n)
                 PROVE  Passed(n)
      OBVIOUS
    <3> PICK top : top = Top
      OBVIOUS
    <3>1. PICK i \in DOMAIN top.todo : n = top.todo[i]
      BY DEF Holds, ToSet
    <3>2. ~Due(top, n)
      BY <1>10, <3>1 DEF EndSync
    <3> QED BY <1>5, <1>10, <3>2, NotDue
  <2> QED BY <1>3, <1>4, <1>5, <1>6, <2>1, <2>2, <2>3 DEF NameInv
<1> QED BY <1>3, <1>7, <1>8, <1>9, <1>10 DEF AgreeInv, IntentInv

-----------------------------------------------------------------------------
(* Reports, and the core.                                                    *)

\* What the core reports.
Report == [name : Observed, value : Values]

\* The oldest report is taken.
Taken(q, w) == q # <<>> /\ w = Tail(q)

\* What is left of a queue of reports.
LEMMA ReportTaken ==
  ASSUME NEW q \in Seq(Report), NEW w, Taken(q, w)
  PROVE  /\ q[1] \in Report /\ Head(q) = q[1] /\ 1 \in DOMAIN q /\ w \in Seq(Report)
         /\ DOMAIN w \subseteq Nat /\ DOMAIN q \subseteq Nat
         /\ \A i \in DOMAIN w : i + 1 \in DOMAIN q /\ w[i] = q[i + 1] /\ i + 1 > 1
         /\ \A i \in DOMAIN q : i = 1 \/ (i > 1 /\ i - 1 \in DOMAIN w /\ q[i] = w[i - 1])
BY DEF Taken

\* A name observed has a setter of its own.
LEMMA ObservedAlone ==
  ASSUME NEW n \in Observed, NEW m \in Names, m # n
  PROVE  SetterOf(m) # SetterOf(n)
<1> PICK s : s = SetterOf(n)
  OBVIOUS
<1>1. n \in Names
  BY ConstantsAssumption
<1>2. s \in Setters
  BY <1>1, SetterOfTyped
<1>3. n \in ToSet(s)
  BY <1>1, <1>2, OneSetter
<1>4. Len(s) = 1 /\ s \in Seq(Names)
  BY <1>2, <1>3, ConstantsAssumption
<1>5. m \notin ToSet(s)
  <2>1. DOMAIN s = {1}
    BY <1>4
  <2> QED BY <1>3, <2>1 DEF ToSet
<1> QED BY <1>2, <1>5, OneSetter

\* The core reports a value: the player shows it, or submits another.
LEMMA PropertyChangedAgrees ==
  ASSUME IInv, AgreeInv, PropertyChanged
  PROVE  AgreeInv'
<1>1. stack \in Seq(Frames) /\ reports \in Seq(Report) /\ member \in [Setters -> Values]
  BY IntentTypes DEF Report
<1> PICK q, w : q = reports /\ w = reports'
  OBVIOUS
<1>2. q \in Seq(Report) /\ Taken(q, w)
  BY <1>1 DEF PropertyChanged, Taken
<1>3. /\ q[1] \in Report /\ Head(q) = q[1] /\ 1 \in DOMAIN q
      /\ DOMAIN w \subseteq Nat /\ DOMAIN q \subseteq Nat
      /\ \A i \in DOMAIN w : i + 1 \in DOMAIN q /\ w[i] = q[i + 1] /\ i + 1 > 1
      /\ \A i \in DOMAIN q : i = 1 \/ (i > 1 /\ i - 1 \in DOMAIN w /\ q[i] = w[i - 1])
  BY <1>2, ReportTaken
<1> PICK r : r = q[1]
  OBVIOUS
<1> PICK n : n = r.name
  OBVIOUS
<1> PICK s : s = SetterOf(n)
  OBVIOUS
<1>4. n \in Observed /\ n \in Names /\ r.value \in Values /\ s \in Setters
  <2>1. n \in Observed /\ r.value \in Values
    BY <1>3 DEF Report
  <2> QED BY <2>1, ConstantsAssumption, SetterOfTyped
<1>5. Head(reports) = r /\ Head(reports).name = n
  BY <1>3
<1>6. /\ IF shuttingDown \/ Outdated(n) \/ member[s] = r.value
         THEN UNCHANGED <<member, stack>>
         ELSE member' = [member EXCEPT ![s] = r.value] /\ stack' = <<Signal>> \o stack
      /\ unshown' = IF ~Outdated(n) THEN unshown \ {n}
                    ELSE IF member[s] \in {r.value, pending[n]} THEN unshown ELSE unshown \cup {n}
  BY <1>5 DEF PropertyChanged
<1>7. UNCHANGED <<revision, pending, deferred, initialized, failed, available, shuttingDown, unsynced,
                  core, commands, refused>>
  BY DEF PropertyChanged, mediaVars, statusVars
<1>8. KeepsReady /\ KeepsSync
  BY <1>1, <1>6, SignalsKeep
<1>9. Under("sync")' = Under("sync")
  BY <1>8 DEF Under, KeepsSync
<1>10. ReadyInv'
  BY <1>7, <1>8, ReadyKept DEF AgreeInv
<1>11. RevisionInv'
  BY <1>7, <1>9 DEF AgreeInv, RevisionInv, Holds
<1>12. ReportInv'
  <2> SUFFICES ASSUME NEW i \in DOMAIN w, \A j \in DOMAIN w : j > i => w[j].name # w[i].name
               PROVE  w[i].value = core[w[i].name]
    BY <1>7 DEF ReportInv, LastReport
  <2>1. i + 1 \in DOMAIN q /\ w[i] = q[i + 1] /\ i \in Nat
    BY <1>3
  <2>2. ASSUME NEW j \in DOMAIN q, j > i + 1
        PROVE  q[j].name # q[i + 1].name
    <3>1. j \in Nat /\ j - 1 \in DOMAIN w /\ q[j] = w[j - 1] /\ j - 1 > i
      BY <1>3, <2>1, <2>2
    <3> QED BY <2>1, <3>1
  <2>3. LastReport(i + 1)
    BY <2>1, <2>2 DEF LastReport
  <2> QED BY <2>1, <2>3 DEF AgreeInv, ReportInv
<1>13. Reported(n)' \/ core[n] = r.value
  <2>1. CASE \E i \in DOMAIN w : w[i].name = n
    BY <2>1 DEF Reported
  <2>2. CASE \A i \in DOMAIN w : w[i].name # n
    <3>1. ASSUME NEW j \in DOMAIN q, j > 1
          PROVE  q[j].name # q[1].name
      BY <1>3, <2>2, <3>1
    <3>2. LastReport(1)
      BY <3>1 DEF LastReport
    <3> QED BY <1>3, <3>2 DEF AgreeInv, ReportInv
  <2> QED BY <2>1, <2>2
<1>14. ASSUME NEW m \in Names, m # n, Reported(m)
       PROVE  Reported(m)'
  <2>1. PICK i \in DOMAIN q : q[i].name = m
    BY <1>14 DEF Reported
  <2>2. i - 1 \in DOMAIN w /\ w[i - 1].name = m
    BY <1>3, <1>14, <2>1
  <2> QED BY <2>2 DEF Reported
<1>15. ASSUME available, NEW m \in Names
       PROVE  NameInv(m)'
  <2>1. NameInv(m) /\ ~shuttingDown
    BY <1>15 DEF AgreeInv, IntentInv, IInv, KnownInv
  <2>2. \A h : Holds(h, m)' = Holds(h, m)
    BY <1>7 DEF Holds
  <2>3. CASE m # n
    <3>1. SetterOf(m) \in Setters /\ SetterOf(m) # s
      BY <1>4, <2>3, ObservedAlone, SetterOfTyped
    <3>2. Shown(m)' = Shown(m)
      BY <1>1, <1>6, <3>1 DEF Shown
    <3>3. Owed(m) => Owed(m)'
      BY <1>6, <1>7, <1>14, <2>3, <3>2 DEF Owed
    <3>4. Passed(m) => Passed(m)'
      BY <1>7, <3>2, <3>3 DEF Passed, Skipped, SentLast
    <3> QED BY <1>7, <1>9, <2>1, <2>2, <3>2, <3>3, <3>4 DEF NameInv
  <2>4. CASE m = n /\ ~Outdated(n)
    <3>1. Shown(n)' = r.value
      BY <1>1, <1>4, <1>6, <2>1, <2>4 DEF Shown
    <3>2. Owed(n)'
      BY <1>4, <1>7, <1>13, <3>1 DEF Owed
    <3> QED BY <2>4, <3>2 DEF NameInv, Passed
  <2>5. CASE m = n /\ Outdated(n)
    <3>1. n \in DOMAIN pending /\ \A h \in Under("sync") : ~Holds(h, n)
      BY <1>4, <2>5 DEF Outdated, AgreeInv, RevisionInv
    <3>2. Shown(n)' = Shown(n) /\ Shown(n) = member[s]
      BY <1>6, <2>5 DEF Shown
    <3>3. pending[n] = Shown(n) \/ Owed(n)'
      <4>1. CASE Shown(n) = r.value
        BY <1>4, <1>7, <1>13, <3>2, <4>1 DEF Owed
      <4>2. CASE Shown(n) \notin {r.value, pending[n]}
        <5>1. n \in unshown'
          BY <1>6, <2>5, <3>2, <4>2
        <5> QED BY <1>4, <5>1 DEF Owed
      <4> QED BY <4>1, <4>2
    <3> QED BY <1>7, <1>9, <2>2, <2>5, <3>1, <3>2, <3>3 DEF NameInv
  <2> QED BY <2>3, <2>4, <2>5
<1> QED BY <1>7, <1>10, <1>11, <1>12, <1>15 DEF AgreeInv, IntentInv

\* The core has another value of a name: the last report is of it.
LEMMA AssignsReports ==
  ASSUME IInv, ReportInv, NEW n \in Names, NEW v \in Values, Assigns(n, v)
  PROVE  /\ ReportInv'
         /\ \A m : Reported(m) => Reported(m)'
         /\ n \in Observed /\ core[n] # v => Reported(n)'
         /\ core'[n] = v /\ \A m \in Names : m # n => core'[m] = core[m]
<1>1. reports \in Seq(Report) /\ core \in [Names -> Values] /\ core' = [core EXCEPT ![n] = v]
  BY IntentTypes DEF Report, Assigns
<1>2. core'[n] = v /\ \A m \in Names : m # n => core'[m] = core[m]
  BY <1>1
<1>3. CASE n \in Observed /\ core[n] # v
  <2> PICK q, w : q = reports /\ w = reports'
    OBVIOUS
  <2> PICK r : r = [name |-> n, value |-> v]
    OBVIOUS
  <2>1. q \in Seq(Report) /\ w = Append(q, r) /\ r.name = n /\ r.value = v
    BY <1>1, <1>3 DEF Assigns
  <2>2. /\ \A i \in DOMAIN q : i \in DOMAIN w /\ w[i] = q[i] /\ i < Len(q) + 1
        /\ Len(q) + 1 \in DOMAIN w /\ w[Len(q) + 1] = r
        /\ \A i \in DOMAIN w : i = Len(q) + 1 \/ i \in DOMAIN q
    BY <2>1
  <2> PICK l : l = Len(q) + 1
    OBVIOUS
  <2>3. /\ \A i \in DOMAIN q : i \in DOMAIN w /\ w[i] = q[i] /\ i < l
        /\ l \in DOMAIN w /\ w[l] = r
        /\ \A i \in DOMAIN w : i = l \/ i \in DOMAIN q
    BY <2>2
  <2>4. \A i \in DOMAIN q : q[i].name \in Names
    <3>1. \A i \in DOMAIN q : q[i] \in Report
      BY <2>1
    <3> QED BY <3>1, ConstantsAssumption DEF Report
  <2>5. ReportInv'
    <3> SUFFICES ASSUME NEW i \in DOMAIN w, \A j \in DOMAIN w : j > i => w[j].name # w[i].name
                 PROVE  w[i].value = core'[w[i].name]
      BY DEF ReportInv, LastReport
    <3>1. CASE i = l
      BY <1>2, <2>1, <2>3, <3>1
    <3>2. CASE i \in DOMAIN q
      <4>1. w[i] = q[i] /\ i < l
        BY <2>3, <3>2
      <4>2. l > i
        <5>1. Len(q) \in Nat /\ i \in Nat
          BY <2>1, <3>2
        <5>2. i < Len(q) + 1
          BY <2>2, <3>2
        <5> QED BY <5>1, <5>2
      <4>3. q[i].name # n
        BY <2>1, <2>3, <4>1, <4>2
      <4>4. LastReport(i)
        BY <2>3, <3>2, <4>1 DEF LastReport
      <4>5. q[i].value = core[q[i].name]
        BY <3>2, <4>4 DEF ReportInv
      <4> QED BY <1>2, <2>4, <3>2, <4>1, <4>3, <4>5
    <3> QED BY <2>3, <3>1, <3>2
  <2>6. Reported(n)' /\ \A m : Reported(m) => Reported(m)'
    BY <2>1, <2>3 DEF Reported
  <2> QED BY <1>2, <2>5, <2>6
<1>4. CASE ~(n \in Observed /\ core[n] # v)
  <2>1. reports' = reports
    BY <1>4 DEF Assigns
  <2>2. \A i \in DOMAIN reports : core'[reports[i].name] = core[reports[i].name]
    <3>1. \A i \in DOMAIN reports : reports[i].name \in Observed /\ reports[i].name \in Names
      <4>1. \A i \in DOMAIN reports : reports[i] \in Report
        BY <1>1
      <4> QED BY <4>1, ConstantsAssumption DEF Report
    <3> QED BY <1>2, <1>4, <3>1
  <2>3. ReportInv'
    BY <2>1, <2>2 DEF ReportInv, LastReport
  <2>4. \A m : Reported(m) => Reported(m)'
    BY <2>1 DEF Reported
  <2> QED BY <1>2, <1>4, <2>3, <2>4
<1> QED BY <1>3, <1>4

\* What is owed stays owed: the change is reported.
LEMMA AssignsOwes ==
  ASSUME IInv, ReportInv, NEW n \in Names, NEW v \in Values, Assigns(n, v), UNCHANGED <<member, unshown>>
  PROVE  \A m \in Names : Owed(m) => Owed(m)'
<1> SUFFICES ASSUME NEW m \in Names, Owed(m)
             PROVE  Owed(m)'
  OBVIOUS
<1>1. Shown(m)' = Shown(m) /\ m \in Observed
  BY DEF Shown, Owed
<1>2. CASE Reported(m) \/ m \in unshown
  BY <1>1, <1>2, AssignsReports DEF Owed
<1>3. CASE Shown(m) = core[m]
  <2>1. core'[m] = core[m] \/ Reported(m)'
    BY <1>1, AssignsReports
  <2> QED BY <1>1, <1>3, <2>1 DEF Owed
<1> QED BY <1>2, <1>3 DEF Owed

\* The oldest command is taken: what is left of the queue.
LEMMA CommandTaken ==
  ASSUME NEW q \in Seq(Command), NEW w, Taken(q, w), NEW n
  PROVE  /\ q[1] \in Command /\ Head(q) = q[1]
         /\ \A i : LastOf(q, i, n) => i = 1 \/ \E j \in DOMAIN w : LastOf(w, j, n) /\ w[j] = q[i]
         /\ Submits(q, n) = {} => Submits(w, n) = {}
         /\ LastOf(q, 1, n) => Submits(w, n) = {}
         /\ 1 \in Submits(q, n) <=> q[1].name = n /\ q[1].value # NoValue
<1>1. /\ q[1] \in Command /\ Head(q) = q[1] /\ 1 \in DOMAIN q
      /\ DOMAIN w \subseteq Nat /\ DOMAIN q \subseteq Nat
      /\ \A i \in DOMAIN w : i + 1 \in DOMAIN q /\ w[i] = q[i + 1] /\ i + 1 > 1
      /\ \A i \in DOMAIN q : i = 1 \/ (i > 1 /\ i - 1 \in DOMAIN w /\ q[i] = w[i - 1])
  BY DEF Taken
<1>2. \A i : i \in Submits(w, n) => i \in Nat /\ i + 1 \in Submits(q, n) /\ i + 1 > 1
  BY <1>1 DEF Submits
<1>3. ASSUME NEW i, LastOf(q, i, n), i # 1
      PROVE  LastOf(w, i - 1, n) /\ i - 1 \in DOMAIN w /\ w[i - 1] = q[i]
  <2>1. i \in DOMAIN q /\ q[i].name = n /\ q[i].value # NoValue
    BY <1>3 DEF LastOf, Submits
  <2>2. i \in Nat /\ i - 1 \in DOMAIN w /\ w[i - 1] = q[i]
    BY <1>1, <1>3, <2>1
  <2>3. i - 1 \in Submits(w, n)
    BY <2>1, <2>2 DEF Submits
  <2>4. ASSUME NEW j \in Submits(w, n)
        PROVE  j <= i - 1
    <3>1. j \in Nat /\ j + 1 <= i
      BY <1>2, <1>3, <2>4 DEF LastOf
    <3> QED BY <2>2, <3>1
  <2> QED BY <2>2, <2>3, <2>4 DEF LastOf
<1>4. ASSUME LastOf(q, 1, n)
      PROVE  Submits(w, n) = {}
  <2>1. \A j \in Submits(w, n) : j + 1 <= 1 /\ j + 1 > 1 /\ j \in Nat
    BY <1>2, <1>4 DEF LastOf
  <2>2. \A j \in Submits(w, n) : FALSE
    BY <2>1
  <2> QED BY <2>2
<1>5. Submits(q, n) = {} => Submits(w, n) = {}
  BY <1>2
<1>6. 1 \in Submits(q, n) <=> q[1].name = n /\ q[1].value # NoValue
  BY <1>1 DEF Submits
<1> QED BY <1>1, <1>3, <1>4, <1>5, <1>6

\* A command is executed or fails.
LEMMA ExecuteAgrees ==
  ASSUME IInv, AgreeInv, Execute
  PROVE  AgreeInv'
<1> PICK q, w : q = commands /\ w = commands'
  OBVIOUS
<1>1. q \in Seq(Command) /\ Taken(q, w)
  BY IntentTypes DEF Execute, Taken, Command
<1> PICK c : c = q[1]
  OBVIOUS
<1>2. /\ c \in Command /\ Head(q) = c
      /\ \A n : /\ \A i : LastOf(q, i, n) => i = 1 \/ \E j \in DOMAIN w : LastOf(w, j, n) /\ w[j] = q[i]
                /\ Submits(q, n) = {} => Submits(w, n) = {}
                /\ LastOf(q, 1, n) => Submits(w, n) = {}
                /\ 1 \in Submits(q, n) <=> c.name = n /\ c.value # NoValue
  BY <1>1, CommandTaken
<1> PICK k, v : k = c.name /\ v = c.value
  OBVIOUS
<1>3. k \in Names /\ v \in Values \cup {NoValue}
  BY <1>2 DEF Command
<1>4. \/ v # NoValue /\ Assigns(k, v) /\ UNCHANGED refused
      \/ /\ refused' = (IF v = NoValue \/ Submits(w, k) # {} THEN refused ELSE refused \cup {k})
         /\ UNCHANGED <<core, reports>>
  BY <1>2 DEF Execute
<1>5. UNCHANGED <<intentVars, deferred, statusVars, stack>>
  BY DEF Execute, mediaVars
<1>6. UNCHANGED <<member, revision, pending, unshown>>
  BY <1>5 DEF intentVars
<1>7. KeepsReady /\ KeepsSync /\ Under("sync")' = Under("sync")
  BY <1>5 DEF KeepsReady, KeepsSync, Under
<1>8. ReadyInv'
  BY <1>5, <1>7, ReadyKept DEF AgreeInv, statusVars, intentVars
<1>9. RevisionInv'
  BY <1>6, <1>7 DEF AgreeInv, RevisionInv, Holds
<1>10. \A n : Shown(n)' = Shown(n)
  BY <1>6 DEF Shown
<1>11. refused \subseteq refused'
  BY <1>4
<1>12. /\ ReportInv'
       /\ \A n \in Names : Owed(n) => Owed(n)'
       /\ \A n \in Names : n # k => core'[n] = core[n]
       /\ core' = core \/ (v # NoValue /\ core'[k] = v)
  <2>1. CASE v # NoValue /\ Assigns(k, v)
    <3>1. v \in Values
      BY <1>3, <2>1
    <3> QED BY <1>3, <1>6, <2>1, <3>1, AssignsReports, AssignsOwes DEF AgreeInv
  <2>2. CASE UNCHANGED <<core, reports>>
    BY <1>6, <2>2 DEF AgreeInv, ReportInv, LastReport, Owed, Reported, Shown
  <2> QED BY <1>4, <2>1, <2>2
<1>13. ASSUME NEW n \in Names, SentLast(n)
       PROVE  SentLast(n)' \/ n \in refused'
  <2>1. CASE Submits(q, n) = {} /\ core[n] = Shown(n)
    <3>1. Submits(w, n) = {} /\ ~(k = n /\ v # NoValue)
      BY <1>2, <2>1
    <3>2. core'[n] = core[n]
      BY <1>12, <3>1
    <3> QED BY <1>10, <2>1, <3>1, <3>2 DEF SentLast
  <2>2. CASE \E i \in DOMAIN q : LastOf(q, i, n) /\ q[i].value = Shown(n)
    <3>1. PICK i \in DOMAIN q : LastOf(q, i, n) /\ q[i].value = Shown(n)
      BY <2>2
    <3>2. CASE i # 1
      <4>1. \E j \in DOMAIN w : LastOf(w, j, n) /\ w[j].value = Shown(n)
        BY <1>2, <3>1, <3>2
      <4> QED BY <1>10, <4>1 DEF SentLast
    <3>3. CASE i = 1
      <4>1. Submits(w, n) = {} /\ k = n /\ v # NoValue /\ v = Shown(n)
        BY <1>2, <3>1, <3>3 DEF LastOf
      <4>2. CASE Assigns(k, v)
        <5>1. core'[n] = v
          BY <1>3, <4>1, <4>2, IntentTypes DEF Assigns
        <5> QED BY <1>10, <4>1, <5>1 DEF SentLast
      <4>3. CASE refused' = (IF v = NoValue \/ Submits(w, k) # {} THEN refused ELSE refused \cup {k})
        BY <4>1, <4>3
      <4> QED BY <1>4, <4>2, <4>3
    <3> QED BY <3>2, <3>3
  <2> QED BY <1>13, <2>1, <2>2 DEF SentLast
<1>14. ASSUME available, NEW n \in Names
       PROVE  NameInv(n)'
  <2>1. NameInv(n)
    BY <1>14 DEF AgreeInv, IntentInv
  <2>2. \A h : Holds(h, n)' = Holds(h, n)
    BY <1>6 DEF Holds
  <2>3. Passed(n) => Passed(n)'
    BY <1>10, <1>11, <1>12, <1>13 DEF Passed, Skipped
  <2> QED BY <1>6, <1>7, <1>10, <1>12, <2>1, <2>2, <2>3 DEF NameInv
<1> QED BY <1>5, <1>8, <1>9, <1>12, <1>14 DEF AgreeInv, IntentInv, statusVars

\* The core changes a property, and reports it.
LEMMA ChangeByCoreAgrees ==
  ASSUME IInv, AgreeInv, NEW k \in Names, NEW v \in Values, ChangeByCore(k, v)
  PROVE  AgreeInv'
<1>1. Assigns(k, v) /\ k \in Observed /\ core[k] # v
      /\ UNCHANGED <<intentVars, deferred, statusVars, stack, commands, refused>>
  BY DEF ChangeByCore, mediaVars
<1>2. UNCHANGED <<member, revision, pending, unshown>>
  BY <1>1 DEF intentVars
<1>3. KeepsReady /\ KeepsSync /\ Under("sync")' = Under("sync")
  BY <1>1 DEF KeepsReady, KeepsSync, Under
<1>4. ReadyInv'
  BY <1>1, <1>3, ReadyKept DEF AgreeInv, statusVars, intentVars
<1>5. RevisionInv'
  BY <1>2, <1>3 DEF AgreeInv, RevisionInv, Holds
<1>6. /\ ReportInv' /\ Reported(k)'
      /\ \A n \in Names : n # k => core'[n] = core[n]
      /\ \A n \in Names : Owed(n) => Owed(n)'
  BY <1>1, <1>2, AssignsReports, AssignsOwes DEF AgreeInv
<1>7. ASSUME available, NEW n \in Names
      PROVE  NameInv(n)'
  <2>1. NameInv(n)
    BY <1>7 DEF AgreeInv, IntentInv
  <2>2. (\A h : Holds(h, n)' = Holds(h, n)) /\ Shown(n)' = Shown(n)
    BY <1>2 DEF Holds, Shown
  <2>3. Passed(n) => Passed(n)'
    <3>1. CASE n = k
      BY <1>1, <1>6, <3>1 DEF Passed, Owed
    <3>2. CASE n # k
      BY <1>1, <1>6, <2>2, <3>2 DEF Passed, Skipped, SentLast
    <3> QED BY <3>1, <3>2
  <2> QED BY <1>2, <1>3, <1>6, <2>1, <2>2, <2>3 DEF NameInv
<1> QED BY <1>1, <1>4, <1>5, <1>6, <1>7 DEF AgreeInv, IntentInv, statusVars

-----------------------------------------------------------------------------
(* The last theorem.                                                         *)

\* Initially what is not as the core has it is pending.
LEMMA AgreesInitially == Init => AgreeInv
<1> SUFFICES ASSUME Init
             PROVE  AgreeInv
  OBVIOUS
<1>1. ToSet(stack) = {} /\ DOMAIN reports = {} /\ DOMAIN commands = {}
  BY DEF Init, ToSet
<1>2. Under("sync") = {}
  BY <1>1 DEF Under
<1>3. ReadyInv /\ RevisionInv /\ ReportInv
  BY <1>1, <1>2 DEF ReadyInv, RevisionInv, ReportInv, Init
<1>4. ASSUME NEW n \in Names
      PROVE  NameInv(n)
  <2>1. SetterOf(n) \in Setters
    BY SetterOfTyped
  <2>2. CASE SetterOf(n) \in Initial
    <3>1. n \in DOMAIN pending /\ pending[n] = Other /\ Shown(n) = Other
      BY <2>1, <2>2 DEF Init, Shown
    <3> QED BY <1>2, <3>1 DEF NameInv
  <2>3. CASE SetterOf(n) \notin Initial
    <3>1. Shown(n) = Empty /\ core[n] = Empty /\ n \notin DOMAIN pending
      BY <2>1, <2>3 DEF Init, Shown
    <3>2. Submits(commands, n) = {}
      BY <1>1 DEF Submits
    <3> QED BY <1>2, <3>1, <3>2 DEF NameInv, Passed, SentLast
  <2> QED BY <2>2, <2>3
<1> QED BY <1>3, <1>4 DEF AgreeInv, IntentInv

\* Every step keeps the intents where they are accounted for.
LEMMA AgreesNext == IInv /\ AgreeInv /\ [Next]_vars => AgreeInv'
<1> SUFFICES ASSUME IInv, AgreeInv, [Next]_vars
             PROVE  AgreeInv'
  OBVIOUS
<1>1. CASE Call
  BY <1>1, SetAgrees, CallAgrees DEF Call
<1>2. CASE Go
  <2>1. CASE Sync
    <3>1. CASE EndSync
      BY <2>1, <3>1, EndSyncAgrees
    <3>2. CASE \E k \in DOMAIN Top.todo : SubmitDue(k)
      BY <2>1, <3>2, SubmitDueAgrees
    <3> QED BY <2>1, <3>1, <3>2 DEF Sync
  <2> QED BY <1>2, <2>1, GoAgrees, FlushAgrees, BeginSyncAgrees, ContinueStatusAgrees DEF Go
<1>3. CASE Deliver
  <2>1. CASE CoreUnavailable
    <3>1. stack \in Seq(Frames)
      BY IntentTypes
    <3>2. KeepsSync
      BY <2>1, <3>1, SignalsKeep DEF CoreUnavailable
    <3> QED BY <2>1, <3>2, NoCore DEF CoreUnavailable, coreVars
  <2> QED BY <1>3, <2>1, StatusAgrees, PropertyChangedAgrees DEF Deliver
<1>4. CASE Core
  BY <1>4, ExecuteAgrees, ChangeByCoreAgrees DEF Core
<1>5. CASE UNCHANGED vars
  <2>1. UNCHANGED <<intentVars, coreVars, statusVars, deferred, stack>>
    BY <1>5 DEF vars, mediaVars
  <2>2. KeepsReady /\ KeepsSync
    BY <2>1 DEF KeepsReady, KeepsSync
  <2>3. RevisionInv' /\ ReportInv' /\ IntentInv'
    BY <2>1, <2>2, IntentsKept DEF statusVars
  <2>4. ReadyInv'
    BY <2>1, <2>2, ReadyKept DEF AgreeInv, statusVars, intentVars
  <2> QED BY <2>3, <2>4 DEF AgreeInv
<1> QED BY <1>1, <1>2, <1>3, <1>4, <1>5 DEF Next

\* Once the renderer is ready and nothing is under way any more, nothing waits, and
\* the core has what the player shows, but for what it refused, what the
\* synchronization skips or missed, and what an ignored report said.
THEOREM ShownIsSet == Spec => []Settled
<1>1. IInv /\ AgreeInv => Settled
  <2> SUFFICES ASSUME IInv, AgreeInv, Quiet, Ready, available
               PROVE  /\ unsynced \/ (pending = <<>> /\ deferred = <<>>)
                      /\ \A n \in Names \ (refused \cup unshown \cup DOMAIN pending) :
                           \/ core[n] = member[SetterOf(n)]
                           \/ n \in SkipsEmpty /\ member[SetterOf(n)] = Empty
    BY DEF Settled
  <2>1. ToSet(stack) = {} /\ DOMAIN reports = {} /\ DOMAIN commands = {}
    BY DEF Quiet, ToSet
  <2>2. \A type : Under(type) = {}
    BY <2>1 DEF Under
  <2>3. ASSUME ~unsynced
        PROVE  pending = <<>> /\ deferred = <<>>
    <3>1. ~Resync /\ ~Awaits("sync") /\ \A n : ~InFlush(n)
      BY <2>2, <2>3 DEF Resync, Awaits, Losing, InFlush
    <3>2. deferred = <<>> /\ DOMAIN pending = {}
      BY <3>1 DEF AgreeInv, ReadyInv, Ready
    <3>3. pending = [n \in DOMAIN pending |-> pending[n]]
      BY IntentTypes
    <3>4. pending = <<>>
      BY <3>2, <3>3
    <3> QED BY <3>2, <3>4
  <2>4. ASSUME NEW n \in Names \ (refused \cup unshown \cup DOMAIN pending)
        PROVE  core[n] = Shown(n) \/ (n \in SkipsEmpty /\ Shown(n) = Empty)
    <3>1. Passed(n)
      BY <2>2 DEF AgreeInv, IntentInv, NameInv
    <3>2. SentLast(n) => core[n] = Shown(n)
      BY <2>1 DEF SentLast
    <3>3. Owed(n) => core[n] = Shown(n)
      BY <2>1 DEF Owed, Reported
    <3> QED BY <3>1, <3>2, <3>3 DEF Passed, Skipped
  <2> QED BY <2>3, <2>4 DEF Shown
<1>2. Init => AgreeInv
  BY AgreesInitially
<1>3. IInv /\ AgreeInv /\ [Next]_vars => AgreeInv'
  BY AgreesNext
<1> QED BY Invariance, <1>1, <1>2, <1>3, PTL DEF Spec
=============================================================================
