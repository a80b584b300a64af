-------------------------- MODULE RenderBridgeProofs --------------------------
(***************************************************************************)
(* Machine-checked proofs about RenderBridge, for every number of tokens,  *)
(* contexts and changes of the source.                                     *)
(***************************************************************************)
EXTENDS RenderBridge, TLAPS

\* A bounded sequence is a sequence within its bound.
LEMMA BoundedSeqIsSeq ==
  ASSUME NEW S, NEW n \in Nat, NEW s
  PROVE  s \in BoundedSeq(S, n) <=> s \in Seq(S) /\ Len(s) <= n
BY DEF BoundedSeq, SeqOf

\* The elements of a sequence.
LEMMA SeqElement == ASSUME NEW S, NEW s \in Seq(S), NEW n \in DOMAIN s PROVE s[n] \in S
<1>1. n \in 1 .. Len(s) OBVIOUS
<1> QED BY <1>1

-----------------------------------------------------------------------------
(* The inductive invariant.                                                *)

\* The counter is above every token that was returned or noted, and above the
\* number of those returned.
TokenInv ==
  /\ next # 0 => /\ Len(given) < next
                 /\ \A n \in DOMAIN given : given[n] < next
                 /\ \A token \in noted : token < next
  /\ call.worker.op = "note" => call.worker.expected <= call.worker.token

\* The last mark that is complete.
LastMark == IF marks = <<>> THEN [generation |-> 0, intent |-> 0] ELSE marks[Len(marks)]

\* The sequence counts the marks, and is odd while a destructor is between its two
\* increments; the two words are those of the last mark until it stores its own.
MarkInv ==
  /\ renderer.at = "none" => renderer = NoRenderer
  /\ renderer.at \in {"live", "intent", "generation", "even"} =>
       renderer.generation = Len(marks) + 1 /\ Len(marks) < MaxGeneration
  /\ marker.sequence = IF renderer.at \in {"intent", "generation", "even"}
                       THEN 2 * Len(marks) + 1 ELSE 2 * Len(marks)
  /\ marker.intent = IF renderer.at \in {"generation", "even"} THEN renderer.intent ELSE LastMark.intent
  /\ marker.generation = IF renderer.at = "even" THEN renderer.generation ELSE LastMark.generation

\* What the worker has read so far is of the last mark, unless the sequence has moved.
ReadInv == call.worker.op \in {"generation", "intent", "sequence"} =>
  /\ call.worker.from <= Len(marks) /\ call.worker.sequence = 2 * call.worker.from
  /\ call.worker.sequence = marker.sequence /\ call.worker.op # "generation" =>
       call.worker.generation = LastMark.generation
  /\ call.worker.sequence = marker.sequence /\ call.worker.op = "sequence" =>
       call.worker.intent = LastMark.intent

\* The flag stands for the redraw that is queued or about to be.
RedrawInv ==
  /\ queued = 1 \/ callback = "post" => redrawPending
  /\ ~(queued = 1 /\ callback = "post")

\* The references to the dispatcher are those of the player and of a context, and
\* a callback needs a context.
LifeInv ==
  /\ dispatcher # "alive" => ~bridge /\ renderer.at = "none"
  /\ callback # "none" => renderer.at # "none"
  /\ call.gui.op = "emit" => dispatcher # "deleted"

IInv == TypeOK /\ TokenInv /\ MarkInv /\ ReadInv /\ RedrawInv /\ LifeInv

\* What the types say of the variables, and of the calls under way.
LEMMA Types == ASSUME TypeOK PROVE
  /\ next \in 0 .. MaxToken /\ given \in Seq(1 .. MaxToken) /\ Len(given) <= MaxToken
  /\ noted \subseteq 1 .. MaxToken
  /\ sourceIntent \in 0 .. MaxIntent
  /\ marker = [sequence |-> marker.sequence, generation |-> marker.generation, intent |-> marker.intent]
  /\ marker.sequence \in Nat /\ marker.generation \in 0 .. MaxGeneration /\ marker.intent \in 0 .. MaxIntent
  /\ marks \in Seq([generation : 1 .. MaxGeneration, intent : 0 .. MaxIntent]) /\ Len(marks) <= MaxGeneration
  /\ renderer = [at |-> renderer.at, generation |-> renderer.generation, intent |-> renderer.intent]
  /\ renderer.generation \in 0 .. MaxGeneration /\ renderer.intent \in 0 .. MaxIntent
  /\ call = [gui |-> call.gui, worker |-> call.worker]
BY BoundsAssumption, BoundedSeqIsSeq DEF TypeOK

\* The tokens a call in progress has read.
LEMMA AllocateType == ASSUME TypeOK, NEW t \in {"gui", "worker"}, call[t].op = "allocate" PROVE
  call[t].expected \in 1 .. MaxToken
BY DEF TypeOK, Call, ReadCall, Idle
\* The tokens a note in progress has read.
LEMMA NoteType == ASSUME TypeOK, call.worker.op = "note" PROVE
  call.worker.expected \in 1 .. MaxToken /\ call.worker.token \in 1 .. MaxToken
BY DEF TypeOK, Call, ReadCall, Idle
\* The parts of the marker a read in progress has seen.
LEMMA ReadType == ASSUME TypeOK PROVE
  /\ call.worker.op \in {"generation", "intent", "sequence"} =>
       call.worker.sequence \in Numbers /\ call.worker.from \in Generations
  /\ call.worker.op \in {"intent", "sequence"} => call.worker.generation \in Generations
  /\ call.worker.op = "sequence" => call.worker.intent \in 0 .. MaxIntent
<1> DEFINE W == call.worker
<1>0. W \in Call \cup ReadCall BY DEF TypeOK
<1>1. CASE W \in Call BY <1>1 DEF Call, Idle
<1>2. CASE W \in [op : {"generation"}, sequence : Numbers, from : Generations]
  BY <1>2
<1>3. CASE W \in [op : {"intent"}, sequence : Numbers, from : Generations, generation : Generations]
  BY <1>3
<1>4. CASE W \in [op : {"sequence"}, sequence : Numbers, from : Generations,
                  generation : Generations, intent : 0 .. MaxIntent]
  BY <1>4
<1>5. CASE W \in [op : {"answer"}, generation : Generations] BY <1>5
<1> QED BY <1>0, <1>1, <1>2, <1>3, <1>4, <1>5 DEF ReadCall

\* Every call the worker can be in while it reads is typed.
LEMMA ReadCallIntro == ASSUME NEW s \in Numbers, NEW f \in Generations PROVE
  /\ [op |-> "generation", sequence |-> s, from |-> f] \in ReadCall
  /\ \A g \in Generations :
       /\ [op |-> "intent", sequence |-> s, from |-> f, generation |-> g] \in ReadCall
       /\ [op |-> "answer", generation |-> g] \in ReadCall
       /\ \A i \in 0 .. MaxIntent :
            [op |-> "sequence", sequence |-> s, from |-> f, generation |-> g, intent |-> i] \in ReadCall
BY DEF ReadCall
\* The calls that threads make.
LEMMA CallIntro ==
  /\ Idle \in Call /\ [op |-> "emit"] \in Call
  /\ \A e \in 1 .. MaxToken : [op |-> "allocate", expected |-> e] \in Call
  /\ \A e, k \in 1 .. MaxToken : [op |-> "note", expected |-> e, token |-> k] \in Call
BY DEF Call
\* Replacing the call of one thread.
LEMMA CallUpdate == ASSUME TypeOK PROVE
  /\ \A c \in Call : /\ [call EXCEPT !.gui = c] \in [gui : Call, worker : Call \cup ReadCall]
                     /\ [call EXCEPT !.worker = c] \in [gui : Call, worker : Call \cup ReadCall]
  /\ \A c \in ReadCall : [call EXCEPT !.worker = c] \in [gui : Call, worker : Call \cup ReadCall]
BY DEF TypeOK

\* An even sequence is twice the number of marks.
LEMMA EvenIsTwice ==
  \A n, s \in Nat : (s = 2 * n + 1 \/ s = 2 * n) /\ s % 2 = 0 => s = 2 * n
OBVIOUS

\* The invariant holds initially: nothing has been called.
LEMMA InitIInv == Init => IInv
<1> SUFFICES ASSUME Init PROVE IInv
  OBVIOUS
<1> USE DEF Init
<1>1. TypeOK
  <2>1. call \in [gui : Call, worker : Call \cup ReadCall]
    BY CallIntro
  <2>2. /\ given \in BoundedSeq(1 .. MaxToken, MaxToken)
        /\ marks \in BoundedSeq([generation : 1 .. MaxGeneration, intent : 0 .. MaxIntent], MaxGeneration)
    <3>1. /\ <<>> \in Seq(1 .. MaxToken) /\ Len(<<>>) = 0
          /\ <<>> \in Seq([generation : 1 .. MaxGeneration, intent : 0 .. MaxIntent])
      OBVIOUS
    <3>2. MaxToken \in Nat /\ MaxGeneration \in Nat /\ 0 <= MaxToken /\ 0 <= MaxGeneration
      BY BoundsAssumption
    <3>3. given = <<>> /\ marks = <<>>
      OBVIOUS
    <3> QED BY <3>1, <3>2, <3>3, BoundedSeqIsSeq
  <2>3. /\ 0 \in 0 .. MaxIntent /\ 0 \in 0 .. MaxGeneration /\ 0 \in 0 .. 2 * MaxGeneration
        /\ 1 \in 0 .. MaxToken
    BY BoundsAssumption
  <2>4. /\ marker \in [sequence : 0 .. 2 * MaxGeneration, generation : 0 .. MaxGeneration, intent : 0 .. MaxIntent]
        /\ renderer \in [at : {"none", "live", "intent", "generation", "even", "barrier"},
                         generation : 0 .. MaxGeneration, intent : 0 .. MaxIntent]
    BY <2>3 DEF NoRenderer
  <2>5. /\ next \in 0 .. MaxToken /\ noted \subseteq 1 .. MaxToken /\ sourceIntent \in 0 .. MaxIntent
        /\ callback \in {"none", "exchange", "post"} /\ queued \in 0 .. 1
        /\ dispatcher \in {"alive", "condemned", "deleted"}
    BY <2>3
  <2>6. {redrawPending, wanted, bridge} \subseteq BOOLEAN
    OBVIOUS
  <2> HIDE DEF Init
  <2> QED BY <2>1, <2>2, <2>4, <2>5, <2>6 DEF TypeOK
<1>2. TokenInv BY DEF TokenInv, Idle
<1>3. MarkInv BY DEF MarkInv, LastMark, NoRenderer
<1>4. ReadInv /\ RedrawInv BY DEF ReadInv, RedrawInv, Idle
<1>5. LifeInv BY DEF LifeInv, Idle
<1> QED BY <1>1, <1>2, <1>3, <1>4, <1>5 DEF IInv

\* The compare-exchange takes the value loaded only while the counter still has it.
LEMMA TokenInvStep == TypeOK /\ TokenInv /\ [Next]_vars => TokenInv'
<1> SUFFICES ASSUME TypeOK /\ TokenInv, [Next]_vars PROVE TokenInv'
  OBVIOUS
<1> USE DEF TokenInv, tokenVars, markVars, redrawVars, lifeVars, Idle, NoRenderer,
    Returns
<1>1. CASE NoteToken
  <2>1. CASE call.worker.expected = next /\ next' = Following(call.worker.token) /\ Returns("worker")
             /\ noted' = noted \cup {call.worker.token} /\ UNCHANGED given
    <3>1. /\ call.worker.expected <= call.worker.token /\ call'.worker.op = "idle"
          /\ call.worker.expected \in 1 .. MaxToken /\ call.worker.token \in 1 .. MaxToken
      BY <2>1, Types, NoteType, <1>1 DEF NoteToken
    <3>2. ASSUME next' # 0 PROVE next' = call.worker.token + 1 /\ next' > next
      BY <2>1, <3>1, <3>2, Types, BoundsAssumption DEF Following
    <3>3. ASSUME next' # 0, NEW n \in DOMAIN given PROVE given[n] < next'
      <4>1. given[n] < next /\ next \in 1 .. MaxToken /\ n \in DOMAIN given
        BY <2>1, <3>1, <3>3
      <4>3. given[n] \in 1 .. MaxToken
        <5>1. given \in Seq(1 .. MaxToken) BY Types
        <5> QED BY <4>1, <5>1, SeqElement
      <4>2. next' > next /\ next' \in Int
        BY <3>1, <3>2, <3>3
      <4> QED BY <4>1, <4>2, <4>3
    <3>4. ASSUME next' # 0, NEW k \in noted' PROVE k < next'
      BY <2>1, <3>1, <3>2, <3>4, Types, BoundsAssumption
    <3>5. next' # 0 => Len(given') < next'
      BY <2>1, <3>1, <3>2, Types, BoundsAssumption
    <3> QED BY <2>1, <3>1, <3>3, <3>4, <3>5
  <2>2. CASE NoteGoesOn(next, call.worker.token) /\ UNCHANGED <<next, given>>
    BY <2>2, Types, NoteType, <1>1 DEF NoteGoesOn, NoteToken
  <2> QED BY <2>1, <2>2, <1>1 DEF NoteToken, Exchanges
<1>2. CASE AdvanceSourceIntent BY <1>2, Types DEF AdvanceSourceIntent
<1>3. CASE Synchronize BY <1>3, Types DEF Synchronize
<1>4. CASE RaiseSequence BY <1>4, Types DEF RaiseSequence, DestructorGoes
<1>5. CASE StoreIntent BY <1>5, Types DEF StoreIntent, DestructorGoes
<1>6. CASE StoreGeneration BY <1>6, Types DEF StoreGeneration, DestructorGoes
<1>7. CASE SettleSequence BY <1>7, Types DEF SettleSequence, DestructorGoes
<1>8. CASE ReleaseRenderer BY <1>8, Types DEF ReleaseRenderer, Barrier
<1>9. CASE BeginRead BY <1>9, Types DEF BeginRead
<1>10. CASE LoadGeneration BY <1>10, Types DEF LoadGeneration
<1>11. CASE LoadIntent BY <1>11, Types DEF LoadIntent
<1>12. CASE ReloadSequence BY <1>12, Types DEF ReloadSequence, Answer
<1>13. CASE ReturnAnswer BY <1>13, Types DEF ReturnAnswer
<1>14. CASE FrameArrives BY <1>14, Types DEF FrameArrives, Registered
<1>15. CASE ExchangePending BY <1>15, Types DEF ExchangePending
<1>16. CASE PostRedraw BY <1>16, Types DEF PostRedraw
<1>17. CASE DeliverRedraw BY <1>17, Types DEF DeliverRedraw
<1>18. CASE EmitRedraw BY <1>18, Types DEF EmitRedraw
<1>19. CASE DestroyPlayer BY <1>19, Types DEF DestroyPlayer
<1>20. CASE DeleteDispatcher BY <1>20, Types DEF DeleteDispatcher
<1>21. ASSUME NEW t \in {"gui", "worker"}, BeginAllocate(t) PROVE TokenInv'
  BY <1>21, Types DEF BeginAllocate, AllocateGoesOn
<1>22. ASSUME NEW t \in {"gui", "worker"}, Allocate(t) PROVE TokenInv'
  <2>1. CASE call[t].expected = next /\ next' = Following(next) /\ given' = Append(given, next) /\ Returns(t)
             /\ UNCHANGED noted
    BY <2>1, Types, AllocateType, <1>22, BoundsAssumption DEF Following, Allocate
  <2>2. CASE AllocateGoesOn(t, next) /\ UNCHANGED <<next, given, noted>>
    BY <2>2, Types DEF AllocateGoesOn
  <2> QED BY <2>1, <2>2, <1>22 DEF Allocate, Exchanges
<1>23. ASSUME NEW token \in 1 .. MaxToken, BeginNote(token) PROVE TokenInv'
  BY <1>23, Types DEF BeginNote, NoteGoesOn
<1>24. CASE UNCHANGED vars BY <1>24 DEF vars
<1> QED BY <1>1, <1>2, <1>3, <1>4, <1>5, <1>6, <1>7, <1>8, <1>9, <1>10, <1>11,
    <1>12, <1>13, <1>14, <1>15, <1>16, <1>17, <1>18, <1>19, <1>20, <1>21, <1>22,
    <1>23, <1>24 DEF Next, Destructor, Read

\* A destructor writes between its two increments, and no other one does.
LEMMA MarkInvStep == TypeOK /\ MarkInv /\ [Next]_vars => MarkInv'
<1> SUFFICES ASSUME TypeOK /\ MarkInv, [Next]_vars PROVE MarkInv'
  OBVIOUS
<1> USE DEF MarkInv, LastMark, tokenVars, markVars, redrawVars, lifeVars, Idle,
    NoRenderer, Returns
<1>1. CASE NoteToken BY <1>1, Types DEF NoteToken, NoteGoesOn, Exchanges, Following
<1>2. CASE AdvanceSourceIntent BY <1>2, Types DEF AdvanceSourceIntent
<1>3. CASE Synchronize BY <1>3, Types DEF Synchronize
<1>4. CASE RaiseSequence BY <1>4, Types DEF RaiseSequence, DestructorGoes
<1>5. CASE StoreIntent BY <1>5, Types DEF StoreIntent, DestructorGoes
<1>6. CASE StoreGeneration BY <1>6, Types DEF StoreGeneration, DestructorGoes
<1>7. CASE SettleSequence BY <1>7, Types DEF SettleSequence, DestructorGoes
<1>8. CASE ReleaseRenderer BY <1>8, Types DEF ReleaseRenderer, Barrier
<1>9. CASE BeginRead BY <1>9, Types DEF BeginRead
<1>10. CASE LoadGeneration BY <1>10, Types DEF LoadGeneration
<1>11. CASE LoadIntent BY <1>11, Types DEF LoadIntent
<1>12. CASE ReloadSequence BY <1>12, Types DEF ReloadSequence, Answer
<1>13. CASE ReturnAnswer BY <1>13, Types DEF ReturnAnswer
<1>14. CASE FrameArrives BY <1>14, Types DEF FrameArrives, Registered
<1>15. CASE ExchangePending BY <1>15, Types DEF ExchangePending
<1>16. CASE PostRedraw BY <1>16, Types DEF PostRedraw
<1>17. CASE DeliverRedraw BY <1>17, Types DEF DeliverRedraw
<1>18. CASE EmitRedraw BY <1>18, Types DEF EmitRedraw
<1>19. CASE DestroyPlayer BY <1>19, Types DEF DestroyPlayer
<1>20. CASE DeleteDispatcher BY <1>20, Types DEF DeleteDispatcher
<1>21. ASSUME NEW t \in {"gui", "worker"}, BeginAllocate(t) PROVE MarkInv'
  BY <1>21, Types DEF BeginAllocate, AllocateGoesOn
<1>22. ASSUME NEW t \in {"gui", "worker"}, Allocate(t) PROVE MarkInv'
  BY <1>22, Types DEF Allocate, AllocateGoesOn, Exchanges, Following
<1>23. ASSUME NEW token \in 1 .. MaxToken, BeginNote(token) PROVE MarkInv'
  BY <1>23, Types DEF BeginNote, NoteGoesOn
<1>24. CASE UNCHANGED vars BY <1>24 DEF vars
<1> QED BY <1>1, <1>2, <1>3, <1>4, <1>5, <1>6, <1>7, <1>8, <1>9, <1>10, <1>11,
    <1>12, <1>13, <1>14, <1>15, <1>16, <1>17, <1>18, <1>19, <1>20, <1>21, <1>22,
    <1>23, <1>24 DEF Next, Destructor, Read

\* A sequence that has not moved since it was read is even, and no destructor has
\* stored a word.
LEMMA ReadInvStep == TypeOK /\ MarkInv /\ ReadInv /\ [Next]_vars => ReadInv'
<1> SUFFICES ASSUME TypeOK /\ MarkInv /\ ReadInv, [Next]_vars PROVE ReadInv'
  OBVIOUS
<1> USE DEF Idle, Returns, tokenVars, markVars, redrawVars, lifeVars
<1>1. CASE NoteToken
  BY <1>1, Types DEF NoteToken, NoteGoesOn, Exchanges, Following, ReadInv, LastMark
<1>2. CASE AdvanceSourceIntent
  BY <1>2, Types DEF AdvanceSourceIntent, ReadInv, LastMark
<1>3. CASE Synchronize BY <1>3, Types DEF Synchronize, ReadInv, LastMark
<1>4. CASE RaiseSequence
  <2>1. marker'.sequence = 2 * Len(marks) + 1 /\ UNCHANGED <<marks, call>>
    BY <1>4, Types DEF MarkInv, RaiseSequence, DestructorGoes
  <2> SUFFICES ASSUME call.worker.op \in {"generation", "intent", "sequence"}
               PROVE  call.worker.sequence # marker'.sequence
    BY <2>1 DEF ReadInv
  <2>2. call.worker.from \in Nat /\ Len(marks) \in Nat /\ call.worker.sequence = 2 * call.worker.from
    BY Types, ReadType, BoundsAssumption DEF Generations, ReadInv
  <2>3. 2 * call.worker.from # 2 * Len(marks) + 1
    BY <2>2
  <2> QED BY <2>1, <2>2, <2>3
<1>5. CASE StoreIntent
  BY <1>5, Types DEF StoreIntent, DestructorGoes, ReadInv, LastMark
<1>6. CASE StoreGeneration
  BY <1>6, Types DEF StoreGeneration, DestructorGoes, ReadInv, LastMark
<1>7. CASE SettleSequence
  <2>1. /\ marker'.sequence = 2 * Len(marks) + 2 /\ Len(marks') = Len(marks) + 1 /\ UNCHANGED call
    BY <1>7, Types DEF MarkInv, SettleSequence, DestructorGoes
  <2> SUFFICES ASSUME call.worker.op \in {"generation", "intent", "sequence"}
               PROVE  call.worker.from <= Len(marks) /\ call.worker.sequence # marker'.sequence
    BY <2>1, Types, ReadType, BoundsAssumption DEF ReadInv, Generations
  <2>2. /\ call.worker.from \in Nat /\ Len(marks) \in Nat /\ call.worker.from <= Len(marks)
        /\ call.worker.sequence = 2 * call.worker.from
    BY Types, ReadType, BoundsAssumption DEF Generations, ReadInv
  <2> QED BY <2>1, <2>2
<1>8. CASE ReleaseRenderer
  BY <1>8, Types DEF ReleaseRenderer, Barrier, ReadInv, LastMark
<1>9. CASE BeginRead
  <2>1. marker.sequence = 2 * Len(marks) + 1 \/ marker.sequence = 2 * Len(marks)
    BY DEF MarkInv
  <2>2. marker.sequence = 2 * Len(marks)
    <3>1. marker.sequence % 2 = 0 BY <1>9 DEF BeginRead
    <3>2. marker.sequence \in Nat /\ Len(marks) \in Nat BY Types
    <3> QED BY <2>1, <3>1, <3>2, EvenIsTwice
  <2>3. /\ call'.worker = [op |-> "generation", sequence |-> marker.sequence, from |-> Len(marks)]
        /\ UNCHANGED <<marks, marker>>
    BY <1>9, Types DEF BeginRead
  <2> QED BY <2>1, <2>2, <2>3 DEF ReadInv
<1>10. CASE LoadGeneration
  <2>1. /\ call'.worker = [op |-> "intent", sequence |-> call.worker.sequence, from |-> call.worker.from,
                           generation |-> marker.generation]
        /\ call.worker.op = "generation" /\ UNCHANGED <<marks, marker>>
    BY <1>10, Types DEF LoadGeneration
  <2>2. call.worker.sequence = marker.sequence => marker.generation = LastMark.generation
    BY <2>1, Types, ReadType DEF MarkInv, ReadInv, Generations
  <2> QED BY <2>1, <2>2 DEF ReadInv, LastMark
<1>11. CASE LoadIntent
  <2>1. /\ call'.worker = [op |-> "sequence", sequence |-> call.worker.sequence, from |-> call.worker.from,
                           generation |-> call.worker.generation, intent |-> marker.intent]
        /\ call.worker.op = "intent" /\ UNCHANGED <<marks, marker>>
    BY <1>11, Types DEF LoadIntent
  <2>2. call.worker.sequence = marker.sequence => marker.intent = LastMark.intent
    BY <2>1, Types, ReadType DEF MarkInv, ReadInv, Generations
  <2> QED BY <2>1, <2>2 DEF ReadInv, LastMark
<1>12. CASE ReloadSequence
  BY <1>12, Types DEF ReloadSequence, Answer, ReadInv, LastMark
<1>13. CASE ReturnAnswer BY <1>13, Types DEF ReturnAnswer, ReadInv, LastMark
<1>14. CASE FrameArrives
  BY <1>14, Types DEF FrameArrives, Registered, ReadInv, LastMark
<1>15. CASE ExchangePending BY <1>15, Types DEF ExchangePending, ReadInv, LastMark
<1>16. CASE PostRedraw BY <1>16, Types DEF PostRedraw, ReadInv, LastMark
<1>17. CASE DeliverRedraw BY <1>17, Types DEF DeliverRedraw, ReadInv, LastMark
<1>18. CASE EmitRedraw BY <1>18, Types DEF EmitRedraw, ReadInv, LastMark
<1>19. CASE DestroyPlayer BY <1>19, Types DEF DestroyPlayer, ReadInv, LastMark
<1>20. CASE DeleteDispatcher BY <1>20, Types DEF DeleteDispatcher, ReadInv, LastMark
<1>21. ASSUME NEW t \in {"gui", "worker"}, BeginAllocate(t) PROVE ReadInv'
  BY <1>21, Types DEF BeginAllocate, AllocateGoesOn, ReadInv, LastMark
<1>22. ASSUME NEW t \in {"gui", "worker"}, Allocate(t) PROVE ReadInv'
  <2>1. UNCHANGED <<marks, marker>> /\ (call'.worker = call.worker \/ call'.worker.op \in {"idle", "allocate"})
    BY <1>22, Types DEF Allocate, AllocateGoesOn
  <2> QED BY <2>1 DEF ReadInv, LastMark
<1>23. ASSUME NEW token \in 1 .. MaxToken, BeginNote(token) PROVE ReadInv'
  BY <1>23, Types DEF BeginNote, NoteGoesOn, ReadInv, LastMark
<1>24. CASE UNCHANGED vars BY <1>24 DEF vars, ReadInv, LastMark
<1> QED BY <1>1, <1>2, <1>3, <1>4, <1>5, <1>6, <1>7, <1>8, <1>9, <1>10, <1>11,
    <1>12, <1>13, <1>14, <1>15, <1>16, <1>17, <1>18, <1>19, <1>20, <1>21, <1>22,
    <1>23, <1>24 DEF Next, Destructor, Read

\* One redraw is posted at most.
LEMMA QueuedType == TypeOK => queued \in 0 .. 1 /\ redrawPending \in BOOLEAN
BY DEF TypeOK

\* Only the callback that sets the flag posts.
LEMMA RedrawInvStep == TypeOK /\ RedrawInv /\ [Next]_vars => RedrawInv'
<1> SUFFICES ASSUME TypeOK /\ RedrawInv, [Next]_vars PROVE RedrawInv'
  OBVIOUS
<1> USE DEF RedrawInv, tokenVars, markVars, redrawVars, lifeVars, Idle, NoRenderer,
    Returns
<1>1. CASE NoteToken BY <1>1, Types DEF NoteToken, NoteGoesOn, Exchanges, Following
<1>2. CASE AdvanceSourceIntent BY <1>2, Types DEF AdvanceSourceIntent
<1>3. CASE Synchronize BY <1>3, Types DEF Synchronize
<1>4. CASE RaiseSequence BY <1>4, Types DEF RaiseSequence, DestructorGoes
<1>5. CASE StoreIntent BY <1>5, Types DEF StoreIntent, DestructorGoes
<1>6. CASE StoreGeneration BY <1>6, Types DEF StoreGeneration, DestructorGoes
<1>7. CASE SettleSequence BY <1>7, Types DEF SettleSequence, DestructorGoes
<1>8. CASE ReleaseRenderer BY <1>8, Types DEF ReleaseRenderer, Barrier
<1>9. CASE BeginRead BY <1>9, Types DEF BeginRead
<1>10. CASE LoadGeneration BY <1>10, Types DEF LoadGeneration
<1>11. CASE LoadIntent BY <1>11, Types DEF LoadIntent
<1>12. CASE ReloadSequence BY <1>12, Types DEF ReloadSequence, Answer
<1>13. CASE ReturnAnswer BY <1>13, Types DEF ReturnAnswer
<1>14. CASE FrameArrives BY <1>14, Types DEF FrameArrives, Registered
<1>15. CASE ExchangePending BY <1>15, Types DEF ExchangePending
<1>16. CASE PostRedraw BY <1>16, Types DEF PostRedraw
<1>17. CASE DeliverRedraw BY <1>17, QueuedType, Types DEF DeliverRedraw
<1>18. CASE EmitRedraw BY <1>18, Types DEF EmitRedraw
<1>19. CASE DestroyPlayer BY <1>19, Types DEF DestroyPlayer
<1>20. CASE DeleteDispatcher BY <1>20, Types DEF DeleteDispatcher
<1>21. ASSUME NEW t \in {"gui", "worker"}, BeginAllocate(t) PROVE RedrawInv'
  BY <1>21, Types DEF BeginAllocate, AllocateGoesOn
<1>22. ASSUME NEW t \in {"gui", "worker"}, Allocate(t) PROVE RedrawInv'
  BY <1>22, Types DEF Allocate, AllocateGoesOn, Exchanges, Following
<1>23. ASSUME NEW token \in 1 .. MaxToken, BeginNote(token) PROVE RedrawInv'
  BY <1>23, Types DEF BeginNote, NoteGoesOn
<1>24. CASE UNCHANGED vars BY <1>24 DEF vars
<1> QED BY <1>1, <1>2, <1>3, <1>4, <1>5, <1>6, <1>7, <1>8, <1>9, <1>10, <1>11,
    <1>12, <1>13, <1>14, <1>15, <1>16, <1>17, <1>18, <1>19, <1>20, <1>21, <1>22,
    <1>23, <1>24 DEF Next, Destructor, Read

\* The last reference condemns the dispatcher, behind the barrier of the callback.
LEMMA LifeInvStep == TypeOK /\ MarkInv /\ LifeInv /\ [Next]_vars => LifeInv'
<1> SUFFICES ASSUME TypeOK /\ MarkInv /\ LifeInv, [Next]_vars PROVE LifeInv'
  OBVIOUS
<1> USE DEF LifeInv, MarkInv, tokenVars, markVars, redrawVars, lifeVars, Idle,
    NoRenderer, Returns
<1>1. CASE NoteToken BY <1>1, Types DEF NoteToken, NoteGoesOn, Exchanges, Following
<1>2. CASE AdvanceSourceIntent BY <1>2, Types DEF AdvanceSourceIntent
<1>3. CASE Synchronize BY <1>3, Types DEF Synchronize
<1>4. CASE RaiseSequence BY <1>4, Types DEF RaiseSequence, DestructorGoes
<1>5. CASE StoreIntent BY <1>5, Types DEF StoreIntent, DestructorGoes
<1>6. CASE StoreGeneration BY <1>6, Types DEF StoreGeneration, DestructorGoes
<1>7. CASE SettleSequence BY <1>7, Types DEF SettleSequence, DestructorGoes
<1>8. CASE ReleaseRenderer BY <1>8, Types DEF ReleaseRenderer, Barrier
<1>9. CASE BeginRead BY <1>9, Types DEF BeginRead
<1>10. CASE LoadGeneration BY <1>10, Types DEF LoadGeneration
<1>11. CASE LoadIntent BY <1>11, Types DEF LoadIntent
<1>12. CASE ReloadSequence BY <1>12, Types DEF ReloadSequence, Answer
<1>13. CASE ReturnAnswer BY <1>13, Types DEF ReturnAnswer
<1>14. CASE FrameArrives BY <1>14, Types DEF FrameArrives, Registered
<1>15. CASE ExchangePending BY <1>15, Types DEF ExchangePending
<1>16. CASE PostRedraw BY <1>16, Types DEF PostRedraw
<1>17. CASE DeliverRedraw BY <1>17, Types DEF DeliverRedraw
<1>18. CASE EmitRedraw BY <1>18, Types DEF EmitRedraw
<1>19. CASE DestroyPlayer BY <1>19, Types DEF DestroyPlayer
<1>20. CASE DeleteDispatcher BY <1>20, Types DEF DeleteDispatcher
<1>21. ASSUME NEW t \in {"gui", "worker"}, BeginAllocate(t) PROVE LifeInv'
  BY <1>21, Types DEF BeginAllocate, AllocateGoesOn
<1>22. ASSUME NEW t \in {"gui", "worker"}, Allocate(t) PROVE LifeInv'
  BY <1>22, Types DEF Allocate, AllocateGoesOn, Exchanges, Following
<1>23. ASSUME NEW token \in 1 .. MaxToken, BeginNote(token) PROVE LifeInv'
  BY <1>23, Types DEF BeginNote, NoteGoesOn
<1>24. CASE UNCHANGED vars BY <1>24 DEF vars
<1> QED BY <1>1, <1>2, <1>3, <1>4, <1>5, <1>6, <1>7, <1>8, <1>9, <1>10, <1>11,
    <1>12, <1>13, <1>14, <1>15, <1>16, <1>17, <1>18, <1>19, <1>20, <1>21, <1>22,
    <1>23, <1>24 DEF Next, Destructor, Read

\* A counter that has been read is a token.
LEMMA NextType == TypeOK => \A e : e = next /\ e # 0 => e \in 1 .. MaxToken
BY DEF TypeOK
\* The three parts of the marker are numbers.
LEMMA MarkerType == IInv =>
  marker.sequence \in Numbers /\ marker.generation \in Generations /\ marker.intent \in 0 .. MaxIntent
    /\ Len(marks) \in Generations
BY Types DEF IInv, TypeOK, Numbers, Generations

\* What each access does to the calls under way.
LEMMA CallTypeStep == IInv /\ [Next]_vars => call' \in [gui : Call, worker : Call \cup ReadCall]
<1> SUFFICES ASSUME TypeOK, IInv, [Next]_vars PROVE call' \in [gui : Call, worker : Call \cup ReadCall]
  BY DEF IInv
<1> USE DEF tokenVars, markVars, redrawVars, lifeVars, Returns
<1>1. CASE NoteToken
  BY <1>1, NoteType, NextType, CallUpdate, CallIntro, ReadCallIntro DEF NoteToken,
      NoteGoesOn, Exchanges, Following
<1>2. CASE AdvanceSourceIntent BY <1>2 DEF TypeOK, AdvanceSourceIntent
<1>3. CASE Synchronize BY <1>3 DEF TypeOK, Synchronize
<1>4. CASE RaiseSequence BY <1>4 DEF TypeOK, RaiseSequence, DestructorGoes
<1>5. CASE StoreIntent BY <1>5 DEF TypeOK, StoreIntent, DestructorGoes
<1>6. CASE StoreGeneration BY <1>6 DEF TypeOK, StoreGeneration, DestructorGoes
<1>7. CASE SettleSequence BY <1>7 DEF TypeOK, SettleSequence, DestructorGoes
<1>8. CASE ReleaseRenderer BY <1>8 DEF TypeOK, ReleaseRenderer, Barrier
<1>9. CASE BeginRead
  BY <1>9, MarkerType, CallUpdate, CallIntro, ReadCallIntro DEF BeginRead
<1>10. CASE LoadGeneration
  BY <1>10, MarkerType, ReadType, CallUpdate, CallIntro, ReadCallIntro DEF
      LoadGeneration
<1>11. CASE LoadIntent
  BY <1>11, MarkerType, ReadType, CallUpdate, CallIntro, ReadCallIntro DEF
      LoadIntent
<1>12. CASE ReloadSequence
  <2>1. Answer(call.worker) \in Generations
    BY <1>12, ReadType, BoundsAssumption DEF ReloadSequence, Answer, Generations
  <2>2. 0 \in Numbers /\ 0 \in Generations
    BY BoundsAssumption DEF Numbers, Generations
  <2>3. [op |-> "answer", generation |-> Answer(call.worker)] \in ReadCall
    BY <2>1, <2>2, ReadCallIntro
  <2> QED BY <2>3, <1>12, CallUpdate DEF ReloadSequence
<1>13. CASE ReturnAnswer
  BY <1>13, CallUpdate, CallIntro, ReadCallIntro DEF ReturnAnswer
<1>14. CASE FrameArrives BY <1>14 DEF TypeOK, FrameArrives, Registered
<1>15. CASE ExchangePending BY <1>15 DEF TypeOK, ExchangePending
<1>16. CASE PostRedraw BY <1>16 DEF TypeOK, PostRedraw
<1>17. CASE DeliverRedraw
  BY <1>17, CallUpdate, CallIntro, ReadCallIntro DEF DeliverRedraw
<1>18. CASE EmitRedraw BY <1>18, CallUpdate, CallIntro, ReadCallIntro DEF EmitRedraw
<1>19. CASE DestroyPlayer BY <1>19 DEF TypeOK, DestroyPlayer
<1>20. CASE DeleteDispatcher BY <1>20 DEF TypeOK, DeleteDispatcher
<1>21. ASSUME NEW t \in {"gui", "worker"}, BeginAllocate(t) PROVE call' \in [gui : Call, worker : Call \cup ReadCall]
  BY <1>21, NextType, CallUpdate, CallIntro, ReadCallIntro DEF BeginAllocate,
      AllocateGoesOn
<1>22. ASSUME NEW t \in {"gui", "worker"}, Allocate(t) PROVE call' \in [gui : Call, worker : Call \cup ReadCall]
  BY <1>22, NextType, CallUpdate, CallIntro, ReadCallIntro DEF Allocate,
      AllocateGoesOn, Exchanges, Following
<1>23. ASSUME NEW token \in 1 .. MaxToken, BeginNote(token) PROVE call' \in [gui : Call, worker : Call \cup ReadCall]
  BY <1>23, NextType, CallUpdate, CallIntro, ReadCallIntro DEF BeginNote, NoteGoesOn
<1>24. CASE UNCHANGED vars BY <1>24 DEF vars, TypeOK
<1> QED BY <1>1, <1>2, <1>3, <1>4, <1>5, <1>6, <1>7, <1>8, <1>9, <1>10, <1>11,
    <1>12, <1>13, <1>14, <1>15, <1>16, <1>17, <1>18, <1>19, <1>20, <1>21, <1>22,
    <1>23, <1>24 DEF Next, Destructor, Read

\* No access puts a value of another type anywhere, given what is known of all.
LEMMA TypeOKStep == IInv /\ [Next]_vars => TypeOK'
<1> SUFFICES ASSUME IInv, [Next]_vars PROVE TypeOK'
  OBVIOUS
<1> USE DEF IInv, TypeOK, tokenVars, markVars, redrawVars, lifeVars, NoRenderer
<1>1. CASE NoteToken
  <2>1. call.worker.expected \in 1 .. MaxToken /\ call.worker.token \in 1 .. MaxToken
    BY <1>1, NoteType DEF NoteToken
  <2>2. next' \in 0 .. MaxToken
    BY <2>1, <1>1, BoundsAssumption DEF NoteToken, Exchanges, Following
  <2>3. noted' \subseteq 1 .. MaxToken
    BY <2>1, <1>1 DEF NoteToken, NoteGoesOn
  <2> QED BY <2>2, <2>3, CallTypeStep, <1>1 DEF NoteToken
<1>2. CASE AdvanceSourceIntent
  <2>1. sourceIntent' \in 0 .. MaxIntent
    <3>1. sourceIntent \in 0 .. MaxIntent /\ sourceIntent' = sourceIntent + 1 /\ sourceIntent < MaxIntent
      BY <1>2 DEF AdvanceSourceIntent
    <3> QED BY <3>1, BoundsAssumption
  <2> QED BY <2>1, <1>2, CallTypeStep DEF AdvanceSourceIntent
<1>3. CASE Synchronize
  BY <1>3, Types, BoundsAssumption, CallTypeStep DEF Synchronize
<1>4. CASE RaiseSequence
  <2>1. marker' \in [sequence : 0 .. 2 * MaxGeneration, generation : 0 .. MaxGeneration, intent : 0 .. MaxIntent]
    <3>1. /\ marker.sequence = 2 * Len(marks) /\ Len(marks) < MaxGeneration
          /\ marker' = [marker EXCEPT !.sequence = @ + 1]
      BY <1>4 DEF RaiseSequence, DestructorGoes, MarkInv
    <3>2. marker.sequence + 1 \in 0 .. 2 * MaxGeneration
      BY <3>1, Types, BoundsAssumption
    <3> QED BY <3>1, <3>2
  <2> QED BY <2>1, CallTypeStep, <1>4 DEF RaiseSequence, DestructorGoes
<1>5. CASE StoreIntent BY <1>5, CallTypeStep DEF StoreIntent, DestructorGoes
<1>6. CASE StoreGeneration BY <1>6, CallTypeStep DEF StoreGeneration, DestructorGoes
<1>7. CASE SettleSequence
  <2>1. /\ marks' \in Seq([generation : 1 .. MaxGeneration, intent : 0 .. MaxIntent])
        /\ Len(marks') <= MaxGeneration
    BY <1>7, Types, BoundsAssumption DEF SettleSequence, DestructorGoes, MarkInv
  <2>2. marks' \in BoundedSeq([generation : 1 .. MaxGeneration, intent : 0 .. MaxIntent], MaxGeneration)
    BY <2>1, BoundedSeqIsSeq, BoundsAssumption
  <2>3. marker' \in [sequence : 0 .. 2 * MaxGeneration, generation : 0 .. MaxGeneration, intent : 0 .. MaxIntent]
    <3>1. /\ marker.sequence = 2 * Len(marks) + 1 /\ Len(marks) < MaxGeneration
          /\ marker' = [marker EXCEPT !.sequence = @ + 1]
      BY <1>7 DEF SettleSequence, DestructorGoes, MarkInv
    <3>2. marker.sequence + 1 \in 0 .. 2 * MaxGeneration
      BY <3>1, Types, BoundsAssumption
    <3> QED BY <3>1, <3>2
  <2> QED BY <2>2, <2>3, CallTypeStep, <1>7 DEF SettleSequence, DestructorGoes
<1>8. CASE ReleaseRenderer
  BY <1>8, BoundsAssumption, CallTypeStep DEF ReleaseRenderer, Barrier
<1>9. CASE BeginRead BY <1>9, CallTypeStep DEF BeginRead
<1>10. CASE LoadGeneration BY <1>10, CallTypeStep DEF LoadGeneration
<1>11. CASE LoadIntent BY <1>11, CallTypeStep DEF LoadIntent
<1>12. CASE ReloadSequence BY <1>12, CallTypeStep DEF ReloadSequence, Answer
<1>13. CASE ReturnAnswer BY <1>13, CallTypeStep DEF ReturnAnswer
<1>14. CASE FrameArrives BY <1>14, CallTypeStep DEF FrameArrives, Registered
<1>15. CASE ExchangePending BY <1>15, CallTypeStep DEF ExchangePending
<1>16. CASE PostRedraw
  <2>1. queued' \in 0 .. 1
    <3>1. queued = 0
      BY <1>16, QueuedType DEF PostRedraw, RedrawInv
    <3> QED BY <3>1, <1>16 DEF PostRedraw
  <2> QED BY <2>1, <1>16, CallTypeStep DEF PostRedraw
<1>17. CASE DeliverRedraw
  <2>1. queued' \in 0 .. 1
    BY <1>17, QueuedType DEF DeliverRedraw
  <2> QED BY <2>1, <1>17, CallTypeStep DEF DeliverRedraw
<1>18. CASE EmitRedraw BY <1>18, CallTypeStep DEF EmitRedraw
<1>19. CASE DestroyPlayer BY <1>19, CallTypeStep DEF DestroyPlayer
<1>20. CASE DeleteDispatcher BY <1>20, CallTypeStep DEF DeleteDispatcher
<1>21. ASSUME NEW t \in {"gui", "worker"}, BeginAllocate(t) PROVE TypeOK'
  BY <1>21, CallTypeStep DEF BeginAllocate, AllocateGoesOn
<1>22. ASSUME NEW t \in {"gui", "worker"}, Allocate(t) PROVE TypeOK'
  <2>1. call[t].expected \in 1 .. MaxToken
    BY <1>22, AllocateType DEF Allocate
  <2>2. CASE call[t].expected = next /\ next' = Following(next) /\ given' = Append(given, next)
    <3>1. /\ next' \in 0 .. MaxToken /\ next # 0 /\ Len(given) < next
          /\ given \in Seq(1 .. MaxToken) /\ next \in 1 .. MaxToken
      BY <2>1, <2>2, Types, BoundsAssumption DEF Following, TokenInv
    <3>3. given' \in Seq(1 .. MaxToken) /\ Len(given') = Len(given) + 1 /\ Len(given) \in Nat
      BY <2>2, <3>1
    <3>4. Len(given') <= MaxToken
      BY <3>1, <3>3, BoundsAssumption
    <3>2. given' \in BoundedSeq(1 .. MaxToken, MaxToken)
      BY <3>3, <3>4, BoundedSeqIsSeq, BoundsAssumption
    <3> QED BY <3>1, <3>2, CallTypeStep, <1>22 DEF Allocate
  <2>3. CASE UNCHANGED <<next, given>>
    BY <2>3, CallTypeStep, <1>22 DEF Allocate
  <2> QED BY <2>2, <2>3, <1>22 DEF Allocate, Exchanges
<1>23. ASSUME NEW token \in 1 .. MaxToken, BeginNote(token) PROVE TypeOK'
  BY <1>23, CallTypeStep DEF BeginNote, NoteGoesOn
<1>24. CASE UNCHANGED vars BY <1>24 DEF vars
<1> QED BY <1>1, <1>2, <1>3, <1>4, <1>5, <1>6, <1>7, <1>8, <1>9, <1>10, <1>11,
    <1>12, <1>13, <1>14, <1>15, <1>16, <1>17, <1>18, <1>19, <1>20, <1>21, <1>22,
    <1>23, <1>24 DEF Next, Destructor, Read

\* Every step keeps the inductive invariant.
LEMMA IInvStep == IInv /\ [Next]_vars => IInv'
BY TokenInvStep, MarkInvStep, ReadInvStep, RedrawInvStep, LifeInvStep, TypeOKStep DEF IInv

\* All that is known of the shared words, in every state.
THEOREM Invariance == Spec => []IInv
<1> QED BY InitIInv, IInvStep, PTL DEF Spec

-----------------------------------------------------------------------------
(* The properties.                                                           *)

\* The actions of the two action properties.
TokenStep ==
  /\ given' # given => Last(given') \notin ToSet(given) \cup noted
  /\ next = 0 => next' = 0
MarkerStep ==
  call.worker.op = "sequence" /\ call'.worker # call.worker =>
    LET answer == call'.worker.generation
        Made(n) == IF n = 0 THEN [generation |-> 0, intent |-> 0] ELSE marks[n]
        Current == {Made(n) : n \in call.worker.from .. Len(marks)}
    IN  IF answer # 0 THEN [generation |-> answer, intent |-> sourceIntent] \in Current
        ELSE \/ marker.sequence # call.worker.sequence
             \/ \E mark \in Current : mark.generation = 0 \/ mark.intent # sourceIntent

\* Every variable keeps its type: the counter does not overflow, the queue holds one
\* redraw at most, and the sequence is bounded by the contexts.
THEOREM TypeCorrect == Spec => []TypeOK
<1>1. IInv => TypeOK BY DEF IInv
<1> QED BY Invariance, <1>1, PTL

\* libmpv's callback and the emission of a redraw find the dispatcher alive, on
\* whichever thread the last reference was dropped.
THEOREM DispatcherOutlivesCallbacks == Spec => []CallbackFindsDispatcher
<1>1. IInv => CallbackFindsDispatcher
  BY DEF IInv, LifeInv, CallbackFindsDispatcher, Registered, TypeOK
<1> QED BY Invariance, <1>1, PTL

\* allocateNativeToken() never returns a token twice, nor one noted before, and an
\* exhausted counter stays exhausted: the compare-exchange loops lose no update.
THEOREM NoTokenTwice == Spec => TokensAreNeverReused
<1>1. IInv /\ [Next]_vars => [TokenStep]_vars
  <2> SUFFICES ASSUME TypeOK, TokenInv, Next PROVE TokenStep
    BY DEF IInv
  <2> USE DEF TokenStep, tokenVars, markVars, redrawVars, lifeVars
  <2>1. CASE NoteToken
    BY <2>1, NoteType, Types DEF NoteToken, Exchanges, NoteGoesOn
  <2>2. ASSUME NEW t \in {"gui", "worker"}, Allocate(t) PROVE TokenStep
    <3>1. CASE call[t].expected = next /\ given' = Append(given, next)
      <4>1. next \in 1 .. MaxToken /\ given \in Seq(1 .. MaxToken)
        BY <3>1, <2>2, AllocateType, Types DEF Allocate
      <4>2. Last(given') = next
        BY <4>1, <3>1 DEF Last
      <4>3. next \notin ToSet(given) \cup noted
        BY <4>1, BoundsAssumption, Types DEF ToSet, TokenInv
      <4> QED BY <4>1, <4>2, <4>3
    <3>2. CASE UNCHANGED <<next, given>>
      BY <3>2
    <3> QED BY <3>1, <3>2, <2>2 DEF Allocate, Exchanges
  <2>3. CASE UNCHANGED <<next, given>>
    BY <2>3
  <2> QED
    BY <2>1, <2>2, <2>3 DEF Next, Destructor, Read, BeginAllocate, BeginNote, AdvanceSourceIntent,
      Synchronize, RaiseSequence, StoreIntent, StoreGeneration, SettleSequence, ReleaseRenderer,
      BeginRead, LoadGeneration, LoadIntent, ReloadSequence, ReturnAnswer, FrameArrives,
      ExchangePending, PostRedraw, DeliverRedraw, EmitRedraw, DestroyPlayer, DeleteDispatcher
<1> QED BY Invariance, <1>1, PTL DEF Spec, TokensAreNeverReused, TokenStep

\* What retiringContext() answers is a mark complete when it was asked or made since.
THEOREM MarkerIsRead == Spec => MarkerIsCoherent
<1>1. IInv /\ [Next]_vars => [MarkerStep]_vars
  <2> SUFFICES ASSUME TypeOK, MarkInv, ReadInv, Next, call.worker.op = "sequence",
                      call'.worker # call.worker
               PROVE  MarkerStep
    BY DEF IInv, MarkerStep
  <2>1. ReloadSequence
    BY Types DEF Next, Destructor, Read, BeginAllocate, Allocate, BeginNote, NoteToken, AdvanceSourceIntent,
      Synchronize, RaiseSequence, StoreIntent, StoreGeneration, SettleSequence, ReleaseRenderer,
      BeginRead, LoadGeneration, LoadIntent, ReloadSequence, ReturnAnswer, FrameArrives, AllocateGoesOn,
      ExchangePending, PostRedraw, DeliverRedraw, EmitRedraw, DestroyPlayer, DeleteDispatcher, Idle, Returns
  <2> DEFINE W == call.worker
             Made(n) == IF n = 0 THEN [generation |-> 0, intent |-> 0] ELSE marks[n]
  <2>2. call'.worker.generation = Answer(W)
    BY <2>1, Types DEF ReloadSequence
  <2>3. W.from \in 0 .. Len(marks) /\ Len(marks) \in Nat /\ W.sequence = 2 * W.from
    BY ReadType, Types, BoundsAssumption DEF ReadInv, Generations
  <2>4. ASSUME W.sequence = marker.sequence
        PROVE  /\ Made(Len(marks)) = [generation |-> W.generation, intent |-> W.intent]
               /\ Len(marks) \in W.from .. Len(marks)
    <3>1. LastMark = [generation |-> LastMark.generation, intent |-> LastMark.intent]
      <4>1. marks # <<>> => Len(marks) \in DOMAIN marks
        BY Types
      <4>2. ASSUME NEW n \in DOMAIN marks
            PROVE  marks[n] = [generation |-> marks[n].generation, intent |-> marks[n].intent]
        <5>1. marks[n] \in [generation : 1 .. MaxGeneration, intent : 0 .. MaxIntent]
          <6>1. marks \in Seq([generation : 1 .. MaxGeneration, intent : 0 .. MaxIntent])
            BY Types
          <6> QED BY <6>1, SeqElement
        <5> QED BY <5>1
      <4> QED BY <4>1, <4>2 DEF LastMark
    <3>2. LastMark = Made(Len(marks))
      BY Types DEF LastMark
    <3> QED BY <2>3, <2>4, <3>1, <3>2 DEF ReadInv
  <2>5. MarkerStep
    <3>1. CASE W.sequence # marker.sequence
      BY <2>2, <3>1 DEF MarkerStep, Answer
    <3>2. CASE W.sequence = marker.sequence
      BY <2>2, <2>4, <3>2 DEF MarkerStep, Answer
    <3> QED BY <3>1, <3>2
  <2> QED BY <2>5
<1> QED BY Invariance, <1>1, PTL DEF Spec, MarkerIsCoherent, MarkerStep

=============================================================================
