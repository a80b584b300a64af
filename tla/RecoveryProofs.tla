-------------------------- MODULE RecoveryProofs --------------------------
(***************************************************************************)
(* Proofs about Recovery, for any positions, queue bound and scenarios:    *)
(* the steps of recoveries are real and do not interleave, cancellation is *)
(* for good, and a lost context is made up for by one replay at most.      *)
(*                                                                         *)
(* A valid recovery is for the present source intent and goes with its     *)
(* only request (Fits), which is one command or one reply (Matched).       *)
(* Notices tell contexts in order (NoticeInv). A context whose entry was   *)
(* replayed is older than the newest (OlderInv), and its loss is not       *)
(* told once more (PlayedInv).                                             *)
(***************************************************************************)
EXTENDS Recovery, FiniteSetTheorems, WellFoundedInduction, TLAPS

-----------------------------------------------------------------------------
(* Sets that depend on the scenario.                                         *)

\* The scenario is chosen once, and with it the sets of what a behaviour can hold.
SameSets ==
  /\ Entries' = Entries /\ Generations' = Generations /\ Contexts' = Contexts /\ Revisions' = Revisions
  /\ PlaybackState' = PlaybackState /\ RecoveryState' = RecoveryState /\ SeekIntents' = SeekIntents
  /\ Requests' = Requests /\ Notices' = Notices /\ Commands' = Commands /\ Events' = Events
\* The scenario is chosen once.
LEMMA ScenarioFixed == ASSUME scenario' = scenario PROVE SameSets
<1>1. Entries' = Entries /\ Generations' = Generations /\ Contexts' = Contexts /\ Revisions' = Revisions
  BY DEF Entries, Generations, Contexts, Revisions
<1>2. PlaybackState' = PlaybackState
  BY <1>1 DEF PlaybackState, None
<1>3. RecoveryState' = RecoveryState
  BY <1>1, <1>2 DEF RecoveryState
<1>4. SeekIntents' = SeekIntents /\ Requests' = Requests /\ Notices' = Notices /\ Commands' = Commands
  BY <1>1 DEF SeekIntents, Requests, Notices, Commands, Idle, Steps
<1>5. Events' = Events
  BY <1>1, <1>4 DEF Events
<1> QED BY <1>1, <1>2, <1>3, <1>4, <1>5 DEF SameSets

\* What a scenario allows.
LEMMA Bounds ==
  ASSUME scenario \in Scenarios
  PROVE  /\ scenario.maxEntry \in Nat /\ scenario.maxEntry >= 2 /\ scenario.maxGeneration \in Nat
         /\ scenario.maxGeneration >= 1 /\ scenario.maxOps \in Nat
         /\ Entries \subseteq Nat \ {0} /\ {1, 2} \subseteq Entries /\ 1 \in Generations
         /\ 0 \in Contexts /\ Generations \subseteq Contexts /\ Contexts \subseteq Nat
         /\ 0 \in Revisions /\ Revisions \subseteq Nat /\ 0 \in Positions /\ Positions \subseteq Nat
         /\ \A n \in Nat : n \in Revisions <=> n <= scenario.maxOps
         /\ \A n \in Nat : n \in Generations <=> 1 <= n /\ n <= scenario.maxGeneration
         /\ \A n \in Nat : n \in Contexts <=> n <= scenario.maxGeneration
         /\ \A n \in Nat : n \in Entries <=> 1 <= n /\ n <= scenario.maxEntry
<1>1. /\ scenario.maxEntry \in Nat \ {0, 1} /\ scenario.maxGeneration \in Nat \ {0}
      /\ scenario.maxOps \in Nat
  BY BoundsAssumption
<1> QED BY <1>1, BoundsAssumption DEF Entries, Generations, Contexts, Revisions

\* The context that is being retired.
LEMMA MarkerTyped ==
  ASSUME TypeOK
  PROVE  /\ marker.generation \in Contexts /\ 0 \in Contexts
         /\ \A i : RetiringContext(i) \in Contexts
<1>1. scenario \in Scenarios /\ generation \in Generations /\ marker.generation \in 0 .. generation
  BY DEF TypeOK
<1>2. scenario.maxGeneration \in Nat /\ 0 \in Contexts
  BY <1>1, Bounds
<1>3. marker.generation \in Contexts
  BY <1>1, <1>2 DEF Generations, Contexts
<1> QED BY <1>2, <1>3 DEF RetiringContext

-----------------------------------------------------------------------------
(* Sequences.                                                                *)

\* What the head of a sequence leaves behind.
LEMMA TailSeq ==
  ASSUME NEW S, NEW s \in Seq(S), s # <<>>
  PROVE  /\ Tail(s) \in Seq(S) /\ Head(s) \in S /\ Head(s) = s[1] /\ 1 \in DOMAIN s
         /\ Len(Tail(s)) = Len(s) - 1
         /\ \A n \in DOMAIN Tail(s) : n + 1 \in DOMAIN s /\ Tail(s)[n] = s[n + 1]
         /\ \A n \in DOMAIN s : n \in Nat /\ n >= 1
<1>1. Len(s) \in Nat /\ Len(s) >= 1 /\ DOMAIN s = 1 .. Len(s)
  OBVIOUS
<1>2. Tail(s) \in Seq(S) /\ Len(Tail(s)) = Len(s) - 1 /\ \A n \in 1 .. Len(s) - 1 : Tail(s)[n] = s[n + 1]
  OBVIOUS
<1>3. DOMAIN Tail(s) = 1 .. Len(s) - 1
  BY <1>2
<1>4. Head(s) = s[1] /\ s[1] \in S
  OBVIOUS
<1> QED BY <1>1, <1>2, <1>3, <1>4

\* One element more.
LEMMA AppendSeq ==
  ASSUME NEW S, NEW s \in Seq(S), NEW e \in S
  PROVE  /\ Append(s, e) \in Seq(S) /\ Len(Append(s, e)) = Len(s) + 1 /\ Len(s) \in Nat
         /\ DOMAIN s = 1 .. Len(s) /\ DOMAIN Append(s, e) = 1 .. Len(s) + 1
         /\ \A n \in DOMAIN s : Append(s, e)[n] = s[n]
         /\ Append(s, e)[Len(s) + 1] = e
         /\ s \o <<e>> = Append(s, e)
OBVIOUS

\* The place of an entry in a playlist.
LEMMA PlaceTyped ==
  ASSUME NEW S, NEW s \in Seq(S), NEW e
  PROVE  Place(e, s) \in Nat
<1> DEFINE I == {i \in 1 .. Len(s) : s[i] = e}
<1>1. Len(s) \in Nat /\ I \subseteq Nat
  OBVIOUS
<1>2. CASE I = {}
  BY <1>2 DEF Place, SelectInSeq
<1>3. CASE I # {}
  <2>1. Place(e, s) = Min(I)
    BY <1>3 DEF Place, SelectInSeq
  <2> HIDE DEF I
  <2>2. \E x \in I : \A y \in I : ~(<<y, x>> \in OpToRel(<, Nat))
    BY <1>1, <1>3, NatLessThanWellFounded, WFMin
  <2>3. \A x, y \in Nat : ~(<<y, x>> \in OpToRel(<, Nat)) => x <= y
    BY DEF OpToRel
  <2>4. \E x \in I : \A y \in I : x <= y
    BY <1>1, <2>2, <2>3
  <2> QED BY <1>1, <2>1, <2>4 DEF Min
<1> QED BY <1>2, <1>3

-----------------------------------------------------------------------------
(* What tryRecoverPlayback() and tryRestorePosition() make of a recovery.    *)

MayRestore(r) ==
  r.valid /\ r.replaying /\ ~r.seekSubmitted /\ r.fileLoaded /\ r.replayAck /\ r.pauseAck
Replaying(r) == [r EXCEPT !.pauseAck = TRUE, !.replaying = TRUE]
Seeking(r)   == [r EXCEPT !.seekSubmitted = TRUE]

\* Nothing is asked for, the recovery is given up, or a step is asked for.
Idles(r, q, o) == o.recovery = r /\ o.requests = q /\ o.commands = <<>>
GivesUp(r, q, o) == o.recovery = Cancelled(r) /\ o.requests = q /\ o.commands = <<>>
Asks(step, r, q, o) ==
  /\ o.recovery = r /\ o.requests = q \cup {[rev |-> r.rev, step |-> step]}
  /\ \E c \in Commands : c.what = step /\ c.by = r.rev /\ o.commands = <<c>>

Move(r, q, o) ==
  \/ Idles(r, q, o)
  \/ (MayRecover(r, q) \/ MayRestore(r)) /\ GivesUp(r, q, o)
  \/ (MayRecover(r, q) /\ PauseObsolete(r)) /\ GivesUp(Replaying(r), q, o)
  \/ MayRestore(r) /\ GivesUp(Seeking(r), q, o)
  \/ MayRecover(r, q) /\ Asks("pause", r, q, o)
  \/ (MayRecover(r, q) /\ PauseObsolete(r)) /\ Asks("play", Replaying(r), q, o)
  \/ MayRestore(r) /\ Asks("seek", Seeking(r), q, o)

\* A record of a recovery with other members.
LEMMA ChangedRecovery ==
  ASSUME NEW r \in RecoveryState
  PROVE  /\ Cancelled(r) \in RecoveryState /\ ~Cancelled(r).valid
         /\ Replaying(r) \in RecoveryState /\ Seeking(r) \in RecoveryState
         /\ \A x \in {Cancelled(r), Replaying(r), Seeking(r)} :
              /\ x.playback = r.playback /\ x.retired = r.retired /\ x.ready = r.ready /\ x.rev = r.rev
              /\ x.pauseRev = r.pauseRev /\ x.terminated = r.terminated /\ x.replayAck = r.replayAck
         /\ \A x \in {Replaying(r), Seeking(r)} : x.valid = r.valid
         /\ Replaying(r).replaying /\ Replaying(r).pauseAck
         /\ Replaying(r).seekSubmitted = r.seekSubmitted
         /\ Seeking(r).replaying = r.replaying /\ Seeking(r).pauseAck = r.pauseAck /\ Seeking(r).seekSubmitted
BY DEF Cancelled, Replaying, Seeking, RecoveryState

\* submitRecovery() asks for the step or gives the recovery up.
LEMMA SubmitMove ==
  ASSUME NEW r, NEW q, NEW step, NEW arg, NEW accepted \in BOOLEAN,
         [what |-> step, arg |-> arg, by |-> r.rev] \in Commands
  PROVE  Asks(step, r, q, Submit(r, q, step, arg, accepted))
         \/ GivesUp(r, q, Submit(r, q, step, arg, accepted))
<1> DEFINE o == Submit(r, q, step, arg, accepted)
           c == [what |-> step, arg |-> arg, by |-> r.rev]
<1>1. CASE accepted
  <2>1. o.recovery = r /\ o.requests = q \cup {[rev |-> r.rev, step |-> step]} /\ o.commands = <<c>>
    BY <1>1 DEF Submit, Outcome
  <2>2. c \in Commands /\ c.what = step /\ c.by = r.rev
    OBVIOUS
  <2> QED BY <2>1, <2>2 DEF Asks
<1>2. CASE ~accepted
  BY <1>2 DEF Submit, GivesUp, Outcome
<1> QED BY <1>1, <1>2

\* What a recovery's commands carry.
LEMMA CommandTyped ==
  ASSUME NEW by \in Nat \ {0}, NEW n \in Nat, NEW b \in BOOLEAN, NEW p \in Positions
  PROVE  /\ [what |-> "pause", arg |-> Flag(b), by |-> by] \in Commands
         /\ [what |-> "play", arg |-> n, by |-> by] \in Commands
         /\ [what |-> "seek", arg |-> p, by |-> by] \in Commands
<1>1. Flag(b) \in {0, 1}
  BY DEF Flag
<1> HIDE DEF Flag
<1> QED BY <1>1 DEF Commands

\* What tryRecoverPlayback() does is one of the moves of a recovery.
LEMMA TryRecoverMove ==
  ASSUME NEW r \in RecoveryState, NEW q, NEW accepted \in BOOLEAN, r.valid => r.rev > 0,
         playlist \in Seq(Entries)
  PROVE  Move(r, q, TryRecover(r, q, accepted))
<1> DEFINE o == TryRecover(r, q, accepted)
<1>1. CASE ~MayRecover(r, q)
  BY <1>1 DEF TryRecover, Outcome, Idles, Move
<1>2. CASE MayRecover(r, q)
  <2>1. r.rev \in Nat \ {0} /\ r.playback.paused \in BOOLEAN /\ r.playback.position \in Positions
    BY <1>2 DEF MayRecover, RecoveryState, PlaybackState
  <2>2. CASE r.playback.intent # sourceIntent \/ ~Contains(playlist, r.playback.entry)
    BY <1>2, <2>2 DEF TryRecover, Outcome, GivesUp, Move
  <2>3. CASE r.playback.intent = sourceIntent /\ Contains(playlist, r.playback.entry) /\ ~PauseObsolete(r)
    <3>1. o = Submit(r, q, "pause", Flag(r.playback.paused), accepted)
      BY <1>2, <2>3 DEF TryRecover
    <3>2. [what |-> "pause", arg |-> Flag(r.playback.paused), by |-> r.rev] \in Commands
      BY <2>1, CommandTyped
    <3>3. Asks("pause", r, q, o) \/ GivesUp(r, q, o)
      BY <3>1, <3>2, SubmitMove
    <3> QED BY <1>2, <3>3 DEF Move
  <2>4. CASE r.playback.intent = sourceIntent /\ Contains(playlist, r.playback.entry) /\ PauseObsolete(r)
    <3>1. o = Submit(Replaying(r), q, "play", Place(r.playback.entry, playlist), accepted)
      BY <1>2, <2>4 DEF TryRecover, Replaying
    <3>2. Place(r.playback.entry, playlist) \in Nat
      BY PlaceTyped
    <3>3. [what |-> "play", arg |-> Place(r.playback.entry, playlist), by |-> r.rev] \in Commands
      BY <2>1, <3>2, CommandTyped
    <3>4. Replaying(r).rev = r.rev
      BY ChangedRecovery
    <3>5. Asks("play", Replaying(r), q, o) \/ GivesUp(Replaying(r), q, o)
      BY <3>1, <3>3, <3>4, SubmitMove
    <3> QED BY <1>2, <2>4, <3>5 DEF Move
  <2> QED BY <2>2, <2>3, <2>4
<1> QED BY <1>1, <1>2

\* So is what tryRestorePosition() does, ...
LEMMA TryRestoreMove ==
  ASSUME NEW r \in RecoveryState, NEW q, NEW accepted \in BOOLEAN, r.valid => r.rev > 0
  PROVE  Move(r, q, TryRestore(r, q, accepted))
<1> DEFINE o == TryRestore(r, q, accepted)
<1>1. CASE ~MayRestore(r)
  BY <1>1 DEF TryRestore, Outcome, Idles, MayRestore, Move
<1>2. CASE MayRestore(r)
  <2>1. r.rev \in Nat \ {0} /\ r.playback.position \in Positions
    BY <1>2 DEF MayRestore, RecoveryState, PlaybackState
  <2>2. CASE r.playback.intent # sourceIntent \/ r.seekRev # seekRevision
    BY <1>2, <2>2 DEF TryRestore, MayRestore, Outcome, GivesUp, Move
  <2>3. CASE r.playback.intent = sourceIntent /\ r.seekRev = seekRevision
    <3>1. o = Submit(Seeking(r), q, "seek", r.playback.position, accepted)
      BY <1>2, <2>3 DEF TryRestore, Seeking, MayRestore
    <3>2. \A b \in BOOLEAN : [what |-> "seek", arg |-> r.playback.position, by |-> r.rev] \in Commands
      BY <2>1, CommandTyped
    <3>3. Seeking(r).rev = r.rev
      BY ChangedRecovery
    <3>4. Asks("seek", Seeking(r), q, o) \/ GivesUp(Seeking(r), q, o)
      BY <3>1, <3>2, <3>3, SubmitMove
    <3> QED BY <1>2, <3>4 DEF Move
  <2> QED BY <2>2, <2>3
<1> QED BY <1>1, <1>2

\* ... and nothing at all.
LEMMA IdleMove == ASSUME NEW r, NEW q PROVE Move(r, q, Outcome(r, q, <<>>))
BY DEF Move, Idles, Outcome

-----------------------------------------------------------------------------
(* The inductive invariant: a recovery and its request.                      *)

Request(r, step) == [rev |-> r.rev, step |-> step]

\* How far a recovery is goes with what is outstanding, ...
Progressing(r, q) ==
  /\ ~r.replaying => ~r.replayAck /\ Request(r, "play") \notin q /\ Request(r, "seek") \notin q
  /\ r.replaying /\ ~r.replayAck => q \subseteq {Request(r, "play")}
  /\ r.replayAck /\ ~r.seekSubmitted => q = {}
  /\ r.seekSubmitted => r.replayAck
\* ... and with what libmpv has done.
Acknowledged(r) ==
  /\ r.replayAck => Request(r, "play") \in done
  /\ r.pauseAck => Request(r, "pause") \in done \/ r.pauseRev # pauseRevision
  /\ r.replaying => r.pauseAck

\* A valid recovery is for the present source intent and a context lost under it.
Fits(r, q) ==
  /\ r \in RecoveryState /\ r.pauseRev <= pauseRevision
  /\ r.ready # 0 => r.ready > r.retired /\ r.ready <= generation
  /\ r.valid => /\ r.rev > 0 /\ r.playback.intent = sourceIntent /\ r.retired > barred
                /\ Progressing(r, q) /\ Acknowledged(r)

\* A context whose entry was played again is not recovered once more: its recovery,
\* while valid, has been replayed, and waits for libmpv to have done so.
Replayed(r, g) == r.valid /\ r.retired = g => r.replaying
InReplay(r, g) == r.valid /\ r.retired = g /\ ~r.replayAck

-----------------------------------------------------------------------------
(* The steps of a recovery keep it.                                          *)

\* A recovery given up fits whatever is outstanding.
LEMMA CancelledFits ==
  ASSUME NEW r, NEW q, NEW p, Fits(r, q)
  PROVE  Fits(Cancelled(r), p)
BY ChangedRecovery DEF Fits

\* No request is outstanding when one is asked for.
LEMMA NoneOutstanding ==
  ASSUME NEW r, NEW q, Fits(r, q), MayRecover(r, q) \/ MayRestore(r)
  PROVE  q = {} /\ r.valid
BY DEF MayRecover, MayRestore, Fits, Progressing

\* A move leaves a recovery that fits what is then outstanding.
LEMMA MoveFits ==
  ASSUME NEW r, NEW q, NEW o, Fits(r, q), Move(r, q, o)
  PROVE  Fits(o.recovery, o.requests)
<1>0. r \in RecoveryState
  BY DEF Fits
<1>1. CASE Idles(r, q, o)
  BY <1>1 DEF Idles
<1>2. Fits(Cancelled(r), q)
  BY CancelledFits
<1>3. ASSUME PauseObsolete(r), MayRecover(r, q)
      PROVE  /\ Fits(Replaying(r), {Request(r, "play")})
             /\ Fits(Cancelled(Replaying(r)), q)
  <2> DEFINE x == Replaying(r)
  <2>1. q = {} /\ r.valid /\ ~r.replaying
    BY <1>3, NoneOutstanding DEF MayRecover
  <2>2. /\ x \in RecoveryState /\ x.playback = r.playback /\ x.retired = r.retired /\ x.ready = r.ready
        /\ x.rev = r.rev /\ x.pauseRev = r.pauseRev /\ x.replayAck = r.replayAck /\ x.valid = r.valid
        /\ x.replaying /\ x.pauseAck /\ x.seekSubmitted = r.seekSubmitted
    BY <1>0, ChangedRecovery
  <2> HIDE DEF x
  <2>3. ~r.replayAck /\ ~r.seekSubmitted
    BY <2>1 DEF Fits, Progressing
  <2>4. Request(x, "play") = Request(r, "play") /\ Request(x, "pause") = Request(r, "pause")
    BY <2>2 DEF Request
  <2>5. Progressing(x, {Request(r, "play")})
    BY <2>2, <2>3, <2>4 DEF Progressing
  <2>6. r.pauseAck => Request(r, "pause") \in done \/ r.pauseRev # pauseRevision
    BY <2>1 DEF Fits, Acknowledged
  <2>7. Acknowledged(x)
    BY <1>3, <2>2, <2>3, <2>4, <2>6 DEF Acknowledged, PauseObsolete
  <2>8. Fits(x, {Request(r, "play")})
    BY <2>1, <2>2, <2>5, <2>7 DEF Fits
  <2>9. Fits(Cancelled(x), q)
    BY <2>8, CancelledFits
  <2> QED BY <2>8, <2>9 DEF x
<1>4. ASSUME MayRestore(r)
      PROVE  /\ Fits(Seeking(r), {Request(r, "seek")})
             /\ Fits(Cancelled(Seeking(r)), q)
  <2> DEFINE x == Seeking(r)
  <2>1. q = {} /\ r.valid /\ r.replaying /\ r.replayAck /\ r.pauseAck
    BY <1>4, NoneOutstanding DEF MayRestore
  <2>2. /\ x \in RecoveryState /\ x.playback = r.playback /\ x.retired = r.retired /\ x.ready = r.ready
        /\ x.rev = r.rev /\ x.pauseRev = r.pauseRev /\ x.replayAck = r.replayAck /\ x.valid = r.valid
        /\ x.replaying = r.replaying /\ x.pauseAck = r.pauseAck /\ x.seekSubmitted
    BY <1>0, ChangedRecovery
  <2> HIDE DEF x
  <2>4. Request(x, "play") = Request(r, "play") /\ Request(x, "pause") = Request(r, "pause")
    BY <2>2 DEF Request
  <2>5. Progressing(x, {Request(r, "seek")})
    BY <2>1, <2>2 DEF Progressing
  <2>7. Acknowledged(x)
    BY <2>1, <2>2, <2>4 DEF Acknowledged, Fits
  <2>8. Fits(x, {Request(r, "seek")})
    BY <2>1, <2>2, <2>5, <2>7 DEF Fits
  <2>9. Fits(Cancelled(x), q)
    BY <2>8, CancelledFits
  <2> QED BY <2>8, <2>9 DEF x
<1>5. ASSUME MayRecover(r, q)
      PROVE  Fits(r, {Request(r, "pause")})
  <2>1. q = {} /\ r.valid /\ ~r.replaying
    BY <1>5, NoneOutstanding DEF MayRecover
  <2>2. Request(r, "pause") # Request(r, "play") /\ Request(r, "pause") # Request(r, "seek")
    BY DEF Request
  <2>3. Progressing(r, {Request(r, "pause")})
    BY <2>1, <2>2 DEF Progressing, Fits
  <2> QED BY <2>3 DEF Fits
<1>6. CASE GivesUp(r, q, o) \/ GivesUp(Replaying(r), q, o) \/ GivesUp(Seeking(r), q, o)
  BY <1>2, <1>3, <1>4, <1>6, CancelledFits DEF GivesUp, Move, Idles, Asks
<1>7. CASE MayRecover(r, q) /\ Asks("pause", r, q, o)
  BY <1>5, <1>7, NoneOutstanding DEF Asks, Request
<1>8. CASE (MayRecover(r, q) /\ PauseObsolete(r)) /\ Asks("play", Replaying(r), q, o)
  <2>1. q = {} /\ o.recovery = Replaying(r) /\ o.requests = {Request(Replaying(r), "play")}
    BY <1>8, NoneOutstanding DEF Asks, Request
  <2>2. Replaying(r).rev = r.rev
    BY <1>0, ChangedRecovery
  <2> QED BY <1>3, <1>8, <2>1, <2>2 DEF Request
<1>9. CASE MayRestore(r) /\ Asks("seek", Seeking(r), q, o)
  <2>1. q = {} /\ o.recovery = Seeking(r) /\ o.requests = {Request(Seeking(r), "seek")}
    BY <1>9, NoneOutstanding DEF Asks, Request
  <2>2. Seeking(r).rev = r.rev
    BY <1>0, ChangedRecovery
  <2> QED BY <1>4, <1>9, <2>1, <2>2 DEF Request
<1> QED BY <1>1, <1>6, <1>7, <1>8, <1>9 DEF Move

\* What a step asks for, it asks for alone, and for the recovery as it is after it.
Alone(r, o) ==
  /\ r.valid /\ o.recovery.valid /\ o.recovery.retired = r.retired /\ o.recovery.ready = r.ready
  /\ o.recovery.rev = r.rev /\ o.recovery.terminated = r.terminated /\ o.recovery.rev # 0
  /\ \E c \in Commands :
       /\ c.by = o.recovery.rev /\ o.commands = <<c>>
       /\ o.requests = {[rev |-> c.by, step |-> c.what]}
       /\ c.what = "play" => ~r.replaying /\ r.ready # 0 /\ r.terminated /\ o.recovery.replaying
                             /\ ~o.recovery.replayAck
\* A move asks for nothing, or for one step alone.
LEMMA MoveAsks ==
  ASSUME NEW r, NEW q, NEW o, Fits(r, q), Move(r, q, o)
  PROVE  \/ o.requests = q /\ o.commands = <<>>
         \/ q = {} /\ Alone(r, o)
<1>0. r \in RecoveryState /\ r.rev \in Nat
  BY DEF Fits, RecoveryState
<1>1. CASE o.requests = q /\ o.commands = <<>>
  BY <1>1
<1>2. CASE MayRecover(r, q) /\ Asks("pause", r, q, o)
  <2>1. q = {} /\ r.valid /\ r.rev # 0
    BY <1>0, <1>2, NoneOutstanding DEF Fits
  <2> QED BY <1>2, <2>1 DEF Asks, Alone
<1>3. CASE (MayRecover(r, q) /\ PauseObsolete(r)) /\ Asks("play", Replaying(r), q, o)
  <2>1. q = {} /\ r.valid /\ r.rev # 0 /\ ~r.replaying /\ r.ready # 0 /\ r.terminated /\ ~r.replayAck
    BY <1>0, <1>3, NoneOutstanding DEF Fits, MayRecover, Progressing
  <2> DEFINE x == Replaying(r)
  <2>2. /\ x.retired = r.retired /\ x.ready = r.ready /\ x.rev = r.rev /\ x.terminated = r.terminated
        /\ x.replayAck = r.replayAck /\ x.valid = r.valid /\ x.replaying
    BY <1>0, ChangedRecovery
  <2> HIDE DEF x
  <2>3. Asks("play", x, q, o)
    BY <1>3 DEF x
  <2> QED BY <2>1, <2>2, <2>3 DEF Asks, Alone
<1>4. CASE MayRestore(r) /\ Asks("seek", Seeking(r), q, o)
  <2>1. q = {} /\ r.valid /\ r.rev # 0
    BY <1>0, <1>4, NoneOutstanding DEF Fits
  <2> DEFINE x == Seeking(r)
  <2>2. /\ x.retired = r.retired /\ x.ready = r.ready /\ x.rev = r.rev /\ x.terminated = r.terminated
        /\ x.valid = r.valid
    BY <1>0, ChangedRecovery
  <2> HIDE DEF x
  <2>3. Asks("seek", x, q, o)
    BY <1>4 DEF x
  <2> QED BY <2>1, <2>2, <2>3 DEF Asks, Alone
<1> QED BY <1>1, <1>2, <1>3, <1>4 DEF Move, Idles, GivesUp

\* A step leaves alone what names a recovery.
LEMMA MoveNames ==
  ASSUME NEW r \in RecoveryState, NEW q, NEW o, Move(r, q, o)
  PROVE  o.recovery.rev = r.rev /\ o.recovery.retired = r.retired /\ o.recovery.ready = r.ready
<1> DEFINE x == Replaying(r)
           y == Seeking(r)
<1>1. /\ x \in RecoveryState /\ x.rev = r.rev /\ x.retired = r.retired /\ x.ready = r.ready
      /\ y \in RecoveryState /\ y.rev = r.rev /\ y.retired = r.retired /\ y.ready = r.ready
  BY ChangedRecovery
<1>2. o.recovery \in {r, x, y, Cancelled(r), Cancelled(x), Cancelled(y)}
  BY DEF Move, Idles, GivesUp, Asks
<1> HIDE DEF x, y
<1>3. \A z \in {r, x, y} : Cancelled(z).rev = z.rev /\ Cancelled(z).retired = z.retired /\ Cancelled(z).ready = z.ready
  BY <1>1, ChangedRecovery
<1> QED BY <1>1, <1>2, <1>3

\* A step keeps what is known of the replays of a lost context.
LEMMA MoveReplay ==
  ASSUME NEW r, NEW q, NEW o, NEW g, Fits(r, q), Move(r, q, o), Replayed(r, g)
  PROVE  Replayed(o.recovery, g) /\ (InReplay(r, g) => InReplay(o.recovery, g))
<1>0. r \in RecoveryState
  BY DEF Fits
<1> DEFINE x == Replaying(r)
           y == Seeking(r)
<1>1. /\ x \in RecoveryState /\ x.retired = r.retired /\ x.valid = r.valid /\ x.replaying
      /\ y \in RecoveryState /\ y.retired = r.retired /\ y.valid = r.valid /\ y.replaying = r.replaying
      /\ ~Cancelled(r).valid
  BY <1>0, ChangedRecovery
<1>2. ~Cancelled(x).valid /\ ~Cancelled(y).valid
  BY <1>1, ChangedRecovery
<1>3. InReplay(r, g) => ~MayRecover(r, q) /\ ~MayRestore(r)
  BY DEF InReplay, Replayed, MayRecover, MayRestore
<1>4. Move(r, q, o) =>
        \/ o.recovery = r
        \/ (MayRecover(r, q) \/ MayRestore(r)) /\ o.recovery \in {Cancelled(r), Cancelled(x), Cancelled(y), x}
        \/ MayRestore(r) /\ o.recovery = y
  BY DEF Move, Idles, GivesUp, Asks
<1> HIDE DEF x, y
<1> QED BY <1>1, <1>2, <1>3, <1>4 DEF Replayed, InReplay, MayRestore

-----------------------------------------------------------------------------
(* The inductive invariant: commands and events.                             *)

\* The request outstanding is one command or one reply.
Matched(q, cs, es) ==
  /\ \A x, y \in q : x = y
  /\ \A n \in DOMAIN cs : cs[n].by # 0 => [rev |-> cs[n].by, step |-> cs[n].what] \in q
  /\ \A n \in DOMAIN es : es[n].type = "reply" => es[n].request \in q
  /\ \A m, n \in DOMAIN cs : cs[m].by # 0 /\ cs[n].by # 0 => m = n
  /\ \A m, n \in DOMAIN es : es[m].type = "reply" /\ es[n].type = "reply" => m = n
  /\ \A m \in DOMAIN cs, n \in DOMAIN es : ~(cs[m].by # 0 /\ es[n].type = "reply")

\* What a reply says was done was done.
Truthful(es, d) == \A n \in DOMAIN es : es[n].type = "reply" /\ es[n].ok => es[n].request \in d

\* No end of a file for lack of a context is left among events, or behind the
\* reply to a replay.
VoEnd(e) == e.type = "end" /\ e.vo
NoLossAfter(es, k) == \A n \in DOMAIN es : n > k => ~VoEnd(es[n])
NoLossBehindReplay(es) ==
  \A k \in DOMAIN es : es[k].type = "reply" /\ es[k].request.step = "play" => NoLossAfter(es, k)

-----------------------------------------------------------------------------
(* Steps of the queues keep it.                                              *)

\* One command of the user more.
LEMMA PostMatched ==
  ASSUME NEW C, NEW cs \in Seq(C), NEW q, NEW es, NEW c \in C, c.by = 0, Matched(q, cs, es)
  PROVE  Matched(q, Append(cs, c), es)
BY AppendSeq DEF Matched

\* One request of a recovery more, when none is outstanding.
LEMMA AskMatched ==
  ASSUME NEW C, NEW cs \in Seq(C), NEW es, NEW c \in C, Matched({}, cs, es)
  PROVE  Matched({[rev |-> c.by, step |-> c.what]}, cs \o <<c>>, es)
<1> DEFINE t == Append(cs, c)
           x == [rev |-> c.by, step |-> c.what]
<1>1. /\ cs \o <<c>> = t /\ DOMAIN t = 1 .. Len(cs) + 1 /\ Len(cs) \in Nat /\ DOMAIN cs = 1 .. Len(cs)
      /\ \A n \in DOMAIN cs : t[n] = cs[n]
      /\ t[Len(cs) + 1] = c
  BY AppendSeq
<1> HIDE DEF t
<1>2. (\A n \in DOMAIN cs : cs[n].by = 0) /\ \A n \in DOMAIN es : es[n].type # "reply"
  BY DEF Matched
<1>3. \A n \in DOMAIN t : t[n].by # 0 => n = Len(cs) + 1
  BY <1>1, <1>2
<1> HIDE DEF x
<1>4. Matched({x}, t, es)
  BY <1>1, <1>2, <1>3 DEF Matched, x
<1> QED BY <1>1, <1>4 DEF x

\* The first command is run, and answered if it is of a recovery.
LEMMA RunMatched ==
  ASSUME NEW C, NEW cs \in Seq(C), cs # <<>>, NEW q, NEW E, NEW es \in Seq(E), Matched(q, cs, es)
  PROVE  /\ Matched(q, Tail(cs), es)
         /\ \A e \in E : /\ e.type = "reply" /\ Head(cs).by # 0
                         /\ e.request = [rev |-> Head(cs).by, step |-> Head(cs).what]
                         => Matched(q, Tail(cs), Append(es, e))
<1> DEFINE t == Tail(cs)
<1>1. /\ Head(cs) = cs[1] /\ 1 \in DOMAIN cs
      /\ \A n \in DOMAIN t : n + 1 \in DOMAIN cs /\ t[n] = cs[n + 1]
      /\ \A n \in DOMAIN cs : n \in Nat /\ n >= 1
  BY TailSeq
<1>2. \A n \in DOMAIN t : n \in Nat /\ n >= 1 /\ n + 1 # 1
  <2>1. t \in Seq(C)
    BY TailSeq
  <2> QED BY <2>1
<1> HIDE DEF t
<1>3. Matched(q, t, es)
  BY <1>1, <1>2 DEF Matched
<1>4. ASSUME NEW e \in E, e.type = "reply", cs[1].by # 0, e.request = [rev |-> cs[1].by, step |-> cs[1].what]
      PROVE  Matched(q, t, Append(es, e))
  <2> DEFINE u == Append(es, e)
  <2>1. /\ DOMAIN u = 1 .. Len(es) + 1 /\ Len(es) \in Nat /\ DOMAIN es = 1 .. Len(es)
        /\ \A n \in DOMAIN es : u[n] = es[n]
        /\ u[Len(es) + 1] = e
    BY AppendSeq
  <2> HIDE DEF u
  <2>2. \A n \in DOMAIN t : t[n].by = 0
    BY <1>1, <1>2, <1>4 DEF Matched
  <2>3. \A n \in DOMAIN es : es[n].type # "reply"
    BY <1>1, <1>4 DEF Matched
  <2>4. e.request \in q
    BY <1>1, <1>4 DEF Matched
  <2>5. \A n \in DOMAIN u : u[n].type = "reply" => n = Len(es) + 1
    BY <2>1, <2>3
  <2> QED BY <2>1, <2>2, <2>4, <2>5, <1>3 DEF Matched, u
<1> QED BY <1>1, <1>3, <1>4 DEF t

\* One event more that is no reply.
LEMMA ReportMatched ==
  ASSUME NEW E, NEW es \in Seq(E), NEW q, NEW cs, NEW e \in E, e.type # "reply", Matched(q, cs, es)
  PROVE  Matched(q, cs, Append(es, e)) /\ Matched(q, <<>>, Append(es, e))
BY AppendSeq DEF Matched

\* The first event is taken.
LEMMA TakeMatched ==
  ASSUME NEW E, NEW es \in Seq(E), es # <<>>, NEW q, NEW cs, Matched(q, cs, es)
  PROVE  /\ Head(es).type # "reply" => Matched(q, cs, Tail(es))
         /\ Head(es).type = "reply" => Head(es).request \in q /\ q \ {Head(es).request} = {}
                                       /\ Matched({}, cs, Tail(es))
<1> DEFINE t == Tail(es)
<1>1. /\ Head(es) = es[1] /\ 1 \in DOMAIN es
      /\ \A n \in DOMAIN t : n + 1 \in DOMAIN es /\ t[n] = es[n + 1]
  BY TailSeq
<1>2. \A n \in DOMAIN t : n \in Nat /\ n >= 1 /\ n + 1 # 1
  <2>1. t \in Seq(E)
    BY TailSeq
  <2> QED BY <2>1
<1> HIDE DEF t
<1>3. Matched(q, cs, t)
  BY <1>1, <1>2 DEF Matched
<1>4. ASSUME es[1].type = "reply"
      PROVE  es[1].request \in q /\ q \ {es[1].request} = {} /\ Matched({}, cs, t)
  <2>1. es[1].request \in q /\ \A x \in q : x = es[1].request
    BY <1>1, <1>4 DEF Matched
  <2>2. (\A n \in DOMAIN t : t[n].type # "reply") /\ \A n \in DOMAIN cs : cs[n].by = 0
    BY <1>1, <1>2, <1>4 DEF Matched
  <2>3. Matched({}, cs, t)
    BY <2>2, <1>3 DEF Matched
  <2> QED BY <2>1, <2>3
<1> QED BY <1>1, <1>3, <1>4 DEF t

\* One event more.
LEMMA ReportKeeps ==
  ASSUME NEW E, NEW es \in Seq(E), NEW e \in E, NEW d
  PROVE  /\ Truthful(es, d) /\ (e.type = "reply" /\ e.ok => e.request \in d) => Truthful(Append(es, e), d)
         /\ NoLossAfter(es, 0) /\ ~VoEnd(e) => NoLossAfter(Append(es, e), 0)
         /\ NoLossBehindReplay(es) /\ ~VoEnd(e) => NoLossBehindReplay(Append(es, e))
<1> DEFINE u == Append(es, e)
<1>1. /\ DOMAIN u = 1 .. Len(es) + 1 /\ Len(es) \in Nat /\ DOMAIN es = 1 .. Len(es)
      /\ \A n \in DOMAIN es : u[n] = es[n]
      /\ u[Len(es) + 1] = e
  BY AppendSeq
<1> HIDE DEF u
<1>2. Truthful(es, d) /\ (e.type = "reply" /\ e.ok => e.request \in d) => Truthful(u, d)
  BY <1>1 DEF Truthful
<1>3. NoLossAfter(es, 0) /\ ~VoEnd(e) => NoLossAfter(u, 0)
  BY <1>1 DEF NoLossAfter
<1>4. NoLossBehindReplay(es) /\ ~VoEnd(e) => NoLossBehindReplay(u)
  BY <1>1 DEF NoLossAfter, NoLossBehindReplay
<1> QED BY <1>2, <1>3, <1>4 DEF u

\* One event less.
LEMMA TakeKeeps ==
  ASSUME NEW E, NEW es \in Seq(E), es # <<>>, NEW d
  PROVE  /\ Truthful(es, d) => Truthful(Tail(es), d)
         /\ NoLossAfter(es, 0) => NoLossAfter(Tail(es), 0) /\ ~VoEnd(Head(es))
         /\ NoLossBehindReplay(es) =>
              /\ NoLossBehindReplay(Tail(es))
              /\ Head(es).type = "reply" /\ Head(es).request.step = "play" => NoLossAfter(Tail(es), 0)
<1> DEFINE t == Tail(es)
<1>1. /\ Head(es) = es[1] /\ 1 \in DOMAIN es
      /\ \A n \in DOMAIN t : n + 1 \in DOMAIN es /\ t[n] = es[n + 1]
  BY TailSeq
<1>2. \A n \in DOMAIN t : n \in Nat /\ n >= 1
  <2>1. t \in Seq(E)
    BY TailSeq
  <2> QED BY <2>1
<1> HIDE DEF t
<1>3. Truthful(es, d) => Truthful(t, d)
  BY <1>1 DEF Truthful
<1>4. NoLossAfter(es, 0) => NoLossAfter(t, 0) /\ ~VoEnd(es[1])
  BY <1>1, <1>2 DEF NoLossAfter
<1>5. ASSUME NoLossBehindReplay(es)
      PROVE  NoLossBehindReplay(t) /\ (es[1].type = "reply" /\ es[1].request.step = "play" => NoLossAfter(t, 0))
  <2>1. ASSUME NEW k \in DOMAIN t, t[k].type = "reply", t[k].request.step = "play"
        PROVE  NoLossAfter(t, k)
    <3>1. NoLossAfter(es, k + 1)
      BY <1>1, <1>5, <2>1 DEF NoLossBehindReplay
    <3> QED BY <1>1, <1>2, <3>1 DEF NoLossAfter
  <2>2. ASSUME es[1].type = "reply", es[1].request.step = "play" PROVE NoLossAfter(t, 0)
    <3>1. NoLossAfter(es, 1)
      BY <1>1, <1>5, <2>2 DEF NoLossBehindReplay
    <3> QED BY <1>1, <1>2, <3>1 DEF NoLossAfter
  <2> QED BY <2>1, <2>2 DEF NoLossBehindReplay
<1> QED BY <1>1, <1>3, <1>4, <1>5 DEF t

-----------------------------------------------------------------------------
(* The inductive invariant: contexts, notices and replays.                   *)

\* No intent is newer than the present one. The marker has the newest context lost;
\* those lost under the present intent are newer than those barred.
RenderInv ==
  /\ synced <= sourceIntent /\ marker.intent <= sourceIntent
  /\ barred <= generation /\ (context => barred < generation)
  /\ IF context THEN marker.generation < generation ELSE marker.generation = generation
  /\ marker.generation # 0 /\ marker.intent = sourceIntent => marker.generation > barred

\* Notices come in the order of contexts, the retirement of one before the readiness
\* of the next.
IsLoss(notice) == notice.type = "retiring"
NoticeInv ==
  /\ \A n \in DOMAIN notices :
       /\ notices[n].generation <= generation
       /\ IsLoss(notices[n]) => /\ notices[n].intent <= sourceIntent
                                /\ notices[n].generation <= marker.generation
                                /\ notices[n].intent = sourceIntent => notices[n].generation > barred
  /\ \A m, n \in DOMAIN notices :
       m < n /\ IsLoss(notices[n]) => notices[m].generation <= notices[n].generation

\* The losses that are still to be told are of contexts g or newer ones.
LossesFrom(list, g) == \A n \in DOMAIN list : IsLoss(list[n]) => list[n].generation >= g
ReadyInv == recovery.ready # 0 => LossesFrom(notices, recovery.ready)

\* Snapshots are not newer than the user's last word.
SnapshotInv == playback.pauseRev <= pauseRevision /\ terminated.pauseRev <= pauseRevision

\* A context whose entry was played again is older than the newest, and its loss is
\* not told again, by a notice or by an event of libmpv.
Plays(old) == old.step = "play"
Over(es, g) ==
  marker.generation # g \/ marker.intent # sourceIntent \/ ~available \/ NoLossAfter(es, 0)
Settles(r, es, g) ==
  /\ Replayed(r, g)
  /\ InReplay(r, g) \/ Over(es, g)
  /\ marker.generation # g \/ NoLossBehindReplay(es)
PlayedInv == \A old \in sent : Plays(old) => Settles(recovery, events, old.renderer)
OlderInv == \A old \in sent : Plays(old) =>
              old.renderer < generation /\ LossesFrom(notices, old.renderer + 1)

IInv ==
  /\ TypeOK /\ RenderInv /\ NoticeInv /\ ReadyInv /\ SnapshotInv
  /\ Fits(recovery, requests) /\ Matched(requests, commands, events) /\ Truthful(events, done)
  /\ OlderInv /\ PlayedInv

-----------------------------------------------------------------------------
(* Handlers that go on with a recovery.                                      *)

\* A handler has changed the recovery to r and the requests to q, and goes on with it.
GoesOn(r, q, o) == Apply(o) /\ Move(r, q, o)
Kept == UNCHANGED <<available, sourceIntent, marker, generation, barred, pauseRevision, done, scenario>>

\* The recovery a handler leaves fits its requests, and is the one it went on with.
LEMMA GoesOnFits ==
  ASSUME NEW r, NEW q, NEW o, GoesOn(r, q, o), Fits(r, q)
  PROVE  /\ Fits(o.recovery, o.requests) /\ o.recovery.rev = r.rev /\ o.recovery.retired = r.retired
         /\ o.recovery.ready = r.ready
         /\ \/ o.requests = q /\ o.commands = <<>>
            \/ q = {} /\ Alone(r, o)
<1>1. r \in RecoveryState
  BY DEF Fits
<1> QED BY <1>1, MoveFits, MoveAsks, MoveNames DEF GoesOn

\* What is sent is sent for the recovery under way.
LEMMA SentGrows ==
  ASSUME NEW r, NEW q, NEW o, GoesOn(r, q, o), Fits(r, q), q \subseteq requests,
         NEW old \in sent', old \notin sent
  PROVE  /\ q = {} /\ Alone(r, o) /\ old.renderer = r.retired
         /\ \E x \in o.requests \ requests : old = [renderer |-> r.retired, rev |-> x.rev, step |-> x.step]
<1>1. PICK x \in o.requests \ requests :
        old = [renderer |-> o.recovery.retired, rev |-> x.rev, step |-> x.step]
  BY DEF GoesOn, Apply
<1>2. o.recovery.retired = r.retired /\ (o.requests = q \/ (q = {} /\ Alone(r, o)))
  BY GoesOnFits
<1> QED BY <1>1, <1>2

\* What a handler that goes on leaves is matched, and replays are settled.
LEMMA GoesOnKeeps ==
  ASSUME NEW r, NEW q, NEW o, GoesOn(r, q, o), Kept, Fits(r, q), q \subseteq requests,
         commands \in Seq(Commands), Matched(q, commands, events'), events' \in Seq(Events),
         \A old \in sent : Plays(old) => Settles(r, events', old.renderer)
  PROVE  /\ Fits(recovery, requests)' /\ Matched(requests', commands', events')
         /\ PlayedInv'
<1>0. SameSets
  BY ScenarioFixed DEF Kept
<1>1. recovery' = o.recovery /\ requests' = o.requests /\ commands' = commands \o o.commands
  BY DEF GoesOn, Apply
<1>2. /\ Fits(o.recovery, o.requests) /\ o.recovery.retired = r.retired
      /\ \/ o.requests = q /\ o.commands = <<>>
         \/ q = {} /\ Alone(r, o)
  BY GoesOnFits
<1>3. Fits(recovery, requests)'
  BY <1>0, <1>1, <1>2 DEF Fits, Progressing, Acknowledged, Request, Kept, SameSets
<1>4. Matched(requests', commands', events')
  <2>1. CASE o.requests = q /\ o.commands = <<>>
    <3>1. commands \o <<>> = commands
      OBVIOUS
    <3> QED BY <1>1, <2>1, <3>1
  <2>2. CASE q = {} /\ Alone(r, o)
    <3>1. PICK c \in Commands : o.commands = <<c>> /\ o.requests = {[rev |-> c.by, step |-> c.what]}
      BY <2>2 DEF Alone
    <3> QED BY <1>1, <2>2, <3>1, AskMatched
  <2> QED BY <1>2, <2>1, <2>2
<1>5. ASSUME NEW old \in sent', Plays(old)
      PROVE  Settles(o.recovery, events', old.renderer)
  <2> DEFINE g == old.renderer
  <2>1. CASE old \in sent
    <3>1. Settles(r, events', g)
      BY <1>5, <2>1
    <3> QED BY <3>1, MoveReplay DEF Settles, GoesOn
  <2>2. CASE old \notin sent
    <3>1. q = {} /\ Alone(r, o) /\ g = r.retired
      BY <2>2, SentGrows
    <3>2. PICK c \in Commands : /\ o.requests = {[rev |-> c.by, step |-> c.what]}
                                /\ c.what = "play" => o.recovery.replaying /\ ~o.recovery.replayAck
      BY <3>1 DEF Alone
    <3>3. PICK x \in o.requests : old.step = x.step
      BY <2>2, SentGrows
    <3>4. c.what = "play"
      BY <1>5, <3>2, <3>3 DEF Plays
    <3>5. o.recovery.valid /\ o.recovery.retired = g /\ o.recovery.replaying /\ ~o.recovery.replayAck
      BY <3>1, <3>2, <3>4 DEF Alone
    <3>6. NoLossBehindReplay(events')
      BY <3>1 DEF Matched, NoLossBehindReplay
    <3> QED BY <3>5, <3>6 DEF Settles, Replayed, InReplay
  <2> QED BY <2>1, <2>2
<1>6. PlayedInv'
  <2> SUFFICES ASSUME NEW old \in sent', Plays(old)
               PROVE  Settles(recovery, events, old.renderer)'
    BY DEF PlayedInv, Plays
  <2>1. Settles(o.recovery, events', old.renderer)
    BY <1>5
  <2> QED BY <1>1, <2>1 DEF Settles, Replayed, InReplay, Over, NoLossAfter, NoLossBehindReplay, VoEnd, Kept
<1> QED BY <1>3, <1>4, <1>6

\* What a handler that goes on leaves keeps its types.
LEMMA GoesOnTyped ==
  ASSUME NEW r, NEW q, NEW o, GoesOn(r, q, o), Fits(r, q), q \subseteq requests, SameSets, TypeOK,
         NEW R \in Nat, r.rev <= R, recoveryRevision <= R
  PROVE  /\ recovery' \in RecoveryState' /\ recovery'.rev <= R
         /\ requests' \subseteq [rev : 1 .. R, step : Steps]
         /\ sent' \subseteq [renderer : Contexts', rev : Nat, step : Steps]
         /\ commands' \in Seq(Commands')
<1>0. /\ requests \subseteq [rev : 1 .. recoveryRevision, step : Steps] /\ recoveryRevision \in Nat
      /\ sent \subseteq [renderer : Contexts, rev : Nat, step : Steps] /\ commands \in Seq(Commands)
  BY DEF TypeOK
<1>1. recovery' = o.recovery /\ requests' = o.requests /\ commands' = commands \o o.commands
  BY DEF GoesOn, Apply
<1>2. /\ Fits(o.recovery, o.requests) /\ o.recovery.retired = r.retired /\ o.recovery.rev = r.rev
      /\ \/ o.requests = q /\ o.commands = <<>>
         \/ q = {} /\ Alone(r, o)
  BY GoesOnFits
<1>3. o.recovery \in RecoveryState /\ o.recovery.rev \in Nat /\ o.recovery.retired \in Contexts
  BY <1>2 DEF Fits, RecoveryState
<1>4. ASSUME Alone(r, o)
      PROVE  \E c \in Commands : /\ o.commands = <<c>> /\ o.requests = {[rev |-> c.by, step |-> c.what]}
                                 /\ c.by \in 1 .. R /\ c.what \in Steps
  <2>1. PICK c \in Commands : /\ o.commands = <<c>> /\ o.requests = {[rev |-> c.by, step |-> c.what]}
                              /\ c.by = o.recovery.rev /\ c.by # 0
    BY <1>4 DEF Alone
  <2>2. c.what \in Steps
    BY <2>1 DEF Commands, Steps
  <2> QED BY <1>2, <1>3, <2>1, <2>2
<1>5. requests' \subseteq [rev : 1 .. R, step : Steps]
  BY <1>0, <1>1, <1>2, <1>4
<1>6. commands' \in Seq(Commands)
  <2>1. commands \o <<>> = commands /\ \A c \in Commands : commands \o <<c>> \in Seq(Commands)
    BY <1>0
  <2>2. CASE o.commands = <<>>
    BY <1>0, <1>1, <2>1, <2>2
  <2>3. CASE Alone(r, o)
    <3>1. PICK c \in Commands : o.commands = <<c>>
      BY <1>4, <2>3
    <3>2. commands' = commands \o <<c>>
      BY <1>1, <3>1
    <3> QED BY <2>1, <3>2
  <2> QED BY <1>2, <2>2, <2>3
<1>7. ASSUME NEW old \in sent' PROVE old \in [renderer : Contexts, rev : Nat, step : Steps]
  <2>1. CASE old \in sent BY <1>0, <2>1
  <2>2. CASE old \notin sent
    <3>1. PICK x \in o.requests \ requests : old = [renderer |-> r.retired, rev |-> x.rev, step |-> x.step]
      BY <2>2, SentGrows
    <3>2. x \in [rev : 1 .. R, step : Steps]
      BY <1>1, <1>5, <3>1
    <3> QED BY <1>2, <1>3, <3>1, <3>2
  <2> QED BY <2>1, <2>2
<1> QED BY <1>1, <1>2, <1>3, <1>5, <1>6, <1>7 DEF SameSets

\* A replay is sent for a context older than the newest, whose loss has been told.
LEMMA GoesOnOlder ==
  ASSUME NEW r, NEW q, NEW o, GoesOn(r, q, o), Fits(r, q), q \subseteq requests, SameSets, TypeOK,
         generation' = generation, OlderInv, r.ready # 0 => LossesFrom(notices', r.ready),
         \A g \in Nat : LossesFrom(notices, g) => LossesFrom(notices', g), notices' \in Seq(Notices)
  PROVE  OlderInv' /\ (recovery'.ready # 0 => LossesFrom(notices', recovery'.ready))
<1>1. recovery' = o.recovery /\ o.recovery.ready = r.ready
  BY GoesOnFits DEF GoesOn, Apply
<1>2. ASSUME NEW old \in sent', Plays(old)
      PROVE  old.renderer < generation /\ LossesFrom(notices', old.renderer + 1)
  <2>1. CASE old \in sent
    <3>1. old.renderer < generation /\ LossesFrom(notices, old.renderer + 1)
      BY <1>2, <2>1 DEF OlderInv
    <3>2. old.renderer + 1 \in Nat
      <4>1. old.renderer \in Nat
        BY <2>1, Bounds DEF TypeOK
      <4> QED BY <4>1
    <3> QED BY <3>1, <3>2
  <2>2. CASE old \notin sent
    <3>1. q = {} /\ Alone(r, o) /\ old.renderer = r.retired
      BY <2>2, SentGrows
    <3>2. PICK x \in o.requests : old.step = x.step
      BY <2>2, SentGrows
    <3>3. PICK c \in Commands : /\ o.requests = {[rev |-> c.by, step |-> c.what]}
                                /\ c.what = "play" => r.ready # 0
      BY <3>1 DEF Alone
    <3>4. r.ready # 0
      BY <1>2, <3>2, <3>3 DEF Plays
    <3>5. r.ready > r.retired /\ r.ready <= generation /\ r.ready \in Nat /\ r.retired \in Nat
      <4>1. Contexts \subseteq Nat
        BY Bounds DEF TypeOK
      <4> QED BY <3>4, <4>1 DEF Fits, RecoveryState
    <3>6. generation \in Nat
      BY Bounds DEF TypeOK
    <3>7. ASSUME NEW n \in DOMAIN notices', IsLoss(notices'[n]) PROVE notices'[n].generation >= r.retired + 1
      <4>1. notices'[n].generation >= r.ready
        BY <3>4, <3>7 DEF LossesFrom
      <4>2. notices'[n] \in Notices
        BY <3>7
      <4>3. notices'[n].generation \in Nat
        BY <4>2, Bounds DEF Notices, TypeOK
      <4> QED BY <3>5, <4>1, <4>3
    <3> QED BY <3>1, <3>5, <3>6, <3>7 DEF LossesFrom
  <2> QED BY <2>1, <2>2
<1>3. OlderInv'
  BY <1>2 DEF OlderInv, Plays, LossesFrom, IsLoss
<1> QED BY <1>1, <1>3

-----------------------------------------------------------------------------
(* A new recovery.                                                           *)

\* renderContextRetiring() leaves the recovery or replaces it.
NewRecovery(r, g) ==
  /\ available /\ g # 0 /\ ~(recovery.valid /\ recovery.retired = g)
  /\ r \in RecoveryState /\ r.valid /\ r.retired = g /\ r.ready = 0 /\ r.rev = recoveryRevision + 1
  /\ r.playback.intent = sourceIntent /\ r.pauseRev <= pauseRevision
  /\ ~r.replaying /\ ~r.replayAck /\ ~r.pauseAck /\ ~r.seekSubmitted
\* It replaces it for a loss under the present source intent.
LEMMA ClassifiedRecovery ==
  ASSUME TypeOK, SnapshotInv, recovery.valid => recovery.playback.intent = sourceIntent,
         NEW g \in Contexts, NEW i \in Nat, NEW r, r = Classified(g, i, recovery), r # recovery
  PROVE  NewRecovery(r, g) /\ i = sourceIntent
<1> DEFINE snapshot == IF playback.loaded THEN playback ELSE terminated
           sought == seekIntent.valid /\ seekIntent.renderer = g
                       /\ seekIntent.intent = i /\ seekIntent.rev = seekRevision
           shot == IF sought THEN [snapshot EXCEPT !.position = seekIntent.position] ELSE snapshot
           seekRev == IF sought THEN seekIntent.rev ELSE snapshot.seekRev
           ended == terminationVo /\ terminated.entry = snapshot.entry /\ terminated.intent = i
<1>1. /\ available /\ g # 0 /\ i = sourceIntent /\ snapshot.intent = i
      /\ ~(recovery.valid /\ recovery.retired = g /\ recovery.playback.intent = i)
      /\ r = [NoRecovery EXCEPT !.playback = shot, !.retired = g, !.rev = recoveryRevision + 1,
                !.valid = TRUE, !.pauseRev = snapshot.pauseRev, !.seekRev = seekRev, !.terminated = ended]
  BY DEF Classified
<1>2. snapshot \in PlaybackState /\ snapshot.pauseRev <= pauseRevision
  BY DEF TypeOK, SnapshotInv
<1>3. seekIntent.position \in Positions /\ seekIntent.rev \in Revisions /\ terminationVo \in BOOLEAN
      /\ recoveryRevision \in Nat
  BY DEF TypeOK, SeekIntents
<1> HIDE DEF snapshot, sought
<1>4. shot \in PlaybackState /\ shot.intent = i
  BY <1>1, <1>2, <1>3 DEF PlaybackState
<1>5. seekRev \in Revisions /\ snapshot.pauseRev \in Revisions
  BY <1>2, <1>3 DEF PlaybackState
<1>6. ended \in BOOLEAN
  BY <1>3
<1> HIDE DEF shot, seekRev, ended
<1>7. 0 \in Revisions /\ 0 \in Contexts /\ 0 \in Positions
  BY Bounds DEF TypeOK
<1>8. NoPlayback \in PlaybackState
  BY <1>7 DEF NoPlayback, PlaybackState, None
<1>9. NoRecovery \in RecoveryState
  BY <1>7, <1>8 DEF NoRecovery, RecoveryState
<1> DEFINE pauseRev == snapshot.pauseRev
           rev == recoveryRevision + 1
<1>10. rev \in Nat /\ pauseRev \in Revisions
  BY <1>3, <1>5
<1>11. r = [NoRecovery EXCEPT !.playback = shot, !.retired = g, !.rev = rev, !.valid = TRUE,
                     !.pauseRev = pauseRev, !.seekRev = seekRev, !.terminated = ended]
  BY <1>1
<1> HIDE DEF pauseRev, rev
<1>12. /\ NoRecovery.ready = 0 /\ ~NoRecovery.replaying /\ ~NoRecovery.replayAck
       /\ ~NoRecovery.pauseAck /\ ~NoRecovery.seekSubmitted
  BY DEF NoRecovery
<1>13. r \in RecoveryState
  BY <1>4, <1>5, <1>6, <1>9, <1>10, <1>11 DEF RecoveryState
<1>14. r.valid /\ r.retired = g /\ r.rev = rev /\ r.playback = shot /\ r.pauseRev = pauseRev
  BY <1>9, <1>11 DEF RecoveryState
<1>15. r.ready = 0 /\ ~r.replaying /\ ~r.replayAck /\ ~r.pauseAck /\ ~r.seekSubmitted
  BY <1>9, <1>11, <1>12 DEF RecoveryState
<1>16. ~(recovery.valid /\ recovery.retired = g)
  BY <1>1
<1> QED BY <1>1, <1>2, <1>4, <1>13, <1>14, <1>15, <1>16 DEF NewRecovery, pauseRev, rev

\* It fits any requests, which are those of older recoveries.
LEMMA NewFits ==
  ASSUME TypeOK, NEW r, NEW g, NewRecovery(r, g), g > barred, NEW q, q \subseteq requests
  PROVE  Fits(r, q)
<1>1. requests \subseteq [rev : 1 .. recoveryRevision, step : Steps] /\ recoveryRevision \in Nat
  BY DEF TypeOK
<1>2. \A x \in q : x.rev # r.rev
  BY <1>1 DEF NewRecovery
<1>3. Progressing(r, q)
  BY <1>2 DEF NewRecovery, Progressing, Request
<1> QED BY <1>1, <1>3 DEF NewRecovery, Fits, Acknowledged

-----------------------------------------------------------------------------
(* The handlers of recovery keep the invariant.                              *)

\* What the invariant says of the recovery, its requests and the queues.
QueuesTyped ==
  /\ recovery \in RecoveryState /\ recoveryRevision \in Nat /\ recovery.rev <= recoveryRevision
  /\ requests \subseteq [rev : 1 .. recoveryRevision, step : Steps]
  /\ sent \subseteq [renderer : Contexts, rev : Nat, step : Steps]
  /\ commands \in Seq(Commands) /\ events \in Seq(Events) /\ notices \in Seq(Notices)
CoreInv ==
  /\ QueuesTyped /\ ReadyInv /\ OlderInv /\ PlayedInv
  /\ Fits(recovery, requests) /\ Matched(requests, commands, events) /\ Truthful(events, done)

\* What a step that submits a request of recovery is about.
AsksSoundly ==
  /\ requests' \ requests # {} => recovery'.retired > barred
  /\ Submitted("play") # {} =>
       /\ \A old \in sent : Plays(old) => old.renderer # recovery'.retired
       /\ recovery'.ready > recovery'.retired /\ recovery'.terminated

\* A handler that goes on keeps the invariant, and submits soundly.
LEMMA GoesOnCore ==
  ASSUME IInv, NEW r, NEW q, NEW o, GoesOn(r, q, o), Kept, Fits(r, q), q \subseteq requests,
         recoveryRevision' \in Nat, recoveryRevision <= recoveryRevision', r.rev <= recoveryRevision',
         events' \in Seq(Events), Truthful(events', done), Matched(q, commands, events'),
         \A old \in sent : Plays(old) => Settles(r, events', old.renderer),
         notices' \in Seq(Notices), r.ready # 0 => LossesFrom(notices', r.ready),
         \A g \in Nat : LossesFrom(notices, g) => LossesFrom(notices', g)
  PROVE  CoreInv' /\ AsksSoundly
<1>0. SameSets /\ UNCHANGED <<done, generation>>
  BY ScenarioFixed DEF Kept
<1>1. TypeOK /\ OlderInv /\ commands \in Seq(Commands)
  BY DEF IInv, TypeOK
<1>2. Fits(recovery, requests)' /\ Matched(requests', commands', events') /\ PlayedInv'
  BY <1>1, GoesOnKeeps
<1>3. OlderInv' /\ ReadyInv'
  <2>1. OlderInv' /\ (recovery'.ready # 0 => LossesFrom(notices', recovery'.ready))
    BY <1>0, <1>1, GoesOnOlder
  <2> QED BY <2>1 DEF ReadyInv, LossesFrom, IsLoss
<1>4. QueuesTyped'
  <2> DEFINE R == recoveryRevision'
  <2>1. R \in Nat /\ r.rev <= R /\ recoveryRevision <= R
    OBVIOUS
  <2> HIDE DEF R
  <2>2. /\ recovery' \in RecoveryState' /\ recovery'.rev <= R
        /\ requests' \subseteq [rev : 1 .. R, step : Steps]
        /\ sent' \subseteq [renderer : Contexts', rev : Nat, step : Steps]
        /\ commands' \in Seq(Commands')
    BY <1>0, <1>1, <2>1, GoesOnTyped
  <2>3. events' \in Seq(Events') /\ notices' \in Seq(Notices') /\ Steps' = Steps
    BY <1>0 DEF SameSets, Steps
  <2> QED BY <2>1, <2>2, <2>3 DEF R, QueuesTyped
<1>5. Truthful(events, done)'
  BY <1>0 DEF Truthful
<1>6. Matched(requests, commands, events)'
  BY <1>2 DEF Matched
<1>7. AsksSoundly
  <2>1. recovery' = o.recovery /\ requests' = o.requests /\ Fits(o.recovery, o.requests)
        /\ (o.requests \ requests = {} \/ Alone(r, o))
    <3>1. recovery' = o.recovery /\ requests' = o.requests
      BY DEF GoesOn, Apply
    <3>2. Fits(o.recovery, o.requests) /\ (o.requests = q \/ Alone(r, o))
      BY GoesOnFits
    <3>3. o.requests = q => o.requests \ requests = {}
      OBVIOUS
    <3> QED BY <3>1, <3>2, <3>3
  <2>2. CASE o.requests \ requests = {}
    BY <2>1, <2>2 DEF AsksSoundly, Submitted
  <2>3. CASE Alone(r, o)
    <3>1. recovery'.retired > barred
      BY <2>1, <2>3 DEF Alone, Fits
    <3>2. ASSUME Submitted("play") # {}
          PROVE  ~r.replaying /\ r.ready # 0 /\ r.terminated
      <4>1. PICK c \in Commands :
              /\ o.requests = {[rev |-> c.by, step |-> c.what]}
              /\ c.what = "play" => ~r.replaying /\ r.ready # 0 /\ r.terminated
        BY <2>3 DEF Alone
      <4>2. c.what = "play"
        BY <2>1, <3>2, <4>1 DEF Submitted
      <4> QED BY <4>1, <4>2
    <3>3. o.recovery.retired = r.retired /\ o.recovery.ready = r.ready /\ o.recovery.terminated = r.terminated /\ r.valid
      BY <2>3 DEF Alone
    <3>4. r.ready # 0 => r.ready > r.retired
      BY DEF Fits
    <3>5. ASSUME NEW old \in sent, Plays(old), ~r.replaying PROVE old.renderer # r.retired
      BY <3>3, <3>5 DEF Settles, Replayed
    <3> QED BY <2>1, <3>1, <3>2, <3>3, <3>4, <3>5 DEF AsksSoundly
  <2> QED BY <2>1, <2>2, <2>3
<1> QED BY <1>2, <1>3, <1>4, <1>5, <1>6, <1>7 DEF CoreInv

\* Losses that are still to be told, after the first notice has been.
LEMMA TailLosses ==
  ASSUME NEW S, NEW s \in Seq(S), s # <<>>
  PROVE  /\ \A g \in Nat : LossesFrom(s, g) => LossesFrom(Tail(s), g)
         /\ (\A m, n \in DOMAIN s : m < n /\ IsLoss(s[n]) => s[m].generation <= s[n].generation)
            /\ (\A n \in DOMAIN s : s[n].generation \in Nat)
            => LossesFrom(Tail(s), Head(s).generation)
<1> DEFINE t == Tail(s)
<1>1. /\ Head(s) = s[1] /\ 1 \in DOMAIN s
      /\ \A n \in DOMAIN t : n + 1 \in DOMAIN s /\ t[n] = s[n + 1]
  BY TailSeq
<1>2. \A n \in DOMAIN t : n \in Nat /\ n >= 1
  <2>1. t \in Seq(S)
    BY TailSeq
  <2> QED BY <2>1
<1> HIDE DEF t
<1>3. \A g \in Nat : LossesFrom(s, g) => LossesFrom(t, g)
  BY <1>1 DEF LossesFrom
<1>4. ASSUME \A m, n \in DOMAIN s : m < n /\ IsLoss(s[n]) => s[m].generation <= s[n].generation,
             \A n \in DOMAIN s : s[n].generation \in Nat
      PROVE  LossesFrom(t, s[1].generation)
  BY <1>1, <1>2, <1>4 DEF LossesFrom
<1> QED BY <1>1, <1>3, <1>4 DEF t

\* What the next event leaves behind.
LEMMA TailSettles ==
  ASSUME NEW r, NEW g, events \in Seq(Events), events # <<>>, Settles(r, events, g)
  PROVE  Settles(r, Tail(events), g)
<1> DEFINE t == Tail(events)
<1>1. /\ NoLossAfter(events, 0) => NoLossAfter(t, 0)
      /\ NoLossBehindReplay(events) => NoLossBehindReplay(t)
  BY TakeKeeps
<1> HIDE DEF t
<1> QED BY <1>1 DEF Settles, Over, t

\* Records of recoveries, noted to have come further.
Noting(r, g) == [r EXCEPT !.ready = g]
Loaded(r, b) == [r EXCEPT !.fileLoaded = b]
Ended(r)      == [r EXCEPT !.terminated = TRUE]
PauseDone(r)  == [r EXCEPT !.pauseAck = TRUE]
ReplayDone(r) == [r EXCEPT !.replayAck = TRUE]

\* A recovery noted to have come further fits as before.
LEMMA NotedFits ==
  ASSUME NEW r, NEW q, Fits(r, q)
  PROVE  /\ \A g \in Contexts : g > r.retired /\ g <= generation => Fits(Noting(r, g), q)
         /\ \A b \in BOOLEAN : Fits(Loaded(r, b), q)
         /\ Fits(Ended(r), q)
         /\ (r.valid => Request(r, "pause") \in done) => Fits(PauseDone(r), q)
         /\ (r.valid => r.replaying /\ Request(r, "play") \in done) => Fits(ReplayDone(r), {})
<1>0. r \in RecoveryState
  BY DEF Fits
<1> DEFINE Same(x) ==
      /\ x.playback = r.playback /\ x.retired = r.retired /\ x.rev = r.rev
      /\ x.pauseRev = r.pauseRev /\ x.valid = r.valid /\ x.replaying = r.replaying
      /\ x.seekSubmitted = r.seekSubmitted
<1>1. ASSUME NEW x \in RecoveryState, Same(x), x.ready = r.ready, x.replayAck = r.replayAck, x.pauseAck = r.pauseAck
      PROVE  Fits(x, q)
  BY <1>1 DEF Fits, Progressing, Acknowledged, Request
<1>2. ASSUME NEW g \in Contexts, g > r.retired, g <= generation PROVE Fits(Noting(r, g), q)
  <2> DEFINE x == Noting(r, g)
  <2>1. x \in RecoveryState /\ Same(x) /\ x.ready = g /\ x.replayAck = r.replayAck /\ x.pauseAck = r.pauseAck
    BY <1>0 DEF RecoveryState, Noting
  <2> HIDE DEF x
  <2>2. Fits(x, q)
    BY <1>2, <2>1 DEF Fits, Progressing, Acknowledged, Request
  <2> QED BY <2>2 DEF x
<1>3. ASSUME NEW b \in BOOLEAN PROVE Fits(Loaded(r, b), q)
  <2> DEFINE x == Loaded(r, b)
  <2>1. x \in RecoveryState /\ Same(x) /\ x.ready = r.ready /\ x.replayAck = r.replayAck /\ x.pauseAck = r.pauseAck
    BY <1>0 DEF RecoveryState, Loaded
  <2> HIDE DEF x
  <2> QED BY <1>1, <2>1 DEF x
<1>4. Fits(Ended(r), q)
  <2> DEFINE x == Ended(r)
  <2>1. x \in RecoveryState /\ Same(x) /\ x.ready = r.ready /\ x.replayAck = r.replayAck /\ x.pauseAck = r.pauseAck
    BY <1>0 DEF RecoveryState, Ended
  <2> HIDE DEF x
  <2> QED BY <1>1, <2>1 DEF x
<1>5. ASSUME r.valid => Request(r, "pause") \in done PROVE Fits(PauseDone(r), q)
  <2> DEFINE x == PauseDone(r)
  <2>1. x \in RecoveryState /\ Same(x) /\ x.ready = r.ready /\ x.replayAck = r.replayAck /\ x.pauseAck
    BY <1>0 DEF RecoveryState, PauseDone
  <2> HIDE DEF x
  <2>2. Fits(x, q)
    BY <1>5, <2>1 DEF Fits, Progressing, Acknowledged, Request
  <2> QED BY <2>2 DEF x
<1>6. ASSUME r.valid => r.replaying /\ Request(r, "play") \in done PROVE Fits(ReplayDone(r), {})
  <2> DEFINE x == ReplayDone(r)
  <2>1. x \in RecoveryState /\ Same(x) /\ x.ready = r.ready /\ x.replayAck /\ x.pauseAck = r.pauseAck
    BY <1>0 DEF RecoveryState, ReplayDone
  <2> HIDE DEF x
  <2>2. Fits(x, {})
    BY <1>6, <2>1 DEF Fits, Progressing, Acknowledged, Request
  <2> QED BY <2>2 DEF x
<1> QED BY <1>2, <1>3, <1>4, <1>5, <1>6

\* Nor does it change what is known of replays.
LEMMA NotedSettles ==
  ASSUME NEW r \in RecoveryState, NEW es, NEW g, Settles(r, es, g)
  PROVE  /\ \A n \in Contexts : Settles(Noting(r, n), es, g)
         /\ \A b \in BOOLEAN : Settles(Loaded(r, b), es, g)
         /\ Settles(Ended(r), es, g) /\ Settles(PauseDone(r), es, g)
         /\ Over(es, g) => Settles(ReplayDone(r), es, g) /\ Settles(Cancelled(r), es, g)
         /\ (r.valid => r.retired # g) => Settles(Cancelled(r), es, g)
<1>1. ASSUME NEW x, x.valid = r.valid, x.retired = r.retired, x.replaying = r.replaying,
             x.replayAck = r.replayAck \/ Over(es, g)
      PROVE  Settles(x, es, g)
  BY <1>1 DEF Settles, Replayed, InReplay
<1>2. \A n \in Contexts : Settles(Noting(r, n), es, g)
  <2> SUFFICES ASSUME NEW n \in Contexts PROVE Settles(Noting(r, n), es, g)
    OBVIOUS
  <2>1. /\ Noting(r, n).valid = r.valid /\ Noting(r, n).retired = r.retired
        /\ Noting(r, n).replaying = r.replaying /\ Noting(r, n).replayAck = r.replayAck
    BY DEF Noting, RecoveryState
  <2> QED BY <1>1, <2>1
<1>3. \A b \in BOOLEAN : Settles(Loaded(r, b), es, g)
  <2> SUFFICES ASSUME NEW b \in BOOLEAN PROVE Settles(Loaded(r, b), es, g)
    OBVIOUS
  <2>1. /\ Loaded(r, b).valid = r.valid /\ Loaded(r, b).retired = r.retired
        /\ Loaded(r, b).replaying = r.replaying /\ Loaded(r, b).replayAck = r.replayAck
    BY DEF Loaded, RecoveryState
  <2> QED BY <1>1, <2>1
<1>4. Settles(Ended(r), es, g)
  <2>1. /\ Ended(r).valid = r.valid /\ Ended(r).retired = r.retired
        /\ Ended(r).replaying = r.replaying /\ Ended(r).replayAck = r.replayAck
    BY DEF Ended, RecoveryState
  <2> QED BY <1>1, <2>1
<1>5. Settles(PauseDone(r), es, g)
  <2>1. /\ PauseDone(r).valid = r.valid /\ PauseDone(r).retired = r.retired
        /\ PauseDone(r).replaying = r.replaying /\ PauseDone(r).replayAck = r.replayAck
    BY DEF PauseDone, RecoveryState
  <2> QED BY <1>1, <2>1
<1>6. Over(es, g) => Settles(ReplayDone(r), es, g)
  <2>1. /\ ReplayDone(r).valid = r.valid /\ ReplayDone(r).retired = r.retired
        /\ ReplayDone(r).replaying = r.replaying
    BY DEF ReplayDone, RecoveryState
  <2> QED BY <1>1, <2>1
<1>7. ~Cancelled(r).valid
  BY ChangedRecovery
<1>8. Over(es, g) \/ (r.valid => r.retired # g) => Settles(Cancelled(r), es, g)
  BY <1>7 DEF Settles, Replayed, InReplay
<1> QED BY <1>2, <1>3, <1>4, <1>5, <1>6, <1>8

\* renderContextReady()
LEMMA ReadyCore ==
  ASSUME IInv, scenario' = scenario, RenderContextReady
  PROVE  CoreInv' /\ AsksSoundly
<1> DEFINE g == Head(notices).generation
           r == IF recovery.valid /\ g > recovery.retired THEN Noting(recovery, g) ELSE recovery
<1>1. /\ TypeOK /\ NoticeInv /\ ReadyInv /\ Fits(recovery, requests) /\ Matched(requests, commands, events)
      /\ Truthful(events, done) /\ PlayedInv
  BY DEF IInv
<1>2. /\ recovery \in RecoveryState /\ notices \in Seq(Notices) /\ events \in Seq(Events)
      /\ playlist \in Seq(Entries) /\ recoveryRevision \in Nat /\ recovery.rev <= recoveryRevision
  BY <1>1 DEF TypeOK
<1>3. notices # <<>> /\ Head(notices).type = "ready" /\ notices' = Tail(notices)
      /\ events' = events /\ recoveryRevision' = recoveryRevision /\ Kept
  BY DEF RenderContextReady, NextNotice, Kept, rendererVars, intentVars, historyVars
<1>4. /\ Tail(notices) \in Seq(Notices) /\ Head(notices) \in Notices /\ Head(notices) = notices[1] /\ 1 \in DOMAIN notices
  BY <1>2, <1>3, TailSeq
<1>5. g \in Generations /\ g <= generation /\ g \in Contexts
  <2>1. g \in Generations
    BY <1>4 DEF Notices
  <2>2. notices[1].generation <= generation
    BY <1>1, <1>4 DEF NoticeInv
  <2> QED BY <1>1, <1>4, <2>1, <2>2, Bounds DEF TypeOK
<1>6. \A n \in DOMAIN notices : notices[n].generation \in Nat
  <2>1. Generations \subseteq Nat
    BY <1>1, Bounds DEF TypeOK
  <2> QED BY <1>2, <2>1 DEF Notices
<1>7. /\ \A h \in Nat : LossesFrom(notices, h) => LossesFrom(notices', h)
      /\ LossesFrom(notices', g)
  <2>1. \A m, n \in DOMAIN notices : m < n /\ IsLoss(notices[n]) => notices[m].generation <= notices[n].generation
    BY <1>1 DEF NoticeInv
  <2> QED BY <1>2, <1>3, <1>6, <2>1, TailLosses
<1> HIDE DEF g
<1>8. PICK accepted \in BOOLEAN :
        Apply(IF recovery.valid /\ g > recovery.retired
              THEN TryRecover([recovery EXCEPT !.ready = g], requests, accepted)
              ELSE Outcome(recovery, requests, <<>>))
  BY DEF RenderContextReady, MayBeAccepted, g
<1>9. r \in RecoveryState /\ r.rev = recovery.rev /\ (r.ready = g \/ r.ready = recovery.ready) /\ Fits(r, requests)
  <2>1. /\ Noting(recovery, g) \in RecoveryState /\ Noting(recovery, g).rev = recovery.rev
        /\ Noting(recovery, g).ready = g
    BY <1>2, <1>5 DEF Noting, RecoveryState
  <2>2. g > recovery.retired => Fits(Noting(recovery, g), requests)
    BY <1>1, <1>5, NotedFits
  <2> QED BY <1>1, <1>2, <2>1, <2>2
<1>10. ASSUME NEW old \in sent, Plays(old) PROVE Settles(r, events, old.renderer)
  <2>1. Settles(recovery, events, old.renderer)
    BY <1>1, <1>10 DEF PlayedInv
  <2> QED BY <1>2, <1>5, <2>1, NotedSettles
<1>11. \E o : GoesOn(r, requests, o)
  <2>1. CASE recovery.valid /\ g > recovery.retired
    <3>1. r = Noting(recovery, g) /\ r = [recovery EXCEPT !.ready = g]
      BY <2>1 DEF Noting
    <3>2. Apply(TryRecover(r, requests, accepted))
      BY <1>8, <2>1, <3>1
    <3>3. r.valid => r.rev > 0
      BY <1>9 DEF Fits
    <3> HIDE DEF r
    <3>4. Move(r, requests, TryRecover(r, requests, accepted))
      BY <1>2, <1>9, <3>3, TryRecoverMove
    <3> QED BY <3>2, <3>4 DEF GoesOn
  <2>2. CASE ~(recovery.valid /\ g > recovery.retired)
    <3>1. r = recovery /\ Apply(Outcome(r, requests, <<>>))
      BY <1>8, <2>2
    <3> QED BY <3>1, IdleMove DEF GoesOn
  <2> QED BY <2>1, <2>2
<1>12. r.ready # 0 => LossesFrom(notices', r.ready)
  <2>1. recovery.ready # 0 => LossesFrom(notices, recovery.ready)
    BY <1>1 DEF ReadyInv
  <2>2. recovery.ready \in Nat
    <3>1. Contexts \subseteq Nat
      BY <1>1, Bounds DEF TypeOK
    <3> QED BY <1>2, <3>1 DEF RecoveryState
  <2> QED BY <1>7, <1>9, <2>1, <2>2
<1> HIDE DEF r
<1>13. PICK o : GoesOn(r, requests, o)
  BY <1>11
<1>14. notices' \in Seq(Notices) /\ events' \in Seq(Events) /\ Truthful(events', done)
       /\ Matched(requests, commands, events')
       /\ recoveryRevision' \in Nat /\ recoveryRevision <= recoveryRevision' /\ r.rev <= recoveryRevision'
  BY <1>1, <1>2, <1>3, <1>4, <1>9
<1>15. \A old \in sent : Plays(old) => Settles(r, events', old.renderer)
  BY <1>3, <1>10
<1> QED BY <1>3, <1>7, <1>9, <1>12, <1>13, <1>14, <1>15, GoesOnCore

\* MPV_EVENT_FILE_LOADED
LEMMA LoadedCore ==
  ASSUME IInv, scenario' = scenario, FileLoaded
  PROVE  CoreInv' /\ AsksSoundly
<1>1. /\ TypeOK /\ ReadyInv /\ Fits(recovery, requests) /\ Matched(requests, commands, events)
      /\ Truthful(events, done) /\ PlayedInv
  BY DEF IInv
<1>2. /\ recovery \in RecoveryState /\ notices \in Seq(Notices) /\ events \in Seq(Events)
      /\ recoveryRevision \in Nat /\ recovery.rev <= recoveryRevision
  BY <1>1 DEF TypeOK
<1>3. events # <<>> /\ Head(events).type = "loaded" /\ events' = Tail(events)
      /\ notices' = notices /\ recoveryRevision' = recoveryRevision /\ Kept
  BY DEF FileLoaded, NextEvent, Kept, rendererVars, intentVars, historyVars
<1>4. PICK b \in BOOLEAN, accepted \in BOOLEAN : Apply(TryRestore(Loaded(recovery, b), requests, accepted))
  <2> DEFINE b == (recovery.valid /\ recovery.replaying /\ playback.entry = recovery.playback.entry)
                  \/ recovery.fileLoaded
  <2>1. b \in BOOLEAN
    BY <1>2 DEF RecoveryState
  <2>2. Loaded(recovery, b) = [recovery EXCEPT !.fileLoaded =
            (recovery.valid /\ recovery.replaying /\ playback.entry = recovery.playback.entry) \/ @]
    BY DEF Loaded
  <2>3. PICK accepted \in BOOLEAN : Apply(TryRestore(Loaded(recovery, b), requests, accepted))
    BY <2>2 DEF FileLoaded, MayBeAccepted
  <2> QED BY <2>1, <2>3
<1> DEFINE r == Loaded(recovery, b)
<1>5. r \in RecoveryState /\ r.rev = recovery.rev /\ r.ready = recovery.ready /\ Fits(r, requests)
  <2>1. r \in RecoveryState /\ r.rev = recovery.rev /\ r.ready = recovery.ready
    BY <1>2 DEF Loaded, RecoveryState
  <2> QED BY <1>1, <2>1, NotedFits
<1>6. Tail(events) \in Seq(Events) /\ Matched(requests, commands, Tail(events)) /\ Truthful(Tail(events), done)
  <2>1. Head(events).type # "reply"
    BY <1>3
  <2> QED BY <1>1, <1>2, <1>3, <2>1, TailSeq, TakeMatched, TakeKeeps
<1>7. ASSUME NEW old \in sent, Plays(old) PROVE Settles(r, Tail(events), old.renderer)
  <2>1. Settles(recovery, Tail(events), old.renderer)
    BY <1>1, <1>2, <1>3, <1>7, TailSettles DEF PlayedInv
  <2> QED BY <1>2, <2>1, NotedSettles
<1> HIDE DEF r
<1>8. PICK o : GoesOn(r, requests, o)
  <2>1. r.valid => r.rev > 0
    BY <1>5 DEF Fits
  <2>2. Move(r, requests, TryRestore(r, requests, accepted))
    BY <1>5, <2>1, TryRestoreMove
  <2> QED BY <1>4, <2>2 DEF GoesOn, r
<1>9. r.ready # 0 => LossesFrom(notices', r.ready)
  BY <1>1, <1>3, <1>5 DEF ReadyInv
<1>10. /\ notices' \in Seq(Notices) /\ events' \in Seq(Events) /\ Truthful(events', done)
       /\ Matched(requests, commands, events')
       /\ recoveryRevision' \in Nat /\ recoveryRevision <= recoveryRevision' /\ r.rev <= recoveryRevision'
       /\ \A old \in sent : Plays(old) => Settles(r, events', old.renderer)
       /\ \A g \in Nat : LossesFrom(notices, g) => LossesFrom(notices', g)
  BY <1>1, <1>2, <1>3, <1>5, <1>6, <1>7
<1> QED BY <1>3, <1>5, <1>8, <1>9, <1>10, GoesOnCore

\* A handler that asks for nothing.
LEMMA AsksNothing ==
  ASSUME NEW r, recovery' = r, UNCHANGED <<requests, commands, sent>>, commands \in Seq(Commands)
  PROVE  GoesOn(r, requests, Outcome(r, requests, <<>>))
<1>1. commands \o <<>> = commands
  OBVIOUS
<1>2. Apply(Outcome(r, requests, <<>>))
  BY <1>1 DEF Apply, Outcome
<1> QED BY <1>2, IdleMove DEF GoesOn

\* renderContextRetiring()
LEMMA RetiringCore ==
  ASSUME IInv, scenario' = scenario, RenderContextRetiring
  PROVE  CoreInv' /\ AsksSoundly
<1> DEFINE g == Head(notices).generation
           i == Head(notices).intent
           r == Classified(g, i, recovery)
<1>1. /\ TypeOK /\ NoticeInv /\ ReadyInv /\ Fits(recovery, requests) /\ Matched(requests, commands, events)
      /\ Truthful(events, done) /\ PlayedInv /\ OlderInv /\ SnapshotInv
  BY DEF IInv
<1>2. /\ recovery \in RecoveryState /\ notices \in Seq(Notices) /\ events \in Seq(Events)
      /\ recoveryRevision \in Nat /\ recovery.rev <= recoveryRevision /\ commands \in Seq(Commands)
      /\ marker.generation \in Nat /\ barred \in Nat
  BY <1>1, Bounds DEF TypeOK
<1>3. notices # <<>> /\ Head(notices).type = "retiring" /\ notices' = Tail(notices)
      /\ events' = events /\ Kept /\ recovery' = r /\ UNCHANGED <<requests, commands, sent>>
      /\ recoveryRevision' = IF recovery' # recovery THEN recoveryRevision + 1 ELSE recoveryRevision
  BY DEF RenderContextRetiring, NextNotice, Kept, rendererVars, intentVars, historyVars
<1>4. /\ Tail(notices) \in Seq(Notices) /\ Head(notices) \in Notices /\ Head(notices) = notices[1] /\ 1 \in DOMAIN notices
  BY <1>2, <1>3, TailSeq
<1>5. g \in Generations /\ g \in Contexts /\ g \in Nat /\ i \in Nat
  <2>1. g \in Generations /\ i \in Nat
    BY <1>3, <1>4 DEF Notices
  <2> QED BY <1>1, <2>1, Bounds DEF TypeOK
<1>6. g <= marker.generation /\ (i = sourceIntent => g > barred)
  BY <1>1, <1>3, <1>4 DEF NoticeInv, IsLoss
<1>7. \A h \in Nat : LossesFrom(notices, h) => LossesFrom(notices', h)
  BY <1>2, <1>3, TailLosses
<1>8. r # recovery => NewRecovery(r, g) /\ i = sourceIntent
  <2>1. recovery.valid => recovery.playback.intent = sourceIntent
    BY <1>1 DEF Fits
  <2> HIDE DEF g, i
  <2> QED BY <1>1, <1>5, <2>1, ClassifiedRecovery
<1> HIDE DEF r
<1>9. Fits(r, requests) /\ r.rev <= recoveryRevision' /\ recoveryRevision' \in Nat /\ recoveryRevision <= recoveryRevision'
  <2>1. CASE r = recovery
    BY <1>1, <1>2, <1>3, <2>1
  <2>2. CASE r # recovery
    <3>1. Fits(r, requests)
      BY <1>1, <1>6, <1>8, <2>2, NewFits
    <3>2. r.rev = recoveryRevision + 1 /\ recoveryRevision' = recoveryRevision + 1
      BY <1>3, <1>8, <2>2 DEF NewRecovery
    <3> QED BY <1>2, <3>1, <3>2
  <2> QED BY <2>1, <2>2
<1>10. ASSUME NEW old \in sent, Plays(old) PROVE Settles(r, events, old.renderer)
  <2>1. CASE r = recovery
    BY <1>1, <1>10, <2>1 DEF PlayedInv
  <2>2. CASE r # recovery
    <3>1. r.retired = g /\ r.valid
      BY <1>8, <2>2 DEF NewRecovery
    <3>2. LossesFrom(notices, old.renderer + 1)
      BY <1>1, <1>10 DEF OlderInv
    <3>3. g >= old.renderer + 1
      BY <1>3, <1>4, <3>2 DEF LossesFrom, IsLoss
    <3>4. old.renderer \in Nat
      BY <1>1, Bounds DEF TypeOK
    <3>5. g # old.renderer /\ marker.generation # old.renderer
      BY <1>2, <1>5, <1>6, <3>3, <3>4
    <3> QED BY <3>1, <3>5 DEF Settles, Replayed, Over
  <2> QED BY <2>1, <2>2
<1>11. r.ready # 0 => LossesFrom(notices', r.ready)
  <2>1. CASE r = recovery
    <3>1. recovery.ready \in Nat
      <4>1. Contexts \subseteq Nat
        BY <1>1, Bounds DEF TypeOK
      <4> QED BY <1>2, <4>1 DEF RecoveryState
    <3> QED BY <1>1, <1>7, <2>1, <3>1 DEF ReadyInv
  <2>2. CASE r # recovery
    BY <1>8, <2>2 DEF NewRecovery
  <2> QED BY <2>1, <2>2
<1>12. GoesOn(r, requests, Outcome(r, requests, <<>>))
  BY <1>2, <1>3, AsksNothing
<1>13. /\ notices' \in Seq(Notices) /\ events' \in Seq(Events) /\ Truthful(events', done)
       /\ Matched(requests, commands, events')
       /\ \A old \in sent : Plays(old) => Settles(r, events', old.renderer)
  BY <1>1, <1>2, <1>3, <1>4, <1>10
<1> QED BY <1>3, <1>7, <1>9, <1>11, <1>12, <1>13, GoesOnCore

\* MPV_EVENT_END_FILE
LEMMA EndCore ==
  ASSUME IInv, scenario' = scenario, EndFile
  PROVE  CoreInv' /\ AsksSoundly
<1> DEFINE vo == Head(events).vo
           lost == RetiringContext(playback.intent)
           x == IF vo /\ playback.loaded /\ lost # 0
                THEN Classified(lost, playback.intent, recovery) ELSE recovery
           last == IF playback.loaded THEN playback ELSE terminated
           hit  == x.valid /\ vo /\ x.playback.entry = last.entry /\ x.playback.intent = last.intent
           r == IF hit THEN Ended(x) ELSE x
<1>1. /\ TypeOK /\ RenderInv /\ ReadyInv /\ Fits(recovery, requests) /\ Matched(requests, commands, events)
      /\ Truthful(events, done) /\ PlayedInv /\ SnapshotInv
  BY DEF IInv
<1>2. /\ recovery \in RecoveryState /\ notices \in Seq(Notices) /\ events \in Seq(Events)
      /\ recoveryRevision \in Nat /\ recovery.rev <= recoveryRevision /\ playlist \in Seq(Entries)
      /\ playback \in PlaybackState
  BY <1>1 DEF TypeOK
<1>3. events # <<>> /\ Head(events).type = "end" /\ events' = Tail(events) /\ available
      /\ notices' = notices /\ Kept
      /\ recoveryRevision' = IF x # recovery THEN recoveryRevision + 1 ELSE recoveryRevision
  BY DEF EndFile, NextEvent, Kept, rendererVars, intentVars, historyVars
<1>4. PICK accepted \in BOOLEAN : Apply(IF hit THEN TryRecover(Ended(x), requests, accepted)
                                        ELSE Outcome(x, requests, <<>>))
  BY DEF EndFile, MayBeAccepted, Ended
<1>5. lost \in Contexts /\ (lost # 0 => lost = marker.generation /\ marker.intent = playback.intent)
  BY <1>1, MarkerTyped DEF RetiringContext
<1>6. ASSUME x # recovery
      PROVE  NewRecovery(x, lost) /\ playback.intent = sourceIntent /\ lost > barred /\ vo
  <2>1. vo /\ lost # 0 /\ x = Classified(lost, playback.intent, recovery)
    BY <1>6
  <2>2. recovery.valid => recovery.playback.intent = sourceIntent
    BY <1>1 DEF Fits
  <2>3. playback.intent \in Nat
    BY <1>2 DEF PlaybackState
  <2> HIDE DEF lost, x, vo
  <2>4. NewRecovery(x, lost) /\ playback.intent = sourceIntent
    BY <1>1, <1>5, <1>6, <2>1, <2>2, <2>3, ClassifiedRecovery
  <2> QED BY <1>1, <1>5, <2>1, <2>4 DEF RenderInv
<1>7. 1 \in DOMAIN events /\ Head(events) = events[1]
  BY <1>2, <1>3, TailSeq
<1>8. vo => ~NoLossAfter(events, 0)
  BY <1>3, <1>7 DEF NoLossAfter, VoEnd
<1> HIDE DEF vo, lost
<1>9. Fits(x, requests) /\ x.rev <= recoveryRevision' /\ recoveryRevision' \in Nat /\ recoveryRevision <= recoveryRevision'
      /\ (x.ready # 0 => LossesFrom(notices', x.ready))
  <2>1. CASE x = recovery
    <3> HIDE DEF x
    <3> QED BY <1>1, <1>2, <1>3, <2>1 DEF ReadyInv
  <2>2. CASE x # recovery
    <3> HIDE DEF x
    <3>1. Fits(x, requests)
      BY <1>1, <1>6, <2>2, NewFits
    <3>2. x.rev = recoveryRevision + 1 /\ recoveryRevision' = recoveryRevision + 1 /\ x.ready = 0
      BY <1>3, <1>6, <2>2 DEF NewRecovery
    <3> QED BY <1>2, <3>1, <3>2
  <2> QED BY <2>1, <2>2
<1>10. ASSUME NEW old \in sent, Plays(old) PROVE Settles(x, Tail(events), old.renderer)
  <2>0. Settles(recovery, events, old.renderer)
    BY <1>1, <1>10 DEF PlayedInv
  <2>1. CASE x = recovery
    BY <1>2, <1>3, <2>0, <2>1, TailSettles
  <2>2. CASE x # recovery
    <3> HIDE DEF x
    <3>1. x.retired = lost /\ lost # 0 /\ ~(recovery.valid /\ recovery.retired = lost)
      BY <1>6, <2>2 DEF NewRecovery
    <3>2. marker.generation = lost /\ marker.intent = sourceIntent
      BY <1>5, <1>6, <2>2, <3>1
    <3>3. lost # old.renderer
      BY <1>3, <1>6, <1>8, <2>0, <2>2, <3>1, <3>2 DEF Settles, Over, InReplay
    <3> QED BY <3>1, <3>2, <3>3 DEF Settles, Replayed, Over
  <2> QED BY <2>1, <2>2
<1>11. x \in RecoveryState
  BY <1>9 DEF Fits
<1> HIDE DEF x
<1>12. r \in RecoveryState /\ r.rev = x.rev /\ r.ready = x.ready /\ Fits(r, requests)
  <2>1. Ended(x) \in RecoveryState /\ Ended(x).rev = x.rev /\ Ended(x).ready = x.ready
    BY <1>11 DEF Ended, RecoveryState
  <2>2. Fits(Ended(x), requests)
    BY <1>9, NotedFits
  <2> QED BY <1>9, <1>11, <2>1, <2>2
<1>13. ASSUME NEW old \in sent, Plays(old) PROVE Settles(r, Tail(events), old.renderer)
  BY <1>10, <1>11, <1>13, NotedSettles
<1>14. \E o : GoesOn(r, requests, o)
  <2>1. CASE hit
    <3>1. r = Ended(x) /\ Apply(TryRecover(Ended(x), requests, accepted))
      BY <1>4, <2>1
    <3>2. r.valid => r.rev > 0
      BY <1>12 DEF Fits
    <3>3. Move(r, requests, TryRecover(r, requests, accepted))
      BY <1>2, <1>12, <3>2, TryRecoverMove
    <3> QED BY <3>1, <3>3 DEF GoesOn
  <2>2. CASE ~hit
    <3>1. r = x /\ Apply(Outcome(r, requests, <<>>))
      BY <1>4, <2>2
    <3> QED BY <3>1, IdleMove DEF GoesOn
  <2> QED BY <2>1, <2>2
<1> HIDE DEF r
<1>15. Tail(events) \in Seq(Events) /\ Matched(requests, commands, Tail(events)) /\ Truthful(Tail(events), done)
  <2>1. Head(events).type # "reply"
    BY <1>3
  <2> QED BY <1>1, <1>2, <1>3, <2>1, TailSeq, TakeMatched, TakeKeeps
<1>16. /\ notices' \in Seq(Notices) /\ events' \in Seq(Events) /\ Truthful(events', done)
       /\ Matched(requests, commands, events')
       /\ recoveryRevision' \in Nat /\ recoveryRevision <= recoveryRevision' /\ r.rev <= recoveryRevision'
       /\ \A old \in sent : Plays(old) => Settles(r, events', old.renderer)
       /\ \A g \in Nat : LossesFrom(notices, g) => LossesFrom(notices', g)
  BY <1>2, <1>3, <1>9, <1>12, <1>13, <1>15
<1>17. r.ready # 0 => LossesFrom(notices', r.ready)
  BY <1>9, <1>12
<1>18. PICK o : GoesOn(r, requests, o)
  BY <1>14
<1> QED BY <1>3, <1>12, <1>16, <1>17, <1>18, GoesOnCore

\* MPV_EVENT_COMMAND_REPLY and MPV_EVENT_SET_PROPERTY_REPLY
LEMMA ReplyCore ==
  ASSUME IInv, scenario' = scenario, RecoveryReply
  PROVE  CoreInv' /\ AsksSoundly
<1> DEFINE request == Head(events).request
           ok == Head(events).ok
           current == IsCurrent(request, recovery)
           r == IF ~current THEN recovery
                ELSE IF ~ok \/ request.step = "seek" THEN Cancelled(recovery)
                ELSE IF request.step = "pause" THEN PauseDone(recovery) ELSE ReplayDone(recovery)
<1>1. /\ TypeOK /\ ReadyInv /\ Fits(recovery, requests) /\ Matched(requests, commands, events)
      /\ Truthful(events, done) /\ PlayedInv
  BY DEF IInv
<1>2. /\ recovery \in RecoveryState /\ notices \in Seq(Notices) /\ events \in Seq(Events)
      /\ recoveryRevision \in Nat /\ recovery.rev <= recoveryRevision /\ playlist \in Seq(Entries)
      /\ requests \subseteq [rev : 1 .. recoveryRevision, step : Steps]
  BY <1>1 DEF TypeOK
<1>3. events # <<>> /\ Head(events).type = "reply" /\ events' = Tail(events)
      /\ notices' = notices /\ recoveryRevision' = recoveryRevision /\ Kept
  BY DEF RecoveryReply, NextEvent, Kept, rendererVars, intentVars, historyVars
<1>4. 1 \in DOMAIN events /\ Head(events) = events[1] /\ Tail(events) \in Seq(Events)
  BY <1>2, <1>3, TailSeq
<1>5. request \in requests /\ requests \ {request} = {} /\ Matched({}, commands, Tail(events))
      /\ Truthful(Tail(events), done)
  BY <1>1, <1>2, <1>3, TakeMatched, TakeKeeps
<1>6. ok => request \in done
  BY <1>1, <1>3, <1>4 DEF Truthful
<1>7. request.step = "play" /\ NoLossBehindReplay(events) => NoLossAfter(Tail(events), 0)
  BY <1>2, <1>3, TakeKeeps
<1>8. request.step \in Steps /\ request = [rev |-> request.rev, step |-> request.step]
  BY <1>2, <1>5
<1>9. PICK accepted \in BOOLEAN : Apply(AfterReply(request, ok, recovery, accepted))
  BY DEF RecoveryReply, MayBeAccepted
<1> HIDE DEF request, ok
<1>10. current => recovery.valid /\ request = Request(recovery, request.step)
  BY <1>8 DEF IsCurrent, Request
<1>11. Fits(recovery, {}) /\ Fits(Cancelled(recovery), {})
  <2>1. Progressing(recovery, requests) => Progressing(recovery, {})
    BY DEF Progressing
  <2> QED BY <1>1, <2>1, CancelledFits DEF Fits
<1>12. recovery.valid => Progressing(recovery, requests)
  BY <1>1 DEF Fits
<1>13. current /\ request.step = "play" => recovery.replaying
  BY <1>5, <1>10, <1>12 DEF Progressing
<1>14. /\ r \in RecoveryState /\ r.rev = recovery.rev /\ r.ready = recovery.ready /\ Fits(r, {})
  <2>1. /\ PauseDone(recovery) \in RecoveryState /\ PauseDone(recovery).rev = recovery.rev
        /\ PauseDone(recovery).ready = recovery.ready
        /\ ReplayDone(recovery) \in RecoveryState /\ ReplayDone(recovery).rev = recovery.rev
        /\ ReplayDone(recovery).ready = recovery.ready
    BY <1>2 DEF PauseDone, ReplayDone, RecoveryState
  <2>2. /\ Cancelled(recovery) \in RecoveryState /\ Cancelled(recovery).rev = recovery.rev
        /\ Cancelled(recovery).ready = recovery.ready
    BY <1>2, ChangedRecovery
  <2>3. CASE ~current
    BY <1>2, <1>11, <2>3
  <2>4. CASE current /\ (~ok \/ request.step = "seek")
    BY <1>11, <2>2, <2>4
  <2>5. CASE current /\ ~(~ok \/ request.step = "seek") /\ request.step = "pause"
    <3>1. Request(recovery, "pause") \in done
      BY <1>6, <1>10, <2>5
    <3>2. Fits(PauseDone(recovery), {})
      BY <1>11, <3>1, NotedFits
    <3> QED BY <2>1, <2>5, <3>2
  <2>6. CASE current /\ ~(~ok \/ request.step = "seek") /\ request.step # "pause"
    <3>1. request.step = "play"
      BY <1>8, <2>6 DEF Steps
    <3>2. Request(recovery, "play") \in done /\ recovery.replaying
      BY <1>6, <1>10, <1>13, <2>6, <3>1
    <3>3. Fits(ReplayDone(recovery), {})
      BY <1>11, <3>2, NotedFits
    <3> QED BY <2>1, <2>6, <3>3
  <2> QED BY <2>3, <2>4, <2>5, <2>6
<1>15. ASSUME NEW old \in sent, Plays(old) PROVE Settles(r, Tail(events), old.renderer)
  <2> DEFINE g == old.renderer
             es == Tail(events)
  <2>1. Settles(recovery, events, g) /\ Settles(recovery, es, g)
    BY <1>1, <1>2, <1>3, <1>15, TailSettles DEF PlayedInv
  <2> HIDE DEF g, es
  <2>2. CASE ~current
    BY <2>1, <2>2 DEF g, es
  <2>3. Settles(PauseDone(recovery), es, g)
    BY <1>2, <2>1, NotedSettles
  <2>4. request.step = "play" => Over(es, g)
    BY <1>7, <2>1 DEF Settles, Over, es
  <2>5. CASE current /\ request.step = "play"
    <3>1. Settles(ReplayDone(recovery), es, g) /\ Settles(Cancelled(recovery), es, g)
      BY <1>2, <2>1, <2>4, <2>5, NotedSettles
    <3> QED BY <2>5, <3>1 DEF g, es
  <2>6. CASE current /\ request.step # "play"
    <3>1. InReplay(recovery, g) => FALSE
      <4>1. ASSUME InReplay(recovery, g) PROVE request = Request(recovery, "play")
        BY <1>5, <1>10, <1>12, <2>1, <2>6, <4>1 DEF InReplay, Settles, Replayed, Progressing
      <4>2. Request(recovery, "play").step = "play"
        BY DEF Request
      <4> QED BY <2>6, <4>1, <4>2
    <3>2. Over(es, g)
      BY <2>1, <3>1 DEF Settles
    <3>3. Settles(Cancelled(recovery), es, g)
      BY <1>2, <2>1, <3>2, NotedSettles
    <3>4. request.step \in {"pause", "seek"}
      BY <1>8, <2>6 DEF Steps
    <3> QED BY <2>3, <2>6, <3>3, <3>4 DEF g, es
  <2> QED BY <2>2, <2>5, <2>6
<1>16. \E o : GoesOn(r, {}, o)
  <2>1. r.valid => r.rev > 0
    BY <1>14 DEF Fits
  <2>2. /\ Move(r, {}, TryRecover(r, {}, accepted)) /\ Move(r, {}, TryRestore(r, {}, accepted))
        /\ Move(r, {}, Outcome(r, {}, <<>>))
    <3> HIDE DEF r
    <3> QED BY <1>2, <1>14, <2>1, TryRecoverMove, TryRestoreMove, IdleMove
  <2>3. CASE ~current
    BY <1>5, <1>9, <2>2, <2>3 DEF AfterReply, GoesOn
  <2>4. CASE current /\ (~ok \/ request.step = "seek")
    BY <1>5, <1>9, <2>2, <2>4 DEF AfterReply, GoesOn
  <2>5. CASE current /\ ~(~ok \/ request.step = "seek") /\ request.step = "pause"
    BY <1>5, <1>9, <2>2, <2>5 DEF AfterReply, GoesOn, PauseDone
  <2>6. CASE current /\ ~(~ok \/ request.step = "seek") /\ request.step # "pause"
    BY <1>5, <1>9, <2>2, <2>6 DEF AfterReply, GoesOn, ReplayDone
  <2> QED BY <2>3, <2>4, <2>5, <2>6
<1> HIDE DEF r
<1>17. PICK o : GoesOn(r, {}, o)
  BY <1>16
<1>18. /\ notices' \in Seq(Notices) /\ events' \in Seq(Events) /\ Truthful(events', done)
       /\ Matched({}, commands, events')
       /\ recoveryRevision' \in Nat /\ recoveryRevision <= recoveryRevision' /\ r.rev <= recoveryRevision'
       /\ \A old \in sent : Plays(old) => Settles(r, events', old.renderer)
       /\ \A g \in Nat : LossesFrom(notices, g) => LossesFrom(notices', g)
       /\ r.ready # 0 => LossesFrom(notices', r.ready)
  BY <1>1, <1>2, <1>3, <1>4, <1>5, <1>14, <1>15 DEF ReadyInv
<1> QED BY <1>3, <1>14, <1>17, <1>18, GoesOnCore

-----------------------------------------------------------------------------
(* The other steps keep what is known of the recovery.                       *)

\* Types of what the inductive invariant compares.
LEMMA Numbers ==
  ASSUME TypeOK
  PROVE  /\ sourceIntent \in Nat /\ synced \in Nat /\ barred \in Nat /\ generation \in Nat
         /\ marker.generation \in Nat /\ marker.intent \in Nat /\ pauseRevision \in Nat
         /\ recovery.ready \in Nat /\ recovery.retired \in Nat /\ recovery.pauseRev \in Nat
         /\ playback.pauseRev \in Nat /\ terminated.pauseRev \in Nat
         /\ \A old \in sent : old.renderer \in Nat
         /\ \A n \in DOMAIN notices : notices[n].generation \in Nat /\ (IsLoss(notices[n]) => notices[n].intent \in Nat)
<1>1. Contexts \subseteq Nat /\ Revisions \subseteq Nat /\ Generations \subseteq Nat
  BY Bounds DEF TypeOK
<1>2. sourceIntent \in Nat /\ synced \in Nat /\ barred \in Nat /\ generation \in Nat
      /\ marker.generation \in Nat /\ marker.intent \in Nat
  BY <1>1 DEF TypeOK
<1>3. pauseRevision \in Nat
  BY <1>1 DEF TypeOK
<1>4. recovery.ready \in Nat /\ recovery.retired \in Nat /\ recovery.pauseRev \in Nat
  BY <1>1 DEF TypeOK, RecoveryState
<1>5. playback.pauseRev \in Nat /\ terminated.pauseRev \in Nat
  BY <1>1 DEF TypeOK, PlaybackState
<1>6. \A old \in sent : old.renderer \in Nat
  BY <1>1 DEF TypeOK
<1>7. ASSUME NEW n \in DOMAIN notices
      PROVE  notices[n].generation \in Nat /\ (IsLoss(notices[n]) => notices[n].intent \in Nat)
  <2>1. notices[n] \in Notices
    BY DEF TypeOK
  <2> QED BY <1>1, <2>1 DEF Notices, IsLoss
<1> QED BY <1>2, <1>3, <1>4, <1>5, <1>6, <1>7

\* A step of libmpv, or of another part of the worker.
LEMMA FrameCore ==
  ASSUME IInv,
         UNCHANGED <<recovery, requests, recoveryRevision, sent, notices, pauseRevision, generation,
                     sourceIntent, barred, marker, scenario>>,
         available' => available, commands' \in Seq(Commands), events' \in Seq(Events),
         Matched(requests, commands', events'), done \subseteq done', Truthful(events', done'),
         \A g \in Nat : g < generation /\ marker.generation = g =>
           /\ NoLossAfter(events, 0) => NoLossAfter(events', 0)
           /\ NoLossBehindReplay(events) => NoLossBehindReplay(events')
  PROVE  CoreInv'
<1>0. SameSets
  BY ScenarioFixed
<1>1. TypeOK /\ Fits(recovery, requests) /\ ReadyInv /\ OlderInv /\ PlayedInv
  BY DEF IInv
<1>2. QueuesTyped'
  <2>1. QueuesTyped
    BY <1>1 DEF QueuesTyped, TypeOK
  <2> QED BY <1>0, <2>1 DEF QueuesTyped, SameSets, Steps
<1>3. ReadyInv' /\ OlderInv'
  BY <1>1 DEF ReadyInv, OlderInv, LossesFrom, IsLoss, Plays
<1>4. Fits(recovery, requests)'
  BY <1>0, <1>1 DEF Fits, Progressing, Acknowledged, Request, SameSets
<1>5. ASSUME NEW old \in sent, Plays(old)
      PROVE  Settles(recovery, events', old.renderer)
  <2>1. Settles(recovery, events, old.renderer) /\ old.renderer < generation /\ old.renderer \in Nat
    BY <1>1, <1>5, Numbers DEF PlayedInv, OlderInv
  <2> QED BY <2>1 DEF Settles, Over
<1>6. PlayedInv'
  <2> SUFFICES ASSUME NEW old \in sent, Plays(old) PROVE Settles(recovery, events, old.renderer)'
    BY DEF PlayedInv, Plays
  <2>1. Settles(recovery, events', old.renderer)
    BY <1>5
  <2> QED BY <2>1 DEF Settles, Replayed, InReplay, Over, NoLossAfter, NoLossBehindReplay, VoEnd
<1>7. Matched(requests, commands, events)' /\ Truthful(events, done)'
  BY DEF Matched, Truthful
<1> QED BY <1>2, <1>3, <1>4, <1>6, <1>7 DEF CoreInv

\* The recovery is given up, for a newer source intent or for good.
LEMMA CancelCore ==
  ASSUME IInv, recovery' = Cancelled(recovery),
         UNCHANGED <<requests, recoveryRevision, sent, notices, pauseRevision, generation, marker, done, scenario>>,
         sourceIntent' = sourceIntent + 1 \/ ~available', commands' \in Seq(Commands), events' \in Seq(Events),
         Matched(requests, commands', events'), Truthful(events', done),
         NoLossBehindReplay(events) => NoLossBehindReplay(events')
  PROVE  CoreInv'
<1>0. SameSets
  BY ScenarioFixed
<1>1. TypeOK /\ Fits(recovery, requests) /\ ReadyInv /\ OlderInv /\ PlayedInv /\ RenderInv
  BY DEF IInv
<1> DEFINE r == Cancelled(recovery)
<1>2. /\ r \in RecoveryState /\ ~r.valid /\ r.rev = recovery.rev /\ r.ready = recovery.ready
      /\ r.retired = recovery.retired /\ r.pauseRev = recovery.pauseRev
  BY <1>1, ChangedRecovery DEF TypeOK
<1>3. recovery' = r
  OBVIOUS
<1> HIDE DEF r
<1>4. QueuesTyped'
  <2>1. QueuesTyped
    BY <1>1 DEF QueuesTyped, TypeOK
  <2> QED BY <1>0, <1>2, <1>3, <2>1 DEF QueuesTyped, SameSets, Steps
<1>5. ReadyInv' /\ OlderInv'
  BY <1>1, <1>2, <1>3 DEF ReadyInv, OlderInv, LossesFrom, IsLoss, Plays
<1>6. Fits(recovery, requests)'
  BY <1>0, <1>1, <1>2, <1>3 DEF Fits, SameSets
<1>7. PlayedInv'
  <2> SUFFICES ASSUME NEW old \in sent, Plays(old) PROVE Settles(recovery, events, old.renderer)'
    BY DEF PlayedInv, Plays
  <2>1. Settles(recovery, events, old.renderer)
    BY <1>1 DEF PlayedInv
  <2>2. marker'.intent # sourceIntent' \/ ~available'
    <3>1. marker.intent <= sourceIntent /\ marker.intent \in Nat /\ sourceIntent \in Nat
      BY <1>1, Numbers DEF RenderInv
    <3> QED BY <3>1
  <2>3. marker'.generation # old.renderer \/ NoLossBehindReplay(events')
    BY <2>1 DEF Settles
  <2> QED BY <1>2, <1>3, <2>2, <2>3 DEF Settles, Replayed, Over, NoLossBehindReplay, NoLossAfter, VoEnd
<1>8. Matched(requests, commands, events)' /\ Truthful(events, done)'
  BY DEF Matched, Truthful
<1> QED BY <1>4, <1>5, <1>6, <1>7, <1>8 DEF CoreInv

\* submitCommand() and submitPropertySet() queue a command of the user.
LEMMA UserCommand ==
  ASSUME IInv, NEW what, NEW arg, SubmitUser(what, arg),
         [what |-> what, arg |-> arg, by |-> 0] \in Commands
  PROVE  /\ commands' \in Seq(Commands) /\ Matched(requests, commands', events)
         /\ events \in Seq(Events) /\ Truthful(events, done)
<1> DEFINE c == [what |-> what, arg |-> arg, by |-> 0]
<1>1. commands \in Seq(Commands) /\ events \in Seq(Events) /\ Truthful(events, done)
      /\ Matched(requests, commands, events)
  BY DEF IInv, TypeOK
<1>2. commands' = Append(commands, c) /\ c.by = 0 /\ c \in Commands
  BY DEF SubmitUser
<1> HIDE DEF c
<1> QED BY <1>1, <1>2, PostMatched

\* The commands of the user.
LEMMA UserTyped ==
  ASSUME TypeOK
  PROVE  /\ \A b \in BOOLEAN : [what |-> "pause", arg |-> Flag(b), by |-> 0] \in Commands
         /\ \A p \in Positions : [what |-> "seek", arg |-> p, by |-> 0] \in Commands
         /\ \A n \in Nat : [what |-> "remove", arg |-> n, by |-> 0] \in Commands
         /\ \A e \in Entries \cup {Idle} : /\ [what |-> "source", arg |-> e, by |-> 0] \in Commands
                                           /\ [what |-> "load", arg |-> e, by |-> 0] \in Commands
<1>1. \A b \in BOOLEAN : Flag(b) \in {0, 1}
  BY DEF Flag
<1> HIDE DEF Flag
<1> QED BY <1>1 DEF Commands

\* submitPropertySet("pause")
LEMMA PauseCore ==
  ASSUME IInv, scenario' = scenario, NEW v \in BOOLEAN, UserPause(v)
  PROVE  CoreInv'
<1>0. SameSets
  BY ScenarioFixed
<1>1. TypeOK /\ Fits(recovery, requests) /\ ReadyInv /\ OlderInv /\ PlayedInv
  BY DEF IInv
<1>2. UNCHANGED <<recovery, requests, recoveryRevision, sent, notices, generation, sourceIntent, barred,
                  marker, available, events, done>>
      /\ pauseRevision' = pauseRevision + 1 /\ SubmitUser("pause", Flag(v))
  BY DEF UserPause, rendererVars
<1>3. /\ commands' \in Seq(Commands) /\ Matched(requests, commands', events) /\ Truthful(events, done)
  BY <1>1, <1>2, UserTyped, UserCommand
<1>4. QueuesTyped'
  <2>1. QueuesTyped
    BY <1>1 DEF QueuesTyped, TypeOK
  <2> QED BY <1>0, <1>2, <1>3, <2>1 DEF QueuesTyped, SameSets, Steps
<1>5. ReadyInv' /\ OlderInv'
  BY <1>1, <1>2 DEF ReadyInv, OlderInv, LossesFrom, IsLoss, Plays
<1>6. Fits(recovery, requests)'
  <2>1. recovery.pauseRev \in Nat /\ pauseRevision \in Nat
    BY <1>1, Numbers
  <2> QED BY <1>0, <1>1, <1>2, <2>1 DEF Fits, Progressing, Acknowledged, Request, SameSets
<1>7. PlayedInv'
  BY <1>1, <1>2 DEF PlayedInv, Plays, Settles, Replayed, InReplay, Over, NoLossAfter, NoLossBehindReplay, VoEnd
<1>8. Matched(requests, commands, events)' /\ Truthful(events, done)'
  BY <1>2, <1>3 DEF Matched, Truthful
<1> QED BY <1>4, <1>5, <1>6, <1>7, <1>8 DEF CoreInv

\* submitCommand("seek")
LEMMA SeekCore ==
  ASSUME IInv, scenario' = scenario, NEW p \in Positions, NEW known \in BOOLEAN, UserSeek(p, known)
  PROVE  CoreInv'
<1>0. SameSets
  BY ScenarioFixed
<1>1. TypeOK /\ Fits(recovery, requests) /\ ReadyInv /\ OlderInv /\ PlayedInv
  BY DEF IInv
<1>2. UNCHANGED <<requests, recoveryRevision, sent, notices, generation, sourceIntent, barred, pauseRevision,
                  marker, available, events, done>>
      /\ SubmitUser("seek", p) /\ seekRevision' = seekRevision + 1 /\ ops' = ops + 1
      /\ ops < scenario.maxOps
  BY DEF UserSeek, UserTask, rendererVars
<1>3. /\ commands' \in Seq(Commands) /\ Matched(requests, commands', events) /\ Truthful(events, done)
  BY <1>1, <1>2, UserTyped, UserCommand
<1>4. seekRevision + 1 \in Revisions
  <2>1. ops \in Revisions /\ seekRevision \in 0 .. ops
    BY <1>1 DEF TypeOK
  <2>2. ops \in Nat /\ scenario.maxOps \in Nat
    BY <1>1, <2>1, Bounds DEF TypeOK
  <2> QED BY <1>2, <2>1, <2>2 DEF Revisions
<1> DEFINE r == recovery'
           Same(x) ==
             /\ x.retired = recovery.retired /\ x.ready = recovery.ready /\ x.rev = recovery.rev
             /\ x.pauseRev = recovery.pauseRev /\ x.valid = recovery.valid /\ x.replaying = recovery.replaying
             /\ x.replayAck = recovery.replayAck /\ x.pauseAck = recovery.pauseAck
             /\ x.seekSubmitted = recovery.seekSubmitted /\ x.playback.intent = recovery.playback.intent
<1>5. recovery' \in RecoveryState /\ Same(recovery')
  <2>1. recovery \in RecoveryState
    BY <1>1 DEF TypeOK
  <2>2. recovery' = recovery \/ recovery' = [recovery EXCEPT !.playback.position = p, !.seekRev = seekRevision + 1]
    BY DEF UserSeek
  <2>3. CASE recovery' = recovery
    BY <2>1, <2>3
  <2>4. CASE recovery' = [recovery EXCEPT !.playback.position = p, !.seekRev = seekRevision + 1]
    <3> DEFINE pb == [recovery.playback EXCEPT !.position = p]
    <3>1. recovery.playback \in PlaybackState
      BY <2>1 DEF RecoveryState
    <3>2. pb \in PlaybackState /\ pb.intent = recovery.playback.intent
      BY <3>1 DEF PlaybackState
    <3>3. recovery' = [recovery EXCEPT !.playback = pb, !.seekRev = seekRevision + 1]
      BY <2>4, <2>1 DEF RecoveryState
    <3> HIDE DEF pb
    <3> QED BY <1>4, <2>1, <3>2, <3>3 DEF RecoveryState
  <2> QED BY <2>2, <2>3, <2>4
<1> HIDE DEF r
<1>6. QueuesTyped'
  <2>1. QueuesTyped
    BY <1>1 DEF QueuesTyped, TypeOK
  <2> QED BY <1>0, <1>2, <1>3, <1>5, <2>1 DEF QueuesTyped, SameSets, Steps
<1>7. ReadyInv' /\ OlderInv'
  BY <1>1, <1>2, <1>5 DEF ReadyInv, OlderInv, LossesFrom, IsLoss, Plays
<1>8. Fits(recovery, requests)'
  BY <1>0, <1>1, <1>2, <1>5 DEF Fits, Progressing, Acknowledged, Request, SameSets
<1>9. PlayedInv'
  BY <1>1, <1>2, <1>5 DEF PlayedInv, Plays, Settles, Replayed, InReplay, Over, NoLossAfter, NoLossBehindReplay, VoEnd
<1>10. Matched(requests, commands, events)' /\ Truthful(events, done)'
  BY <1>2, <1>3 DEF Matched, Truthful
<1> QED BY <1>6, <1>7, <1>8, <1>9, <1>10 DEF CoreInv

\* submitCommand() of another source
LEMMA SourceCore ==
  ASSUME IInv, scenario' = scenario, NEW what \in {"source", "load"}, NEW e \in Entries \cup {Idle}, UserSource(what, e)
  PROVE  CoreInv'
<1>1. UNCHANGED <<requests, recoveryRevision, sent, notices, pauseRevision, generation, marker, done, events>>
      /\ recovery' = Cancelled(recovery) /\ sourceIntent' = sourceIntent + 1 /\ SubmitUser(what, e)
  BY DEF UserSource, InvalidatePlaybackIntent, rendererVars
<1>2. [what |-> what, arg |-> e, by |-> 0] \in Commands
  BY UserTyped DEF IInv
<1>3. commands' \in Seq(Commands) /\ Matched(requests, commands', events) /\ events \in Seq(Events) /\ Truthful(events, done)
  BY <1>1, <1>2, UserCommand
<1> QED BY <1>1, <1>3, CancelCore

\* submitCommand("playlist-remove")
LEMMA RemoveCore ==
  ASSUME IInv, scenario' = scenario, NEW n \in Nat, UserRemove(n)
  PROVE  CoreInv'
<1>1. UNCHANGED <<recovery, requests, recoveryRevision, sent, notices, pauseRevision, generation,
                  sourceIntent, barred, marker, available, done, events>> /\ SubmitUser("remove", n)
  BY DEF UserRemove, rendererVars, intentVars
<1>2. [what |-> "remove", arg |-> n, by |-> 0] \in Commands
  BY UserTyped DEF IInv
<1>3. commands' \in Seq(Commands) /\ Matched(requests, commands', events) /\ events \in Seq(Events) /\ Truthful(events, done)
  BY <1>1, <1>2, UserCommand
<1> QED BY <1>1, <1>3, FrameCore

\* The next event is no reply.
LEMMA TakeEvent ==
  ASSUME IInv, NEW type, type # "reply", NextEvent(type)
  PROVE  /\ events' \in Seq(Events) /\ Matched(requests, commands, events') /\ Truthful(events', done)
         /\ commands \in Seq(Commands) /\ available /\ Head(events) \in Events /\ Head(events).type = type
         /\ NoLossAfter(events, 0) => NoLossAfter(events', 0)
         /\ NoLossBehindReplay(events) => NoLossBehindReplay(events')
<1>1. commands \in Seq(Commands) /\ events \in Seq(Events) /\ Truthful(events, done)
      /\ Matched(requests, commands, events)
  BY DEF IInv, TypeOK
<1>2. events # <<>> /\ events' = Tail(events) /\ Head(events).type # "reply" /\ available /\ Head(events).type = type
  BY DEF NextEvent
<1> QED BY <1>1, <1>2, TailSeq, TakeMatched, TakeKeeps

\* shutdown()
LEMMA ShutdownCore ==
  ASSUME IInv, scenario' = scenario, Shutdown
  PROVE  CoreInv'
<1>1. UNCHANGED <<requests, recoveryRevision, sent, notices, pauseRevision, generation, marker, done, events, commands>>
      /\ recovery' = Cancelled(recovery) /\ ~available'
  BY DEF Shutdown, rendererVars, historyVars, intentVars
<1>2. commands \in Seq(Commands) /\ events \in Seq(Events) /\ Truthful(events, done)
      /\ Matched(requests, commands, events)
  BY DEF IInv, TypeOK
<1> QED BY <1>1, <1>2, CancelCore

\* MPV_EVENT_START_FILE
LEMMA StartCore ==
  ASSUME IInv, scenario' = scenario, StartFile
  PROVE  CoreInv'
<1>1. UNCHANGED <<requests, recoveryRevision, sent, notices, pauseRevision, generation, marker, done, commands,
                  available, barred>>
  BY DEF StartFile, rendererVars, historyVars
<1>2. NextEvent("start")
  BY DEF StartFile
<1>3. InvalidatePlaybackIntent \/ UNCHANGED <<sourceIntent, recovery>>
  BY DEF StartFile
<1>4. /\ events' \in Seq(Events) /\ Matched(requests, commands, events') /\ Truthful(events', done)
      /\ commands \in Seq(Commands)
      /\ NoLossAfter(events, 0) => NoLossAfter(events', 0)
      /\ NoLossBehindReplay(events) => NoLossBehindReplay(events')
  BY <1>2, TakeEvent
<1>5. CASE InvalidatePlaybackIntent
  BY <1>1, <1>4, <1>5, CancelCore DEF InvalidatePlaybackIntent
<1>6. CASE UNCHANGED <<sourceIntent, recovery>>
  BY <1>1, <1>4, <1>6, FrameCore
<1> QED BY <1>5, <1>6, <1>3

\* MPV_EVENT_SHUTDOWN
LEMMA CoreShutdownCore ==
  ASSUME IInv, scenario' = scenario, CoreShutdown
  PROVE  CoreInv'
<1>1. UNCHANGED <<recovery, requests, recoveryRevision, sent, notices, pauseRevision, generation,
                  sourceIntent, barred, marker, done, commands>>
      /\ NextEvent("shutdown") /\ ~available'
  BY DEF CoreShutdown, rendererVars, historyVars, intentVars
<1>2. /\ events' \in Seq(Events) /\ Matched(requests, commands, events') /\ Truthful(events', done)
      /\ commands \in Seq(Commands)
      /\ NoLossAfter(events, 0) => NoLossAfter(events', 0)
      /\ NoLossBehindReplay(events) => NoLossBehindReplay(events')
  BY <1>1, TakeEvent
<1> QED BY <1>1, <1>2, FrameCore

\* Steps that touch neither the recovery nor its queues.
LEMMA QuietCore ==
  ASSUME IInv, scenario' = scenario,
         \/ \E property \in {"pause", "time-pos", "playlist"} : PropertyChange(property)
         \/ DrainDone \/ Synchronize
  PROVE  CoreInv'
<1>1. UNCHANGED <<recovery, requests, recoveryRevision, sent, notices, pauseRevision, generation,
                  sourceIntent, barred, marker, available, done, commands, events>>
  BY DEF PropertyChange, DrainDone, Synchronize, rendererVars, historyVars, intentVars, workerSide
<1>2. commands \in Seq(Commands) /\ events \in Seq(Events) /\ Truthful(events, done)
      /\ Matched(requests, commands, events)
  BY DEF IInv, TypeOK
<1> QED BY <1>1, <1>2, FrameCore

\* A context is lost, and its loss is on its way.
LEMMA LostCore ==
  ASSUME IInv, scenario' = scenario, ContextLost
  PROVE  CoreInv'
<1> DEFINE n == [type |-> "retiring", generation |-> generation, intent |-> synced]
<1>0. SameSets
  BY ScenarioFixed
<1>1. TypeOK /\ Fits(recovery, requests) /\ ReadyInv /\ OlderInv /\ PlayedInv
      /\ Matched(requests, commands, events) /\ Truthful(events, done)
  BY DEF IInv
<1>2. UNCHANGED <<recovery, requests, recoveryRevision, sent, pauseRevision, generation, sourceIntent,
                  barred, available, done, commands, events>>
      /\ notices' = Append(notices, n) /\ marker' = [generation |-> generation, intent |-> synced]
  BY DEF ContextLost, historyVars, intentVars, workerSide
<1>3. generation \in Generations /\ synced \in Nat /\ notices \in Seq(Notices) /\ n \in Notices
  BY <1>1 DEF TypeOK, Notices
<1>4. /\ notices' \in Seq(Notices) /\ DOMAIN notices' = 1 .. Len(notices) + 1 /\ Len(notices) \in Nat
      /\ DOMAIN notices = 1 .. Len(notices)
      /\ \A k \in DOMAIN notices : notices'[k] = notices[k]
      /\ notices'[Len(notices) + 1] = n
  BY <1>2, <1>3, AppendSeq
<1>5. ASSUME NEW g \in Nat, LossesFrom(notices, g), g <= generation PROVE LossesFrom(notices', g)
  <2>1. generation \in Nat
    BY <1>1, Numbers
  <2> QED BY <1>4, <1>5, <2>1 DEF LossesFrom
<1>6. QueuesTyped'
  <2>1. QueuesTyped
    BY <1>1 DEF QueuesTyped, TypeOK
  <2> QED BY <1>0, <1>2, <1>4, <2>1 DEF QueuesTyped, SameSets, Steps
<1>7. ReadyInv' /\ OlderInv'
  <2>1. ASSUME recovery.ready # 0 PROVE LossesFrom(notices', recovery.ready)
    <3>1. recovery.ready \in Nat /\ recovery.ready <= generation
      BY <1>1, <2>1, Numbers DEF Fits
    <3> QED BY <1>1, <1>5, <2>1, <3>1 DEF ReadyInv
  <2>2. ASSUME NEW old \in sent, Plays(old) PROVE old.renderer < generation /\ LossesFrom(notices', old.renderer + 1)
    <3>1. old.renderer < generation /\ LossesFrom(notices, old.renderer + 1)
      BY <1>1, <2>2 DEF OlderInv
    <3>2. old.renderer + 1 \in Nat /\ old.renderer + 1 <= generation
      BY <1>1, <3>1, Numbers
    <3> QED BY <1>5, <3>1, <3>2
  <2> QED BY <1>2, <2>1, <2>2 DEF ReadyInv, OlderInv, LossesFrom, IsLoss, Plays
<1>8. Fits(recovery, requests)'
  BY <1>0, <1>1, <1>2 DEF Fits, Progressing, Acknowledged, Request, SameSets
<1>9. PlayedInv'
  <2> SUFFICES ASSUME NEW old \in sent, Plays(old) PROVE Settles(recovery, events, old.renderer)'
    BY <1>2 DEF PlayedInv, Plays
  <2>1. Settles(recovery, events, old.renderer)
    BY <1>1 DEF PlayedInv
  <2>2. marker'.generation # old.renderer
    BY <1>1, <1>2, Numbers DEF OlderInv
  <2> QED BY <1>2, <2>1, <2>2 DEF Settles, Replayed, Over
<1>10. Matched(requests, commands, events)' /\ Truthful(events, done)'
  BY <1>1, <1>2 DEF Matched, Truthful
<1> QED BY <1>6, <1>7, <1>8, <1>9, <1>10 DEF CoreInv

\* A context is created, and its readiness is on its way.
LEMMA CreatedCore ==
  ASSUME IInv, scenario' = scenario, ContextCreated
  PROVE  CoreInv'
<1> DEFINE n == [type |-> "ready", generation |-> generation + 1]
<1>0. SameSets
  BY ScenarioFixed
<1>1. TypeOK /\ Fits(recovery, requests) /\ ReadyInv /\ OlderInv /\ PlayedInv
      /\ Matched(requests, commands, events) /\ Truthful(events, done)
  BY DEF IInv
<1>2. UNCHANGED <<recovery, requests, recoveryRevision, sent, pauseRevision, sourceIntent, marker,
                  barred, available, done, commands, events>>
      /\ notices' = Append(notices, n) /\ generation' = generation + 1 /\ generation < scenario.maxGeneration
  BY DEF ContextCreated, historyVars, intentVars, workerSide
<1>3. generation \in Nat /\ generation + 1 \in Generations
  <2>1. generation \in Nat /\ scenario \in Scenarios
    BY <1>1, Numbers DEF TypeOK
  <2> QED BY <1>2, <2>1, Bounds
<1>4. n \in Notices /\ notices \in Seq(Notices)
  BY <1>1, <1>3 DEF Notices, TypeOK
<1>5. /\ notices' \in Seq(Notices) /\ DOMAIN notices' = 1 .. Len(notices) + 1 /\ Len(notices) \in Nat
      /\ DOMAIN notices = 1 .. Len(notices)
      /\ \A k \in DOMAIN notices : notices'[k] = notices[k]
      /\ notices'[Len(notices) + 1] = n
  BY <1>2, <1>4, AppendSeq
<1>6. ASSUME NEW g \in Nat, LossesFrom(notices, g) PROVE LossesFrom(notices', g)
  BY <1>5, <1>6 DEF LossesFrom, IsLoss
<1>7. QueuesTyped'
  <2>1. QueuesTyped
    BY <1>1 DEF QueuesTyped, TypeOK
  <2> QED BY <1>0, <1>2, <1>5, <2>1 DEF QueuesTyped, SameSets, Steps
<1>8. ReadyInv' /\ OlderInv'
  <2>1. ASSUME recovery.ready # 0 PROVE LossesFrom(notices', recovery.ready)
    BY <1>1, <1>6, <2>1, Numbers DEF ReadyInv
  <2>2. ASSUME NEW old \in sent, Plays(old) PROVE old.renderer < generation + 1 /\ LossesFrom(notices', old.renderer + 1)
    <3>1. old.renderer < generation /\ LossesFrom(notices, old.renderer + 1)
      BY <1>1, <2>2 DEF OlderInv
    <3>2. old.renderer + 1 \in Nat /\ old.renderer \in Nat
      BY <1>1, Numbers
    <3> QED BY <1>3, <1>6, <3>1, <3>2
  <2> QED BY <1>2, <2>1, <2>2 DEF ReadyInv, OlderInv, LossesFrom, IsLoss, Plays
<1>9. Fits(recovery, requests)'
  <2>1. recovery.ready \in Nat
    BY <1>1, Numbers
  <2> QED BY <1>0, <1>1, <1>2, <1>3, <2>1 DEF Fits, Progressing, Acknowledged, Request, SameSets
<1>10. PlayedInv'
  BY <1>1, <1>2 DEF PlayedInv, Plays, Settles, Replayed, InReplay, Over, NoLossAfter, NoLossBehindReplay, VoEnd
<1>11. Matched(requests, commands, events)' /\ Truthful(events, done)'
  BY <1>1, <1>2 DEF Matched, Truthful
<1> QED BY <1>7, <1>8, <1>9, <1>10, <1>11 DEF CoreInv

\* What libmpv leaves alone.
LEMMA NativeFrame ==
  ASSUME scenario' = scenario, NativeAlone
  PROVE  UNCHANGED <<recovery, requests, recoveryRevision, sent, notices, pauseRevision, generation,
                     sourceIntent, barred, marker, available, scenario>>
         <=> UNCHANGED barred
BY DEF NativeAlone, workerSide, rendererVars, intentVars

\* libmpv runs a command, and answers one of the recovery.
LEMMA ExecuteCore ==
  ASSUME IInv, scenario' = scenario, Execute
  PROVE  CoreInv'
<1> DEFINE c == Head(commands)
           reply(ok) == [type |-> "reply", ok |-> ok, request |-> [rev |-> c.by, step |-> c.what]]
<1>1. /\ TypeOK /\ commands \in Seq(Commands) /\ events \in Seq(Events) /\ Truthful(events, done)
      /\ Matched(requests, commands, events)
  BY DEF IInv, TypeOK
<1>2. commands # <<>> /\ NativeAlone /\ barred' = barred
  BY DEF Execute, RunPause, RunSeek, RunPlay, RunSource, RunLoad, RunRemove, RunFails, NextCommand, Answered, historyVars
<1>3. UNCHANGED <<recovery, requests, recoveryRevision, sent, notices, pauseRevision, generation,
                  sourceIntent, barred, marker, available, scenario>>
  BY <1>2, NativeFrame
<1>4. c \in Commands /\ Tail(commands) \in Seq(Commands)
  BY <1>1, <1>2, TailSeq
<1>5. \/ \E ok \in BOOLEAN : Answered(c, ok)
      \/ commands' = Tail(commands) /\ UNCHANGED <<events, done>>
  BY DEF Execute, RunPause, RunSeek, RunPlay, RunSource, RunLoad, RunRemove, RunFails, historyVars
<1>6. /\ commands' = Tail(commands) /\ done \subseteq done'
      /\ \/ events' = events
         \/ c.by # 0 /\ \E ok \in BOOLEAN : /\ events' = Append(events, reply(ok))
                                            /\ ok => [rev |-> c.by, step |-> c.what] \in done'
  BY <1>5 DEF Answered
<1>7. Matched(requests, Tail(commands), events)
  BY <1>1, <1>2, RunMatched
<1>8. ASSUME c.by # 0, NEW ok \in BOOLEAN
      PROVE  /\ reply(ok) \in Events
             /\ ~VoEnd(reply(ok))
             /\ Matched(requests, Tail(commands), Append(events, reply(ok)))
  <2>1. c.by \in Nat \ {0} /\ c.what \in Steps
    BY <1>4, <1>8 DEF Commands, Steps
  <2>2. [rev |-> c.by, step |-> c.what] \in Requests
    BY <2>1 DEF Requests
  <2> DEFINE e == reply(ok)
  <2>3. e \in Events
    BY <2>2 DEF Events
  <2>4. e.type = "reply" /\ e.request = [rev |-> c.by, step |-> c.what]
    OBVIOUS
  <2>5. ~VoEnd(e)
    BY <2>4 DEF VoEnd
  <2> HIDE DEF e
  <2>6. Matched(requests, Tail(commands), Append(events, e))
    BY <1>1, <1>2, <1>8, <2>3, <2>4, RunMatched
  <2> QED BY <2>3, <2>5, <2>6 DEF e
<1>9. Truthful(events, done')
  BY <1>1, <1>6 DEF Truthful
<1>10. /\ events' \in Seq(Events) /\ Matched(requests, commands', events') /\ Truthful(events', done')
       /\ NoLossAfter(events, 0) => NoLossAfter(events', 0)
       /\ NoLossBehindReplay(events) => NoLossBehindReplay(events')
  <2>1. CASE events' = events
    BY <1>1, <1>6, <1>7, <1>9, <2>1
  <2>2. CASE c.by # 0 /\ \E ok \in BOOLEAN : /\ events' = Append(events, reply(ok))
                                             /\ ok => [rev |-> c.by, step |-> c.what] \in done'
    <3>1. PICK ok \in BOOLEAN : /\ events' = Append(events, reply(ok))
                                /\ ok => [rev |-> c.by, step |-> c.what] \in done'
      BY <2>2
    <3> DEFINE e == reply(ok)
    <3>2. /\ e \in Events /\ ~VoEnd(e) /\ Matched(requests, Tail(commands), Append(events, e))
          /\ (e.type = "reply" /\ e.ok => e.request \in done')
      BY <1>8, <2>2, <3>1
    <3>3. events' = Append(events, e)
      BY <3>1
    <3> HIDE DEF e
    <3>4. Append(events, e) \in Seq(Events)
      BY <1>1, <3>2, AppendSeq
    <3> QED BY <1>1, <1>6, <1>9, <3>2, <3>3, <3>4, ReportKeeps
  <2> QED BY <1>6, <2>1, <2>2
<1> QED BY <1>3, <1>4, <1>6, <1>10, FrameCore

\* libmpv reports what is no reply, and no loss.
LEMMA ReportCore ==
  ASSUME IInv, NEW e \in Events, e.type # "reply", NEW es \in Seq(Events), Matched(requests, commands, es), Truthful(es, done)
  PROVE  /\ Append(es, e) \in Seq(Events) /\ Matched(requests, commands, Append(es, e))
         /\ Matched(requests, <<>>, Append(es, e)) /\ Truthful(Append(es, e), done)
         /\ ~VoEnd(e) => /\ NoLossAfter(es, 0) => NoLossAfter(Append(es, e), 0)
                         /\ NoLossBehindReplay(es) => NoLossBehindReplay(Append(es, e))
BY AppendSeq, ReportMatched, ReportKeeps

\* The play loop goes on to another file, ...
LEMMA SwitchCore ==
  ASSUME IInv, scenario' = scenario, SwitchFile
  PROVE  CoreInv'
<1> DEFINE x == IF Active THEN Append(events, End(FALSE)) ELSE events
           y == IF upNext = Idle THEN x ELSE Append(x, Start(upNext))
<1>1. /\ TypeOK /\ commands \in Seq(Commands) /\ events \in Seq(Events) /\ Truthful(events, done)
      /\ Matched(requests, commands, events) /\ upNext \in Entries \cup {Idle, Keep}
  BY DEF IInv, TypeOK
<1>2. NativeAlone /\ UNCHANGED <<barred, done, commands>> /\ upNext # Keep
  BY DEF SwitchFile, historyVars
<1>3. UNCHANGED <<recovery, requests, recoveryRevision, sent, notices, pauseRevision, generation,
                  sourceIntent, barred, marker, available, scenario>>
  BY <1>2, NativeFrame
<1>4. End(FALSE) \in Events /\ End(FALSE).type # "reply" /\ ~VoEnd(End(FALSE))
  BY DEF Events, End, VoEnd
<1>5. upNext # Idle => Start(upNext) \in Events /\ Start(upNext).type # "reply" /\ ~VoEnd(Start(upNext))
  BY <1>1, <1>2 DEF Events, Start, VoEnd
<1>6. /\ x \in Seq(Events) /\ Matched(requests, commands, x) /\ Truthful(x, done)
      /\ NoLossAfter(events, 0) => NoLossAfter(x, 0)
      /\ NoLossBehindReplay(events) => NoLossBehindReplay(x)
  BY <1>1, <1>4, ReportCore
<1>7. events' = y
  <2> DEFINE a == IF Active THEN <<End(FALSE)>> ELSE <<>>
             b == IF upNext = Idle THEN <<>> ELSE <<Start(upNext)>>
  <2>1. events' = events \o a \o b
    BY DEF SwitchFile
  <2>2. events \o a = x
    <3>1. events \o <<>> = events
      BY <1>1
    <3>2. events \o <<End(FALSE)>> = Append(events, End(FALSE))
      <4>1. \A e \in Events : events \o <<e>> = Append(events, e)
        BY <1>1, AppendSeq
      <4> QED BY <1>4, <4>1
    <3> QED BY <3>1, <3>2
  <2> HIDE DEF x
  <2>3. x \o b = y
    <3>1. x \o <<>> = x
      BY <1>6
    <3>2. upNext # Idle => x \o <<Start(upNext)>> = Append(x, Start(upNext))
      BY <1>5, <1>6, AppendSeq
    <3> QED BY <3>1, <3>2
  <2> QED BY <2>1, <2>2, <2>3
<1> HIDE DEF x
<1>8. /\ y \in Seq(Events) /\ Matched(requests, commands, y) /\ Truthful(y, done)
      /\ NoLossAfter(events, 0) => NoLossAfter(y, 0)
      /\ NoLossBehindReplay(events) => NoLossBehindReplay(y)
  BY <1>5, <1>6, ReportCore
<1> HIDE DEF y
<1> QED BY <1>1, <1>2, <1>3, <1>7, <1>8, FrameCore

\* ... finishes to load it, ends it, or quits.
LEMMA ReportsCore ==
  ASSUME IInv, scenario' = scenario, LoadDone \/ NativeQuit \/ \E vo \in BOOLEAN : FileEnds(vo)
  PROVE  CoreInv'
<1>1. /\ TypeOK /\ commands \in Seq(Commands) /\ events \in Seq(Events) /\ Truthful(events, done)
      /\ Matched(requests, commands, events) /\ RenderInv
  BY DEF IInv, TypeOK
<1>2. NativeAlone /\ UNCHANGED <<barred, done>>
  BY DEF LoadDone, NativeQuit, FileEnds, historyVars
<1>3. UNCHANGED <<recovery, requests, recoveryRevision, sent, notices, pauseRevision, generation,
                  sourceIntent, barred, marker, available, scenario>>
  BY <1>2, NativeFrame
<1>4. \E e \in Events : /\ e.type # "reply" /\ events' = Append(events, e)
                        /\ VoEnd(e) => ~context
                        /\ commands' = commands \/ commands' = <<>>
  <2>1. CASE LoadDone
    <3>1. [type |-> "loaded"] \in Events /\ ~VoEnd([type |-> "loaded"])
      BY DEF Events, VoEnd
    <3> QED BY <2>1, <3>1 DEF LoadDone
  <2>2. CASE NativeQuit
    <3>1. [type |-> "shutdown"] \in Events /\ ~VoEnd([type |-> "shutdown"])
      BY DEF Events, VoEnd
    <3> QED BY <2>2, <3>1 DEF NativeQuit
  <2>3. CASE \E vo \in BOOLEAN : FileEnds(vo)
    <3>1. PICK vo \in BOOLEAN : FileEnds(vo)
      BY <2>3
    <3>2. End(vo) \in Events /\ End(vo).type # "reply" /\ (VoEnd(End(vo)) => vo)
      BY DEF Events, End, VoEnd
    <3> QED BY <3>1, <3>2 DEF FileEnds
  <2> QED BY <2>1, <2>2, <2>3
<1>5. PICK e \in Events : /\ e.type # "reply" /\ events' = Append(events, e)
                          /\ VoEnd(e) => ~context
                          /\ commands' = commands \/ commands' = <<>>
  BY <1>4
<1>6. /\ events' \in Seq(Events) /\ Matched(requests, commands', events') /\ Truthful(events', done)
      /\ commands' \in Seq(Commands)
      /\ ~VoEnd(e) => /\ NoLossAfter(events, 0) => NoLossAfter(events', 0)
                      /\ NoLossBehindReplay(events) => NoLossBehindReplay(events')
  <2>1. <<>> \in Seq(Commands)
    OBVIOUS
  <2>2. CASE commands' = commands
    BY <1>1, <1>5, <2>2, ReportCore
  <2>3. CASE commands' = <<>>
    BY <1>1, <1>5, <2>1, <2>3, ReportCore
  <2> QED BY <1>5, <2>2, <2>3
<1>7. ~context => marker.generation = generation
  BY <1>1 DEF RenderInv
<1>8. \A g \in Nat : g < generation /\ marker.generation = g =>
        /\ NoLossAfter(events, 0) => NoLossAfter(events', 0)
        /\ NoLossBehindReplay(events) => NoLossBehindReplay(events')
  <2>1. ~VoEnd(e) \/ marker.generation = generation
    BY <1>5, <1>7
  <2>2. generation \in Nat
    BY <1>1, Numbers
  <2> QED BY <1>6, <2>1, <2>2
<1> QED BY <1>2, <1>3, <1>6, <1>8, FrameCore

\* Every step.
LEMMA NextCore ==
  ASSUME IInv, Next
  PROVE  CoreInv'
<1>1. scenario' = scenario
  BY DEF Next
<1>2. CASE User
  <2>1. ASSUME NEW e \in Entries \cup {Idle}, UserSource("source", e) PROVE CoreInv'
    BY <1>1, <2>1, SourceCore
  <2>2. ASSUME UserSource("load", Idle) PROVE CoreInv'
    BY <1>1, <2>2, SourceCore
  <2>3. ASSUME NEW n \in DOMAIN playlist, UserRemove(n) PROVE CoreInv'
    <3>1. playlist \in Seq(Entries)
      BY DEF IInv, TypeOK
    <3>2. n \in Nat
      BY <3>1
    <3> QED BY <1>1, <2>3, <3>2, RemoveCore
  <2> QED BY <1>1, <1>2, <2>1, <2>2, <2>3, PauseCore, SeekCore DEF User
<1>3. CASE Worker
  BY <1>1, <1>3, RetiringCore, ReadyCore, ShutdownCore DEF Worker
<1>4. CASE DrainLoop
  BY <1>1, <1>4, StartCore, LoadedCore, EndCore, ReplyCore, CoreShutdownCore, QuietCore DEF DrainLoop
<1>5. CASE Renderer
  BY <1>1, <1>5, QuietCore, LostCore, CreatedCore DEF Renderer
<1>6. CASE Native
  BY <1>1, <1>6, ExecuteCore, SwitchCore, ReportsCore DEF Native
<1> QED BY <1>2, <1>3, <1>4, <1>5, <1>6 DEF Next

-----------------------------------------------------------------------------
(* Contexts and their notices.                                               *)

\* Steps that leave contexts and notices alone.
LEMMA RenderFrame ==
  ASSUME RenderInv, NoticeInv, UNCHANGED <<synced, sourceIntent, marker, barred, generation, context, notices>>
  PROVE  RenderInv' /\ NoticeInv'
BY DEF RenderInv, NoticeInv, IsLoss

\* A newer source intent: no loss is of it yet.
LEMMA IntentRender ==
  ASSUME TypeOK, RenderInv, NoticeInv, UNCHANGED <<synced, marker, generation, context, notices>>,
         sourceIntent' = sourceIntent + 1,
         barred' = barred \/ barred' = IF context THEN generation - 1 ELSE generation
  PROVE  RenderInv' /\ NoticeInv'
<1>1. /\ sourceIntent \in Nat /\ synced \in Nat /\ barred \in Nat /\ generation \in Nat
      /\ marker.intent \in Nat /\ marker.generation \in Nat
      /\ \A n \in DOMAIN notices : IsLoss(notices[n]) => notices[n].intent \in Nat
  BY Numbers
<1>2. /\ barred' <= generation /\ (context => barred' < generation)
  <2>1. CASE barred' = barred
    BY <2>1 DEF RenderInv
  <2>2. CASE context /\ barred' = generation - 1
    BY <1>1, <2>2
  <2>3. CASE ~context /\ barred' = generation
    BY <1>1, <2>3
  <2> QED BY <2>1, <2>2, <2>3
<1>3. synced <= sourceIntent + 1 /\ marker.intent <= sourceIntent + 1 /\ marker.intent # sourceIntent + 1
  BY <1>1 DEF RenderInv
<1>4. RenderInv'
  BY <1>2, <1>3 DEF RenderInv
<1>5. ASSUME NEW n \in DOMAIN notices, IsLoss(notices[n])
      PROVE  notices[n].intent <= sourceIntent + 1 /\ notices[n].intent # sourceIntent + 1
  <2>1. notices[n].intent <= sourceIntent /\ notices[n].intent \in Nat
    BY <1>1, <1>5 DEF NoticeInv
  <2> QED BY <1>1, <2>1
<1>6. NoticeInv'
  BY <1>5 DEF NoticeInv, IsLoss
<1> QED BY <1>4, <1>6

\* A notice is taken.
LEMMA TakenRender ==
  ASSUME TypeOK, RenderInv, NoticeInv, UNCHANGED <<synced, sourceIntent, marker, barred, generation, context>>,
         notices # <<>>, notices' = Tail(notices)
  PROVE  RenderInv' /\ NoticeInv'
<1>1. /\ \A n \in DOMAIN notices' : n + 1 \in DOMAIN notices /\ notices'[n] = notices[n + 1]
      /\ notices' \in Seq(Notices)
  BY TailSeq DEF TypeOK
<1>2. \A n \in DOMAIN notices' : n \in Nat
  BY <1>1
<1>3. NoticeInv'
  BY <1>1, <1>2 DEF NoticeInv, IsLoss
<1> QED BY <1>3 DEF RenderInv

\* synchronize()
LEMMA SynchronizeRender ==
  ASSUME TypeOK, RenderInv, NoticeInv, Synchronize
  PROVE  RenderInv' /\ NoticeInv'
<1>1. UNCHANGED <<sourceIntent, marker, barred, generation, context, notices>> /\ synced' = sourceIntent
  BY DEF Synchronize, workerSide, historyVars
<1>2. sourceIntent <= sourceIntent
  BY Numbers
<1> QED BY <1>1, <1>2 DEF RenderInv, NoticeInv, IsLoss

\* A context is lost: the newest, and no notice is of a newer one.
LEMMA LostRender ==
  ASSUME TypeOK, RenderInv, NoticeInv, ContextLost
  PROVE  RenderInv' /\ NoticeInv'
<1> DEFINE e == [type |-> "retiring", generation |-> generation, intent |-> synced]
<1>1. /\ UNCHANGED <<sourceIntent, barred, generation, synced>> /\ context /\ ~context'
      /\ marker' = [generation |-> generation, intent |-> synced] /\ notices' = Append(notices, e)
  BY DEF ContextLost, workerSide, historyVars
<1>2. e \in Notices /\ notices \in Seq(Notices)
  BY DEF TypeOK, Notices
<1>3. /\ DOMAIN notices' = 1 .. Len(notices) + 1 /\ Len(notices) \in Nat /\ DOMAIN notices = 1 .. Len(notices)
      /\ \A n \in DOMAIN notices : notices'[n] = notices[n]
      /\ notices'[Len(notices) + 1] = e
  BY <1>1, <1>2, AppendSeq
<1>4. /\ generation \in Nat /\ barred \in Nat /\ synced \in Nat /\ sourceIntent \in Nat /\ marker.generation \in Nat
      /\ \A n \in DOMAIN notices : notices[n].generation \in Nat
  BY Numbers
<1>5. synced <= sourceIntent /\ barred < generation /\ marker.generation < generation
  BY <1>1 DEF RenderInv
<1>6. RenderInv'
  BY <1>1, <1>4, <1>5 DEF RenderInv
<1>7. ASSUME NEW n \in DOMAIN notices'
      PROVE  /\ notices'[n].generation <= generation
             /\ IsLoss(notices'[n]) => /\ notices'[n].intent <= sourceIntent
                                       /\ notices'[n].intent = sourceIntent => notices'[n].generation > barred
  <2>1. CASE n \in DOMAIN notices
    BY <1>3, <2>1 DEF NoticeInv
  <2>2. CASE n = Len(notices) + 1
    BY <1>3, <1>4, <1>5, <2>2
  <2> QED BY <1>3, <2>1, <2>2
<1>8. ASSUME NEW m \in DOMAIN notices', NEW n \in DOMAIN notices', m < n, IsLoss(notices'[n])
      PROVE  notices'[m].generation <= notices'[n].generation
  <2>1. CASE n \in DOMAIN notices
    <3>1. m \in DOMAIN notices
      BY <1>3, <1>8, <2>1
    <3> QED BY <1>3, <1>8, <2>1, <3>1 DEF NoticeInv
  <2>2. CASE n = Len(notices) + 1
    <3>1. notices'[n].generation = generation
      BY <1>3, <2>2
    <3> QED BY <1>7, <3>1
  <2> QED BY <1>3, <2>1, <2>2
<1>9. NoticeInv'
  BY <1>1, <1>7, <1>8 DEF NoticeInv, IsLoss
<1> QED BY <1>6, <1>9

\* A context is created, newer than any notice.
LEMMA CreatedRender ==
  ASSUME TypeOK, RenderInv, NoticeInv, ContextCreated
  PROVE  RenderInv' /\ NoticeInv'
<1> DEFINE e == [type |-> "ready", generation |-> generation + 1]
<1>1. /\ UNCHANGED <<sourceIntent, barred, marker>> /\ ~context /\ context' = TRUE /\ synced' = sourceIntent
      /\ generation' = generation + 1 /\ notices' = Append(notices, e) /\ generation < scenario.maxGeneration
  BY DEF ContextCreated, workerSide, historyVars
<1>2. /\ generation \in Nat /\ barred \in Nat /\ sourceIntent \in Nat /\ marker.generation \in Nat
      /\ \A n \in DOMAIN notices : notices[n].generation \in Nat
  BY Numbers
<1>3. e \in Notices /\ notices \in Seq(Notices)
  <2>1. generation + 1 \in Generations
    <3>1. scenario \in Scenarios
      BY DEF TypeOK
    <3> QED BY <1>1, <1>2, <3>1, Bounds
  <2> QED BY <2>1 DEF TypeOK, Notices
<1>4. /\ DOMAIN notices' = 1 .. Len(notices) + 1 /\ Len(notices) \in Nat /\ DOMAIN notices = 1 .. Len(notices)
      /\ \A n \in DOMAIN notices : notices'[n] = notices[n]
      /\ notices'[Len(notices) + 1] = e /\ ~IsLoss(e) /\ e.generation = generation + 1
  BY <1>1, <1>3, AppendSeq DEF IsLoss
<1>5. barred <= generation /\ marker.generation = generation
  BY <1>1 DEF RenderInv
<1>6. RenderInv'
  BY <1>1, <1>2, <1>5 DEF RenderInv
<1>7. ASSUME NEW n \in DOMAIN notices'
      PROVE  /\ notices'[n].generation <= generation + 1
             /\ IsLoss(notices'[n]) => n \in DOMAIN notices
  <2>1. CASE n \in DOMAIN notices
    <3>1. notices'[n].generation <= generation /\ notices'[n].generation \in Nat
      BY <1>4, <1>2, <2>1 DEF NoticeInv
    <3> QED BY <1>2, <2>1, <3>1
  <2>2. CASE n = Len(notices) + 1
    BY <1>4, <1>2, <2>2
  <2> QED BY <1>4, <2>1, <2>2
<1>8. ASSUME NEW m \in DOMAIN notices', NEW n \in DOMAIN notices', m < n, IsLoss(notices'[n])
      PROVE  notices'[m].generation <= notices'[n].generation
  <2>1. n \in DOMAIN notices /\ m \in DOMAIN notices
    BY <1>4, <1>7, <1>8
  <2> QED BY <1>4, <1>8, <2>1 DEF NoticeInv
<1>9. NoticeInv'
  BY <1>1, <1>4, <1>7, <1>8 DEF NoticeInv, IsLoss
<1> QED BY <1>6, <1>9

\* Every step.
LEMMA NextRender ==
  ASSUME IInv, Next
  PROVE  RenderInv' /\ NoticeInv'
<1>1. TypeOK /\ RenderInv /\ NoticeInv
  BY DEF IInv
<1>2. CASE \E what, e : UserSource(what, e)
  BY <1>1, <1>2, IntentRender DEF UserSource, InvalidatePlaybackIntent, rendererVars
<1>3. CASE StartFile
  <2>1. UNCHANGED <<synced, marker, generation, context, notices, barred>>
        /\ (sourceIntent' = sourceIntent + 1 \/ sourceIntent' = sourceIntent)
    BY <1>3 DEF StartFile, InvalidatePlaybackIntent, rendererVars, historyVars
  <2> QED BY <1>1, <2>1, IntentRender, RenderFrame
<1>4. CASE RenderContextRetiring \/ RenderContextReady
  BY <1>1, <1>4, TakenRender DEF RenderContextRetiring, RenderContextReady, NextNotice, rendererVars, historyVars
<1>5. CASE User
  <2>1. CASE \/ \E v \in BOOLEAN : UserPause(v)
             \/ \E p \in Positions, known \in BOOLEAN : UserSeek(p, known)
             \/ \E n \in DOMAIN playlist : UserRemove(n)
    BY <1>1, <2>1, RenderFrame DEF UserPause, UserSeek, UserRemove, rendererVars
  <2> QED BY <1>2, <1>5, <2>1 DEF User
<1>6. CASE Shutdown
  BY <1>1, <1>6, RenderFrame DEF Shutdown, rendererVars, historyVars
<1>7. CASE DrainLoop
  <2>1. CASE FileLoaded \/ EndFile \/ RecoveryReply \/ CoreShutdown \/ DrainDone
             \/ \E property \in {"pause", "time-pos", "playlist"} : PropertyChange(property)
    <3>1. UNCHANGED <<synced, sourceIntent, marker, barred, generation, context, notices>>
      BY <2>1 DEF FileLoaded, EndFile, RecoveryReply, CoreShutdown, DrainDone, PropertyChange, rendererVars, historyVars
    <3> QED BY <1>1, <3>1, RenderFrame
  <2> QED BY <1>3, <1>7, <2>1 DEF DrainLoop
<1>8. CASE Native
  <2>1. NativeAlone /\ barred' = barred
    BY <1>8 DEF Native, Execute, RunPause, RunSeek, RunPlay, RunSource, RunLoad, RunRemove, RunFails, Answered,
                SwitchFile, LoadDone, NativeQuit, FileEnds, historyVars
  <2>2. UNCHANGED <<synced, sourceIntent, marker, barred, generation, context, notices>>
    BY <2>1 DEF NativeAlone, workerSide, rendererVars
  <2> QED BY <1>1, <2>2, RenderFrame
<1> QED BY <1>1, <1>4, <1>5, <1>6, <1>7, <1>8, SynchronizeRender, LostRender, CreatedRender DEF Next, Worker, Renderer

-----------------------------------------------------------------------------
(* Types of what is no queue, in groups that change together.                *)

PlaybackTypes ==
  /\ playback \in PlaybackState /\ terminated \in PlaybackState
  /\ terminationVo \in BOOLEAN
UserTypes ==
  /\ ops \in Revisions /\ {pauseRevision, seekRevision} \subseteq 0 .. ops /\ seekIntent \in SeekIntents
  /\ userPause \in BOOLEAN
RenderTypes ==
  /\ sourceIntent \in Nat \ {0} /\ synced \in Nat /\ barred \in Nat
  /\ generation \in Generations /\ marker \in [generation : 0 .. generation, intent : Nat]
  /\ context \in BOOLEAN
LoopTypes ==
  /\ draining \in BOOLEAN /\ available \in BOOLEAN /\ observedPause \in BOOLEAN
  /\ Len(playlist) <= 2 /\ playlist \in Seq(Entries)
NativeTypes ==
  /\ Len(entries) <= 2 /\ entries \in Seq(Entries)
  /\ nextEntry \in Nat \ {0} /\ upNext \in Entries \cup {Idle, Keep} /\ position \in Positions
  /\ file \in [entry : Entries \cup {Idle}, phase : {"idle", "loading", "playing"}]
  /\ file.phase # "idle" => file.entry \in Entries
  /\ changed \subseteq {"pause", "time-pos", "playlist"}
  /\ pause \in BOOLEAN

\* The types by their groups.
LEMMA TypesOfAll ==
  TypeOK <=> /\ QueuesTyped /\ PlaybackTypes /\ UserTypes /\ RenderTypes /\ LoopTypes /\ NativeTypes
             /\ done \subseteq Requests /\ scenario \in Scenarios
BY DEF TypeOK, QueuesTyped, PlaybackTypes, UserTypes, RenderTypes, LoopTypes, NativeTypes

-----------------------------------------------------------------------------
(* Snapshots of what is playing.                                             *)

\* Steps that leave the snapshots alone.
LEMMA PlaybackFrame ==
  ASSUME SameSets, TypeOK, SnapshotInv, UNCHANGED <<playback, terminated, terminationVo>>,
         pauseRevision' = pauseRevision \/ pauseRevision' = pauseRevision + 1
  PROVE  PlaybackTypes' /\ SnapshotInv'
<1>1. playback.pauseRev \in Nat /\ terminated.pauseRev \in Nat /\ pauseRevision \in Nat
  BY Numbers
<1>2. PlaybackTypes'
  BY TypesOfAll DEF PlaybackTypes, SameSets
<1> QED BY <1>1, <1>2 DEF SnapshotInv

\* The snapshot taken when nothing plays.
LEMMA NothingPlays ==
  ASSUME TypeOK
  PROVE  NoPlayback \in PlaybackState /\ NoPlayback.pauseRev = 0
BY Bounds DEF TypeOK, NoPlayback, PlaybackState, None

\* A snapshot with other members.
LEMMA ChangedPlayback ==
  ASSUME TypeOK, NEW p \in PlaybackState
  PROVE  /\ \A b \in BOOLEAN : /\ [p EXCEPT !.loaded = b] \in PlaybackState
                               /\ [p EXCEPT !.loaded = b].pauseRev = p.pauseRev
         /\ \A b \in BOOLEAN : /\ [p EXCEPT !.paused = b, !.pauseRev = pauseRevision] \in PlaybackState
                               /\ [p EXCEPT !.paused = b, !.pauseRev = pauseRevision].pauseRev = pauseRevision
         /\ \A b \in BOOLEAN :
              /\ [p EXCEPT !.loaded = TRUE, !.paused = b, !.pauseRev = pauseRevision] \in PlaybackState
              /\ [p EXCEPT !.loaded = TRUE, !.paused = b, !.pauseRev = pauseRevision].pauseRev = pauseRevision
         /\ \A q \in Positions :
              /\ [p EXCEPT !.position = q, !.seekRev = seekRevision] \in PlaybackState
              /\ [p EXCEPT !.position = q, !.seekRev = seekRevision].pauseRev = p.pauseRev
         /\ \A e \in Entries, i \in Nat, b \in BOOLEAN :
              /\ [p EXCEPT !.entry = e, !.intent = i, !.loaded = FALSE, !.paused = b, !.pauseRev = pauseRevision]
                   \in PlaybackState
              /\ [p EXCEPT !.entry = e, !.intent = i, !.loaded = FALSE, !.paused = b,
                           !.pauseRev = pauseRevision].pauseRev = pauseRevision
<1>1. pauseRevision \in Revisions /\ seekRevision \in Revisions
  <2>1. ops \in Revisions /\ pauseRevision \in 0 .. ops /\ seekRevision \in 0 .. ops /\ scenario \in Scenarios
    BY DEF TypeOK
  <2> QED BY <2>1, Bounds DEF Revisions
<1>2. /\ p = [entry |-> p.entry, intent |-> p.intent, position |-> p.position, paused |-> p.paused,
              loaded |-> p.loaded, pauseRev |-> p.pauseRev, seekRev |-> p.seekRev]
      /\ p.entry \in Entries \cup {None} /\ p.intent \in Nat /\ p.position \in Positions
      /\ p.paused \in BOOLEAN /\ p.loaded \in BOOLEAN /\ p.pauseRev \in Revisions /\ p.seekRev \in Revisions
  BY DEF PlaybackState
<1> QED BY <1>1, <1>2 DEF PlaybackState

\* No snapshot is left of a source given up.
LEMMA SourcePlayback ==
  ASSUME SameSets, TypeOK, NEW what, NEW e, UserSource(what, e)
  PROVE  PlaybackTypes' /\ SnapshotInv'
<1>1. playback' = NoPlayback /\ terminated' = NoPlayback /\ terminationVo' = FALSE /\ pauseRevision' = pauseRevision
  BY DEF UserSource, InvalidatePlaybackIntent
<1>2. pauseRevision \in Nat
  BY Numbers
<1>3. NoPlayback \in PlaybackState /\ NoPlayback.pauseRev = 0
  BY NothingPlays
<1>4. playback' \in PlaybackState /\ terminated' \in PlaybackState /\ terminationVo' \in BOOLEAN
  BY <1>1, <1>3
<1>5. playback'.pauseRev <= pauseRevision' /\ terminated'.pauseRev <= pauseRevision'
  BY <1>1, <1>2, <1>3
<1> QED BY <1>4, <1>5 DEF PlaybackTypes, SnapshotInv, SameSets

\* MPV_EVENT_START_FILE begins a new snapshot.
LEMMA StartPlayback ==
  ASSUME SameSets, TypeOK, SnapshotInv, StartFile
  PROVE  PlaybackTypes' /\ SnapshotInv'
<1>0. /\ observedPause \in BOOLEAN /\ playback \in PlaybackState /\ terminated \in PlaybackState
      /\ terminationVo \in BOOLEAN /\ recovery.playback \in PlaybackState /\ sourceIntent \in Nat
      /\ events \in Seq(Events) /\ pauseRevision \in Nat
  BY Numbers DEF TypeOK, RecoveryState
<1>1. events # <<>> /\ Head(events).type = "start" /\ pauseRevision' = pauseRevision
  BY DEF StartFile, NextEvent
<1>2. Head(events).entry \in Entries
  <2>1. Head(events) \in Events
    BY <1>0, <1>1, TailSeq
  <2> QED BY <1>1, <2>1 DEF Events
<1>3. /\ \/ sourceIntent' = sourceIntent + 1 /\ terminated' = NoPlayback /\ terminationVo' = FALSE
         \/ UNCHANGED <<sourceIntent, terminated, terminationVo>>
  BY DEF StartFile, InvalidatePlaybackIntent
<1>4. \E p \in PlaybackState :
         playback' = [p EXCEPT !.entry = Head(events).entry, !.intent = sourceIntent', !.loaded = FALSE,
                               !.paused = observedPause, !.pauseRev = pauseRevision]
  <2> DEFINE p == IF recovery.valid /\ recovery.playback.intent = sourceIntent /\ recovery.replaying
                     /\ recovery.playback.entry = Head(events).entry
                  THEN recovery.playback ELSE NoPlayback
  <2>1. playback' = [p EXCEPT !.entry = Head(events).entry, !.intent = sourceIntent', !.loaded = FALSE,
                              !.paused = observedPause, !.pauseRev = pauseRevision]
    BY DEF StartFile
  <2>2. p \in PlaybackState
    BY <1>0, NothingPlays
  <2> HIDE DEF p
  <2> QED BY <2>1, <2>2
<1>5. playback' \in PlaybackState /\ playback'.pauseRev = pauseRevision
  <2>1. sourceIntent' \in Nat
    BY <1>0, <1>3
  <2>2. PICK p \in PlaybackState :
          playback' = [p EXCEPT !.entry = Head(events).entry, !.intent = sourceIntent', !.loaded = FALSE,
                                !.paused = observedPause, !.pauseRev = pauseRevision]
    BY <1>4
  <2>3. \A e \in Entries, i \in Nat, b \in BOOLEAN :
          LET x == [p EXCEPT !.entry = e, !.intent = i, !.loaded = FALSE, !.paused = b, !.pauseRev = pauseRevision]
          IN  x \in PlaybackState /\ x.pauseRev = pauseRevision
    BY ChangedPlayback
  <2> QED BY <1>0, <1>2, <2>1, <2>2, <2>3
<1>6. terminated' \in PlaybackState /\ terminated'.pauseRev <= pauseRevision /\ terminationVo' \in BOOLEAN
  <2>1. NoPlayback \in PlaybackState /\ NoPlayback.pauseRev = 0
    BY NothingPlays
  <2>2. CASE terminated' = NoPlayback /\ terminationVo' = FALSE
    <3>1. terminated'.pauseRev = 0 /\ 0 <= pauseRevision
      BY <1>0, <2>1, <2>2
    <3>2. terminationVo' \in BOOLEAN /\ terminated' \in PlaybackState
      BY <2>1, <2>2
    <3> QED BY <3>1, <3>2
  <2>3. CASE UNCHANGED <<terminated, terminationVo>>
    BY <1>0, <2>3 DEF SnapshotInv
  <2> QED BY <1>3, <2>2, <2>3
<1> QED BY <1>0, <1>1, <1>5, <1>6 DEF PlaybackTypes, SnapshotInv, SameSets

\* Other events complete or end it.
LEMMA EventPlayback ==
  ASSUME SameSets, TypeOK, SnapshotInv,
         FileLoaded \/ EndFile \/ \E property \in {"pause", "time-pos", "playlist"} : PropertyChange(property)
  PROVE  PlaybackTypes' /\ SnapshotInv'
<1>0. /\ observedPause \in BOOLEAN /\ pause \in BOOLEAN /\ playback \in PlaybackState /\ terminated \in PlaybackState
      /\ terminationVo \in BOOLEAN /\ events \in Seq(Events) /\ pauseRevision \in Nat /\ position \in Positions
  BY Numbers DEF TypeOK
<1>1. pauseRevision' = pauseRevision
  BY DEF FileLoaded, EndFile, PropertyChange, intentVars
<1>2. CASE FileLoaded
  <2>1. /\ playback' = [playback EXCEPT !.loaded = TRUE, !.paused = observedPause, !.pauseRev = pauseRevision]
        /\ UNCHANGED <<terminated, terminationVo>>
    BY <1>2 DEF FileLoaded
  <2>2. playback' \in PlaybackState /\ playback'.pauseRev = pauseRevision
    BY <1>0, <2>1, ChangedPlayback
  <2> QED BY <1>0, <1>1, <2>1, <2>2 DEF PlaybackTypes, SnapshotInv, SameSets
<1>3. CASE EndFile
  <2>1. /\ playback' = [playback EXCEPT !.loaded = FALSE]
        /\ terminated' = playback \/ terminated' = terminated
        /\ terminationVo' = Head(events).vo \/ terminationVo' = terminationVo
        /\ events # <<>> /\ Head(events).type = "end"
    BY <1>3 DEF EndFile, NextEvent
  <2>2. Head(events).vo \in BOOLEAN
    <3>1. Head(events) \in Events
      BY <1>0, <2>1, TailSeq
    <3> QED BY <2>1, <3>1 DEF Events
  <2>3. playback' \in PlaybackState /\ playback'.pauseRev = playback.pauseRev
    <3>1. \A b \in BOOLEAN : /\ [playback EXCEPT !.loaded = b] \in PlaybackState
                             /\ [playback EXCEPT !.loaded = b].pauseRev = playback.pauseRev
      BY <1>0, ChangedPlayback
    <3> QED BY <2>1, <3>1
  <2> QED BY <1>0, <1>1, <2>1, <2>2, <2>3 DEF PlaybackTypes, SnapshotInv, SameSets
<1>4. CASE \E property \in {"pause", "time-pos", "playlist"} : PropertyChange(property)
  <2>1. /\ \/ playback' = playback
           \/ playback' = [playback EXCEPT !.paused = pause, !.pauseRev = pauseRevision]
           \/ playback' = [playback EXCEPT !.position = position, !.seekRev = seekRevision]
        /\ UNCHANGED <<terminated, terminationVo>>
    BY <1>4 DEF PropertyChange
  <2>2. playback' \in PlaybackState /\ (playback'.pauseRev = pauseRevision \/ playback'.pauseRev = playback.pauseRev)
    <3>1. /\ [playback EXCEPT !.paused = pause, !.pauseRev = pauseRevision] \in PlaybackState
          /\ [playback EXCEPT !.paused = pause, !.pauseRev = pauseRevision].pauseRev = pauseRevision
      BY <1>0, ChangedPlayback
    <3>2. /\ [playback EXCEPT !.position = position, !.seekRev = seekRevision] \in PlaybackState
          /\ [playback EXCEPT !.position = position, !.seekRev = seekRevision].pauseRev = playback.pauseRev
      BY <1>0, ChangedPlayback
    <3> QED BY <1>0, <2>1, <3>1, <3>2
  <2> QED BY <1>0, <1>1, <2>1, <2>2 DEF PlaybackTypes, SnapshotInv, SameSets
<1> QED BY <1>2, <1>3, <1>4

\* Every step.
LEMMA NextPlayback ==
  ASSUME SameSets, TypeOK, SnapshotInv, Next
  PROVE  PlaybackTypes' /\ SnapshotInv'
<1>1. CASE \/ \E v \in BOOLEAN : UserPause(v)
           \/ \E p \in Positions, known \in BOOLEAN : UserSeek(p, known)
           \/ \E n \in DOMAIN playlist : UserRemove(n)
  BY <1>1, PlaybackFrame DEF UserPause, UserSeek, UserRemove, intentVars
<1>2. CASE RenderContextRetiring \/ RenderContextReady \/ Shutdown \/ RecoveryReply \/ CoreShutdown \/ DrainDone
  BY <1>2, PlaybackFrame DEF RenderContextRetiring, RenderContextReady, Shutdown, RecoveryReply, CoreShutdown,
                             DrainDone, intentVars
<1>3. CASE Renderer
  BY <1>3, PlaybackFrame DEF Renderer, Synchronize, ContextLost, ContextCreated, workerSide, intentVars
<1>4. CASE Native
  <2>1. NativeAlone
    BY <1>4 DEF Native, Execute, RunPause, RunSeek, RunPlay, RunSource, RunLoad, RunRemove, RunFails, Answered,
                SwitchFile, LoadDone, NativeQuit, FileEnds
  <2> QED BY <2>1, PlaybackFrame DEF NativeAlone, workerSide, intentVars
<1> QED BY <1>1, <1>2, <1>3, <1>4, SourcePlayback, StartPlayback, EventPlayback DEF Next, User, Worker, DrainLoop

\* Steps of others than the user and the render thread.
LEMMA OthersFrame ==
  ASSUME Next, ~User, ~StartFile
  PROVE  /\ UNCHANGED <<ops, pauseRevision, seekRevision, seekIntent, userPause>>
         /\ sourceIntent' = sourceIntent /\ barred' = barred
         /\ Renderer \/ UNCHANGED <<synced, generation, marker, context>>
<1>1. CASE RenderContextRetiring \/ RenderContextReady \/ Shutdown
  BY <1>1 DEF RenderContextRetiring, RenderContextReady, Shutdown, intentVars, rendererVars, historyVars
<1>2. CASE FileLoaded \/ EndFile \/ RecoveryReply \/ CoreShutdown \/ DrainDone
           \/ \E property \in {"pause", "time-pos", "playlist"} : PropertyChange(property)
  BY <1>2 DEF FileLoaded, EndFile, RecoveryReply, CoreShutdown, DrainDone, PropertyChange,
              intentVars, rendererVars, historyVars
<1>3. CASE Renderer
  BY <1>3 DEF Renderer, Synchronize, ContextLost, ContextCreated, workerSide, intentVars, historyVars
<1>4. CASE Native
  <2>1. NativeAlone
    BY <1>4 DEF Native, Execute, RunPause, RunSeek, RunPlay, RunSource, RunLoad, RunRemove, RunFails, Answered,
                SwitchFile, LoadDone, NativeQuit, FileEnds
  <2>2. UNCHANGED <<userPause, barred, ops>>
    BY <1>4 DEF Native, Execute, RunPause, RunSeek, RunPlay, RunSource, RunLoad, RunRemove, RunFails, Answered,
                SwitchFile, LoadDone, NativeQuit, FileEnds, historyVars
  <2> QED BY <2>1, <2>2 DEF NativeAlone, workerSide, intentVars, rendererVars
<1> QED BY <1>1, <1>2, <1>3, <1>4 DEF Next, Worker, DrainLoop

\* Every step, for what the user has done.
LEMMA NextUser ==
  ASSUME SameSets, TypeOK, Next
  PROVE  UserTypes'
<1>1. UserTypes /\ scenario \in Scenarios
  BY TypesOfAll
<1>2. ops \in Nat /\ scenario.maxOps \in Nat /\ pauseRevision \in Nat /\ seekRevision \in Nat
      /\ pauseRevision <= ops /\ seekRevision <= ops
      /\ \A n \in Nat : n \in Revisions <=> n <= scenario.maxOps
  BY <1>1, Bounds DEF UserTypes
<1>3. CASE ~User /\ ~StartFile
  BY <1>1, <1>3, OthersFrame DEF UserTypes, SameSets
<1>4. NoSeekIntent \in SeekIntents
  BY <1>1, Bounds DEF NoSeekIntent, SeekIntents
<1>5. CASE StartFile
  <2>1. UNCHANGED <<ops, pauseRevision, seekRevision, userPause>> /\ (seekIntent' = seekIntent \/ seekIntent' = NoSeekIntent)
    BY <1>5 DEF StartFile, InvalidatePlaybackIntent, historyVars
  <2> QED BY <1>1, <1>4, <2>1 DEF UserTypes, SameSets
<1>6. CASE \E v \in BOOLEAN : UserPause(v)
  <2>1. /\ ops' = ops + 1 /\ ops < scenario.maxOps /\ pauseRevision' = pauseRevision + 1
        /\ UNCHANGED <<seekRevision, seekIntent>> /\ userPause' \in BOOLEAN
    BY <1>6 DEF UserPause, UserTask
  <2>2. ops' \in Revisions /\ pauseRevision' \in 0 .. ops' /\ seekRevision' \in 0 .. ops'
    BY <1>2, <2>1
  <2> QED BY <1>1, <2>1, <2>2 DEF UserTypes, SameSets
<1>7. CASE \E what, e : UserSource(what, e)
  <2>1. /\ ops' = ops + 1 /\ ops < scenario.maxOps /\ seekIntent' = NoSeekIntent
        /\ UNCHANGED <<pauseRevision, seekRevision, userPause>>
    BY <1>7 DEF UserSource, UserTask, InvalidatePlaybackIntent
  <2>2. ops' \in Revisions /\ pauseRevision' \in 0 .. ops' /\ seekRevision' \in 0 .. ops'
    BY <1>2, <2>1
  <2> QED BY <1>1, <1>4, <2>1, <2>2 DEF UserTypes, SameSets
<1>8. CASE \E n : UserRemove(n)
  <2>1. /\ ops' = ops + 1 /\ ops < scenario.maxOps
        /\ UNCHANGED <<pauseRevision, seekRevision, seekIntent, userPause>>
    BY <1>8 DEF UserRemove, UserTask, intentVars
  <2>2. ops' \in Revisions /\ pauseRevision' \in 0 .. ops' /\ seekRevision' \in 0 .. ops'
    BY <1>2, <2>1
  <2> QED BY <1>1, <2>1, <2>2 DEF UserTypes, SameSets
<1>9. ASSUME NEW p \in Positions, NEW known \in BOOLEAN, UserSeek(p, known)
      PROVE  UserTypes'
  <2> DEFINE renderer == RetiringContext(sourceIntent)
             kept == [renderer |-> renderer, intent |-> sourceIntent, rev |-> seekRevision + 1,
                      position |-> p, valid |-> TRUE]
  <2>1. /\ ops' = ops + 1 /\ ops < scenario.maxOps /\ seekRevision' = seekRevision + 1
        /\ UNCHANGED <<pauseRevision, userPause>>
        /\ seekIntent' = kept \/ seekIntent' = [seekIntent EXCEPT !.valid = FALSE]
    BY <1>9 DEF UserSeek, UserTask
  <2>2. /\ ops' \in Revisions /\ pauseRevision' \in 0 .. ops' /\ seekRevision' \in 0 .. ops'
        /\ seekRevision + 1 \in Revisions
    BY <1>2, <2>1
  <2>3. renderer \in Contexts
    BY MarkerTyped
  <2> HIDE DEF renderer
  <2>4. kept \in SeekIntents
    BY <2>2, <2>3, Numbers DEF SeekIntents
  <2> HIDE DEF kept
  <2>5. [seekIntent EXCEPT !.valid = FALSE] \in SeekIntents
    BY <1>1 DEF UserTypes, SeekIntents
  <2> QED BY <1>1, <2>1, <2>2, <2>4, <2>5 DEF UserTypes, SameSets
<1> QED BY <1>3, <1>5, <1>6, <1>7, <1>8, <1>9 DEF User

\* Every step, for contexts and source intents.
LEMMA NextRenderTypes ==
  ASSUME SameSets, IInv, Next
  PROVE  RenderTypes'
<1>1. RenderTypes /\ scenario \in Scenarios /\ TypeOK /\ RenderInv
  BY TypesOfAll DEF IInv
<1>2. /\ generation \in Nat /\ generation >= 1
      /\ \A n \in Nat : n \in Generations <=> 1 <= n /\ n <= scenario.maxGeneration
  BY <1>1, Bounds DEF RenderTypes
<1>3. CASE ~User /\ ~StartFile /\ ~Renderer
  BY <1>1, <1>3, OthersFrame DEF RenderTypes, SameSets
<1>4. CASE StartFile \/ User
  <2>1. UNCHANGED <<synced, generation, marker, context>> /\ (sourceIntent' = sourceIntent \/ sourceIntent' = sourceIntent + 1)
        /\ (barred' = barred \/ barred' = generation \/ barred' = generation - 1)
    BY <1>4 DEF StartFile, User, UserPause, UserSeek, UserSource, UserRemove, InvalidatePlaybackIntent, rendererVars, historyVars
  <2>2. sourceIntent' \in Nat \ {0} /\ barred' \in Nat
    BY <1>1, <1>2, <2>1 DEF RenderTypes
  <2> QED BY <1>1, <2>1, <2>2 DEF RenderTypes, SameSets
<1>5. CASE Synchronize
  <2>1. UNCHANGED <<generation, marker, context, sourceIntent, barred>> /\ synced' = sourceIntent
    BY <1>5 DEF Synchronize, workerSide, historyVars
  <2> QED BY <1>1, <2>1 DEF RenderTypes, SameSets
<1>6. CASE ContextLost
  <2>1. UNCHANGED <<generation, synced, sourceIntent, barred>> /\ context' = FALSE
        /\ marker' = [generation |-> generation, intent |-> synced]
    BY <1>6 DEF ContextLost, workerSide, historyVars
  <2>2. marker' \in [generation : 0 .. generation, intent : Nat]
    BY <1>1, <1>2, <2>1 DEF RenderTypes
  <2> QED BY <1>1, <2>1, <2>2 DEF RenderTypes, SameSets
<1>7. CASE ContextCreated
  <2>1. UNCHANGED <<marker, sourceIntent, barred>> /\ context' = TRUE /\ synced' = sourceIntent
        /\ generation' = generation + 1 /\ generation < scenario.maxGeneration
    BY <1>7 DEF ContextCreated, workerSide, historyVars
  <2>2. generation' \in Generations
    BY <1>1, <1>2, <2>1, Bounds
  <2>3. marker \in [generation : 0 .. generation + 1, intent : Nat]
    BY <1>1, <1>2 DEF RenderTypes
  <2> QED BY <1>1, <2>1, <2>2, <2>3 DEF RenderTypes, SameSets
<1> QED BY <1>3, <1>4, <1>5, <1>6, <1>7 DEF Renderer

\* Every step, for the flags of the worker and what it has observed.
LEMMA NextLoop ==
  ASSUME SameSets, TypeOK, Next
  PROVE  LoopTypes'
<1>1. LoopTypes /\ NativeTypes
  BY TypesOfAll
<1>2. CASE UNCHANGED <<draining, available, observedPause, playlist>>
  BY <1>1, <1>2 DEF LoopTypes, SameSets
<1>3. CASE UNCHANGED <<observedPause, playlist>> /\ draining' \in BOOLEAN /\ available' \in BOOLEAN
  BY <1>1, <1>3 DEF LoopTypes, SameSets
<1>4. CASE User \/ RenderContextRetiring \/ RenderContextReady
  BY <1>2, <1>4 DEF User, UserPause, UserSeek, UserSource, UserRemove, RenderContextRetiring, RenderContextReady
<1>5. CASE Shutdown \/ StartFile \/ FileLoaded \/ EndFile \/ RecoveryReply \/ CoreShutdown \/ DrainDone
  <2>1. draining \in BOOLEAN /\ available \in BOOLEAN
    BY <1>1 DEF LoopTypes
  <2>2. UNCHANGED <<observedPause, playlist>> /\ draining' \in {draining, TRUE, FALSE} /\ available' \in {available, FALSE}
    BY <1>5 DEF Shutdown, StartFile, FileLoaded, EndFile, RecoveryReply, CoreShutdown, DrainDone, NextEvent
  <2> QED BY <1>3, <2>1, <2>2
<1>6. CASE \E property \in {"pause", "time-pos", "playlist"} : PropertyChange(property)
  <2>1. draining' = TRUE /\ available' = available /\ (playlist' = entries \/ playlist' = playlist)
        /\ (observedPause' = pause \/ observedPause' = observedPause)
    BY <1>6 DEF PropertyChange
  <2>2. playlist' \in Seq(Entries) /\ Len(playlist') <= 2
    BY <1>1, <2>1 DEF LoopTypes, NativeTypes
  <2>3. observedPause' \in BOOLEAN /\ draining' \in BOOLEAN /\ available' \in BOOLEAN
    BY <1>1, <2>1 DEF LoopTypes, NativeTypes
  <2> QED BY <2>2, <2>3 DEF LoopTypes, SameSets
<1>7. CASE Renderer
  BY <1>2, <1>7 DEF Renderer, Synchronize, ContextLost, ContextCreated, workerSide
<1>8. CASE Native
  <2>1. NativeAlone
    BY <1>8 DEF Native, Execute, RunPause, RunSeek, RunPlay, RunSource, RunLoad, RunRemove, RunFails, Answered,
                SwitchFile, LoadDone, NativeQuit, FileEnds
  <2> QED BY <1>2, <2>1 DEF NativeAlone, workerSide
<1> QED BY <1>4, <1>5, <1>6, <1>7, <1>8 DEF Next, Worker, DrainLoop

\* The playlist of libmpv without one of its entries.
LEMMA EntriesLeft ==
  ASSUME NEW S, NEW s \in Seq(S), NEW i \in DOMAIN s
  PROVE  RemoveAt(s, i) \in Seq(S) /\ Len(RemoveAt(s, i)) <= Len(s)
<1>1. Len(s) \in Nat /\ i \in 1 .. Len(s)
  OBVIOUS
<1>2. SubSeq(s, 1, i - 1) \in Seq(S) /\ Len(SubSeq(s, 1, i - 1)) = i - 1
  BY <1>1
<1>3. SubSeq(s, i + 1, Len(s)) \in Seq(S) /\ Len(SubSeq(s, i + 1, Len(s))) = Len(s) - i
  BY <1>1
<1> DEFINE a == SubSeq(s, 1, i - 1)
           b == SubSeq(s, i + 1, Len(s))
<1>4. RemoveAt(s, i) = a \o b
  BY DEF RemoveAt
<1> HIDE DEF a, b
<1>5. a \in Seq(S) /\ b \in Seq(S) /\ Len(a) = i - 1 /\ Len(b) = Len(s) - i
  BY <1>2, <1>3 DEF a, b
<1>6. a \o b \in Seq(S) /\ Len(a \o b) = Len(a) + Len(b)
  <2>1. a \in Seq(S) /\ b \in Seq(S)
    BY <1>5
  <2> QED BY <2>1
<1> QED BY <1>1, <1>4, <1>5, <1>6

\* libmpv runs a command.
LEMMA ExecuteTypes ==
  ASSUME SameSets, TypeOK, Execute
  PROVE  NativeTypes'
<1>1. NativeTypes /\ scenario \in Scenarios /\ commands \in Seq(Commands)
  BY TypesOfAll DEF QueuesTyped
<1>2. commands # <<>>
  BY DEF Execute, RunPause, RunSeek, RunPlay, RunSource, RunLoad, RunRemove, RunFails, NextCommand
<1>3. Head(commands) \in Commands
  BY <1>1, <1>2, TailSeq
<1>4. changed' \subseteq {"pause", "time-pos", "playlist"}
  <2>1. changed' \subseteq changed \cup {"pause", "time-pos", "playlist"}
    BY DEF Execute, RunPause, RunSeek, RunPlay, RunSource, RunLoad, RunRemove, RunFails, Changes
  <2> QED BY <1>1, <2>1 DEF NativeTypes
<1>5. file' = file
  BY DEF Execute, RunPause, RunSeek, RunPlay, RunSource, RunLoad, RunRemove, RunFails, Answered
<1>6. CASE RunPause
  <2>1. UNCHANGED <<upNext, position, entries, nextEntry>> /\ pause' \in BOOLEAN
    BY <1>6 DEF RunPause, Answered
  <2> QED BY <1>1, <1>4, <1>5, <2>1 DEF NativeTypes, SameSets
<1>7. CASE RunSeek
  <2>1. UNCHANGED <<upNext, pause, entries, nextEntry>> /\ position' = Head(commands).arg /\ Head(commands).what = "seek"
    BY <1>7 DEF RunSeek, Answered, NextCommand
  <2>2. position' \in Positions
    BY <1>3, <2>1 DEF Commands
  <2> QED BY <1>1, <1>4, <1>5, <2>1, <2>2 DEF NativeTypes, SameSets
<1>8. CASE RunPlay
  <2>1. UNCHANGED <<position, pause, entries, nextEntry>> /\ upNext' = entries[Head(commands).arg]
        /\ Head(commands).arg \in DOMAIN entries
    BY <1>8 DEF RunPlay, Answered
  <2>2. upNext' \in Entries
    BY <1>1, <2>1 DEF NativeTypes
  <2> QED BY <1>1, <1>4, <1>5, <2>1, <2>2 DEF NativeTypes, SameSets
<1>9. CASE RunSource
  <2>1. UNCHANGED <<position, pause, entries, nextEntry>> /\ upNext' = Head(commands).arg /\ Head(commands).what = "source"
    BY <1>9 DEF RunSource, Answered, NextCommand
  <2>2. upNext' \in Entries \cup {Idle}
    BY <1>3, <2>1 DEF Commands
  <2> QED BY <1>1, <1>4, <1>5, <2>1, <2>2 DEF NativeTypes, SameSets
<1>10. CASE RunLoad
  <2>1. UNCHANGED <<position, pause>> /\ upNext' = nextEntry /\ entries' = <<nextEntry>> /\ nextEntry' = nextEntry + 1
        /\ nextEntry <= scenario.maxEntry
    BY <1>10 DEF RunLoad
  <2>2. nextEntry \in Nat \ {0}
    BY <1>1 DEF NativeTypes
  <2>3. nextEntry \in Entries
    BY <1>1, <2>1, <2>2, Bounds
  <2>4. entries' \in Seq(Entries) /\ Len(entries') <= 2
    BY <2>1, <2>3
  <2>5. nextEntry' \in Nat \ {0}
    BY <2>1, <2>2
  <2> QED BY <1>1, <1>4, <1>5, <2>1, <2>3, <2>4, <2>5 DEF NativeTypes, SameSets
<1>11. CASE RunRemove
  <2>1. UNCHANGED <<position, pause, nextEntry>> /\ (upNext' = upNext \/ upNext' = Idle)
        /\ \E i \in DOMAIN entries : entries' = RemoveAt(entries, i)
    BY <1>11 DEF RunRemove, Answered
  <2>2. entries' \in Seq(Entries) /\ Len(entries') <= Len(entries)
    BY <1>1, <2>1, EntriesLeft DEF NativeTypes
  <2>3. Len(entries') <= 2
    BY <1>1, <2>2 DEF NativeTypes
  <2> QED BY <1>1, <1>4, <1>5, <2>1, <2>2, <2>3 DEF NativeTypes, SameSets
<1>12. CASE RunFails
  <2>1. UNCHANGED <<upNext, pause, position, entries, nextEntry>>
    BY <1>12 DEF RunFails, Answered
  <2> QED BY <1>1, <1>4, <1>5, <2>1 DEF NativeTypes, SameSets
<1> QED BY <1>6, <1>7, <1>8, <1>9, <1>10, <1>11, <1>12 DEF Execute

\* Its play loop goes on.
LEMMA PlayLoopTypes ==
  ASSUME SameSets, TypeOK, SwitchFile \/ LoadDone \/ NativeQuit \/ \E vo \in BOOLEAN : FileEnds(vo)
  PROVE  NativeTypes'
<1>1. NativeTypes /\ scenario \in Scenarios
  BY TypesOfAll
<1>2. UNCHANGED <<pause, entries, nextEntry>> /\ changed' \subseteq {"pause", "time-pos", "playlist"}
  BY <1>1 DEF SwitchFile, LoadDone, NativeQuit, FileEnds, NativeTypes
<1>3. position' \in Positions
  BY <1>1, Bounds DEF SwitchFile, LoadDone, NativeQuit, FileEnds, NativeTypes
<1>4. NoFile \in [entry : Entries \cup {Idle}, phase : {"idle", "loading", "playing"}] /\ NoFile.phase = "idle"
  BY DEF NoFile
<1> DEFINE Typed(f) ==
      /\ f \in [entry : Entries \cup {Idle}, phase : {"idle", "loading", "playing"}]
      /\ f.phase # "idle" => f.entry \in Entries
<1>5. CASE SwitchFile
  <2>1. upNext # Keep /\ upNext' = Keep /\ file' = IF upNext = Idle THEN NoFile ELSE Loading(upNext)
    BY <1>5 DEF SwitchFile
  <2>2. upNext # Idle => upNext \in Entries
    BY <1>1, <2>1 DEF NativeTypes
  <2>3. Typed(file')
    BY <1>4, <2>1, <2>2 DEF Loading
  <2> QED BY <1>1, <1>2, <1>3, <2>1, <2>3 DEF NativeTypes, SameSets
<1>6. CASE LoadDone
  <2>1. upNext' = upNext /\ file' = [file EXCEPT !.phase = "playing"] /\ file.phase = "loading"
    BY <1>6 DEF LoadDone
  <2>2. Typed(file')
    BY <1>1, <2>1 DEF NativeTypes
  <2> QED BY <1>1, <1>2, <1>3, <2>1, <2>2 DEF NativeTypes, SameSets
<1>7. CASE NativeQuit
  <2>1. upNext' = Keep /\ file' = NoFile
    BY <1>7 DEF NativeQuit
  <2> QED BY <1>1, <1>2, <1>3, <1>4, <2>1 DEF NativeTypes, SameSets
<1>8. CASE \E vo \in BOOLEAN : FileEnds(vo)
  <2> DEFINE n == Place(file.entry, entries)
  <2>1. file' = NoFile /\ upNext' = IF upNext # Keep THEN upNext
                                    ELSE IF n # 0 /\ n < Len(entries) THEN entries[n + 1] ELSE Idle
    BY <1>8 DEF FileEnds
  <2>2. n \in Nat /\ entries \in Seq(Entries)
    BY <1>1, PlaceTyped DEF NativeTypes
  <2> HIDE DEF n
  <2>3. n # 0 /\ n < Len(entries) => entries[n + 1] \in Entries
    BY <2>2
  <2>4. upNext' \in Entries \cup {Idle, Keep}
    BY <1>1, <2>1, <2>3 DEF NativeTypes
  <2> QED BY <1>1, <1>2, <1>3, <1>4, <2>1, <2>4 DEF NativeTypes, SameSets
<1> QED BY <1>5, <1>6, <1>7, <1>8

\* Every step, for libmpv.
LEMMA NextNative ==
  ASSUME SameSets, TypeOK, Next
  PROVE  NativeTypes' /\ done' \subseteq Requests
<1>1. NativeTypes /\ done \subseteq Requests /\ commands \in Seq(Commands)
  BY TypesOfAll DEF QueuesTyped
<1>2. ASSUME UNCHANGED <<nativeVars, done>>, changed' \subseteq changed
      PROVE  NativeTypes' /\ done' \subseteq Requests
  BY <1>1, <1>2 DEF NativeTypes, SameSets, nativeVars
<1>3. CASE User
  BY <1>2, <1>3 DEF User, UserPause, UserSeek, UserSource, UserRemove
<1>4. CASE Worker
  BY <1>2, <1>4 DEF Worker, RenderContextRetiring, RenderContextReady, Shutdown, historyVars
<1>5. CASE DrainLoop
  BY <1>2, <1>5 DEF DrainLoop, StartFile, FileLoaded, EndFile, RecoveryReply, CoreShutdown, DrainDone, PropertyChange, historyVars
<1>6. CASE Renderer
  BY <1>2, <1>6 DEF Renderer, Synchronize, ContextLost, ContextCreated, historyVars
<1>7. CASE Native
  <2>1. NativeTypes'
    BY <1>7, ExecuteTypes, PlayLoopTypes DEF Native
  <2>2. done' = done \/ (commands # <<>> /\ Head(commands).by # 0
                         /\ done' = done \cup {[rev |-> Head(commands).by, step |-> Head(commands).what]})
    <3>1. CASE SwitchFile \/ LoadDone \/ NativeQuit \/ \E vo \in BOOLEAN : FileEnds(vo)
      BY <3>1 DEF SwitchFile, LoadDone, NativeQuit, FileEnds, historyVars
    <3>2. CASE Execute
      BY <3>2 DEF Execute, RunPause, RunSeek, RunPlay, RunSource, RunLoad, RunRemove, RunFails, NextCommand, Answered, historyVars
    <3> QED BY <1>7, <3>1, <3>2 DEF Native
  <2>3. ASSUME commands # <<>>, Head(commands).by # 0
        PROVE  [rev |-> Head(commands).by, step |-> Head(commands).what] \in Requests
    <3>1. Head(commands) \in Commands
      BY <1>1, <2>3, TailSeq
    <3>2. Head(commands).by \in Nat \ {0} /\ Head(commands).what \in Steps
      BY <2>3, <3>1 DEF Commands, Steps
    <3> QED BY <3>2 DEF Requests
  <2> QED BY <1>1, <2>1, <2>2, <2>3
<1> QED BY <1>3, <1>4, <1>5, <1>6, <1>7 DEF Next

-----------------------------------------------------------------------------
(* The invariant holds initially and is kept.                                *)

\* The initial states.
LEMMA InitIInv == Init => IInv
<1> SUFFICES ASSUME Init PROVE IInv
  OBVIOUS
<1>1. /\ scenario \in Scenarios /\ requests = {} /\ sent = {} /\ done = {} /\ recovery = NoRecovery
      /\ commands = <<>> /\ events = <<>> /\ notices = <<>>
      /\ pauseRevision = 0 /\ seekRevision = 0 /\ recoveryRevision = 0 /\ ops = 0
      /\ terminated = NoPlayback /\ playback = [NoPlayback EXCEPT !.entry = 1, !.intent = 1, !.loaded = TRUE]
      /\ sourceIntent = 1 /\ synced = 1 /\ barred = 0 /\ generation = 1 /\ context
      /\ marker = [generation |-> 0, intent |-> 0]
  BY DEF Init
<1>2. /\ 0 \in Revisions /\ 0 \in Contexts /\ 1 \in Generations /\ 0 \in Positions
      /\ 1 \in Entries /\ 2 \in Entries
  BY <1>1, Bounds
<1>3. NoPlayback \in PlaybackState /\ NoPlayback.pauseRev = 0 /\ playback \in PlaybackState /\ playback.pauseRev = 0
  BY <1>1, <1>2 DEF NoPlayback, PlaybackState, None
<1>4. /\ NoRecovery \in RecoveryState /\ ~NoRecovery.valid /\ NoRecovery.rev = 0 /\ NoRecovery.ready = 0
      /\ NoRecovery.pauseRev = 0
  BY <1>2, <1>3 DEF NoRecovery, RecoveryState
<1>5. NoSeekIntent \in SeekIntents
  BY <1>2 DEF NoSeekIntent, SeekIntents
<1>6. QueuesTyped
  BY <1>1, <1>4 DEF QueuesTyped
<1>7. PlaybackTypes
  BY <1>1, <1>3 DEF PlaybackTypes, Init
<1>8. UserTypes
  <2>1. seekIntent = NoSeekIntent /\ userPause = FALSE
    BY DEF Init
  <2>2. userPause \in BOOLEAN
    BY <2>1
  <2>3. {pauseRevision, seekRevision} \subseteq 0 .. ops
    BY <1>1
  <2> QED BY <1>1, <1>2, <1>5, <2>1, <2>2, <2>3 DEF UserTypes
<1>9. RenderTypes
  BY <1>1, <1>2 DEF RenderTypes
<1>10. LoopTypes
  <2>1. draining = FALSE /\ available = TRUE /\ observedPause = FALSE /\ playlist = <<1, 2>>
    BY DEF Init
  <2>2. draining \in BOOLEAN /\ available \in BOOLEAN /\ observedPause \in BOOLEAN
    BY <2>1
  <2>3. <<1, 2>> \in Seq(Entries) /\ Len(<<1, 2>>) <= 2
    BY <1>2
  <2> QED BY <2>1, <2>2, <2>3 DEF LoopTypes
<1>11. NativeTypes
  <2>1. <<1, 2>> \in Seq(Entries) /\ Len(<<1, 2>>) <= 2
    BY <1>2
  <2>2. [entry |-> 1, phase |-> "playing"] \in [entry : Entries \cup {Idle}, phase : {"idle", "loading", "playing"}]
    BY <1>2
  <2>3. /\ file = [entry |-> 1, phase |-> "playing"] /\ upNext = Keep /\ position = 0
        /\ entries = <<1, 2>> /\ nextEntry = 3 /\ changed = {}
    BY DEF Init
  <2>4. pause \in BOOLEAN
    BY DEF Init
  <2> QED BY <1>2, <2>1, <2>2, <2>3, <2>4 DEF NativeTypes
<1>12. TypeOK
  BY <1>1, <1>6, <1>7, <1>8, <1>9, <1>10, <1>11, TypesOfAll
<1>13. RenderInv /\ NoticeInv /\ SnapshotInv /\ ReadyInv /\ OlderInv /\ PlayedInv
  BY <1>1, <1>3, <1>4 DEF RenderInv, NoticeInv, SnapshotInv, ReadyInv, OlderInv, PlayedInv
<1>14. Fits(recovery, requests)
  BY <1>1, <1>4 DEF Fits
<1>15. Matched(requests, commands, events) /\ Truthful(events, done)
  BY <1>1 DEF Matched, Truthful
<1> QED BY <1>12, <1>13, <1>14, <1>15 DEF IInv

\* Every step.
LEMMA NextIInv == IInv /\ [Next]_vars => IInv'
<1> SUFFICES ASSUME IInv, [Next]_vars PROVE IInv'
  OBVIOUS
<1>1. CASE Next
  <2>1. CoreInv' /\ RenderInv' /\ NoticeInv'
    BY <1>1, NextCore, NextRender
  <2>2. SameSets /\ scenario' = scenario /\ TypeOK /\ SnapshotInv /\ scenario \in Scenarios
    BY <1>1, ScenarioFixed DEF Next, IInv, TypeOK
  <2>3. PlaybackTypes' /\ SnapshotInv' /\ UserTypes' /\ RenderTypes' /\ LoopTypes' /\ NativeTypes' /\ done' \subseteq Requests
    BY <1>1, <2>2, NextPlayback, NextUser, NextRenderTypes, NextLoop, NextNative
  <2>4. (done \subseteq Requests)' /\ (scenario \in Scenarios)'
    BY <2>2, <2>3 DEF SameSets
  <2>5. (QueuesTyped /\ ReadyInv /\ OlderInv /\ PlayedInv /\ Fits(recovery, requests)
         /\ Matched(requests, commands, events) /\ Truthful(events, done))'
    BY <2>1 DEF CoreInv
  <2>6. TypeOK'
    BY <2>3, <2>4, <2>5 DEF TypeOK, QueuesTyped, PlaybackTypes, UserTypes, RenderTypes, LoopTypes, NativeTypes
  <2> QED BY <2>1, <2>3, <2>5, <2>6 DEF IInv
<1>2. CASE UNCHANGED vars
  <2>1. UNCHANGED moving /\ scenario' = scenario
    BY <1>2 DEF vars
  <2>2. UNCHANGED <<playback, terminated, recovery, requests, recoveryRevision, pauseRevision, available,
                    sourceIntent, marker, generation, context, synced, notices, commands, events, sent, done, barred>>
    BY <2>1 DEF moving, intentVars, rendererVars, historyVars
  <2>3. UNCHANGED <<terminationVo, seekRevision, seekIntent, observedPause, playlist, draining,
                    file, upNext, pause, position, entries, nextEntry, changed, userPause, ops>>
    BY <2>1 DEF moving, intentVars, nativeVars, historyVars
  <2>4. SameSets
    BY <2>1, ScenarioFixed
  <2>5. TypeOK'
    BY <2>1, <2>2, <2>3, <2>4 DEF IInv, TypeOK, SameSets, Steps, Idle, Keep
  <2>6. (RenderInv /\ NoticeInv /\ SnapshotInv /\ ReadyInv /\ OlderInv)'
    BY <2>2 DEF IInv, RenderInv, NoticeInv, SnapshotInv, ReadyInv, OlderInv, LossesFrom, IsLoss, Plays
  <2>7. PlayedInv'
    BY <2>2 DEF IInv, PlayedInv, Plays, Settles, Replayed, InReplay, Over, NoLossAfter, NoLossBehindReplay, VoEnd
  <2>8. Fits(recovery, requests)'
    BY <2>2, <2>4 DEF IInv, Fits, Progressing, Acknowledged, Request, SameSets
  <2>9. (Matched(requests, commands, events) /\ Truthful(events, done))'
    BY <2>2 DEF IInv, Matched, Truthful
  <2> QED BY <2>5, <2>6, <2>7, <2>8, <2>9 DEF IInv
<1> QED BY <1>1, <1>2

-----------------------------------------------------------------------------
(* The theorems.                                                             *)

\* IInv holds in every reachable state.
THEOREM Invariance == Spec => []IInv
BY InitIInv, NextIInv, PTL DEF Spec

\* The types of TypeOK, the bounds of revisions and contexts included.
THEOREM TypeCorrect == Spec => []TypeOK
<1>1. IInv => TypeOK
  BY DEF IInv
<1> QED BY Invariance, <1>1, PTL

\* A set of at most one number.
LEMMA AtMostOne ==
  ASSUME NEW S, \A x, y \in S : x = y
  PROVE  Cardinality(S) \in {0, 1} /\ (Cardinality(S) = 1 => S # {})
<1>1. CASE S = {}
  BY <1>1, FS_EmptySet
<1>2. CASE S # {}
  <2>1. PICK x \in S : TRUE
    BY <1>2
  <2>2. S = {x}
    BY <2>1
  <2> QED BY <1>2, <2>2, FS_Singleton
<1> QED BY <1>1, <1>2

\* At most one recovery request is on its way, what a recovery believes to be
\* acknowledged was done for it, and it is never replayed before its pause state is
\* settled, however losses, replies and user operations interleave.
THEOREM StepsSound == Spec => []StepsAreSound
<1>1. IInv => OneRequestAtATime
  <2> SUFFICES ASSUME IInv PROVE OneRequestAtATime
    OBVIOUS
  <2> DEFINE C == {n \in DOMAIN commands : commands[n].by # 0}
             E == {n \in DOMAIN events : events[n].type = "reply"}
  <2>1. /\ \A x, y \in C : x = y
        /\ \A x, y \in E : x = y
        /\ C = {} \/ E = {}
    BY DEF IInv, Matched
  <2> HIDE DEF C, E
  <2>2. /\ Cardinality(C) \in {0, 1} /\ (Cardinality(C) = 1 => C # {})
        /\ Cardinality(E) \in {0, 1} /\ (Cardinality(E) = 1 => E # {})
    BY <2>1, AtMostOne
  <2>3. Cardinality(C) + Cardinality(E) <= 1
    BY <2>1, <2>2
  <2> QED BY <2>3 DEF OneRequestAtATime, C, E
<1>2. IInv => AcknowledgedWasDone
  BY DEF IInv, Fits, Acknowledged, Request, AcknowledgedWasDone
<1>3. IInv => StepsAreSound
  BY <1>1, <1>2 DEF StepsAreSound
<1> QED BY Invariance, <1>3, PTL

\* What a step submits.
LEMMA NextAsks ==
  ASSUME IInv, Next
  PROVE  AsksSoundly /\ (requests' \ requests # {} => available)
<1>1. scenario' = scenario
  BY DEF Next
<1>2. CASE requests' = requests
  BY <1>2 DEF AsksSoundly, Submitted
<1>3. CASE RenderContextReady
  BY <1>1, <1>3, ReadyCore DEF RenderContextReady, NextNotice, Task
<1>4. CASE FileLoaded
  BY <1>1, <1>4, LoadedCore DEF FileLoaded, NextEvent
<1>5. CASE EndFile
  BY <1>1, <1>5, EndCore DEF EndFile, NextEvent
<1>6. CASE RecoveryReply
  BY <1>1, <1>6, ReplyCore DEF RecoveryReply, NextEvent
<1>7. CASE User
  BY <1>2, <1>7 DEF User, UserPause, UserSeek, UserSource, UserRemove
<1>8. CASE RenderContextRetiring \/ Shutdown \/ StartFile \/ CoreShutdown \/ DrainDone
           \/ \E property \in {"pause", "time-pos", "playlist"} : PropertyChange(property)
  BY <1>2, <1>8 DEF RenderContextRetiring, Shutdown, StartFile, CoreShutdown, DrainDone, PropertyChange
<1>9. CASE Renderer
  BY <1>2, <1>9 DEF Renderer, Synchronize, ContextLost, ContextCreated, workerSide
<1>10. CASE Native
  <2>1. NativeAlone
    BY <1>10 DEF Native, Execute, RunPause, RunSeek, RunPlay, RunSource, RunLoad, RunRemove, RunFails, Answered,
                 SwitchFile, LoadDone, NativeQuit, FileEnds
  <2> QED BY <1>2, <2>1 DEF NativeAlone, workerSide
<1> QED BY <1>3, <1>4, <1>5, <1>6, <1>7, <1>8, <1>9, <1>10 DEF Next, Worker, DrainLoop

\* Nothing is submitted for a context lost before the last change of source, nor
\* after the shutdown, whatever notices, events and replies are still under way.
THEOREM CancelledForGood == Spec => CancelledStaysCancelled
<1>1. IInv /\ [Next]_vars => [requests' \ requests # {} => available /\ recovery'.retired > barred]_vars
  BY NextAsks DEF AsksSoundly
<1> QED BY Invariance, <1>1, PTL DEF Spec, CancelledStaysCancelled

\* One replay at most for each lost context, after its file has ended for the loss and
\* a newer context is ready.
THEOREM ReplayedOnce == Spec => OneReplayPerLoss
<1> DEFINE Once == Submitted("play") # {} =>
             /\ \A old \in sent : old.step = "play" => old.renderer # recovery'.retired
             /\ recovery'.ready > recovery'.retired /\ recovery'.terminated
<1>1. IInv /\ [Next]_vars => [Once]_vars
  BY NextAsks DEF AsksSoundly, Plays
<1> HIDE DEF Once
<1>2. Spec => [][Once]_vars
  BY Invariance, <1>1, PTL DEF Spec
<1> QED BY <1>2 DEF Once, OneReplayPerLoss
=============================================================================
