------------------------------ MODULE Recovery ------------------------------
(***************************************************************************)
(* Playback recovery after the loss of a render context (MpvController,    *)
(* with the retirement marker of MpvCoreLease).                            *)
(*                                                                         *)
(* Three parties run concurrently. A render thread destroys and creates    *)
(* render contexts and tells the worker through the GUI thread's queue.    *)
(* libmpv executes accepted commands in order, ends the file when video    *)
(* output has no context, goes on to the next entry, and reports: queued   *)
(* events in order, changed properties only when no event is queued. The   *)
(* worker thread runs the controller: user submissions, renderer notices   *)
(* and drain(), which handles events until none is left.                   *)
(*                                                                         *)
(* Playback time stands still: loads and seeks alone move the position.    *)
(* Relative seeks are absolute ones here, and a request is named by the    *)
(* recovery and the step it belongs to, not by its native token.           *)
(***************************************************************************)
EXTENDS Integers, Sequences, FiniteSets, SequencesExt

CONSTANTS
  Positions,       (* positions in a file, 0 among them                      *)
  MaxEvents,       (* bound: events libmpv queues before it waits            *)
  Scenarios        (* what happens around the losses of contexts: records of *)
                   (*   maxEntry       bound: playlist entry ids             *)
                   (*   maxGeneration  bound: render contexts created        *)
                   (*   maxOps         bound: user operations                *)
                   (*   userOps        kinds of user operations              *)
                   (*   mayFail        may recovery's own requests be refused*)
                   (*                  or fail?                              *)

ASSUME BoundsAssumption ==
  /\ MaxEvents \in Nat \ {0}
  /\ 0 \in Positions /\ Positions \subseteq Nat
  /\ Scenarios \subseteq
       [maxEntry : Nat \ {0, 1}, maxGeneration : Nat \ {0}, maxOps : Nat, mayFail : BOOLEAN,
        userOps : SUBSET {"pause", "seek", "source", "load", "remove"}]

VARIABLES
  (* MpvController, without the m_ of its members *)
  playback, terminated, terminationVo, recovery, requests, recoveryRevision,
  pauseRevision, seekRevision, observedPause, playlist, seekIntent,
  available,       (* m_available and not m_closing                          *)
  draining,        (* the worker is inside the loop of drain()               *)
  (* MpvCoreLease *)
  sourceIntent,
  marker,          (* m_retiringGeneration and m_retiringIntent              *)
  (* Renderer side *)
  generation,      (* of the newest renderer                                 *)
  context,         (* does it have a render context?                         *)
  synced,          (* m_snapshot.sourceIntent, of the last synchronize()     *)
  notices,         (* renderer messages on their way to the worker           *)
  (* libmpv *)
  file,            (* [entry, phase] of what is playing                      *)
  upNext,          (* what to play next: an entry, Idle, or Keep             *)
  pause, position,
  entries,         (* its playlist                                           *)
  nextEntry,       (* id of the entry a loadfile would create                *)
  commands, events, changed,
  (* History, read by properties only *)
  userPause,       (* pause state the user asked for last                    *)
  sent,            (* recovery requests submitted: [renderer, rev, step]     *)
  done,            (* recovery requests libmpv carried out: [rev, step]      *)
  barred,          (* newest context retired before the last source change   *)
  ops,
  scenario         (* the member of Scenarios this behaviour belongs to      *)

intentVars   == <<pauseRevision, seekRevision, seekIntent>>
rendererVars == <<generation, context, synced>>
nativeVars   == <<file, upNext, pause, position, entries, nextEntry>>
historyVars  == <<userPause, done, barred, ops>>
moving == <<playback, terminated, terminationVo, recovery, requests, recoveryRevision,
            intentVars, observedPause, playlist, available, draining, sourceIntent,
            marker, rendererVars, notices, nativeVars, commands, events, changed,
            sent, historyVars>>
vars == <<moving, scenario>>

Entries == 1 .. scenario.maxEntry
Generations == 1 .. scenario.maxGeneration
Keep == -1
Idle == 0
Steps == {"pause", "play", "seek"}
None == -1
Flag(b) == IF b THEN 1 ELSE 0   \* arguments of commands are numbers
Place(e, list) == SelectInSeq(list, LAMBDA x : x = e)   \* 0 when it is not there

NoPlayback == [entry |-> None, intent |-> 0, position |-> 0, paused |-> FALSE,
               loaded |-> FALSE, pauseRev |-> 0, seekRev |-> 0]
NoRecovery == [playback |-> NoPlayback, retired |-> 0, ready |-> 0, rev |-> 0,
               pauseRev |-> 0, seekRev |-> 0, valid |-> FALSE, terminated |-> FALSE,
               replaying |-> FALSE, replayAck |-> FALSE, pauseAck |-> FALSE,
               fileLoaded |-> FALSE, seekSubmitted |-> FALSE]
NoSeekIntent == [renderer |-> 0, intent |-> 0, rev |-> 0, position |-> 0, valid |-> FALSE]

\* The first entry of a playlist of two is playing, and everybody knows.
Init ==
  /\ playback = [NoPlayback EXCEPT !.entry = 1, !.intent = 1, !.loaded = TRUE]
  /\ terminated = NoPlayback /\ terminationVo = FALSE
  /\ recovery = NoRecovery /\ requests = {} /\ recoveryRevision = 0
  /\ pauseRevision = 0 /\ seekRevision = 0 /\ seekIntent = NoSeekIntent
  /\ observedPause = FALSE /\ playlist = <<1, 2>>
  /\ available = TRUE /\ draining = FALSE
  /\ sourceIntent = 1 /\ marker = [generation |-> 0, intent |-> 0]
  /\ generation = 1 /\ context = TRUE /\ synced = 1 /\ notices = <<>>
  /\ file = [entry |-> 1, phase |-> "playing"] /\ upNext = Keep
  /\ pause = FALSE /\ position = 0 /\ entries = <<1, 2>> /\ nextEntry = 3
  /\ commands = <<>> /\ events = <<>> /\ changed = {}
  /\ userPause = FALSE
  /\ sent = {} /\ done = {} /\ barred = 0 /\ ops = 0 /\ scenario \in Scenarios

-----------------------------------------------------------------------------
(* Steps of the recovery, on a recovery record r with requests q outstanding. *)

Outcome(r, q, commandsSent) == [recovery |-> r, requests |-> q, commands |-> commandsSent]
Cancelled(r) == [r EXCEPT !.valid = FALSE]

\* submitRecovery(), and failRecovery() when the request is refused.
Submit(r, q, step, arg, accepted) ==
  IF accepted
  THEN Outcome(r, q \cup {[rev |-> r.rev, step |-> step]},
               <<[what |-> step, arg |-> arg, by |-> r.rev]>>)
  ELSE Outcome(Cancelled(r), q, <<>>)

\* The guard of tryRecoverPlayback().
MayRecoverDuringRequest(r, q) ==   \* mutant: an outstanding request is no obstacle
  available /\ r.valid /\ r.terminated /\ r.ready # 0 /\ ~r.replaying
MayRecoverBeforeLoss(r, q) ==      \* mutant: does not wait for the file to end
  available /\ r.valid /\ r.ready # 0 /\ ~r.replaying /\ q = {}
MayRecoverAgain(r, q) ==           \* mutant: forgets that the replay was submitted
  available /\ r.valid /\ r.terminated /\ r.ready # 0 /\ q = {}
MayRecover(r, q) ==
  available /\ r.valid /\ r.terminated /\ r.ready # 0 /\ ~r.replaying /\ q = {}

\* Is the saved pause state obsolete?
NeverRestoresPause(r) == TRUE      \* mutant: goes on to the replay at once
PauseObsolete(r) == r.pauseAck \/ r.pauseRev # pauseRevision

\* tryRecoverPlayback(): pause first, and when that is settled replay.
TryRecover(r, q, accepted) ==
  IF ~MayRecover(r, q)
  THEN Outcome(r, q, <<>>)
  ELSE IF r.playback.intent # sourceIntent \/ ~Contains(playlist, r.playback.entry)
  THEN Outcome(Cancelled(r), q, <<>>)
  ELSE IF ~PauseObsolete(r)
  THEN Submit(r, q, "pause", Flag(r.playback.paused), accepted)
  ELSE Submit([r EXCEPT !.pauseAck = TRUE, !.replaying = TRUE], q, "play",
              Place(r.playback.entry, playlist), accepted)

\* tryRestorePosition(): the recovery ends here when a newer seek exists.
TryRestore(r, q, accepted) ==
  IF ~(r.valid /\ r.replaying /\ ~r.seekSubmitted /\ r.fileLoaded /\ r.replayAck /\ r.pauseAck)
  THEN Outcome(r, q, <<>>)
  ELSE IF r.playback.intent # sourceIntent \/ r.seekRev # seekRevision
  THEN Outcome(Cancelled(r), q, <<>>)
  ELSE Submit([r EXCEPT !.seekSubmitted = TRUE], q, "seek", r.playback.position, accepted)

\* Does a reply concern the recovery under way?
IsCurrentWhatever(request, r) ==   \* mutant: any recovery's reply counts
  r.valid /\ r.playback.intent = sourceIntent
IsCurrent(request, r) ==
  r.valid /\ request.rev = r.rev /\ r.playback.intent = sourceIntent

\* handleRecoveryReply(), for a reply that belongs to a recovery.
AfterReply(request, ok, r, accepted) ==
  LET q == requests \ {request}
  IN IF ~IsCurrent(request, r)
     THEN TryRecover(r, q, accepted)
     ELSE IF ~ok \/ request.step = "seek" THEN Outcome(Cancelled(r), q, <<>>)
     ELSE IF request.step = "pause" THEN TryRecover([r EXCEPT !.pauseAck = TRUE], q, accepted)
     ELSE TryRestore([r EXCEPT !.replayAck = TRUE], q, accepted)

Apply(o) ==
  /\ recovery' = o.recovery
  /\ requests' = o.requests
  /\ commands' = commands \o o.commands
  /\ sent' = sent \cup {[renderer |-> o.recovery.retired, rev |-> q.rev, step |-> q.step] :
                          q \in o.requests \ requests}

MayBeAccepted == IF scenario.mayFail THEN BOOLEAN ELSE {TRUE}

\* retiringContext(intent) of the lease.
RetiringContext(intent) ==
  IF marker.generation # 0 /\ marker.intent = intent THEN marker.generation ELSE 0

\* renderContextRetiring(): the recovery for the loss of context g, which was
\* synchronized under the given intent.
Classified(g, intent, r) ==
  LET snapshot == IF playback.loaded THEN playback ELSE terminated
      known    == r.valid /\ r.retired = g /\ r.playback.intent = intent
      sought   == seekIntent.valid /\ seekIntent.renderer = g
                    /\ seekIntent.intent = intent /\ seekIntent.rev = seekRevision
  IN IF ~available \/ g = 0 \/ intent # sourceIntent \/ known
        \/ ~snapshot.loaded \/ snapshot.entry < 0 \/ snapshot.intent # intent
     THEN r
     ELSE [NoRecovery EXCEPT
            !.playback = IF sought THEN [snapshot EXCEPT !.position = seekIntent.position]
                                   ELSE snapshot,
            !.retired = g, !.rev = recoveryRevision + 1, !.valid = TRUE,
            !.pauseRev = snapshot.pauseRev,
            !.seekRev = IF sought THEN seekIntent.rev ELSE snapshot.seekRev,
            !.terminated = terminationVo /\ terminated.entry = snapshot.entry
                             /\ terminated.intent = intent]

-----------------------------------------------------------------------------
(* Worker thread: tasks posted by the GUI thread.                            *)

Task == available /\ ~draining
UserTask(kind) == Task /\ kind \in scenario.userOps /\ ops < scenario.maxOps /\ ops' = ops + 1

SubmitUser(what, arg) == commands' = Append(commands, [what |-> what, arg |-> arg, by |-> 0])

\* submitPropertySet("pause").
UserPause(v) ==
  /\ UserTask("pause")
  /\ pauseRevision' = pauseRevision + 1
  /\ SubmitUser("pause", Flag(v))
  /\ userPause' = v
  /\ UNCHANGED <<playback, terminated, terminationVo, recovery, requests, recoveryRevision,
                 seekRevision, seekIntent, observedPause, playlist, available, draining,
                 sourceIntent, marker, rendererVars, notices, nativeVars, events, changed,
                 sent, done, barred>>

\* submitCommand("seek") or submitPropertySet("time-pos"): to a known position,
\* which is remembered when a context is being retired, or to one that only
\* libmpv knows (a percentage, revert-seek).
UserSeek(p, known) ==
  LET renderer == RetiringContext(sourceIntent)
      keeps    == known /\ renderer # 0
  IN /\ UserTask("seek")
     /\ seekRevision' = seekRevision + 1
     /\ seekIntent' = IF keeps
                      THEN [renderer |-> renderer, intent |-> sourceIntent,
                            rev |-> seekRevision + 1, position |-> p, valid |-> TRUE]
                      ELSE [seekIntent EXCEPT !.valid = FALSE]
     /\ recovery' = IF /\ keeps /\ recovery.valid /\ ~recovery.seekSubmitted
                       /\ recovery.retired = renderer /\ recovery.playback.intent = sourceIntent
                    THEN [recovery EXCEPT !.playback.position = p, !.seekRev = seekRevision + 1]
                    ELSE recovery
     /\ SubmitUser("seek", p)
     /\ UNCHANGED <<playback, terminated, terminationVo, requests, recoveryRevision,
                    pauseRevision, observedPause, playlist, available, draining,
                    sourceIntent, marker, rendererVars, notices, nativeVars, events, changed,
                    sent, userPause, done, barred>>

\* invalidatePlaybackIntent().
InvalidateWithinIntent ==          \* mutant: the source intent stays the same
  /\ recovery' = Cancelled(recovery)
  /\ terminated' = NoPlayback /\ terminationVo' = FALSE
  /\ seekIntent' = NoSeekIntent
  /\ UNCHANGED sourceIntent
InvalidatePlaybackIntent ==
  /\ sourceIntent' = sourceIntent + 1
  /\ recovery' = Cancelled(recovery)
  /\ terminated' = NoPlayback /\ terminationVo' = FALSE
  /\ seekIntent' = NoSeekIntent

\* submitCommand() of loadfile, of stop, or of a command that goes to another
\* entry of the playlist.
UserSource(what, target) ==
  /\ UserTask(what)
  /\ InvalidatePlaybackIntent
  /\ playback' = NoPlayback
  /\ SubmitUser(what, target)
  /\ barred' = IF context THEN generation - 1 ELSE generation
  /\ UNCHANGED <<requests, recoveryRevision, pauseRevision, seekRevision, observedPause,
                 playlist, available, draining, marker, rendererVars, notices, nativeVars,
                 events, changed, sent, userPause, done>>

\* submitCommand("playlist-remove"), which is no change of source interest.
UserRemove(index) ==
  /\ UserTask("remove")
  /\ SubmitUser("remove", index)
  /\ UNCHANGED <<playback, terminated, terminationVo, recovery, requests, recoveryRevision,
                 intentVars, observedPause, playlist, available, draining, sourceIntent,
                 marker, rendererVars, notices, nativeVars, events, changed, sent,
                 userPause, done, barred>>

NextNotice(type) == Task /\ notices # <<>> /\ Head(notices).type = type

\* renderContextRetiring(), posted by the renderer's destructor.
RetiringKeepsRevision ==           \* mutant: the recovery revision is not counted up
  /\ NextNotice("retiring")
  /\ recovery' = Classified(Head(notices).generation, Head(notices).intent, recovery)
  /\ notices' = Tail(notices)
  /\ UNCHANGED <<playback, terminated, terminationVo, requests, recoveryRevision, intentVars,
                 observedPause, playlist, available, draining, sourceIntent, marker,
                 rendererVars, nativeVars, commands, events, changed, sent, historyVars>>
RenderContextRetiring ==
  /\ NextNotice("retiring")
  /\ recovery' = Classified(Head(notices).generation, Head(notices).intent, recovery)
  /\ recoveryRevision' = IF recovery' # recovery THEN recoveryRevision + 1 ELSE recoveryRevision
  /\ notices' = Tail(notices)
  /\ UNCHANGED <<playback, terminated, terminationVo, requests, intentVars, observedPause,
                 playlist, available, draining, sourceIntent, marker, rendererVars,
                 nativeVars, commands, events, changed, sent, historyVars>>

\* renderContextReady(), posted when a renderer has its context and target.
ReadyOnlyNoted ==                  \* mutant: waits for a later event to go on
  /\ NextNotice("ready")
  /\ LET g == Head(notices).generation
     IN Apply(Outcome(IF recovery.valid /\ g > recovery.retired
                      THEN [recovery EXCEPT !.ready = g] ELSE recovery, requests, <<>>))
  /\ notices' = Tail(notices)
  /\ UNCHANGED <<playback, terminated, terminationVo, recoveryRevision, intentVars,
                 observedPause, playlist, available, draining, sourceIntent, marker,
                 rendererVars, nativeVars, events, changed, historyVars>>
RenderContextReady ==
  /\ NextNotice("ready")
  /\ LET g == Head(notices).generation
     IN \E accepted \in MayBeAccepted :
          Apply(IF recovery.valid /\ g > recovery.retired
                THEN TryRecover([recovery EXCEPT !.ready = g], requests, accepted)
                ELSE Outcome(recovery, requests, <<>>))
  /\ notices' = Tail(notices)
  /\ UNCHANGED <<playback, terminated, terminationVo, recoveryRevision, intentVars,
                 observedPause, playlist, available, draining, sourceIntent, marker,
                 rendererVars, nativeVars, events, changed, historyVars>>

\* shutdown() of the controller.
Shutdown ==
  /\ Task
  /\ available' = FALSE
  /\ recovery' = Cancelled(recovery)
  /\ UNCHANGED <<playback, terminated, terminationVo, requests, recoveryRevision, intentVars,
                 observedPause, playlist, draining, sourceIntent, marker, rendererVars,
                 notices, nativeVars, commands, events, changed, sent, historyVars>>

-----------------------------------------------------------------------------
(* Worker thread: drain().                                                   *)

NextEvent(type) ==
  /\ available /\ events # <<>> /\ Head(events).type = type
  /\ draining' = TRUE
  /\ events' = Tail(events)

\* MPV_EVENT_START_FILE.
StartFile ==
  LET entry    == Head(events).entry
      current  == recovery.valid /\ recovery.playback.intent = sourceIntent
      resumed  == current /\ recovery.replaying /\ recovery.playback.entry = entry
      advance  == current /\ recovery.terminated
                    /\ RetiringContext(recovery.playback.intent) = recovery.retired
      outdated == ~resumed /\ ~advance /\ playback.entry >= 0 /\ playback.entry # entry
  IN /\ NextEvent("start")
     /\ IF outdated THEN InvalidatePlaybackIntent
        ELSE UNCHANGED <<sourceIntent, recovery, terminated, terminationVo, seekIntent>>
     /\ playback' = [(IF resumed THEN recovery.playback ELSE NoPlayback) EXCEPT
                       !.entry = entry, !.intent = sourceIntent', !.loaded = FALSE,
                       !.paused = observedPause, !.pauseRev = pauseRevision]
     /\ UNCHANGED <<requests, recoveryRevision, pauseRevision, seekRevision, observedPause,
                    playlist, available, marker, rendererVars, notices, nativeVars, commands,
                    changed, sent, historyVars>>

\* MPV_EVENT_FILE_LOADED.
FileLoaded ==
  /\ NextEvent("loaded")
  /\ playback' = [playback EXCEPT !.loaded = TRUE, !.paused = observedPause,
                                  !.pauseRev = pauseRevision]
  /\ LET matches == recovery.valid /\ recovery.replaying
                      /\ playback.entry = recovery.playback.entry
     IN \E accepted \in MayBeAccepted :
          Apply(TryRestore([recovery EXCEPT !.fileLoaded = matches \/ @], requests, accepted))
  /\ UNCHANGED <<terminated, terminationVo, recoveryRevision, intentVars, observedPause,
                 playlist, available, sourceIntent, marker, rendererVars, notices,
                 nativeVars, changed, historyVars>>

\* MPV_EVENT_END_FILE: classify a VO loss, remember what was playing, and
\* start the recovery it completes.
EndFile ==
  LET vo   == Head(events).vo
      lost == RetiringContext(playback.intent)
      r    == IF vo /\ playback.loaded /\ lost # 0
              THEN Classified(lost, playback.intent, recovery) ELSE recovery
      last == IF playback.loaded THEN playback ELSE terminated
      hit  == r.valid /\ vo /\ r.playback.entry = last.entry /\ r.playback.intent = last.intent
  IN /\ NextEvent("end")
     /\ recoveryRevision' = IF r # recovery THEN recoveryRevision + 1 ELSE recoveryRevision
     /\ terminated' = last
     /\ terminationVo' = IF playback.loaded THEN vo ELSE terminationVo
     /\ playback' = [playback EXCEPT !.loaded = FALSE]
     /\ \E accepted \in MayBeAccepted :
          Apply(IF hit THEN TryRecover([r EXCEPT !.terminated = TRUE], requests, accepted)
                ELSE Outcome(r, requests, <<>>))
     /\ UNCHANGED <<intentVars, observedPause, playlist, available, sourceIntent, marker,
                    rendererVars, notices, nativeVars, changed, historyVars>>

\* MPV_EVENT_COMMAND_REPLY and MPV_EVENT_SET_PROPERTY_REPLY of a recovery step.
RecoveryReply ==
  /\ NextEvent("reply")
  /\ \E accepted \in MayBeAccepted :
       Apply(AfterReply(Head(events).request, Head(events).ok, recovery, accepted))
  /\ UNCHANGED <<playback, terminated, terminationVo, recoveryRevision, intentVars,
                 observedPause, playlist, available, sourceIntent, marker, rendererVars,
                 notices, nativeVars, changed, historyVars>>

\* MPV_EVENT_SHUTDOWN.
CoreShutdown ==
  /\ NextEvent("shutdown")
  /\ available' = FALSE
  /\ UNCHANGED <<playback, terminated, terminationVo, recovery, requests, recoveryRevision,
                 intentVars, observedPause, playlist, sourceIntent, marker, rendererVars,
                 notices, nativeVars, commands, changed, sent, historyVars>>

\* MPV_EVENT_PROPERTY_CHANGE, cached by cachePlaybackProperty().
PropertyChange(property) ==
  /\ available /\ events = <<>> /\ property \in changed
  /\ draining' = TRUE
  /\ changed' = changed \ {property}
  /\ playlist' = IF property = "playlist" THEN entries ELSE playlist
  /\ observedPause' = IF property = "pause" THEN pause ELSE observedPause
  /\ playback' =
       IF ~playback.loaded \/ property = "playlist" THEN playback
       ELSE IF property = "pause"
       THEN [playback EXCEPT !.paused = pause, !.pauseRev = pauseRevision]
       ELSE [playback EXCEPT !.position = position, !.seekRev = seekRevision]
  /\ UNCHANGED <<terminated, terminationVo, recovery, requests, recoveryRevision, intentVars,
                 available, sourceIntent, marker, rendererVars, notices, nativeVars,
                 commands, events, sent, historyVars>>

\* MPV_EVENT_NONE: the loop of drain() ends.
DrainDone ==
  /\ draining
  /\ ~available \/ (events = <<>> /\ changed = {})
  /\ draining' = FALSE
  /\ UNCHANGED <<playback, terminated, terminationVo, recovery, requests, recoveryRevision,
                 intentVars, observedPause, playlist, available, sourceIntent, marker,
                 rendererVars, notices, nativeVars, commands, events, changed, sent,
                 historyVars>>

-----------------------------------------------------------------------------
(* Render thread.                                                            *)

workerSide == <<playback, terminated, terminationVo, recovery, requests, recoveryRevision,
                intentVars, observedPause, playlist, available, draining, sourceIntent, sent>>

\* MpvRenderer::synchronize() copies the intent while the GUI thread waits.
Synchronize ==
  /\ available /\ context
  /\ synced # sourceIntent
  /\ synced' = sourceIntent
  /\ UNCHANGED <<workerSide, marker, generation, context, notices, nativeVars, commands,
                 events, changed, historyVars>>

\* ~MpvRenderer(): mark, post and free. The last context of the bound stays.
ContextLost ==
  /\ available /\ context /\ generation < scenario.maxGeneration
  /\ context' = FALSE
  /\ marker' = [generation |-> generation, intent |-> synced]
  /\ notices' = Append(notices, [type |-> "retiring", generation |-> generation, intent |-> synced])
  /\ UNCHANGED <<workerSide, generation, synced, nativeVars, commands, events, changed,
                 historyVars>>

\* A new renderer synchronizes, creates its context and reports ready.
ContextCreated ==
  /\ available /\ ~context /\ generation < scenario.maxGeneration
  /\ generation' = generation + 1
  /\ context' = TRUE
  /\ synced' = sourceIntent
  /\ notices' = Append(notices, [type |-> "ready", generation |-> generation + 1])
  /\ UNCHANGED <<workerSide, marker, nativeVars, commands, events, changed, historyVars>>

-----------------------------------------------------------------------------
(* libmpv.                                                                   *)

Active == file.phase # "idle"
NoFile == [entry |-> Idle, phase |-> "idle"]
Loading(e) == [entry |-> e, phase |-> "loading"]
Start(e) == [type |-> "start", entry |-> e]
End(vo) == [type |-> "end", vo |-> vo]
\* What libmpv does once the worker has shut down is not followed.
NativeAlone ==
  /\ available /\ Len(events) < MaxEvents
  /\ UNCHANGED <<workerSide, marker, rendererVars, notices>>

\* The next accepted command runs. The recovery's own are answered, the user's
\* answers concern the adapter only.
Answered(c, ok) ==
  /\ commands' = Tail(commands)
  /\ events' = IF c.by = 0 THEN events
               ELSE Append(events, [type |-> "reply", ok |-> ok,
                                    request |-> [rev |-> c.by, step |-> c.what]])
  /\ done' = IF ok /\ c.by # 0 THEN done \cup {[rev |-> c.by, step |-> c.what]} ELSE done
  /\ NativeAlone
  /\ UNCHANGED <<file, nextEntry, userPause, barred, ops>>

NextCommand(what) == commands # <<>> /\ Head(commands).what = what
Changes(property, yes) == changed' = IF yes THEN changed \cup {property} ELSE changed

RunPause ==
  /\ NextCommand("pause")
  /\ pause' = (Head(commands).arg = Flag(TRUE))
  /\ Changes("pause", pause' # pause)
  /\ Answered(Head(commands), TRUE)
  /\ UNCHANGED <<upNext, position, entries>>

RunSeek ==
  /\ NextCommand("seek") /\ file.phase = "playing"
  /\ position' = Head(commands).arg
  /\ Changes("time-pos", position' # position)
  /\ Answered(Head(commands), TRUE)
  /\ UNCHANGED <<upNext, pause, entries>>

RunPlay ==
  /\ NextCommand("play") /\ Head(commands).arg \in DOMAIN entries
  /\ upNext' = entries[Head(commands).arg]
  /\ Answered(Head(commands), TRUE)
  /\ UNCHANGED <<pause, position, entries, changed>>

RunSource ==
  LET target == Head(commands).arg
  IN /\ NextCommand("source")
     /\ upNext' = target
     /\ target = Idle \/ Contains(entries, target)
     /\ Answered(Head(commands), TRUE)
     /\ UNCHANGED <<pause, position, entries, changed>>

RunLoad ==
  /\ NextCommand("load") /\ nextEntry <= scenario.maxEntry
  /\ upNext' = nextEntry /\ entries' = <<nextEntry>>
  /\ Changes("playlist", TRUE)
  /\ commands' = Tail(commands) /\ nextEntry' = nextEntry + 1
  /\ NativeAlone
  /\ UNCHANGED <<file, pause, position, events, historyVars>>

RunRemove ==
  LET index == Head(commands).arg
  IN /\ NextCommand("remove") /\ index \in DOMAIN entries
     /\ upNext' = IF entries[index] = file.entry THEN Idle ELSE upNext
     /\ entries' = RemoveAt(entries, index)
     /\ Changes("playlist", TRUE)
     /\ Answered(Head(commands), TRUE)
     /\ UNCHANGED <<pause, position>>

\* A command fails: its target does not exist, or for a reason of libmpv's own.
RunFails ==
  /\ commands # <<>>
  /\ LET c == Head(commands)
     IN /\ \/ c.by # 0 /\ scenario.mayFail
           \/ c.what = "seek" /\ file.phase # "playing"
           \/ c.what \in {"play", "remove"} /\ c.arg \notin DOMAIN entries
           \/ c.what = "source" /\ c.arg # Idle /\ ~Contains(entries, c.arg)
           \/ c.what = "load" /\ nextEntry > scenario.maxEntry
        /\ Answered(c, FALSE)
  /\ UNCHANGED <<upNext, pause, position, entries, changed>>

Execute == RunPause \/ RunSeek \/ RunPlay \/ RunSource \/ RunLoad \/ RunRemove \/ RunFails

\* The play loop leaves the current file and starts what is up next.
SwitchFile ==
  /\ upNext # Keep
  /\ file' = IF upNext = Idle THEN NoFile ELSE Loading(upNext)
  /\ events' = events \o (IF Active THEN <<End(FALSE)>> ELSE <<>>)
                      \o (IF upNext = Idle THEN <<>> ELSE <<Start(upNext)>>)
  /\ upNext' = Keep
  /\ changed' = changed \ {"time-pos"}
  /\ NativeAlone
  /\ UNCHANGED <<pause, position, entries, nextEntry, commands, historyVars>>

LoadDone ==
  /\ file.phase = "loading" /\ upNext = Keep
  /\ file' = [file EXCEPT !.phase = "playing"]
  /\ position' = 0
  /\ changed' = changed \cup {"time-pos"}
  /\ events' = Append(events, [type |-> "loaded"])
  /\ NativeAlone
  /\ UNCHANGED <<upNext, pause, entries, nextEntry, commands, userPause, done, barred, ops>>

\* The file ends, because video output finds no context or for any other
\* reason, and the next playlist entry follows unless a command said otherwise.
FileEnds(vo) ==
  /\ Active
  /\ vo => ~context
  /\ file' = NoFile
  /\ events' = Append(events, End(vo))
  /\ changed' = changed \ {"time-pos"}
  /\ LET n == Place(file.entry, entries)
     IN upNext' = IF upNext # Keep THEN upNext
                  ELSE IF n # 0 /\ n < Len(entries) THEN entries[n + 1] ELSE Idle
  /\ NativeAlone
  /\ UNCHANGED <<pause, position, entries, nextEntry, commands, userPause, done, barred, ops>>

NativeQuit ==
  /\ events' = Append(events, [type |-> "shutdown"])
  /\ file' = NoFile /\ upNext' = Keep /\ commands' = <<>>
  /\ \A n \in DOMAIN events : events[n].type # "shutdown"
  /\ NativeAlone
  /\ UNCHANGED <<pause, position, entries, nextEntry, changed, historyVars>>

-----------------------------------------------------------------------------
User ==
  \/ \E v \in BOOLEAN : UserPause(v)
  \/ \E p \in Positions, known \in BOOLEAN : UserSeek(p, known)
  \/ \E e \in Entries \cup {Idle} : UserSource("source", e)
  \/ UserSource("load", Idle)
  \/ \E n \in DOMAIN playlist : UserRemove(n)

Worker == RenderContextRetiring \/ RenderContextReady \/ Shutdown
DrainLoop ==
  \/ StartFile \/ FileLoaded \/ EndFile \/ RecoveryReply \/ CoreShutdown \/ DrainDone
  \/ \E property \in {"pause", "time-pos", "playlist"} : PropertyChange(property)
Renderer == Synchronize \/ ContextLost \/ ContextCreated
Native ==
  \/ Execute \/ SwitchFile \/ LoadDone \/ NativeQuit
  \/ \E vo \in BOOLEAN : FileEnds(vo)

Next == (User \/ Worker \/ DrainLoop \/ Renderer \/ Native) /\ UNCHANGED scenario
Spec == Init /\ [][Next]_vars

-----------------------------------------------------------------------------
(* Invariants.                                                               *)

Revisions == 0 .. scenario.maxOps
Contexts == 0 .. scenario.maxGeneration
PlaybackState == [entry : Entries \cup {None}, intent : Nat, position : Positions,
                  paused : BOOLEAN, loaded : BOOLEAN, pauseRev : Revisions, seekRev : Revisions]
RecoveryState == [playback : PlaybackState, retired : Contexts, ready : Contexts, rev : Nat,
                  pauseRev : Revisions, seekRev : Revisions, valid : BOOLEAN, terminated : BOOLEAN,
                  replaying : BOOLEAN, replayAck : BOOLEAN, pauseAck : BOOLEAN,
                  fileLoaded : BOOLEAN, seekSubmitted : BOOLEAN]
SeekIntents == [renderer : Contexts, intent : Nat, rev : Revisions, position : Positions, valid : BOOLEAN]
Requests == [rev : Nat \ {0}, step : Steps]
Notices == [type : {"retiring"}, generation : Generations, intent : Nat]
             \cup [type : {"ready"}, generation : Generations]
Commands == [what : {"pause"}, arg : {0, 1}, by : Nat] \cup [what : {"seek"}, arg : Positions, by : Nat]
              \cup [what : {"play"}, arg : Nat, by : Nat \ {0}] \cup [what : {"remove"}, arg : Nat, by : {0}]
              \cup [what : {"source", "load"}, arg : Entries \cup {Idle}, by : {0}]
Events == [type : {"start"}, entry : Entries] \cup [type : {"loaded", "shutdown"}]
            \cup [type : {"end"}, vo : BOOLEAN] \cup [type : {"reply"}, ok : BOOLEAN, request : Requests]

TypeOK ==
  /\ {playback, terminated} \subseteq PlaybackState /\ recovery \in RecoveryState
  /\ recoveryRevision \in Nat /\ recovery.rev <= recoveryRevision
  /\ requests \subseteq [rev : 1 .. recoveryRevision, step : Steps] /\ done \subseteq Requests
  /\ sent \subseteq [renderer : Contexts, rev : Nat, step : Steps]
  /\ ops \in Revisions /\ {pauseRevision, seekRevision} \subseteq 0 .. ops /\ seekIntent \in SeekIntents
  /\ sourceIntent \in Nat \ {0} /\ synced \in Nat /\ barred \in Nat
  /\ generation \in Generations /\ marker \in [generation : 0 .. generation, intent : Nat]
  /\ Len(playlist) <= 2 /\ Len(entries) <= 2 /\ {playlist, entries} \subseteq Seq(Entries)
  /\ nextEntry \in Nat \ {0} /\ upNext \in Entries \cup {Idle, Keep} /\ position \in Positions
  /\ file \in [entry : Entries \cup {Idle}, phase : {"idle", "loading", "playing"}]
  /\ file.phase # "idle" => file.entry \in Entries
  /\ commands \in Seq(Commands) /\ events \in Seq(Events) /\ notices \in Seq(Notices)
  /\ changed \subseteq {"pause", "time-pos", "playlist"}
  /\ {context, draining, available, pause, userPause, observedPause, terminationVo} \subseteq BOOLEAN
  /\ scenario \in Scenarios

\* At most one recovery request is on its way at a time, also when one recovery
\* replaces another before the answer to the old one has come in: the steps of
\* two recoveries never interleave inside libmpv.
OneRequestAtATime ==
  Cardinality({n \in DOMAIN commands : commands[n].by # 0})
    + Cardinality({n \in DOMAIN events : events[n].type = "reply"}) <= 1

\* A late reply never advances another recovery: what the recovery believes to
\* be acknowledged, libmpv has carried out for this very recovery; and it is
\* never replayed before its pause state was restored or became obsolete.
AcknowledgedWasDone == recovery.valid =>
  /\ recovery.replayAck => [rev |-> recovery.rev, step |-> "play"] \in done
  /\ recovery.pauseAck => \/ [rev |-> recovery.rev, step |-> "pause"] \in done
                          \/ recovery.pauseRev # pauseRevision
  /\ recovery.replaying => recovery.pauseAck

\* The steps of recoveries are real, in order, and do not interleave.
StepsAreSound == OneRequestAtATime /\ AcknowledgedWasDone

-----------------------------------------------------------------------------
(* Properties of steps.                                                      *)

Submitted(step) == {r \in requests' \ requests : r.step = step}
LastCommand == commands'[Len(commands')]

\* Stop, a change of source and navigation cancel for good: nothing is
\* submitted any more for a context that was lost before, whatever notices,
\* events and replies are still under way. Nor after the worker's shutdown.
CancelledStaysCancelled ==
  [][requests' \ requests # {} => available /\ recovery'.retired > barred]_vars

\* A lost context is made up for by one replay at most, and only after the VO
\* loss has ended the file and a newer renderer than the lost one is ready.
OneReplayPerLoss ==
  [][Submitted("play") # {} =>
       /\ \A old \in sent : old.step = "play" => old.renderer # recovery'.retired
       /\ recovery'.ready > recovery'.retired /\ recovery'.terminated]_vars

\* Newer pause intent supersedes the saved state: the recovery never asks for
\* another pause state than the user did last.
PauseIntentWins == [][Submitted("pause") # {} => LastCommand.arg = Flag(userPause)]_vars

\* The replay restarts the entry that was lost, and no other one.
ReplaysTheSameEntry ==
  [][RunPlay /\ Head(commands).by = recovery.rev => upNext' = recovery.playback.entry]_vars

\* The worker's event loop runs, its wakeups get drain() called, and libmpv
\* executes what it accepted and switches files; no file needs to end, and no
\* context to be lost or created.
Fairness ==
  /\ WF_moving(RenderContextRetiring \/ RenderContextReady)
  /\ WF_moving(DrainLoop)
  /\ WF_moving(Execute) /\ WF_moving(SwitchFile)

FairSpec == Spec /\ Fairness

\* A recovery that is due, since the VO loss has ended its file and a newer
\* context is ready, starts its entry again, whatever order the loss, the
\* notices of the renderers and libmpv's own advance to another entry came in,
\* unless it is cancelled, the newer context is lost, too, or the core is gone; or
\* unless libmpv's playlist differs from the one the entry is looked up in.
Due == /\ recovery.valid /\ recovery.terminated /\ recovery.ready # 0 /\ ~recovery.replaying
       /\ marker.generation = recovery.retired
PlaybackResumes ==
  Due ~> \/ ~available \/ ~context \/ ~recovery.valid \/ playlist # entries
         \/ file.entry = recovery.playback.entry
=============================================================================
