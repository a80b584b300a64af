---------------------------- MODULE PlayerIntents ----------------------------
(***************************************************************************)
(* What MpvPlayer keeps of the application's wishes until its renderer is  *)
(* ready: values of typed properties and deferred operations, and how both *)
(* reach the core.                                                         *)
(*                                                                         *)
(* Everything here runs on the GUI thread, but each emitted signal may run *)
(* handlers of the application, which call the player again or run an event*)
(* loop: what is under way is a stack of frames, a handler being a frame   *)
(* "signal". Deletion of the player inside a handler, the reloading that   *)
(* follows the choice of a video track, and directories are left out.      *)
(***************************************************************************)
EXTENDS Integers, Sequences, FiniteSets, SequencesExt

CONSTANTS
  Order,           (* names of properties, as syncProperties() submits them  *)
  Setters,         (* the names each setter sets: one, or two for fillMode   *)
  Observed,        (* names the core reports changes of                      *)
  SkipsEmpty,      (* names whose empty value syncProperties() skips         *)
  Values, Empty,
  Initial,         (* setters the constructor states an intent for           *)
  Keys,            (* of deferred state: track types, mouse position         *)
  Budgets,         (* bounds: records of "calls" by the application; of      *)
                   (* "events", statuses and changes the core makes by itself*)
                   (* and of "refusals", submissions refused or failing      *)
  MaxDepth         (* bound: handlers inside of each other                   *)

Names == ToSet(Order)
NoKey == ""       \* of commands
ASSUME ConstantsAssumption ==
  /\ Order \in Seq(Names)
  /\ Setters \subseteq Seq(Names) \ {<<>>} /\ \A n \in Names : \E s \in Setters : n \in ToSet(s)
  /\ \A s, t \in Setters : s # t => ToSet(s) \cap ToSet(t) = {}
  /\ Observed \subseteq Names /\ SkipsEmpty \subseteq Names
  /\ \A s \in Setters : ToSet(s) \cap Observed # {} => Len(s) = 1
  /\ Empty \in Values /\ Values # {Empty} /\ "invalid" \notin Values /\ Initial \subseteq Setters /\ NoKey \notin Keys
  /\ Budgets \subseteq [calls : Nat, events : Nat, refusals : Nat] /\ MaxDepth \in Nat

VARIABLES
  (* MpvPlayer, without the m_ of its members *)
  member,          (* values the setters' members hold                       *)
  revision,        (* m_propertyRevisions                                    *)
  pending,         (* m_pendingProperties; m_dirtyProperties is its domain   *)
  mediaRevision,
  deferred,        (* m_deferredInitActions: [id, key, rev]                  *)
  initialized,     (* m_rendererInitialized                                  *)
  failed,          (* m_renderError < 0                                      *)
  available,       (* m_coreAvailable                                        *)
  shuttingDown,
  stack,           (* frames, the innermost first                            *)
  (* The core, and the queues between it and the player *)
  core, commands, reports,
  (* History, read by properties and bounds only *)
  ops,             (* operations called: [key, rev]                          *)
  sent, rejected,  (* those submitted, in order, and those that failed       *)
  refused,         (* names whose last value was refused                     *)
  unsynced,        (* the last readiness found the renderer failed again     *)
  unshown,         (* names of a report ignored while the player did not     *)
                   (* show the value it is about to submit                   *)
  calls, events, refusals  (* what is left of the budget                     *)

intentVars == <<member, revision, pending, unshown>>
mediaVars  == <<mediaRevision, deferred, ops, sent, rejected>>
statusVars == <<initialized, failed, available, shuttingDown, unsynced>>
coreVars   == <<core, commands, reports, refused>>
budgetVars == <<calls, events, refusals>>
vars == <<intentVars, mediaVars, statusVars, stack, coreVars, budgetVars>>

SetterOf(n) == CHOOSE s \in Setters : n \in ToSet(s)
Other == CHOOSE v \in Values : v # Empty
NoValue == "invalid"

Init ==
  /\ member = [s \in Setters |-> IF s \in Initial THEN Other ELSE Empty]
  /\ revision = [n \in Names |-> IF SetterOf(n) \in Initial THEN 1 ELSE 0]
  /\ pending = [n \in {m \in Names : SetterOf(m) \in Initial} |-> Other]
  /\ mediaRevision = 0 /\ deferred = <<>>
  /\ initialized = FALSE /\ failed = FALSE /\ available = TRUE /\ shuttingDown = FALSE
  /\ stack = <<>>
  /\ core = [n \in Names |-> Empty] /\ commands = <<>> /\ reports = <<>>
  /\ ops = <<>> /\ sent = <<>> /\ rejected = {} /\ refused = {} /\ unsynced = FALSE /\ unshown = {}
  /\ \E b \in Budgets : calls = b.calls /\ events = b.events /\ refusals = b.refusals

-----------------------------------------------------------------------------
(* Submissions. "then" is the stack that is left to run.                     *)

Signal == [type |-> "signal"]
Ready == initialized /\ ~failed
MayBeRefused == refusals > 0 /\ refusals' = refusals - 1

SubmissionFails == IF available THEN MayBeRefused ELSE UNCHANGED refusals

\* submitProperty() to a core there is; a refusal is signalled at once.
SubmitProperty(n, v, then) ==
  \/ /\ commands' = Append(commands, [name |-> n, value |-> v])
     /\ refused' = (IF v = NoValue THEN refused ELSE refused \ {n})
     /\ stack' = then /\ UNCHANGED refusals
  \/ /\ MayBeRefused
     /\ refused' = (IF v = NoValue THEN refused ELSE refused \cup {n})
     /\ stack' = <<Signal>> \o then /\ UNCHANGED commands

\* What is deferred, without the first of the given ones.
WithoutFirst(places) ==
  IF places = {} THEN deferred ELSE RemoveAt(deferred, Min(places))

\* Mutant: commands replace each other, too.
DeferOnePerKey(id, key) ==
  Append(WithoutFirst({n \in DOMAIN deferred : deferred[n].key = key}),
         [id |-> id, key |-> key, rev |-> mediaRevision])
\* deferUntilRendererReady(): a state replaces an older one, a command does not.
Defer(id, key) ==
  Append(WithoutFirst({n \in DOMAIN deferred : key # NoKey /\ deferred[n].key = key}),
         [id |-> id, key |-> key, rev |-> mediaRevision])

\* load(), sendMousePosition(), selectTrack(): the operation id is deferred,
\* submitted, or fails. The two coordinates of a position are one submission.
Request(id, key, then) ==
  \/ /\ available /\ ~Ready
     /\ deferred' = Defer(id, key) /\ stack' = then
     /\ UNCHANGED <<sent, rejected, refusals>>
  \/ /\ available /\ Ready
     /\ sent' = Append(sent, id) /\ stack' = then
     /\ UNCHANGED <<deferred, rejected, refusals>>
  \/ /\ SubmissionFails /\ (available => Ready)
     /\ rejected' = rejected \cup {id} /\ stack' = <<Signal>> \o then
     /\ UNCHANGED <<deferred, sent>>

-----------------------------------------------------------------------------
(* Calls of the application, from its event loop or from a handler.          *)

Handlers == {n \in DOMAIN stack : stack[n].type = "signal"}
Outside == (stack # <<>> => 1 \in Handlers) /\ Cardinality(Handlers) <= MaxDepth
MayCall == Outside /\ calls > 0 /\ calls' = calls - 1 /\ UNCHANGED events

\* propertyIntent(), for each name of the setter.
Stated(s, v) ==
  [n \in DOMAIN pending \cup ToSet(s) |-> IF n \in ToSet(s) THEN v ELSE pending[n]]

\* SET_PROPERTY, setFillMode(): the intent is stated, the change signalled, and
\* what is then still the newest intent flushed.
Set(s, v) ==
  /\ MayCall /\ member[s] # v
  /\ member' = [member EXCEPT ![s] = v]
  /\ revision' = [n \in Names |-> revision[n] + IF n \in ToSet(s) THEN 1 ELSE 0]
  /\ pending' = IF available THEN Stated(s, v) ELSE pending
  /\ unshown' = unshown \ ToSet(s)
  /\ stack' = <<Signal, [type |-> "flush",
                         todo |-> [i \in DOMAIN s |-> [name |-> s[i], rev |-> revision'[s[i]]]]]>>
                \o stack
  /\ UNCHANGED <<mediaVars, statusVars, coreVars, refusals>>

Called(key, rev) == ops' = Append(ops, [key |-> key, rev |-> rev])

\* load(), or an operation on state with the given key.
Operate(key) ==
  /\ MayCall
  /\ Called(key, mediaRevision)
  /\ Request(Len(ops'), key, stack)
  /\ UNCHANGED <<intentVars, mediaRevision, statusVars, coreVars>>

\* setSource(): what was deferred for the old source is given up.
SetSource ==
  /\ MayCall
  /\ mediaRevision' = mediaRevision + 1 /\ deferred' = <<>>
  /\ Called(NoKey, mediaRevision')
  /\ stack' = <<Signal, [type |-> "source", id |-> Len(ops'), rev |-> mediaRevision']>> \o stack
  /\ UNCHANGED <<intentVars, sent, rejected, statusVars, coreVars, refusals>>

\* Mutant: what is deferred is left to the check of its revision.
NavigateKeepsDeferred ==
  /\ MayCall
  /\ mediaRevision' = mediaRevision + 1
  /\ \/ available /\ stack' = stack /\ UNCHANGED refusals
     \/ SubmissionFails /\ stack' = <<Signal>> \o stack
  /\ UNCHANGED <<intentVars, deferred, ops, sent, rejected, statusVars, coreVars>>
\* stop(), next(), previous().
Navigate ==
  /\ MayCall
  /\ mediaRevision' = mediaRevision + 1 /\ deferred' = <<>>
  /\ \/ available /\ stack' = stack /\ UNCHANGED refusals
     \/ SubmissionFails /\ stack' = <<Signal>> \o stack
  /\ UNCHANGED <<intentVars, ops, sent, rejected, statusVars, coreVars>>

\* shutdown()
Shutdown ==
  /\ MayCall /\ ~shuttingDown
  /\ shuttingDown' = TRUE /\ available' = FALSE /\ initialized' = FALSE
  /\ mediaRevision' = mediaRevision + 1 /\ deferred' = <<>> /\ pending' = <<>>
  /\ stack' = <<Signal>> \o stack
  /\ UNCHANGED <<member, revision, unshown, ops, sent, rejected, failed, unsynced, coreVars, refusals>>

Call == \/ \E s \in Setters, v \in Values : Set(s, v)
        \/ \E key \in Keys \cup {NoKey} : Operate(key)
        \/ SetSource \/ Navigate \/ Shutdown

-----------------------------------------------------------------------------
(* Frames go on.                                                             *)

Top == Head(stack)
Below == Tail(stack)
Runs(type) == stack # <<>> /\ Top.type = type

Return == Runs("signal") /\ stack' = Below
          /\ UNCHANGED <<intentVars, mediaVars, statusVars, coreVars, refusals>>

IsNewest(f) == revision[f.name] = f.rev

\* flushProperty(), for each name of the setter. What a nested synchronization has
\* taken already is submitted without a value, which the core rejects.
Flush ==
  /\ Runs("flush")
  /\ LET f    == Head(Top.todo)
         then == IF Len(Top.todo) = 1 THEN Below ELSE <<[Top EXCEPT !.todo = Tail(@)]>> \o Below
     IN IF IsNewest(f) /\ available /\ Ready
        THEN /\ pending' = [n \in DOMAIN pending \ {f.name} |-> pending[n]]
             /\ SubmitProperty(f.name, IF f.name \in DOMAIN pending THEN pending[f.name] ELSE NoValue, then)
        ELSE /\ stack' = IF IsNewest(f) /\ ~available THEN <<Signal>> \o then ELSE then
             /\ UNCHANGED <<pending, commands, refused, refusals>>
  /\ UNCHANGED <<member, revision, unshown, mediaVars, statusVars, core, reports>>

\* The rest of setSource(), after the signal.
LoadSource ==
  /\ Runs("source")
  /\ IF Top.rev = mediaRevision /\ ~shuttingDown THEN Request(Top.id, NoKey, Below)
     ELSE stack' = Below /\ UNCHANGED <<deferred, sent, rejected, refusals>>
  /\ UNCHANGED <<intentVars, mediaRevision, ops, statusVars, coreVars>>

\* syncProperties(): it takes all there is pending and remembers its revisions,
BeginSync ==
  /\ Runs("ready")
  /\ IF available /\ ~failed
     THEN /\ pending' = <<>> /\ unsynced' = FALSE
          /\ stack' = <<[type |-> "sync", todo |-> Order, pending |-> pending, revs |-> revision]>> \o Below
     ELSE stack' = Below /\ unsynced' = TRUE /\ UNCHANGED pending
  /\ UNCHANGED <<member, revision, unshown, mediaVars, coreVars, refusals,
                 initialized, failed, available, shuttingDown>>

\* Mutant: what a handler has changed meanwhile is overwritten.
DueWhatever(f, n) == n \in DOMAIN f.pending /\ ~(n \in SkipsEmpty /\ f.pending[n] = Empty)
Due(f, n) == /\ n \in DOMAIN f.pending /\ f.revs[n] = revision[n]
             /\ ~(n \in SkipsEmpty /\ f.pending[n] = Empty)

\* submits the next that is still the newest intent, and runs what is deferred.
SubmitDue(k) ==
  /\ available
  /\ Due(Top, Top.todo[k]) /\ \A i \in 1 .. k - 1 : ~Due(Top, Top.todo[i])
  /\ SubmitProperty(Top.todo[k], Top.pending[Top.todo[k]],
                    <<[Top EXCEPT !.todo = SubSeq(@, k + 1, Len(@))]>> \o Below)
  /\ UNCHANGED deferred
EndSync ==
  /\ available => \A k \in DOMAIN Top.todo : ~Due(Top, Top.todo[k])
  /\ stack' = IF available THEN <<[type |-> "run", todo |-> deferred]>> \o Below ELSE Below
  /\ deferred' = IF available THEN <<>> ELSE deferred
  /\ UNCHANGED <<commands, refused, refusals>>
Sync ==
  /\ Runs("sync")
  /\ EndSync \/ \E k \in DOMAIN Top.todo : SubmitDue(k)
  /\ UNCHANGED <<intentVars, mediaRevision, ops, sent, rejected, statusVars, core, reports>>

\* Mutant: the retry does not look whether the media interest has changed.
RetryWhatever(d) == TRUE
MayRetry(d) == d.rev = mediaRevision

RunDeferred ==
  /\ Runs("run")
  /\ IF Top.todo = <<>> \/ ~available
     THEN stack' = Below /\ UNCHANGED <<deferred, sent, rejected, refusals>>
     ELSE LET d    == Head(Top.todo)
              then == <<[Top EXCEPT !.todo = Tail(@)]>> \o Below
          IN IF MayRetry(d) THEN Request(d.id, d.key, then)
             ELSE stack' = then /\ UNCHANGED <<deferred, sent, rejected, refusals>>
  /\ UNCHANGED <<intentVars, mediaRevision, ops, statusVars, coreVars>>

-----------------------------------------------------------------------------
(* Events delivered by an event loop of the application.                     *)

MayHappen == events > 0 /\ events' = events - 1 /\ UNCHANGED calls

\* rendererStatus() publishes a change of the error, the loss of readiness, and
\* failure or readiness, each with a signal. The slot of ready() comes before the
\* application's handlers, after which nothing is left to do.
Status(ready, error) ==
  /\ Outside /\ ~shuttingDown /\ MayHappen
  /\ failed' = error
  /\ stack' = (IF failed # error THEN <<Signal>> ELSE <<>>)
                \o <<[type |-> "status", ready |-> ready, error |-> error]>> \o stack
  /\ UNCHANGED <<intentVars, mediaVars, initialized, available, shuttingDown, unsynced, coreVars, refusals>>

ContinueStatus ==
  /\ Runs("status")
  /\ IF shuttingDown THEN stack' = Below /\ UNCHANGED initialized
     ELSE IF ~Top.ready /\ initialized
     THEN /\ initialized' = FALSE
          /\ stack' = <<Signal>> \o (IF Top.error THEN <<[type |-> "failure"]>> ELSE <<>>) \o Below
     ELSE IF Top.error THEN stack' = <<Signal>> \o Below /\ UNCHANGED initialized
     ELSE IF Top.ready /\ ~initialized
     THEN /\ stack' = (IF available THEN <<Signal, [type |-> "ready"]>> ELSE <<>>) \o Below
          /\ initialized' = available
     ELSE stack' = Below /\ UNCHANGED initialized
  /\ UNCHANGED <<intentVars, mediaVars, failed, available, shuttingDown, unsynced, coreVars, refusals>>

\* renderingFailed(), after the handlers of the readiness lost.
SignalFailure ==
  /\ Runs("failure") /\ stack' = (IF shuttingDown THEN <<>> ELSE <<Signal>>) \o Below
  /\ UNCHANGED <<intentVars, mediaVars, statusVars, coreVars, refusals>>

\* coreUnavailable
CoreUnavailable ==
  /\ Outside /\ available
  /\ available' = FALSE /\ deferred' = <<>> /\ pending' = <<>>
  /\ stack' = <<Signal>> \o stack
  /\ UNCHANGED <<member, revision, unshown, mediaRevision, ops, sent, rejected, initialized, failed,
                 shuttingDown, unsynced, coreVars, budgetVars>>

Outdated(n) == ~Ready /\ n \in DOMAIN pending

\* propertyChanged
PropertyChanged ==
  /\ Outside /\ reports # <<>>
  /\ reports' = Tail(reports)
  /\ LET r == Head(reports)
         s == SetterOf(r.name)
     IN IF shuttingDown \/ Outdated(r.name) \/ member[s] = r.value
        THEN UNCHANGED <<member, stack>>
        ELSE member' = [member EXCEPT ![s] = r.value] /\ stack' = <<Signal>> \o stack
  /\ LET n == Head(reports).name
         v == member[SetterOf(n)]
     IN unshown' = IF ~Outdated(n) THEN unshown \ {n}
                   ELSE IF v \in {Head(reports).value, pending[n]} THEN unshown
                   ELSE unshown \cup {n}
  /\ UNCHANGED <<revision, pending, mediaVars, statusVars, core, commands, refused, budgetVars>>

Deliver == \/ \E ready, error \in BOOLEAN : ~(ready /\ error) /\ Status(ready, error)
           \/ CoreUnavailable \/ PropertyChanged

-----------------------------------------------------------------------------
(* The core.                                                                 *)

Assigns(n, v) ==
  /\ core' = [core EXCEPT ![n] = v]
  /\ reports' = IF n \in Observed /\ core[n] # v THEN Append(reports, [name |-> n, value |-> v]) ELSE reports

\* Submissions of values of a property.
Submits(queue, n) == {i \in DOMAIN queue : queue[i].name = n /\ queue[i].value # NoValue}

\* The oldest submission is executed, or fails; failOperation() is all that then
\* happens, later, and the application need not call anything there.
Execute ==
  /\ commands # <<>> /\ commands' = Tail(commands)
  /\ LET c == Head(commands)
     IN \/ /\ c.value # NoValue /\ Assigns(c.name, c.value) /\ UNCHANGED <<refused, refusals>>
        \/ /\ IF c.value = NoValue THEN UNCHANGED refusals ELSE MayBeRefused
           /\ refused' = (IF c.value = NoValue \/ Submits(commands', c.name) # {} THEN refused
                          ELSE refused \cup {c.name})
           /\ UNCHANGED <<core, reports>>
  /\ UNCHANGED <<intentVars, mediaVars, statusVars, stack, calls, events>>

\* The core changes a property by itself.
ChangeByCore(n, v) ==
  /\ n \in Observed /\ core[n] # v /\ MayHappen
  /\ Assigns(n, v)
  /\ UNCHANGED <<intentVars, mediaVars, statusVars, stack, commands, refused, refusals>>

Go == (Return \/ Flush \/ LoadSource \/ BeginSync \/ Sync \/ RunDeferred \/ ContinueStatus \/ SignalFailure)
        /\ UNCHANGED <<calls, events>>
Core == Execute \/ \E n \in Names, v \in Values : ChangeByCore(n, v)

Next == Call \/ Go \/ Deliver \/ Core
Spec == Init /\ [][Next]_vars

-----------------------------------------------------------------------------
(* Properties.                                                               *)

Operations == [key : Keys \cup {NoKey}, rev : Nat]
Deferred == [id : Nat, key : Keys \cup {NoKey}, rev : Nat]
Frames ==
  [type : {"signal", "ready", "failure"}]
    \cup [type : {"flush"}, todo : Seq([name : Names, rev : Nat]) \ {<<>>}]
    \cup [type : {"source"}, id : Nat, rev : Nat]
    \cup [type : {"sync"}, todo : Seq(Names), revs : [Names -> Nat],
          pending : UNION {[some -> Values] : some \in SUBSET Names}]
    \cup [type : {"run"}, todo : Seq(Deferred)]
    \cup [type : {"status"}, ready : BOOLEAN, error : BOOLEAN]

TypeOK ==
  /\ member \in [Setters -> Values] /\ revision \in [Names -> Nat]
  /\ DOMAIN pending \subseteq Names /\ pending \in [DOMAIN pending -> Values]
  /\ {initialized, failed, available, shuttingDown, unsynced} \subseteq BOOLEAN
  /\ mediaRevision \in Nat /\ ops \in Seq(Operations) /\ sent \in Seq(Nat)
  /\ deferred \in Seq(Deferred) /\ stack \in Seq(Frames)
  /\ \A n \in DOMAIN deferred : deferred[n].id \in DOMAIN ops /\ deferred[n].rev = mediaRevision
  /\ ToSet(sent) \cup rejected \subseteq DOMAIN ops
  /\ core \in [Names -> Values] /\ refused \subseteq Names /\ unshown \subseteq Observed
  /\ commands \in Seq([name : Names, value : Values \cup {NoValue}])
  /\ reports \in Seq([name : Observed, value : Values])
  /\ ~available => (pending = <<>> /\ deferred = <<>>)
  /\ {calls, events, refusals} \subseteq Nat

Quiet == stack = <<>> /\ commands = <<>> /\ reports = <<>>

\* Whatever handlers and event loops did meanwhile: once the renderer is ready and
\* nothing is under way any more, nothing waits, unless this readiness was overtaken
\* by a failure and found no time for a synchronization; and the core has the value
\* the player shows of each property, unless it refused it, the value is one that
\* the synchronization skips, or a report of another value had been ignored.
Settled ==
  Quiet /\ Ready /\ available =>
    /\ unsynced \/ (pending = <<>> /\ deferred = <<>>)
    /\ \A n \in Names \ (refused \cup unshown \cup DOMAIN pending) :
         \/ core[n] = member[SetterOf(n)]
         \/ n \in SkipsEmpty /\ member[SetterOf(n)] = Empty

Waiting(id) == \/ \E n \in DOMAIN deferred : deferred[n].id = id
               \/ \E n \in DOMAIN stack :
                    \/ stack[n].type = "source" /\ stack[n].id = id
                    \/ stack[n].type = "run" /\ \E i \in DOMAIN stack[n].todo : stack[n].todo[i].id = id
Superseded(id) == \/ ops[id].rev # mediaRevision \/ ~available
                  \/ ops[id].key # NoKey /\ \E i \in DOMAIN ops \ {id} : ops[i].key = ops[id].key

\* A deferred operation is submitted once, fails once, or waits; only another one
\* for the same state, a change of the media interest or the loss of the core
\* makes the player forget it. (The other one is newer, unless readiness is lost
\* again in a handler's event loop while RunDeferred is under way.)
NothingForgotten == \A id \in DOMAIN ops :
  /\ Cardinality({n \in DOMAIN sent : sent[n] = id}) + Cardinality(rejected \cap {id})
       + (IF Waiting(id) THEN 1 ELSE 0) <= 1
  /\ id \in ToSet(sent) \cup rejected \/ Waiting(id) \/ Superseded(id)

\* Nothing is submitted for a media interest the application has given up, nor to
\* a core that is gone.
SupersededNeverSent ==
  [][sent' # sent => available /\ ops'[Last(sent')].rev = mediaRevision]_vars
=============================================================================
