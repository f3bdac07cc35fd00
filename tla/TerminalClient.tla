--------------------------- MODULE TerminalClient ---------------------------
(* The terminal session record the frontend keeps for one widget              *)
(* (features/terminal/model/use-terminal-session.ts), the widget, tab and      *)
(* navigator that drive it, the xterm surface that paints its output, and the  *)
(* backend session group behind the HTTP calls.                                *)
(*                                                                            *)
(* A handler runs to its first await in one step; an awaited request is served *)
(* by the backend in a second step and its continuation runs in a third.       *)
(* connectTerminalStream awaits only the runtime context, which the snapshot   *)
(* request before it has resolved, so a snapshot is applied and its stream     *)
(* attached in one step.  Statuses are folded to the three the guards tell     *)
(* apart: running (starting), exited (failed) and disconnected.                *)
EXTENDS Integers, Sequences, FiniteSets, FiniteSetsExt, SequencesExt

CONSTANTS None,
          MaxOps,       \* operator actions
          MaxFails,     \* lost requests, lost answers, dropped streams, failed launches
          MaxRuns,      \* processes launched
          MaxOut,       \* output chunks of one process
          MaxStreams,   \* simultaneous SSE connections
          MaxTasks      \* async functions in flight

ASSUME TerminalClientBounds ==
    /\ MaxRuns \in Nat \ {0} /\ MaxStreams \in Nat \ {0}
    /\ {MaxOps, MaxFails, MaxOut, MaxTasks} \subseteq Nat

VARIABLES backend,    \* the session group of the widget
          client,     \* [rec, streams, tasks, screen]
          mounted,    \* the components that retain the record
          ops, fails,
          overlap,    \* history: two loads or changes of the session were in flight at once
          dismissed,  \* history: an error was cleared while no stream was attached
          behind,     \* history: the group changed without the record hearing of it
          mixed       \* history: the snapshot held another process's chunks

vars == <<backend, client, mounted, ops, fails, overlap, dismissed, behind, mixed>>

Session == 1..MaxRuns          \* 1 is the widget's own session id
Run == 1..MaxRuns              \* a process; session_id:started_at tells runs apart
StreamID == 1..MaxStreams
User == {"panel", "tab"}       \* TerminalWidget and its dockview tab

-----------------------------------------------------------------------------
(* The backend's session group.                                            *)

Chunk(r, n) == [run |-> r, seq |-> n]
HasGroup(b) == b.order # <<>>
ActiveRun(b) == b.run[b.active]

Launch(b, s) ==
    [b EXCEPT !.launched = @ + 1, !.run[s] = b.launched + 1, !.status[b.launched + 1] = "running",
              !.order = Append(@, s), !.active = s]

CloseWidgetSession(b, s) ==
    LET rest == SelectSeq(b.order, LAMBDA x : x # s) IN
    [b EXCEPT !.order = rest,
              !.active = IF @ # s THEN @ ELSE IF rest = <<>> THEN 0 ELSE Last(rest)]

(* TerminalSnapshot: without a group the widget is disconnected. *)
TerminalSnapshot(b) ==
    IF HasGroup(b)
    THEN [session |-> b.active, run |-> ActiveRun(b), status |-> b.status[ActiveRun(b)],
          active |-> b.active, sessions |-> ToSet(b.order),
          chunks |-> [n \in 1..b.out[ActiveRun(b)] |-> Chunk(ActiveRun(b), n)],
          next |-> b.out[ActiveRun(b)] + 1]
    ELSE [session |-> 1, run |-> 0, status |-> "disconnected", active |-> 0, sessions |-> {},
          chunks |-> <<>>, next |-> 1]

-----------------------------------------------------------------------------
(* The record, its timer and its stream.                                   *)

Dead == [state |-> "dead", from |-> 0, queue |-> <<>>]
BlankScreen == [key |-> -1, last |-> 0, rows |-> <<>>]

createTerminalSessionRecord(gen) ==
    [gen |-> gen, load |-> FALSE, error |-> FALSE, creating |-> FALSE, recovering |-> FALSE,
     interrupting |-> FALSE, loading |-> FALSE, loadingShells |-> FALSE, restarting |-> FALSE,
     switching |-> FALSE, snap |-> None, shells |-> FALSE, stream |-> 0, timer |-> FALSE]

(* A record no function in flight refers to. *)
FreshGen(c) == CHOOSE g \in 1..(MaxTasks + 1) : \A i \in DOMAIN c.tasks : c.tasks[i].gen # g

getTerminalSessionRecord(c) ==
    IF c.rec = None THEN [c EXCEPT !.rec = createTerminalSessionRecord(FreshGen(c))] ELSE c

isActiveTerminalSessionRecord(c, t) == c.rec # None /\ c.rec.gen = t.gen

shouldAutoRecoverStream(snap) == snap # None /\ snap.status = "running"

clearTerminalStreamReconnectTimer(c) == [c EXCEPT !.rec.timer = FALSE]

(* Variant: the close is never made. *)
clearTerminalStreamConnectionLeaks(c) == [c EXCEPT !.rec.stream = 0]

(* The close handle the record holds; a closed connection delivers nothing more. *)
clearTerminalStreamConnection(c) ==
    IF c.rec.stream = 0 THEN c
    ELSE [c EXCEPT !.streams[c.rec.stream] = Dead, !.rec.stream = 0]

Free(c) == {i \in StreamID : c.streams[i].state = "dead"}

(* attachTerminalStream: the new handle replaces the old one, which is not closed. *)
attachTerminalStream(c, next) ==
    LET i == Min(Free(c)) IN
    [c EXCEPT !.streams[i] = [state |-> "connecting", from |-> next, queue |-> <<>>],
              !.rec.stream = i]

(* Variant: the failed session is not reported. *)
scheduleTerminalStreamReconnectSilently(c) ==
    IF c.rec = None \/ mounted = {} \/ ~shouldAutoRecoverStream(c.rec.snap) THEN c
    ELSE [c EXCEPT !.rec.error = FALSE]

(* Variant: also for a session that has ended. *)
scheduleTerminalStreamReconnectAlways(c) ==
    IF c.rec = None \/ mounted = {} THEN c
    ELSE [c EXCEPT !.rec.error = FALSE, !.rec.recovering = TRUE, !.rec.timer = TRUE]

scheduleTerminalStreamReconnect(c) ==
    IF c.rec = None \/ mounted = {} THEN c
    ELSE IF ~shouldAutoRecoverStream(c.rec.snap)
    THEN [c EXCEPT !.rec.error = TRUE, !.rec.recovering = FALSE]
    ELSE [c EXCEPT !.rec.error = FALSE, !.rec.recovering = TRUE, !.rec.timer = TRUE]

appendTerminalChunk(c, chunk) ==
    IF c.rec.snap = None THEN c
    ELSE [c EXCEPT !.rec.snap.chunks = Append(@, chunk),
                   !.rec.snap.next = Max({@, chunk.seq + 1})]

Task(kind, gen, arg) ==
    [kind |-> kind, gen |-> gen, arg |-> arg, phase |-> "sent", ok |-> TRUE, snap |-> None,
     silent |-> FALSE, owner |-> "none"]

Spawn(c, t) == [c EXCEPT !.tasks = Append(@, t)]

(* reloadTerminalSessionRecord up to its await, on behalf of an owner. *)
BeginReload(c, silent, owner) ==
    LET cleared == clearTerminalStreamConnection(clearTerminalStreamReconnectTimer(c))
        shown == IF silent THEN cleared
                 ELSE [cleared EXCEPT !.rec.error = FALSE, !.rec.loading = TRUE]
    IN Spawn(shown, [Task("reload", c.rec.gen, 0) EXCEPT !.silent = silent, !.owner = owner])

(* ensureTerminalSession up to its await; a load in progress is shared. *)
BeginEnsure(c) ==
    IF c.rec.load THEN c
    ELSE Spawn([c EXCEPT !.rec.load = TRUE, !.rec.loading = TRUE, !.rec.creating = FALSE,
                         !.rec.interrupting = FALSE, !.rec.restarting = FALSE, !.rec.error = FALSE],
               Task("ensure", c.rec.gen, 0))

(* The functions in flight that load the record's session or change it. *)
Changers(c) ==
    {i \in DOMAIN c.tasks :
        c.tasks[i].kind \in {"ensure", "reload", "restart", "create", "focus", "close", "interrupt"}}
Mixed(c) ==
    c.rec # None /\ c.rec.snap # None
    /\ \E i \in DOMAIN c.rec.snap.chunks : c.rec.snap.chunks[i].run # c.rec.snap.run
Attached(c) == c.rec # None /\ c.rec.stream # 0 /\ c.streams[c.rec.stream].state # "dead"

(* Another such function starts, or a second component's load beside a stream. *)
Overlaps(c) ==
    \/ Cardinality(Changers(c)) > 1
    \/ c.rec # None /\ c.rec.load /\ Attached(c)

-----------------------------------------------------------------------------
(* The xterm surface.                                                      *)

sessionKey(rec) == IF rec.snap = None THEN -1 ELSE rec.snap.run
outputChunks(rec) == IF rec.snap = None THEN <<>> ELSE rec.snap.chunks
LastSeq(cs) == IF cs = <<>> THEN 0 ELSE Last(cs).seq

(* Variant: every chunk is written again. *)
PaintAll(c) ==
    LET s == c.screen
        new == outputChunks(c.rec)
    IN [key |-> sessionKey(c.rec), last |-> LastSeq(new),
        rows |-> IF s.key # sessionKey(c.rec) THEN new ELSE s.rows \o new]

(* The output effect: a new session key starts over, otherwise only the chunks    *)
(* past the last one written are written.                                         *)
Paint(c) ==
    LET s == c.screen
        key == sessionKey(c.rec)
        reset == s.key # key
        new == IF reset THEN outputChunks(c.rec)
               ELSE SelectSeq(outputChunks(c.rec), LAMBDA k : k.seq > s.last)
    IN [key |-> key,
        last |-> Max({IF reset THEN 0 ELSE s.last} \cup {new[i].seq : i \in DOMAIN new}),
        rows |-> IF reset THEN new ELSE s.rows \o new]

(* The client after a step: the surface, when mounted, has painted the record. *)
Becomes(c) ==
    /\ client' = IF "panel" \in mounted' THEN [c EXCEPT !.screen = Paint(c)] ELSE c
    /\ overlap' = (overlap \/ Overlaps(c))
    /\ mixed' = (mixed \/ Mixed(c))

-----------------------------------------------------------------------------
Init ==
    /\ backend = [order |-> <<1>>, active |-> 1, launched |-> 1,
                  run |-> [s \in Session |-> IF s = 1 THEN 1 ELSE 0],
                  status |-> [r \in Run |-> "running"], out |-> [r \in Run |-> 0]]
    /\ client = [rec |-> None, streams |-> [i \in StreamID |-> Dead], tasks |-> <<>>,
                 screen |-> BlankScreen]
    /\ mounted = {} /\ ops = 0 /\ fails = 0
    /\ overlap = FALSE /\ dismissed = FALSE /\ behind = FALSE /\ mixed = FALSE

Operator == ops < MaxOps /\ Len(client.tasks) < MaxTasks /\ ops' = ops + 1
Ghosts == UNCHANGED <<dismissed, behind>>

(* The hook's effect: retainTerminalSession and ensureTerminalSession. *)
Mount(u) ==
    /\ Operator /\ u \notin mounted
    /\ mounted' = mounted \cup {u}
    /\ Becomes(BeginEnsure(getTerminalSessionRecord(
           IF u = "panel" THEN [client EXCEPT !.screen = BlankScreen] ELSE client)))
    /\ UNCHANGED <<backend, fails>> /\ Ghosts

(* releaseTerminalSession: the last component closes the stream and drops the record. *)
releaseTerminalSession(u) ==
    /\ Operator /\ u \in mounted
    /\ mounted' = mounted \ {u}
    /\ LET c == IF u = "panel" THEN [client EXCEPT !.screen = BlankScreen] ELSE client
           released == [clearTerminalStreamConnection(clearTerminalStreamReconnectTimer(c))
                            EXCEPT !.rec = None]
       IN Becomes(IF mounted' = {} THEN released ELSE c)
    /\ UNCHANGED <<backend, fails>> /\ Ghosts

-----------------------------------------------------------------------------
(* The operator's commands: what the widget offers, and the hook's own guard. *)

Ready == Operator /\ "panel" \in mounted /\ UNCHANGED <<backend, mounted, fails>> /\ Ghosts
Rec == client.rec
Start(changes, kind, arg) == Becomes(Spawn([client EXCEPT !.rec = changes], Task(kind, Rec.gen, arg)))

isRestartDisabled == Rec.loading \/ Rec.interrupting \/ Rec.restarting
isSessionMutationDisabled == isRestartDisabled \/ Rec.creating

Restarted == [Rec EXCEPT !.error = FALSE, !.creating = FALSE, !.interrupting = FALSE, !.restarting = TRUE]

restartSession ==
    /\ Ready /\ ~isRestartDisabled
    /\ Start(Restarted, "restart", 0)

switchShell ==
    /\ Ready /\ Rec.shells
    /\ ~Rec.creating /\ ~Rec.interrupting /\ ~Rec.restarting /\ ~Rec.switching
    /\ Start([Restarted EXCEPT !.switching = TRUE], "restart", 0)

loadShellOptions ==
    /\ Ready /\ ~Rec.shells /\ ~Rec.loadingShells
    /\ Start([Rec EXCEPT !.error = FALSE, !.loadingShells = TRUE], "shells", 0)

(* The widget's recover button; a session that ended is restarted instead. *)
canRecoverTerminal ==
    Rec.recovering \/ Rec.error \/ (Rec.snap # None /\ Rec.snap.status # "running")

recoverSession ==
    /\ Ready /\ canRecoverTerminal /\ ~isSessionMutationDisabled
    /\ IF Rec.snap # None /\ Rec.snap.status # "running"
       THEN Start(Restarted, "restart", 0)
       ELSE Becomes(BeginReload([client EXCEPT !.rec.error = FALSE, !.rec.recovering = TRUE],
                                TRUE, "none"))

interruptSession ==
    /\ Ready /\ ~isSessionMutationDisabled
    /\ Rec.snap # None /\ Rec.snap.status = "running"
    /\ Start([Rec EXCEPT !.error = FALSE, !.creating = FALSE, !.interrupting = TRUE], "interrupt", 0)

createSessionForWidget ==
    /\ Ready /\ ~isSessionMutationDisabled
    /\ Start([Rec EXCEPT !.error = FALSE, !.creating = TRUE], "create", 0)

(* The session rail leaves the focus button enabled while a session is created or  *)
(* interrupted; the hook refuses then.                                             *)
focusSession(s) ==
    /\ Ready /\ Rec.snap # None /\ s \in Rec.snap.sessions \ {Rec.snap.active}
    /\ ~Rec.loading /\ ~Rec.restarting /\ ~Rec.creating /\ ~Rec.interrupting
    /\ Start([Rec EXCEPT !.error = FALSE, !.loading = TRUE], "focus", s)

closeSessionForWidget(s) ==
    /\ Ready /\ Rec.snap # None /\ Cardinality(Rec.snap.sessions) > 1 /\ s \in Rec.snap.sessions
    /\ ~isSessionMutationDisabled
    /\ Start([Rec EXCEPT !.error = FALSE, !.loading = TRUE], "close", s)

sendInputChunk ==
    /\ Ready /\ Rec.snap # None /\ Rec.snap.status = "running"
    /\ Becomes(Spawn(client, Task("input", Rec.gen, 0)))

(* Surface: clear from the toolbar; a changed line height or label recreates xterm, *)
(* and the new one starts empty after the last chunk the old one wrote.             *)
clearViewport ==
    /\ Ready
    /\ client' = [client EXCEPT !.screen.rows = <<>>, !.screen.last = LastSeq(outputChunks(Rec))]
    /\ UNCHANGED <<overlap, mixed>>

RecreateTerminal ==
    /\ Ready
    /\ client' = [client EXCEPT !.screen.rows = <<>>]
    /\ UNCHANGED <<overlap, mixed>>

(* The shell-wide navigator acts on the group and leaves the record alone. *)
NavigatorAction(kind, s) ==
    /\ Operator
    /\ ~ \E i \in DOMAIN client.tasks : client.tasks[i].kind \in {"navigate", "relaunch"}
    /\ UNCHANGED <<backend, mounted, fails>> /\ Ghosts
    /\ Becomes(Spawn(client, Task(kind, 0, s)))

handleFocus(s) == s \in ToSet(backend.order) /\ s # backend.active /\ NavigatorAction("navigate", s)
handleRecover == HasGroup(backend) /\ backend.status[ActiveRun(backend)] # "running"
                 /\ NavigatorAction("relaunch", 0)

Operate ==
    \/ \E u \in User : Mount(u) \/ releaseTerminalSession(u)
    \/ restartSession \/ switchShell \/ loadShellOptions \/ recoverSession \/ interruptSession
    \/ createSessionForWidget \/ sendInputChunk \/ clearViewport \/ RecreateTerminal
    \/ \E s \in Session : focusSession(s) \/ closeSessionForWidget(s) \/ handleFocus(s)
    \/ handleRecover

-----------------------------------------------------------------------------
(* The backend serves requests, runs processes and follows streams.        *)

Answered(i, ok, snap) ==
    [client EXCEPT !.tasks[i].phase = "answered", !.tasks[i].ok = ok, !.tasks[i].snap = snap]

(* closeGroupSubscribers: a group that is gone ends the streams it fed. *)
WithGroupClosed(c, b) ==
    IF HasGroup(b) THEN c
    ELSE [c EXCEPT !.streams = [i \in StreamID |->
             IF c.streams[i].state = "open" THEN [c.streams[i] EXCEPT !.state = "ended"]
             ELSE c.streams[i]]]

Served(b, c) == backend' = b /\ client' = c /\ UNCHANGED <<mounted, ops, overlap, dismissed, mixed>>
Mutations == {"restart", "create", "focus", "close"}

(* The navigator's request, or one a released record made, changes the group. *)
NoteBehind(i) ==
    behind' = (behind \/ client.tasks[i].kind \notin Mutations
                      \/ ~isActiveTerminalSessionRecord(client, client.tasks[i]))

Sent(i, kinds) == i \in DOMAIN client.tasks /\ client.tasks[i].phase = "sent" /\ client.tasks[i].kind \in kinds

ServeSnapshot(i) ==
    /\ Sent(i, {"ensure", "reload"})
    /\ Served(backend, Answered(i, TRUE, TerminalSnapshot(backend)))
    /\ UNCHANGED <<fails, behind>>

ServeFocus(i) ==
    /\ Sent(i, {"focus", "navigate"})
    /\ LET s == client.tasks[i].arg
           known == s \in ToSet(backend.order)
       IN Served(IF known THEN [backend EXCEPT !.active = s] ELSE backend, Answered(i, known, None))
    /\ NoteBehind(i) /\ UNCHANGED fails

ServeClose(i) ==
    /\ Sent(i, {"close"})
    /\ LET s == client.tasks[i].arg
           known == Len(backend.order) > 1 /\ s \in ToSet(backend.order)
       IN Served(IF known THEN CloseWidgetSession(backend, s) ELSE backend, Answered(i, known, None))
    /\ NoteBehind(i) /\ UNCHANGED fails

(* A sibling gets a new session id; without a group the widget's own session starts. *)
ServeCreate(i) ==
    /\ Sent(i, {"create"})
    /\ \/ /\ backend.launched < MaxRuns
          /\ LET s == IF HasGroup(backend) THEN Min({x \in Session : backend.run[x] = 0}) ELSE 1
             IN Served(Launch(backend, s), Answered(i, TRUE, None))
       \/ /\ backend.launched = MaxRuns
          /\ Served(backend, Answered(i, FALSE, None))
    /\ NoteBehind(i) /\ UNCHANGED fails

(* RestartTerminalSession closes the active session, then launches it again. *)
RestartCloses(i) ==
    /\ Sent(i, {"restart", "relaunch"})
    /\ LET s == IF HasGroup(backend) THEN backend.active ELSE 1
           b == CloseWidgetSession(backend, s)
       IN Served(b, WithGroupClosed([client EXCEPT !.tasks[i].phase = "launching", !.tasks[i].arg = s], b))
    /\ NoteBehind(i) /\ UNCHANGED fails

RestartLaunches(i) ==
    /\ i \in DOMAIN client.tasks /\ client.tasks[i].phase = "launching"
    /\ \/ /\ backend.launched < MaxRuns
          /\ Served(Launch(backend, client.tasks[i].arg), Answered(i, TRUE, None))
          /\ NoteBehind(i) /\ UNCHANGED fails
       \/ /\ backend.launched = MaxRuns \/ fails < MaxFails
          /\ fails' = IF backend.launched = MaxRuns THEN fails ELSE fails + 1
          /\ Served(backend, Answered(i, FALSE, None)) /\ behind' = TRUE

(* Interrupt answers the state of the active session, sent input or shells nothing. *)
ServeOther(i) ==
    /\ Sent(i, {"interrupt", "input", "shells"})
    /\ LET running == HasGroup(backend) /\ backend.status[ActiveRun(backend)] = "running"
       IN Served(backend, Answered(i, running \/ client.tasks[i].kind = "shells",
                                   TerminalSnapshot(backend)))
    /\ UNCHANGED <<fails, behind>>

RequestFails(i) ==
    /\ i \in DOMAIN client.tasks /\ client.tasks[i].phase = "sent" /\ fails < MaxFails
    /\ fails' = fails + 1
    /\ Served(backend, Answered(i, FALSE, None)) /\ UNCHANGED behind

AnswerLost(i) ==
    /\ i \in DOMAIN client.tasks /\ client.tasks[i].phase = "answered" /\ client.tasks[i].ok
    /\ fails < MaxFails /\ fails' = fails + 1
    /\ Served(backend, Answered(i, FALSE, None))
    /\ behind' = (behind \/ client.tasks[i].kind \in Mutations)

(* consumeOutput: the active session's chunk goes to every subscriber of the group. *)
ProcessOutput(s) ==
    /\ s \in ToSet(backend.order)
    /\ LET r == backend.run[s]
           chunk == Chunk(r, backend.out[r] + 1)
       IN /\ backend.status[r] = "running" /\ backend.out[r] < MaxOut
          /\ Served([backend EXCEPT !.out[r] = @ + 1],
                    [client EXCEPT !.streams = [i \in StreamID |->
                        IF s = backend.active /\ client.streams[i].state = "open"
                        THEN [client.streams[i] EXCEPT !.queue = Append(@, chunk)]
                        ELSE client.streams[i]]])
    /\ UNCHANGED <<fails, behind>>

(* waitForExit: the status changes, the subscribers are not told. *)
ProcessExits(s) ==
    /\ s \in ToSet(backend.order) /\ backend.status[backend.run[s]] = "running"
    /\ ops < MaxOps /\ ops' = ops + 1
    /\ backend' = [backend EXCEPT !.status[backend.run[s]] = "exited"]
    /\ UNCHANGED <<client, mounted, fails, overlap, dismissed, behind, mixed>>

(* handleTerminalStream: subscribed, with the chunks from the requested one on. *)
StreamAccepted(i) ==
    /\ client.streams[i].state = "connecting" /\ HasGroup(backend)
    /\ LET all == TerminalSnapshot(backend).chunks
           from == client.streams[i].from
       IN Served(backend, [client EXCEPT !.streams[i] =
             [state |-> "open", from |-> from,
              queue |-> SelectSeq(all, LAMBDA k : k.seq >= from)]])
    /\ UNCHANGED <<fails, behind>>

Serve ==
    \/ \E i \in DOMAIN client.tasks :
          ServeSnapshot(i) \/ ServeFocus(i) \/ ServeClose(i) \/ ServeCreate(i) \/ RestartCloses(i)
          \/ RestartLaunches(i) \/ ServeOther(i)
    \/ \E i \in StreamID : StreamAccepted(i)

-----------------------------------------------------------------------------
(* Continuations.                                                          *)

Received(i) == i \in DOMAIN client.tasks /\ client.tasks[i].phase = "answered"
Without(i) == [client EXCEPT !.tasks = RemoveAt(@, i)]
Continue(c) == UNCHANGED <<backend, mounted, ops, fails, behind>> /\ Becomes(c)

(* A request unrelated to the stream succeeds, and clears the record's error. *)
NoteDismissed(c, t) == dismissed' = (dismissed \/ (t.ok /\ c.rec # None /\ ~Attached(c)))

(* What the caller of reloadTerminalSessionRecord does when it returns. *)
FinishOwner(c, owner) ==
    IF owner = "restart"
    THEN [c EXCEPT !.rec.interrupting = FALSE, !.rec.restarting = FALSE, !.rec.switching = FALSE]
    ELSE IF owner = "create" THEN [c EXCEPT !.rec.creating = FALSE]
    ELSE c

ReloadFails(c, silent) ==
    IF silent /\ shouldAutoRecoverStream(c.rec.snap)
    THEN scheduleTerminalStreamReconnect(c)
    ELSE [c EXCEPT !.rec.error = TRUE, !.rec.loading = FALSE]

(* reloadTerminalSessionRecord after its await.  A silent reload is one that      *)
(* preserves the recovery state.                                                 *)
reloadTerminalSessionRecord(i) ==
    LET t == client.tasks[i]
        c == Without(i)
        applied == [c EXCEPT !.rec.error = FALSE, !.rec.loading = FALSE,
                             !.rec.recovering = FALSE, !.rec.snap = t.snap]
    IN /\ Received(i) /\ t.kind = "reload" /\ Free(c) # {}
       /\ Continue(IF ~isActiveTerminalSessionRecord(c, t) THEN c
                   ELSE IF t.ok THEN FinishOwner(attachTerminalStream(applied, t.snap.next), t.owner)
                   ELSE FinishOwner(ReloadFails(c, t.silent), t.owner))
       /\ UNCHANGED dismissed

(* ensureTerminalSession after its await. *)
ensureTerminalSession(i) ==
    LET t == client.tasks[i]
        c == Without(i)
        reset == [c EXCEPT !.rec.load = FALSE, !.rec.creating = FALSE, !.rec.recovering = FALSE,
                           !.rec.interrupting = FALSE, !.rec.loading = FALSE, !.rec.restarting = FALSE]
    IN /\ Received(i) /\ t.kind = "ensure" /\ Free(c) # {}
       /\ Continue(IF ~isActiveTerminalSessionRecord(c, t) THEN c
                   ELSE IF t.ok
                   THEN attachTerminalStream([reset EXCEPT !.rec.error = FALSE, !.rec.switching = FALSE,
                                                           !.rec.snap = t.snap], t.snap.next)
                   ELSE [reset EXCEPT !.rec.error = TRUE])
       /\ UNCHANGED dismissed

(* Variant: a failed restart leaves the flag up. *)
MutationFailsBusy(c, kind) == [c EXCEPT !.rec.error = TRUE, !.rec.loading = FALSE]

(* The catch of restart, switch, create, focus and close. *)
MutationFails(c, kind) ==
    CASE kind = "restart" -> [c EXCEPT !.rec.error = TRUE, !.rec.creating = FALSE,
                                       !.rec.interrupting = FALSE, !.rec.restarting = FALSE,
                                       !.rec.switching = FALSE]
      [] kind = "create" -> [c EXCEPT !.rec.error = TRUE, !.rec.creating = FALSE]
      [] kind \in {"focus", "close"} -> [c EXCEPT !.rec.error = TRUE, !.rec.loading = FALSE]

(* A group mutation that succeeded reloads the record; a record released meanwhile *)
(* is reloaded to no effect.                                                       *)
MutationAnswered(i) ==
    LET t == client.tasks[i]
        c == Without(i)
    IN /\ Received(i) /\ t.kind \in Mutations
       /\ Continue(IF ~isActiveTerminalSessionRecord(c, t) THEN c
                   ELSE IF t.ok THEN BeginReload(c, FALSE, t.kind)
                   ELSE MutationFails(c, t.kind))
       /\ UNCHANGED dismissed

(* interruptSession after its await: the answer goes to whatever record there is, *)
(* and only the state of its snapshot is replaced.                                *)
InterruptAnswered(i) ==
    LET t == client.tasks[i]
        c == Without(i)
        done == [c EXCEPT !.rec.creating = FALSE, !.rec.interrupting = FALSE, !.rec.error = ~t.ok]
    IN /\ Received(i) /\ t.kind = "interrupt"
       /\ Continue(IF c.rec = None THEN c
                   ELSE IF t.ok /\ c.rec.snap # None
                   THEN [done EXCEPT !.rec.snap.session = t.snap.session, !.rec.snap.run = t.snap.run,
                                     !.rec.snap.status = t.snap.status]
                   ELSE done)
       /\ NoteDismissed(c, t)

(* sendInputChunk after its await: success clears the error of the record there is, *)
(* failure creates one if there is none.                                            *)
InputAnswered(i) ==
    LET t == client.tasks[i]
        c == Without(i)
    IN /\ Received(i) /\ t.kind = "input"
       /\ Continue(IF ~t.ok THEN [getTerminalSessionRecord(c) EXCEPT !.rec.error = TRUE]
                   ELSE IF c.rec = None \/ c.rec.snap = None THEN c
                   ELSE [c EXCEPT !.rec.error = FALSE])
       /\ NoteDismissed(c, t)

ShellsAnswered(i) ==
    LET t == client.tasks[i]
        c == Without(i)
    IN /\ Received(i) /\ t.kind = "shells"
       /\ Continue(IF ~isActiveTerminalSessionRecord(c, t) THEN c
                   ELSE [c EXCEPT !.rec.error = ~t.ok, !.rec.loadingShells = FALSE, !.rec.shells = t.ok])
       /\ NoteDismissed(c, t)

NavigatorAnswered(i) ==
    /\ Received(i) /\ client.tasks[i].kind \in {"navigate", "relaunch"}
    /\ Continue(Without(i)) /\ UNCHANGED dismissed

(* The reconnect timer. *)
ReconnectTimer ==
    /\ client.rec # None /\ client.rec.timer /\ Len(client.tasks) < MaxTasks
    /\ Continue(BeginReload(client, TRUE, "none"))
    /\ UNCHANGED dismissed

(* onOutput: a chunk goes to the record registered now, whichever stream brings it. *)
StreamDelivers(i) ==
    /\ client.streams[i].queue # <<>>
    /\ LET c == [client EXCEPT !.streams[i].queue = Tail(@)]
           grown == appendTerminalChunk(c, Head(client.streams[i].queue))
       IN Continue(IF c.rec = None THEN c
                   ELSE IF grown.rec.recovering
                   THEN [grown EXCEPT !.rec.error = FALSE, !.rec.recovering = FALSE]
                   ELSE grown)
    /\ UNCHANGED dismissed

(* done resolves or rejects, unless the client closed the stream: reconnect. *)
StreamDone(i) ==
    /\ \/ client.streams[i].state = "ended" /\ client.streams[i].queue = <<>>
       \/ client.streams[i].state = "connecting" /\ ~HasGroup(backend)
    /\ Continue(scheduleTerminalStreamReconnect([client EXCEPT !.streams[i] = Dead]))
    /\ UNCHANGED dismissed

StreamDrops(i) ==
    /\ client.streams[i].state \in {"connecting", "open"} /\ fails < MaxFails
    /\ fails' = fails + 1
    /\ UNCHANGED <<backend, mounted, ops, dismissed, behind>>
    /\ Becomes(scheduleTerminalStreamReconnect([client EXCEPT !.streams[i] = Dead]))

Receive ==
    \/ \E i \in DOMAIN client.tasks :
          reloadTerminalSessionRecord(i) \/ ensureTerminalSession(i) \/ MutationAnswered(i)
          \/ InterruptAnswered(i) \/ InputAnswered(i) \/ ShellsAnswered(i) \/ NavigatorAnswered(i)
    \/ ReconnectTimer
    \/ \E i \in StreamID : StreamDelivers(i) \/ StreamDone(i)

Fault ==
    \/ \E i \in DOMAIN client.tasks : RequestFails(i) \/ AnswerLost(i)
    \/ \E i \in StreamID : StreamDrops(i)
    \/ \E s \in Session : ProcessOutput(s) \/ ProcessExits(s)

Next == Operate \/ Serve \/ Receive \/ Fault

(* Requests are answered, continuations and timers run, and a stream that was     *)
(* asked for is accepted; the operator and the processes owe nothing.             *)
Fairness == WF_vars(Serve \/ Receive)
Spec == Init /\ [][Next]_vars /\ Fairness

-----------------------------------------------------------------------------
InFlight(kinds) == \E i \in DOMAIN client.tasks : client.tasks[i].kind \in kinds
Owned(kinds) ==
    \E i \in DOMAIN client.tasks :
        client.tasks[i].gen = Rec.gen /\ (client.tasks[i].kind \in kinds \/ client.tasks[i].owner \in kinds)
Quiet == client.tasks = <<>> /\ (Rec = None \/ ~Rec.timer) /\ \A i \in StreamID :
            client.streams[i].state # "connecting" /\ client.streams[i].queue = <<>>

(* Every busy flag of the record is held up by a function in flight that will     *)
(* lower it, across releases, remounts, overlapping reloads and failures: no      *)
(* button stays disabled for good.                                                *)
BusyHasOwner ==
    Rec # None =>
        /\ Rec.loading => Owned({"ensure", "reload", "focus", "close"})
        /\ Rec.load => Owned({"ensure"})
        /\ Rec.creating => Owned({"create"})
        /\ Rec.restarting \/ Rec.switching => Owned({"restart"})
        /\ Rec.interrupting => InFlight({"interrupt"})
        /\ Rec.loadingShells => Owned({"shells"})

(* While the record's functions never overlap, the only live connection is the    *)
(* one whose close handle the record holds, and none outlives the record.         *)
OneStream ==
    ~overlap => \A i \in StreamID :
        client.streams[i].state # "dead" => Rec # None /\ Rec.stream = i

(* At rest, a surface whose record follows a stream shows consecutive chunks of   *)
(* the snapshot's session up to the newest one, unless functions overlapped, the  *)
(* group changed behind the record or its chunks mixed two processes.             *)
ScreenIsCurrent ==
    LET rows == client.screen.rows IN
    Quiet /\ ~overlap /\ ~behind /\ ~mixed /\ "panel" \in mounted /\ Attached(client) =>
        /\ \A i \in DOMAIN rows : rows[i].run = Rec.snap.run
        /\ \A i \in DOMAIN rows : rows[i].seq = Rec.snap.next - 1 - (Len(rows) - i)

(* A mounted terminal of a running session that follows no stream.          *)
Deaf == Rec # None /\ mounted # {} /\ shouldAutoRecoverStream(Rec.snap) /\ ~Attached(client)
Signalled == Rec.timer \/ Rec.recovering \/ Rec.error \/ \E i \in DOMAIN client.tasks : client.tasks[i].gen = Rec.gen

(* While they never overlap, a terminal that follows no stream says so, until the *)
(* success of an unrelated request clears its error.                               *)
StreamOrSignal == Deaf /\ ~overlap /\ ~dismissed => Signalled

(* A lost stream is surfaced for as long as it is lost. *)
DisconnectIsSurfaced == Deaf => Signalled

(* Reconnecting comes to an end: no cycle of reloads, streams and timers. *)
ReconnectSettles == []<>Quiet

=============================================================================
