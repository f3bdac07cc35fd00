---------------------------- MODULE TerminalOutput ----------------------------
(***************************************************************************)
(* The output of one terminal widget (core/terminal/service.go and         *)
(* subscriber.go) and the event streams that follow it                     *)
(* (handleTerminalStream): the chunk ring of each session, the readers     *)
(* that append to it and fan out to the subscribers of the active session, *)
(* and the attach, delivery and close of a stream.                         *)
(*                                                                         *)
(* A session launched again under its id is a new run of it, with chunks   *)
(* counted from 1; runs are numbered in launch order.  A chunk is the run  *)
(* that produced it and its sequence number.  How sessions come and go is  *)
(* TerminalSessions' subject; here a launch is one step.                   *)
(***************************************************************************)
EXTENDS Integers, Sequences, SequencesExt, FiniteSets

CONSTANTS
  Sessions,    \* session ids of the widget
  Subs,        \* event streams
  Froms,       \* positions a stream may ask to start from
  Ring,        \* maxBufferedChunks (512 in the code)
  SubCap,      \* capacity of a subscriber's channel (32 in the code)
  MaxRuns,     \* bound: launches
  MaxChunks,   \* bound: chunks a run produces
  None

ASSUME OutputAssumption ==
  /\ Ring \in Nat \ {0} /\ SubCap \in Nat \ {0}
  /\ MaxRuns \in Nat /\ MaxChunks \in Nat
  /\ Froms \subseteq Nat
  /\ None \notin Sessions

Runs == 1..MaxRuns

VARIABLES
  run,        \* per session: the run that has the id now, 0 for none
  order,      \* the group's sessions, oldest first; empty without a group
  active,
  launched,   \* number of launches so far
  chunks,     \* per run: the sequence numbers in its ring
  fanout,     \* per run: the chunk its reader is delivering, and to whom
  exited,     \* runs whose exit is recorded
  registry,   \* subscribers of the group
  leaving,    \* subscribers of a removed group, to be closed
  sub         \* the streams

vars == <<run, order, active, launched, chunks, fanout, exited, registry, leaving, sub>>
groupVars == <<run, order, active, launched>>

Idle == [seq |-> 0, to |-> {}]

(* steady and first are history: whether the stream followed one run since *)
(* it attached, without a drop, and the position it began at.              *)
NoStream == [pc |-> "idle", closed |-> FALSE, buf |-> <<>>, got |-> <<>>,
             steady |-> FALSE, home |-> 0, first |-> 0]

Init ==
  /\ run = [s \in Sessions |-> 0]
  /\ order = <<>> /\ active = None /\ launched = 0
  /\ chunks = [r \in Runs |-> <<>>]
  /\ fanout = [r \in Runs |-> Idle]
  /\ exited = {}
  /\ registry = {} /\ leaving = {}
  /\ sub = [u \in Subs |-> NoStream]

Current(r) == \E s \in Sessions : run[s] = r
NextSeq(r) == IF chunks[r] = <<>> THEN 1 ELSE Last(chunks[r]) + 1

(* A stream that follows another session is no longer steady.              *)
Unsettled(us) == [u \in Subs |-> IF u \in us THEN [sub[u] EXCEPT !.steady = FALSE] ELSE sub[u]]

(* The loop that keeps the elements of a slice that are in keep.           *)
Filter(seq, keep) ==
  LET kept[i \in 0..Len(seq)] ==
        IF i = 0 THEN <<>>
        ELSE IF seq[i] \in keep THEN Append(kept[i - 1], seq[i]) ELSE kept[i - 1]
  IN  kept[Len(seq)]

-----------------------------------------------------------------------------
(* StartSession and CreateSession install a session and make it active.    *)
Install(s) ==
  /\ run[s] = 0 /\ launched < MaxRuns
  /\ launched' = launched + 1
  /\ run' = [run EXCEPT ![s] = launched + 1]
  /\ order' = Append(order, s)
  /\ active' = s
  /\ sub' = Unsettled(registry)
  /\ UNCHANGED <<chunks, fanout, exited, registry, leaving>>

SetActiveSession(s) ==
  /\ run[s] # 0 /\ s # active
  /\ active' = s
  /\ sub' = Unsettled(registry)
  /\ UNCHANGED <<run, order, launched, chunks, fanout, exited, registry, leaving>>

(* CloseWidgetSession: the group goes with its last session.               *)
CloseWidgetSession(s) ==
  LET rest == Filter(order, Sessions \ {s}) IN
  /\ run[s] # 0
  /\ run' = [run EXCEPT ![s] = 0]
  /\ order' = rest
  /\ active' = IF active # s THEN active ELSE IF rest = <<>> THEN None ELSE Last(rest)
  /\ IF rest = <<>>
     THEN leaving' = leaving \cup registry /\ registry' = {}
     ELSE UNCHANGED <<leaving, registry>>
  /\ sub' = IF active = s THEN Unsettled(registry) ELSE sub
  /\ UNCHANGED <<launched, chunks, fanout, exited>>

(* CloseSession, and Close for this widget.                               *)
CloseSession ==
  /\ order # <<>>
  /\ run' = [s \in Sessions |-> 0]
  /\ order' = <<>> /\ active' = None
  /\ leaving' = leaving \cup registry /\ registry' = {}
  /\ sub' = Unsettled(registry)
  /\ UNCHANGED <<launched, chunks, fanout, exited>>

(* closeGroupSubscribers, one subscriber at a time.                        *)
CloseSubscriber(u) ==
  /\ u \in leaving
  /\ leaving' = leaving \ {u}
  /\ sub' = [sub EXCEPT ![u].closed = TRUE]
  /\ UNCHANGED <<groupVars, chunks, fanout, exited, registry>>

(* waitForExit records the exit and leaves the subscribers alone.          *)
WaitForExit(r) ==
  /\ Current(r) /\ r \notin exited
  /\ exited' = exited \cup {r}
  /\ UNCHANGED <<groupVars, chunks, fanout, registry, leaving, sub>>

-----------------------------------------------------------------------------
(* The last n elements of a sequence.                                     *)
Newest(seq, n) == IF Len(seq) > n THEN SubSeq(seq, Len(seq) - n + 1, Len(seq)) ELSE seq

(* consumeOutput under the lock: append, trim, and take the subscribers if *)
(* the session is the active one.  One chunk at a time.                    *)
ConsumeOutput(r) ==
  LET seq == NextSeq(r)
      s == CHOOSE x \in Sessions : run[x] = r IN
  /\ Current(r) /\ fanout[r].to = {} /\ seq <= MaxChunks
  /\ chunks' = [chunks EXCEPT ![r] = Newest(Append(@, seq), Ring)]
  /\ fanout' = [fanout EXCEPT ![r] = [seq |-> seq, to |-> IF active = s THEN registry ELSE {}]]
  /\ UNCHANGED <<groupVars, exited, registry, leaving, sub>>

(* Variant: closed is not looked at.                                      *)
DeliverToClosed(r, u) ==
  /\ u \in fanout[r].to
  /\ fanout' = [fanout EXCEPT ![r].to = @ \ {u}]
  /\ sub' = IF Len(sub[u].buf) >= SubCap THEN [sub EXCEPT ![u].steady = FALSE]
            ELSE [sub EXCEPT ![u].buf = Append(@, <<r, fanout[r].seq>>)]
  /\ UNCHANGED <<groupVars, chunks, exited, registry, leaving>>

(* deliverChunk without the lock; deliver drops a chunk that finds the     *)
(* channel full, and does nothing once the channel is closed.              *)
Deliver(r, u) ==
  /\ u \in fanout[r].to
  /\ fanout' = [fanout EXCEPT ![r].to = @ \ {u}]
  /\ sub' = IF sub[u].closed THEN sub
            ELSE IF Len(sub[u].buf) >= SubCap THEN [sub EXCEPT ![u].steady = FALSE]
            ELSE [sub EXCEPT ![u].buf = Append(@, <<r, fanout[r].seq>>)]
  /\ UNCHANGED <<groupVars, chunks, exited, registry, leaving>>

-----------------------------------------------------------------------------
(* Variant: the chunk at the position asked for is left out.              *)
ReplayAfter(r, f) == Filter(chunks[r], (f + 1)..MaxChunks)

(* The chunks of a snapshot from position f, and the position it begins at. *)
Replay(r, f) == Filter(chunks[r], f..MaxChunks)

FirstFrom(r, f) ==
  IF chunks[r] = <<>> \/ f >= NextSeq(r) THEN NextSeq(r)
  ELSE IF f > Head(chunks[r]) THEN f ELSE Head(chunks[r])

Attached(u, r, f) ==
  LET seqs == Replay(r, f) IN
  [sub EXCEPT ![u] =
     [NoStream EXCEPT !.pc = "reading", !.got = [i \in DOMAIN seqs |-> <<r, seqs[i]>>],
        !.steady = TRUE, !.home = r, !.first = FirstFrom(r, f)]]

(* handleTerminalStream: SnapshotAndSubscribe in one critical section, then *)
(* the replay is written.                                                  *)
Attach(u, f) ==
  /\ sub[u].pc = "idle" /\ order # <<>>
  /\ sub' = Attached(u, run[active], f)
  /\ registry' = registry \cup {u}
  /\ UNCHANGED <<groupVars, chunks, fanout, exited, leaving>>

ReadChunk(u) ==
  /\ sub[u].pc = "reading" /\ sub[u].buf # <<>>
  /\ sub' = [sub EXCEPT ![u].buf = Tail(@), ![u].got = Append(@, Head(sub[u].buf))]
  /\ UNCHANGED <<groupVars, chunks, fanout, exited, registry, leaving>>

(* The channel is closed and drained: the stream ends.                    *)
ReadClosed(u) ==
  /\ sub[u].pc = "reading" /\ sub[u].buf = <<>> /\ sub[u].closed
  /\ sub' = [sub EXCEPT ![u].pc = "unsubscribe"]
  /\ UNCHANGED <<groupVars, chunks, fanout, exited, registry, leaving>>

ClientGone(u) ==
  /\ sub[u].pc = "reading"
  /\ sub' = [sub EXCEPT ![u].pc = "unsubscribe"]
  /\ UNCHANGED <<groupVars, chunks, fanout, exited, registry, leaving>>

(* unsubscribe leaves the registry of the widget's group, if it is in it,  *)
(* and closes the channel.                                                 *)
Unsubscribe(u) ==
  /\ sub[u].pc = "unsubscribe"
  /\ registry' = registry \ {u}
  /\ sub' = [sub EXCEPT ![u].pc = "done", ![u].closed = TRUE]
  /\ UNCHANGED <<groupVars, chunks, fanout, exited, leaving>>

-----------------------------------------------------------------------------
Reader(r) == \E u \in Subs : Deliver(r, u)
Stream(u) == ReadChunk(u) \/ ReadClosed(u) \/ Unsubscribe(u)

Next ==
  \/ \E s \in Sessions : Install(s) \/ SetActiveSession(s) \/ CloseWidgetSession(s)
  \/ CloseSession
  \/ \E r \in Runs : WaitForExit(r) \/ ConsumeOutput(r) \/ Reader(r)
  \/ \E u \in Subs : CloseSubscriber(u) \/ Stream(u) \/ ClientGone(u)
  \/ \E u \in Subs, f \in Froms : Attach(u, f)

Spec == Init /\ [][Next]_vars

(* The readers run, and so does the close of a removed group.              *)
ReaderFairness ==
  /\ \A r \in Runs : WF_vars(Reader(r))
  /\ \A u \in Subs : WF_vars(CloseSubscriber(u))
(* The clients take what their streams write.                             *)
ClientsRead == \A u \in Subs : WF_vars(Stream(u))

-----------------------------------------------------------------------------
Chunk == Runs \X (1..MaxChunks)

Streams ==
  [pc : {"idle", "reading", "unsubscribe", "done"}, closed : BOOLEAN,
   buf : Seq(Chunk), got : Seq(Chunk),
   steady : BOOLEAN, home : 0..MaxRuns, first : 0..(MaxChunks + 1)]

TypeOK ==
  /\ run \in [Sessions -> 0..MaxRuns]
  /\ order \in Seq(Sessions) /\ active \in Sessions \cup {None}
  /\ launched \in 0..MaxRuns
  /\ chunks \in [Runs -> Seq(1..MaxChunks)]
  /\ fanout \in [Runs -> [seq : 0..MaxChunks, to : SUBSET Subs]]
  /\ exited \subseteq Runs
  /\ registry \subseteq Subs /\ leaving \subseteq Subs
  /\ sub \in [Subs -> Streams]

(* What stream u was sent: written to the client or in its channel.        *)
Sent(u) == sub[u].got \o sub[u].buf

(* No chunk reaches a stream twice, and the chunks of a run reach it in    *)
(* order, across the replay, focus changes, restarts and dropped chunks.   *)
InOrder ==
  \A u \in Subs : \A i, j \in DOMAIN Sent(u) :
     i < j /\ Sent(u)[i][1] = Sent(u)[j][1] => Sent(u)[i][2] < Sent(u)[j][2]

(* The replay and live output meet without a gap: a stream that followed   *)
(* one run and dropped nothing was sent every chunk of it from where it    *)
(* began, but the one that is being delivered to it.                       *)
NoGap ==
  \A u \in Subs : sub[u].steady /\ ~sub[u].closed /\ sub[u].pc = "reading" =>
     LET r == sub[u].home
         last == IF u \in fanout[r].to THEN fanout[r].seq - 1 ELSE NextSeq(r) - 1
     IN  Sent(u) = [i \in 1..(last - sub[u].first + 1) |-> <<r, sub[u].first + i - 1>>]

(* Nothing is sent on a closed channel: deliver and close synchronise on   *)
(* the subscriber, whatever list of subscribers the reader still holds.    *)
NoSendOnClosed ==
  [][\A u \in Subs : sub[u].closed => Len(sub[u]'.buf) <= Len(sub[u].buf)]_vars

(* A stream that is not being closed by someone is in the registry, and a  *)
(* stream that ended is not: no subscriber is forgotten or leaked.         *)
RegistryIsExact ==
  \A u \in Subs :
     /\ sub[u].pc = "reading" /\ ~sub[u].closed => u \in registry \cup leaving
     /\ sub[u].pc = "done" => u \notin registry

(* What a stream is sent is what its runs wrote, and the registry knows    *)
(* who is sent it.                                                         *)
StreamsAreExact == InOrder /\ NoGap /\ RegistryIsExact

(* A stream that nobody reads never holds up the shell: every delivery     *)
(* ends, without any assumption on the clients.  When the group is removed, *)
(* every stream of it ends, if the clients read.                           *)
StreamsGoOn ==
  /\ []<>\A r \in Runs : fanout[r].to = {}
  /\ ClientsRead => []<>\A u \in Subs : sub[u].pc = "reading" => u \in registry
=============================================================================
