------------------------ MODULE AgentConversations ------------------------
(***************************************************************************)
(* The conversation side of the AI panel (frontend/src/features/agent):    *)
(* the thread the panel shows, the navigator's list, and every operation   *)
(* of useAgentPanel that changes the backend's active conversation or      *)
(* applies a conversation snapshot.  Each operation is an asynchronous     *)
(* function: it runs up to its next await in one step, its request is      *)
(* handled by the backend in a second one, and its answer is delivered in  *)
(* a third.  Answers arrive in any order and any of them can fail.  Three  *)
(* counters decide which answers still count: the panel-state epoch, the   *)
(* list request nonce and the submission nonce.                            *)
(***************************************************************************)
EXTENDS Naturals, FiniteSets

CONSTANTS Conv,      \* conversation ids
          First,     \* the conversations that exist at start; all are recent
          Provider,  \* configured AI providers
          None,      \* no conversation, no provider
          MaxOps,    \* bound on the operator's actions
          MaxCalls,  \* bound on the functions in flight when the operator acts
          MaxFails   \* bound on the requests that fail

ASSUME ConvAssumption ==
    /\ First \subseteq Conv /\ First # {} /\ None \notin Conv \cup Provider
    /\ Cardinality(Conv) >= Cardinality(First) + MaxOps

VARIABLES backend,  \* the conversation service and the provider catalog
          panel,    \* the React state and refs of useAgentPanel
          calls,    \* the asynchronous functions that have not returned
          ops,      \* the operator's actions so far
          fails,    \* the requests that failed so far
          missed    \* ghost: an answer was lost, or two operations no counter orders overlapped

vars == <<backend, panel, calls, ops, fails, missed>>

Scope == {"recent", "archived"}
Transition == {"switch", "create", "delete", "archive", "restore"}
Mutation == {"delete", "archive", "restore"}
Exists(c) == c \in backend.recent \cup backend.archived
Listed(s) == IF s = "recent" THEN backend.recent ELSE backend.archived

NoAnswer == [ok |-> FALSE, conv |-> None, list |-> {}, archived |-> {}, active |-> None,
             provider |-> None]

(* A panel as it is when the sidebar opens. *)
BlankPanel(epoch, nonce, listNonce) ==
    [open |-> TRUE, epoch |-> epoch, nonce |-> nonce, listNonce |-> listNonce,
     thread |-> None, activeID |-> None, list |-> {}, archived |-> {}, scope |-> "recent",
     provider |-> None, loaded |-> FALSE,
     pending |-> FALSE, listPending |-> FALSE, submitting |-> FALSE]

-----------------------------------------------------------------------------
(* Helpers on the panel.                                                   *)

(* A call as it is issued: what its closure captured and the request on the wire. *)
Call(op, target, p) ==
    [op |-> op, step |-> "sent", target |-> target, was |-> p.activeID, epoch |-> p.epoch,
     nonce |-> p.nonce, list |-> 0, scope |-> p.scope, got |-> NoAnswer, n |-> ops]

applyConversationSnapshot(p, got) ==
    [p EXCEPT !.thread = got.conv, !.activeID = got.conv, !.list = @ \cup {got.conv},
              !.archived = IF got.conv \in got.archived THEN @ \cup {got.conv} ELSE @ \ {got.conv}]

(* setConversations, setConversationCounts and setActiveConversationID. *)
setConversations(p, got) ==
    [p EXCEPT !.list = got.list, !.activeID = got.active,
              !.archived = (got.archived \cap got.list) \cup (@ \cap {p.thread})]

(* refreshConversationListForPanel up to its await: the newest request wins. *)
BeginRefresh(p) == [p EXCEPT !.listNonce = @ + 1, !.listPending = TRUE]
ListCall(p, scope) ==
    [op |-> "list", step |-> "sent", target |-> None, was |-> None, epoch |-> 0, nonce |-> 0,
     list |-> p.listNonce, scope |-> scope, got |-> NoAnswer, n |-> 0]

resetConversationSubmissionRuntime(p) == [p EXCEPT !.nonce = @ + 1]
beginPanelStateEpoch(p) == [p EXCEPT !.epoch = @ + 1]

(* The overlaps no counter of the panel orders: a snapshot that is applied without *)
(* a check can be older than a transition's (also a rename's, which the pending    *)
(* flag keeps apart from transitions only until the panel is reopened), a mutation *)
(* writes the list without taking a list nonce, and a reopened panel reads while   *)
(* an old transition runs.                                                         *)
Unordered(c, d) ==
    \/ c.op \in Transition /\ d.op = "context"
    \/ c.op \in Transition /\ d.op = "prompt" /\ d.step \in {"fetch", "fetched"}
    \/ c.op \in Transition /\ d.op = "rename"
    \/ c.op \in Mutation /\ d.op = "list"
    \/ c.op \in Transition /\ d.op = "bootstrap" /\ c.epoch < d.epoch

NoteMissed == missed' = (missed \/ \E c, d \in calls' : Unordered(c, d))

Operator ==
    /\ ops < MaxOps /\ Cardinality(calls) < MaxCalls
    /\ ops' = ops + 1
    /\ UNCHANGED fails
Busy == panel.pending \/ panel.submitting

(* The sidebar has just been opened for the first time. *)
Opened(p) == {Call("bootstrap", None, p), ListCall(p, p.scope)}

Init ==
    /\ backend = [active |-> CHOOSE c \in First : TRUE, recent |-> First, archived |-> {}, used |-> First,
                  provider |-> CHOOSE p \in Provider : TRUE]
    /\ ops = 0 /\ fails = 0
    /\ panel = BeginRefresh(BlankPanel(1, 1, 0))
    /\ calls = Opened(panel)
    /\ missed = FALSE

-----------------------------------------------------------------------------
(* The operator.                                                           *)

(* Opening the sidebar resets the panel, starts the bootstrap and lists the threads. *)
OpenPanel ==
    /\ Operator
    /\ ~panel.open
    /\ LET p == BeginRefresh(BlankPanel(panel.epoch + 1, panel.nonce + 1, panel.listNonce))
       IN  /\ panel' = p
           /\ calls' = calls \cup Opened(p)
    /\ NoteMissed
    /\ UNCHANGED backend

ClosePanel ==
    /\ Operator
    /\ panel.open
    /\ panel' = [panel EXCEPT !.open = FALSE, !.nonce = @ + 1]
    /\ UNCHANGED <<backend, calls, missed>>

(* The scope buttons and the search field: the list effect issues a new request. *)
updateConversationScope(s) ==
    /\ Operator
    /\ panel.open /\ s # panel.scope
    /\ LET p == BeginRefresh([panel EXCEPT !.scope = s])
       IN  panel' = p /\ calls' = calls \cup {ListCall(p, s)}
    /\ NoteMissed
    /\ UNCHANGED backend

(* What switch, create and the mutations do before their first await. *)
BeginTransition(op, c) ==
    LET p == [beginPanelStateEpoch(resetConversationSubmissionRuntime(panel)) EXCEPT !.pending = TRUE]
    IN  panel' = p /\ calls' = calls \cup {Call(op, c, p)}

switchConversation(c) ==
    /\ Operator
    /\ panel.open /\ ~Busy
    /\ c \in panel.list /\ c # panel.activeID
    /\ BeginTransition("switch", c)
    /\ NoteMissed
    /\ UNCHANGED backend

createConversation ==
    /\ Operator
    /\ panel.open /\ ~Busy
    /\ BeginTransition("create", None)
    /\ NoteMissed
    /\ UNCHANGED backend

(* The row and header buttons of the navigator offer what the summary allows. *)
NavigatorOffers(op, c) ==
    /\ c \in panel.list \cup ({panel.thread} \ {None})
    /\ op = "archive" => c \notin panel.archived
    /\ op = "restore" => c \in panel.archived

mutateConversation(op, c) ==
    /\ Operator
    /\ panel.open /\ ~Busy
    /\ NavigatorOffers(op, c)
    /\ BeginTransition(op, c)
    /\ NoteMissed
    /\ UNCHANGED backend

(* Renaming is offered for the shown thread only, and begins no epoch. *)
renameConversation ==
    /\ Operator
    /\ panel.open /\ ~Busy
    /\ panel.thread # None
    /\ panel' = [panel EXCEPT !.pending = TRUE]
    /\ calls' = calls \cup {Call("rename", panel.thread, panel)}
    /\ NoteMissed
    /\ UNCHANGED backend

selectProvider(q) ==
    /\ Operator
    /\ panel.open /\ ~Busy /\ panel.loaded
    /\ q # panel.provider
    /\ LET p == beginPanelStateEpoch(panel)
       IN  panel' = p /\ calls' = calls \cup {Call("provider", q, p)}
    /\ NoteMissed
    /\ UNCHANGED backend

(* The context chips and the context menu stay enabled while the panel is busy. *)
persistConversationContextPreferences ==
    /\ Operator
    /\ panel.open
    /\ LET c == Call("context", panel.activeID, panel)
       IN  calls' = calls \cup {[c EXCEPT !.step = IF c.target = None THEN "fetch" ELSE "sent"]}
    /\ NoteMissed
    /\ UNCHANGED <<backend, panel>>

sendDraft ==
    /\ Operator
    /\ panel.open /\ ~Busy
    /\ LET p == [panel EXCEPT !.nonce = @ + 1, !.submitting = TRUE]
       IN  panel' = p /\ calls' = calls \cup {Call("prompt", None, p)}
    /\ NoteMissed
    /\ UNCHANGED backend

cancelAnswer ==
    /\ Operator
    /\ panel.open /\ panel.submitting
    /\ panel' = [panel EXCEPT !.nonce = @ + 1, !.submitting = FALSE]
    /\ UNCHANGED <<backend, calls, missed>>

-----------------------------------------------------------------------------
(* The backend, one request at a time under the conversation service's lock. *)

Becomes(c, d) == calls' = (calls \ {c}) \cup {d}
Answer(c, step, got) == Becomes(c, [c EXCEPT !.step = step, !.got = got])
Snapshot(conv, b) == [NoAnswer EXCEPT !.ok = TRUE, !.conv = conv, !.archived = b.archived]

Fresh == CHOOSE c \in Conv : c \notin backend.used
Created(b, c) == [b EXCEPT !.recent = @ \cup {c}, !.used = @ \cup {c}, !.active = c]

CreateConversation(c) ==
    /\ c.op = "create" /\ c.step = "sent"
    /\ backend' = Created(backend, Fresh)
    /\ Answer(c, "answered", Snapshot(Fresh, backend'))

ActivateConversation(c) ==
    /\ c.op = "switch" /\ c.step = "sent"
    /\ backend' = IF Exists(c.target) THEN [backend EXCEPT !.active = c.target] ELSE backend
    /\ Answer(c, "answered", IF Exists(c.target) THEN Snapshot(c.target, backend') ELSE NoAnswer)

(* Renaming and the context preferences answer with the conversation they were about. *)
UpdateConversation(c) ==
    /\ c.op \in {"rename", "context"} /\ c.step = "sent"
    /\ Answer(c, "answered", IF Exists(c.target) THEN Snapshot(c.target, backend) ELSE NoAnswer)
    /\ UNCHANGED backend

(* The active conversation after x goes: another candidate, or a new one. *)
Successor(b, x, candidates) ==
    IF b.active # x THEN {b}
    ELSE IF candidates # {} THEN {[b EXCEPT !.active = y] : y \in candidates}
    ELSE {Created(b, Fresh)}

DeleteConversation(c) ==
    /\ c.op = "delete" /\ c.step = "sent"
    /\ \/ /\ Exists(c.target)
          /\ LET rest == [backend EXCEPT !.recent = @ \ {c.target}, !.archived = @ \ {c.target}]
             IN  backend' \in Successor(rest, c.target,
                                        IF rest.recent # {} THEN rest.recent ELSE rest.archived)
          /\ Answer(c, "answered", Snapshot(backend'.active, backend'))
       \/ ~Exists(c.target) /\ Answer(c, "answered", NoAnswer) /\ UNCHANGED backend

ArchiveConversation(c) ==
    /\ c.op = "archive" /\ c.step = "sent"
    /\ \/ /\ c.target \in backend.recent
          /\ LET rest == [backend EXCEPT !.recent = @ \ {c.target}, !.archived = @ \cup {c.target}]
             IN  backend' \in Successor(rest, c.target, rest.recent)
          /\ Answer(c, "answered", Snapshot(backend'.active, backend'))
       \/ /\ c.target \in backend.archived
          /\ Answer(c, "answered", Snapshot(backend.active, backend)) /\ UNCHANGED backend
       \/ ~Exists(c.target) /\ Answer(c, "answered", NoAnswer) /\ UNCHANGED backend

RestoreConversation(c) ==
    /\ c.op = "restore" /\ c.step = "sent"
    /\ \/ /\ Exists(c.target)
          /\ backend' = [backend EXCEPT !.recent = @ \cup {c.target}, !.archived = @ \ {c.target}]
          /\ Answer(c, "answered", Snapshot(c.target, backend'))
       \/ ~Exists(c.target) /\ Answer(c, "answered", NoAnswer) /\ UNCHANGED backend

ListConversations(c) ==
    /\ c.step = "relist" \/ (c.op = "list" /\ c.step = "sent")
    /\ LET next == IF c.op = "list" THEN "answered" ELSE "relisted"
       IN  Answer(c, next, [c.got EXCEPT !.ok = TRUE, !.list = Listed(c.scope),
                                         !.archived = backend.archived, !.active = backend.active])
    /\ UNCHANGED backend

(* GET the active conversation: the bootstrap, the context menu, a finished prompt. *)
FetchConversation(c) ==
    /\ c.step = "fetch" \/ (c.op = "bootstrap" /\ c.step = "sent")
    /\ Answer(c, IF c.op = "bootstrap" THEN "answered" ELSE "fetched",
              [Snapshot(backend.active, backend) EXCEPT !.provider = backend.provider])
    /\ UNCHANGED backend

ActivateProvider(c) ==
    /\ c.op = "provider" /\ c.step = "sent"
    /\ backend' = [backend EXCEPT !.provider = c.target]
    /\ Answer(c, "answered", [NoAnswer EXCEPT !.ok = TRUE, !.provider = c.target])

(* A prompt is streamed into the active conversation. *)
StreamPrompt(c) ==
    /\ c.op = "prompt" /\ c.step = "sent"
    /\ Answer(c, "answered", Snapshot(backend.active, backend))
    /\ UNCHANGED backend

After(step) == CASE step = "sent" -> "answered" [] step = "fetch" -> "fetched" [] step = "relist" -> "relisted"

(* The request never reaches the backend. *)
RequestFails(c) ==
    /\ c.step \in {"sent", "fetch", "relist"}
    /\ Answer(c, After(c.step), NoAnswer)
    /\ missed' = (missed \/ c.step = "relist")
    /\ UNCHANGED backend

(* The backend did the work and its answer is lost. *)
ResponseLost(c) ==
    /\ c.step \in {"answered", "fetched", "relisted"} /\ c.got.ok
    /\ Answer(c, c.step, NoAnswer)
    /\ missed' = (missed \/ c.op \in Transition)
    /\ UNCHANGED backend

Backend ==
    \E c \in calls :
        \/ /\ \/ CreateConversation(c) \/ ActivateConversation(c) \/ UpdateConversation(c)
             \/ DeleteConversation(c) \/ ArchiveConversation(c) \/ RestoreConversation(c)
             \/ ListConversations(c) \/ FetchConversation(c) \/ ActivateProvider(c) \/ StreamPrompt(c)
          /\ UNCHANGED <<panel, ops, fails, missed>>
        \/ (RequestFails(c) \/ ResponseLost(c)) /\ fails < MaxFails /\ fails' = fails + 1
             /\ UNCHANGED <<panel, ops>>

-----------------------------------------------------------------------------
(* The continuations: what each function does with its answer.             *)

Done(c) == calls' = calls \ {c}
Settled(p) == [p EXCEPT !.pending = FALSE]

(* Apply a snapshot and issue a list request with the scope the closure captured;  *)
(* rest is what remains of the call.                                               *)
ApplyAndRefresh(c, p, rest) ==
    LET q == BeginRefresh(p)
    IN  /\ panel' = q
        /\ calls' = (calls \ {c}) \cup {ListCall(q, c.scope)}
                                   \cup {[d EXCEPT !.list = q.listNonce] : d \in rest}

(* switchConversationForPanel and createConversationForPanel: an answer of an older *)
(* epoch is dropped, but the pending flag is cleared either way.                    *)
ReceiveTransition(c) ==
    /\ c.op \in {"switch", "create"} /\ c.step = "answered"
    /\ IF c.got.ok /\ c.epoch = panel.epoch
       THEN ApplyAndRefresh(c, applyConversationSnapshot(panel, c.got), {[c EXCEPT !.step = "listing"]})
       ELSE panel' = Settled(panel) /\ Done(c)

ListReturned(c) == ~\E d \in calls : d.op = "list" /\ d.list = c.list

FinishTransition(c) ==
    /\ c.step = "listing" /\ ListReturned(c)
    /\ panel' = Settled(panel) /\ Done(c)

ReceiveRename(c) ==
    /\ c.op = "rename" /\ c.step = "answered"
    /\ IF c.got.ok
       THEN ApplyAndRefresh(c, Settled(applyConversationSnapshot(panel, c.got)), {})
       ELSE panel' = Settled(panel) /\ Done(c)

(* mutateConversationCollectionForPanel: the mutation, then its own list request. *)
ReceiveMutation(c) ==
    /\ c.op \in Mutation /\ c.step = "answered"
    /\ IF c.got.ok
       THEN Becomes(c, [c EXCEPT !.step = "relist"]) /\ UNCHANGED panel
       ELSE panel' = Settled(panel) /\ Done(c)

(* Variant: the pending flag is cleared only by an answer that still counts. *)
FinishMutationStaysPending(c) ==
    /\ c.step = "relisted"
    /\ LET applied == IF c.was = c.target THEN applyConversationSnapshot(panel, c.got) ELSE panel
       IN  panel' = IF c.got.ok /\ c.epoch = panel.epoch
                    THEN Settled(setConversations(applied, c.got))
                    ELSE panel
    /\ Done(c)

FinishMutation(c) ==
    /\ c.step = "relisted"
    /\ LET applied == IF c.was = c.target THEN applyConversationSnapshot(panel, c.got) ELSE panel
       IN  panel' = IF c.got.ok /\ c.epoch = panel.epoch
                    THEN Settled(setConversations(applied, c.got))
                    ELSE Settled(panel)
    /\ Done(c)

(* Variant: the spinner is stopped by any list answer. *)
ReceiveListAnyNonce(c) ==
    /\ c.op = "list" /\ c.step = "answered"
    /\ LET p == IF c.got.ok /\ c.list = panel.listNonce THEN setConversations(panel, c.got) ELSE panel
       IN  panel' = [p EXCEPT !.listPending = FALSE]
    /\ Done(c)

ReceiveList(c) ==
    /\ c.op = "list" /\ c.step = "answered"
    /\ LET p == IF c.got.ok THEN setConversations(panel, c.got) ELSE panel
       IN  panel' = IF c.list = panel.listNonce THEN [p EXCEPT !.listPending = FALSE] ELSE panel
    /\ Done(c)

(* Variant: the bootstrap applies its snapshot whatever happened since. *)
bootstrapAgentPanelAnyEpoch(c) ==
    /\ c.op = "bootstrap" /\ c.step = "answered"
    /\ panel' = IF c.got.ok
                THEN [applyConversationSnapshot(panel, c.got) EXCEPT
                        !.provider = c.got.provider, !.loaded = TRUE]
                ELSE panel
    /\ Done(c)

bootstrapAgentPanel(c) ==
    /\ c.op = "bootstrap" /\ c.step = "answered"
    /\ panel' = IF c.got.ok /\ c.epoch = panel.epoch
                THEN [applyConversationSnapshot(panel, c.got) EXCEPT
                        !.provider = c.got.provider, !.loaded = TRUE]
                ELSE panel
    /\ Done(c)

ReceiveProvider(c) ==
    /\ c.op = "provider" /\ c.step = "answered"
    /\ panel' = IF c.got.ok /\ c.epoch = panel.epoch
                THEN [panel EXCEPT !.provider = c.got.provider] ELSE panel
    /\ Done(c)

(* persistConversationContextPreferencesForPanel: no counter guards its snapshots. *)
ReceiveContextFetch(c) ==
    /\ c.op = "context" /\ c.step = "fetched"
    /\ IF c.got.ok
       THEN /\ panel' = applyConversationSnapshot(panel, c.got)
            /\ Becomes(c, [c EXCEPT !.step = "sent", !.target = c.got.conv, !.got = NoAnswer])
       ELSE Done(c) /\ UNCHANGED panel

ReceiveContext(c) ==
    /\ c.op = "context" /\ c.step = "answered"
    /\ IF c.got.ok
       THEN ApplyAndRefresh(c, applyConversationSnapshot(panel, c.got), {})
       ELSE Done(c) /\ UNCHANGED panel

ownsSubmission(c) == c.nonce = panel.nonce
EndSubmission(c, p) == [p EXCEPT !.submitting = IF ownsSubmission(c) THEN FALSE ELSE @]

(* runBackendPromptForPanel after the stream is done: only the active submission  *)
(* goes on, to fetch the conversation and the list together.                      *)
ReceivePrompt(c) ==
    /\ c.op = "prompt" /\ c.step = "answered"
    /\ IF c.got.ok /\ ownsSubmission(c)
       THEN ApplyAndRefresh(c, panel, {[c EXCEPT !.step = "fetch", !.got = NoAnswer]})
       ELSE panel' = EndSubmission(c, panel) /\ Done(c)

(* The fetched snapshot is applied whether or not the submission is still active. *)
FinishPrompt(c) ==
    /\ c.op = "prompt" /\ c.step = "fetched"
    /\ c.got.ok => ListReturned(c)
    /\ panel' = EndSubmission(c, IF c.got.ok THEN applyConversationSnapshot(panel, c.got) ELSE panel)
    /\ Done(c)

Receive ==
    /\ \E c \in calls :
          \/ ReceiveTransition(c) \/ FinishTransition(c) \/ ReceiveRename(c)
          \/ ReceiveMutation(c) \/ FinishMutation(c) \/ ReceiveList(c) \/ bootstrapAgentPanel(c)
          \/ ReceiveProvider(c) \/ ReceiveContextFetch(c) \/ ReceiveContext(c)
          \/ ReceivePrompt(c) \/ FinishPrompt(c)
    /\ NoteMissed
    /\ UNCHANGED <<backend, ops, fails>>

-----------------------------------------------------------------------------
Next ==
    \/ OpenPanel \/ ClosePanel
    \/ \E s \in Scope : updateConversationScope(s)
    \/ \E c \in Conv : switchConversation(c)
    \/ createConversation
    \/ \E op \in Mutation, c \in Conv : mutateConversation(op, c)
    \/ renameConversation
    \/ \E q \in Provider : selectProvider(q)
    \/ persistConversationContextPreferences
    \/ sendDraft \/ cancelAnswer
    \/ Backend
    \/ Receive

(* Every request is answered, or fails, and its promise is settled; the operator  *)
(* need not do anything.                                                          *)
Spec == Init /\ [][Next]_vars /\ WF_vars(Backend \/ Receive)

-----------------------------------------------------------------------------
TypeOK ==
    /\ backend.active \in backend.recent \cup backend.archived
    /\ backend.recent \cap backend.archived = {}
    /\ backend.used \subseteq Conv /\ backend.provider \in Provider
    /\ panel.thread \in Conv \cup {None} /\ panel.activeID \in Conv \cup {None}
    /\ panel.list \subseteq Conv /\ panel.scope \in Scope
    /\ panel.pending \in BOOLEAN /\ panel.submitting \in BOOLEAN /\ missed \in BOOLEAN
    /\ ops \in 0..MaxOps /\ fails \in 0..MaxFails

(* The navigator's spinner turns exactly while the newest list request is out: a  *)
(* superseded request neither stops it early nor leaves it turning                *)
(* (refreshConversationListForPanel's nonce).                                     *)
ListSpinnerIsExact ==
    panel.listPending <=> \E c \in calls : c.op = "list" /\ c.list = panel.listNonce

Quiet == calls = {}

(* Docs: the pinned thread lets the operator verify which conversation is live.   *)
PinnedThreadIsLive == Quiet => panel.thread \in {None, backend.active}

(* Once every answer is in, the thread the panel shows and the id it acts on are  *)
(* the backend's active conversation, whatever operations overlapped, except the  *)
(* overlaps that Unordered names and the answers that were lost.                  *)
ShowsLiveConversation ==
    Quiet /\ ~missed => {panel.thread, panel.activeID} \subseteq {None, backend.active}

(* The conversation buttons do not stay disabled for ever: a transition that      *)
(* began, even one whose answer is dropped or fails, ends.                        *)
PendingClears == []<>~panel.pending
=============================================================================
