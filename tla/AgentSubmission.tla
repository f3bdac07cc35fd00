-------------------------- MODULE AgentSubmission --------------------------
(***************************************************************************)
(* The submission side of the AI panel (frontend/src/features/agent): a    *)
(* prompt is streamed, run in a terminal, or turned into a plan the        *)
(* operator must approve; the operator may cancel the answer, or close and *)
(* reopen the sidebar, at any await.  A task is one asynchronous function  *)
(* in flight: runBackendPromptForPanel (kinds "chat" and "run") or         *)
(* approvePendingPlanForPanel (kind "approval").  Its step names the await *)
(* it is in.  Conversation switches are AgentConversations' subject: they  *)
(* are disabled while a submission or a pending plan exists.               *)
(***************************************************************************)
EXTENDS Naturals, FiniteSets

CONSTANTS MaxSubmits,  \* bound on the operator's actions
          MaxTasks,    \* bound on the tasks in flight when the operator acts
          MaxFailures   \* bound on the requests that fail

VARIABLES chat,      \* the state and refs of useAgentPanel
          messages,  \* the assistant message of each submission, as the panel shows it
          cards,     \* the questionnaire or approval card of each flow
          audits,    \* the audit card of each approved flow
          tasks,     \* the asynchronous functions that have not returned
          service,   \* what the backend saved, and the commands it ran for each flow
          acts,      \* the operator's actions so far
          failures,  \* the requests that failed so far
          approved,  \* the flows the operator approved (history)
          late       \* openings whose state a task of an earlier one has written (history)

chatVars == <<chat, messages, cards, audits, tasks, service, acts, failures, approved, late>>

ID == 1..MaxSubmits
NoFlow == [id |-> 0, kind |-> "none"]
FlowKind == {"none", "question", "plan", "terminal", "run"}
Blank == [i \in ID |-> "none"]

(* resetAgentPanelRuntime and resetAgentPanelBootstrapState. *)
ResetPanel(opening, nonce) ==
    [open |-> TRUE, opening |-> opening, nonce |-> nonce, submitting |-> FALSE, cancellable |-> FALSE,
     blocked |-> FALSE, stream |-> 0, audit |-> 0, flow |-> NoFlow]

ChatInit ==
    /\ chat = ResetPanel(1, 1)
    /\ messages = Blank /\ cards = Blank /\ audits = Blank
    /\ tasks = {}
    /\ service = [saved |-> {}, ran |-> [i \in ID |-> 0]]
    /\ acts = 0 /\ failures = 0 /\ late = {} /\ approved = {}

-----------------------------------------------------------------------------
(* Helpers.                                                                *)

OperatorActs ==
    /\ acts < MaxSubmits /\ Cardinality(tasks) < MaxTasks
    /\ acts' = acts + 1
    /\ UNCHANGED <<failures, service, late>>

NewID == acts + 1

isActiveSubmission(t) == t.kind # "approval" /\ t.nonce = chat.nonce

Task(id, kind, step, audit, nonce) ==
    [id |-> id, kind |-> kind, step |-> step, audit |-> audit, nonce |-> nonce,
     opening |-> chat.opening, conn |-> "none", token |-> FALSE, errored |-> FALSE, aborted |-> FALSE]

(* runBackendPromptForPanel up to its first await.  It takes over the panel's     *)
(* abort controller and audit card, not the stream an earlier submission left.    *)
RunBackendPrompt(p, kind, audit) ==
    /\ chat' = [p EXCEPT !.nonce = @ + 1, !.submitting = TRUE, !.cancellable = (kind = "chat"),
                          !.blocked = TRUE, !.audit = audit]
    /\ tasks' = tasks \cup {Task(NewID, kind, "resolving", audit, chat'.nonce)}

(* Approving a plan that runs in the terminal; it takes no submission nonce. *)
BeginApproval(p, id, step) ==
    /\ chat' = [p EXCEPT !.submitting = TRUE, !.cancellable = FALSE, !.blocked = TRUE]
    /\ tasks' = tasks \cup {Task(id, "approval", step, id, 0)}

clearPendingInteractionFlow(p) == [p EXCEPT !.flow = NoFlow]

(* finalizeAgentConversationStreamingMessages. *)
finalizeStreaming(ms) == [i \in ID |-> IF ms[i] = "streaming" THEN "error" ELSE ms[i]]

(* failAuditEntries and completeAuditEntries, on the card as a whole. *)
failAudit(as, id) == [i \in ID |-> IF i = id /\ as[i] = "running" THEN "error" ELSE as[i]]
completeAudit(as, id) == [i \in ID |-> IF i = id /\ as[i] # "none" THEN "done" ELSE as[i]]

(* applyConversationSnapshot: local messages give way to what the backend saved. *)
SnapshotMessages == [i \in ID |-> IF i \in service.saved THEN "final" ELSE "none"]

-----------------------------------------------------------------------------
(* The operator.                                                           *)

(* submitDraft: the prompt is chat, a /run command, or a plan, for which the      *)
(* classification decides whether a question comes first.  A /run or a terminal   *)
(* plan the policy blocks only shows an error.                                    *)
submitDraft(kind) ==
    /\ OperatorActs /\ UNCHANGED approved
    /\ chat.open /\ ~chat.submitting /\ chat.flow = NoFlow
    /\ \/ /\ kind \in {"chat", "run"}
          /\ RunBackendPrompt(chat, kind, 0)
          /\ UNCHANGED cards
       \/ /\ kind \in {"question", "plan", "terminal"}
          /\ chat' = [chat EXCEPT !.flow = [id |-> NewID, kind |-> kind]]
          /\ cards' = [cards EXCEPT ![NewID] = "pending"]
          /\ UNCHANGED tasks
    /\ UNCHANGED <<messages, audits>>

(* Variant: the buttons stay after they were pressed. *)
ClickableAgain == chat.open /\ chat.flow.id # 0

(* A card shows its buttons while it is pending. *)
Clickable == chat.open /\ chat.flow.id # 0 /\ cards[chat.flow.id] = "pending"

(* The answer reclassifies the prompt: chat, or a plan to approve. *)
answerQuestionnaire(kind) ==
    /\ OperatorActs /\ UNCHANGED approved
    /\ Clickable /\ chat.flow.kind = "question"
    /\ \/ /\ kind = "chat"
          /\ cards' = [cards EXCEPT ![chat.flow.id] = "answered"]
          /\ RunBackendPrompt(clearPendingInteractionFlow(chat), "chat", 0)
       \/ /\ kind \in {"plan", "terminal"}
          /\ chat' = [chat EXCEPT !.flow.kind = kind]
          /\ UNCHANGED <<cards, tasks>>
    /\ UNCHANGED <<messages, audits>>

approvePendingPlan ==
    /\ OperatorActs /\ approved' = approved \cup {chat.flow.id}
    /\ Clickable /\ chat.flow.kind # "question"
    /\ cards' = [cards EXCEPT ![chat.flow.id] = "approved"]
    /\ audits' = [audits EXCEPT ![chat.flow.id] = "running"]
    /\ CASE chat.flow.kind = "run" -> BeginApproval(chat, chat.flow.id, "confirming")
         [] chat.flow.kind = "terminal" -> BeginApproval(chat, chat.flow.id, "resolving")
         [] chat.flow.kind = "plan" ->
              RunBackendPrompt(clearPendingInteractionFlow(chat), "chat", chat.flow.id)
    /\ UNCHANGED messages

cancelPendingPlan ==
    /\ OperatorActs /\ UNCHANGED approved
    /\ Clickable /\ chat.flow.kind # "question"
    /\ cards' = [cards EXCEPT ![chat.flow.id] = "cancelled"]
    /\ chat' = clearPendingInteractionFlow(chat)
    /\ UNCHANGED <<messages, audits, tasks>>

(* close() and cancel() of the stream the panel holds: its fetch is aborted. *)
WithStreamClosed(ts) ==
    {IF t.kind # "approval" /\ t.id = chat.stream THEN [t EXCEPT !.conn = "closed"] ELSE t : t \in ts}

(* Aborting the controller of the active submission also ends its terminal wait. *)
WithActiveAborted(ts) ==
    {IF isActiveSubmission(t)
     THEN [t EXCEPT !.aborted = TRUE, !.conn = IF @ = "open" THEN "closed" ELSE @] ELSE t : t \in ts}

(* cancelActiveSubmissionForPanel drops the abort controller and cancels the      *)
(* stream, if the submission already has one; what was streamed becomes an error  *)
(* message, or an error message is added.                                         *)
cancelActiveSubmission ==
    /\ OperatorActs /\ UNCHANGED approved
    /\ chat.open /\ chat.submitting /\ chat.cancellable
    /\ chat' = [chat EXCEPT !.nonce = @ + 1, !.stream = 0, !.audit = 0, !.submitting = FALSE,
                              !.cancellable = FALSE, !.blocked = FALSE]
    /\ tasks' = WithStreamClosed(tasks)
    /\ audits' = failAudit(audits, chat.audit)
    /\ messages' = [i \in ID |-> IF \E t \in tasks : isActiveSubmission(t) /\ t.id = i
                                                     /\ messages[i] = "none"
                                 THEN "error" ELSE finalizeStreaming(messages)[i]]
    /\ UNCHANGED cards

(* The cleanup of the bootstrap effect; isSubmitting is left as it is. *)
CloseSidebar ==
    /\ OperatorActs /\ UNCHANGED approved
    /\ chat.open
    /\ chat' = [chat EXCEPT !.open = FALSE, !.nonce = @ + 1, !.stream = 0, !.audit = 0,
                              !.flow = NoFlow, !.blocked = FALSE, !.cancellable = FALSE]
    /\ tasks' = WithActiveAborted(WithStreamClosed(tasks))
    /\ UNCHANGED <<messages, cards, audits>>

(* The bootstrap effect: everything starts again, but tasks go on. *)
OpenSidebar ==
    /\ OperatorActs /\ UNCHANGED approved
    /\ ~chat.open
    /\ chat' = ResetPanel(chat.opening + 1, chat.nonce + 1)
    /\ messages' = Blank /\ cards' = Blank /\ audits' = Blank
    /\ tasks' = WithStreamClosed(tasks)

-----------------------------------------------------------------------------
(* The continuations of runBackendPromptForPanel.                          *)

TaskBecomes(t, u) == tasks' = (tasks \ {t}) \cup {u}
Step(t, from, to) == t.step = from /\ TaskBecomes(t, [t EXCEPT !.step = to])

NoteLate(t) == late' = late \cup {o \in {chat.opening} : t.opening < o}

(* The finally block: only the active submission gives the panel back. *)
Released(p) ==
    [p EXCEPT !.stream = 0, !.audit = 0, !.blocked = FALSE, !.submitting = FALSE, !.cancellable = FALSE]

(* Variant: any submission gives the panel back. *)
FinishAnyway(t, p) == chat' = Released(p) /\ tasks' = tasks \ {t}

Finish(t, p) ==
    /\ chat' = IF isActiveSubmission(t) THEN Released(p) ELSE p
    /\ tasks' = tasks \ {t}

resolveRuntimeContext(t) ==
    /\ t.kind # "approval"
    /\ Step(t, "resolving", IF t.kind = "run" THEN "sending" ELSE "connecting")
    /\ UNCHANGED <<chat, messages, cards, audits, service, late>>

(* Variant: the submission is not looked at again. *)
ConnectAnyway(t) ==
    /\ t.step = "connecting"
    /\ chat' = [chat EXCEPT !.stream = t.id]
    /\ TaskBecomes(t, [t EXCEPT !.step = "streaming", !.conn = "open"])
    /\ UNCHANGED <<messages, cards, audits, service, late>>

(* The connection is there: a submission that is no longer active closes it. *)
Connect(t) ==
    /\ t.step = "connecting"
    /\ IF isActiveSubmission(t)
       THEN /\ chat' = [chat EXCEPT !.stream = t.id]
            /\ TaskBecomes(t, [t EXCEPT !.step = "streaming", !.conn = "open"])
       ELSE Finish(t, chat)
    /\ UNCHANGED <<messages, cards, audits, service, late>>

(* onEvent: an event of a submission that is not active is ignored. *)
Shown(t, state) == IF isActiveSubmission(t) THEN [messages EXCEPT ![t.id] = state] ELSE messages

StreamText(t) ==
    /\ t.step = "streaming" /\ t.conn = "open"
    /\ messages[t.id] # "streaming"
    /\ messages' = Shown(t, "streaming")
    /\ UNCHANGED <<chat, cards, audits, tasks, service, late>>

(* message-complete: the backend has saved the turn, and the stream ends. *)
StreamComplete(t) ==
    /\ t.step = "streaming" /\ t.conn = "open"
    /\ service' = [service EXCEPT !.saved = @ \cup {t.id}]
    /\ messages' = Shown(t, "final")
    /\ audits' = IF isActiveSubmission(t) THEN completeAudit(audits, t.audit) ELSE audits
    /\ TaskBecomes(t, [t EXCEPT !.step = "ended", !.conn = "done"])
    /\ UNCHANGED <<chat, cards, late>>

StreamError(t) ==
    /\ t.step = "streaming" /\ t.conn = "open"
    /\ messages' = Shown(t, "error")
    /\ audits' = IF isActiveSubmission(t) THEN failAudit(audits, t.audit) ELSE audits
    /\ TaskBecomes(t, [t EXCEPT !.step = "ended", !.conn = "done", !.errored = TRUE])
    /\ UNCHANGED <<chat, cards, service, late>>

(* An aborted fetch resolves done without an event. *)
StreamAborted(t) ==
    /\ t.conn = "closed"
    /\ Step(t, "streaming", "ended")
    /\ UNCHANGED <<chat, messages, cards, audits, service, late>>

AfterStream(t) ==
    /\ t.step = "ended"
    /\ IF isActiveSubmission(t) /\ ~t.errored
       THEN TaskBecomes(t, [t EXCEPT !.step = "fetching"]) /\ UNCHANGED chat
       ELSE Finish(t, chat)
    /\ UNCHANGED <<messages, cards, audits, service, late>>

(* runTerminalPromptForPanel: the command ran, or it needs a confirmation and     *)
(* becomes the pending flow, whatever happened to the submission meanwhile.       *)
SendInput(t) ==
    /\ t.kind = "run" /\ t.step = "sending"
    /\ \/ TaskBecomes(t, [t EXCEPT !.step = "watching"]) /\ UNCHANGED <<chat, cards, late>>
       \/ /\ Finish(t, [chat EXCEPT !.flow = [id |-> t.id, kind |-> "run"]])
          /\ cards' = [cards EXCEPT ![t.id] = "pending"]
          /\ NoteLate(t)
    /\ UNCHANGED <<messages, audits, service>>

(* waitForTerminalOutput: stable output or its deadline; an abort rejects. *)
waitForTerminalOutput(t) ==
    /\ t.step = "watching"
    /\ IF t.aborted THEN Finish(t, chat)
       ELSE TaskBecomes(t, [t EXCEPT !.step = "explaining"]) /\ UNCHANGED chat
    /\ UNCHANGED <<messages, cards, audits, service, late>>

(* explainTerminalCommand: the backend saves the turn and answers with the whole  *)
(* conversation; the explanation waits to be applied.                             *)
Explain(t) ==
    /\ Step(t, "explaining", "explained")
    /\ service' = [service EXCEPT !.saved = @ \cup {t.id}]
    /\ UNCHANGED <<chat, messages, cards, audits, late>>

(* The snapshot of the conversation is applied without asking whether the         *)
(* submission is still active.                                                    *)
ApplySnapshot(t) ==
    /\ t.kind # "approval" /\ t.step \in {"fetching", "explained"}
    /\ messages' = SnapshotMessages
    /\ Finish(t, chat)
    /\ UNCHANGED <<cards, audits, service, late>>

(* The catch block. *)
PromptFails(t) ==
    /\ t.kind # "approval" /\ t.step \notin {"ended"}
    /\ messages' = IF isActiveSubmission(t) THEN finalizeStreaming(messages) ELSE messages
    /\ audits' = IF isActiveSubmission(t) THEN failAudit(audits, t.audit) ELSE audits
    /\ Finish(t, chat)
    /\ UNCHANGED <<cards, service, late>>

-----------------------------------------------------------------------------
(* The continuations of approvePendingPlanForPanel.                        *)

(* Its finally block gives the panel back unconditionally. *)
EndApproval(t) ==
    /\ chat' = [clearPendingInteractionFlow(chat) EXCEPT
                   !.blocked = FALSE, !.submitting = FALSE, !.cancellable = FALSE]
    /\ tasks' = tasks \ {t}
    /\ NoteLate(t)

PlanExecution(t) ==
    /\ t.kind = "approval"
    /\ Step(t, "resolving", "planning") \/ Step(t, "planning", "executing")
    /\ UNCHANGED <<chat, messages, cards, audits, service, late>>

(* safety.confirm answers with the token the next execution carries. *)
ConfirmApproval(t) ==
    /\ t.step = "confirming"
    /\ TaskBecomes(t, [t EXCEPT !.step = "executing", !.token = TRUE])
    /\ UNCHANGED <<chat, messages, cards, audits, service, late>>

(* term.send_input: without a token the backend may ask for a confirmation. *)
ExecuteApproved(t) ==
    /\ t.kind = "approval" /\ t.step = "executing"
    /\ \/ /\ service' = [service EXCEPT !.ran[t.id] = @ + 1]
          /\ TaskBecomes(t, [t EXCEPT !.step = "watching"])
       \/ /\ ~t.token
          /\ TaskBecomes(t, [t EXCEPT !.step = "confirming"])
          /\ UNCHANGED service
    /\ UNCHANGED <<chat, messages, cards, audits, late>>

ApprovalDone(t) ==
    /\ t.kind = "approval" /\ t.step = "explained"
    /\ messages' = SnapshotMessages
    /\ audits' = completeAudit(audits, t.id)
    /\ EndApproval(t)
    /\ UNCHANGED <<cards, service>>

ApprovalFails(t) ==
    /\ t.kind = "approval"
    /\ audits' = failAudit(audits, t.id)
    /\ EndApproval(t)
    /\ UNCHANGED <<messages, cards, service>>

-----------------------------------------------------------------------------
Continue(t) ==
    \/ resolveRuntimeContext(t) \/ Connect(t) \/ StreamText(t) \/ StreamComplete(t) \/ StreamError(t)
    \/ StreamAborted(t) \/ AfterStream(t) \/ SendInput(t) \/ waitForTerminalOutput(t) \/ Explain(t)
    \/ ApplySnapshot(t) \/ PlanExecution(t) \/ ConfirmApproval(t) \/ ExecuteApproved(t) \/ ApprovalDone(t)

Proceed == \E t \in tasks : Continue(t) /\ UNCHANGED <<acts, failures, approved>>

Fail ==
    /\ failures < MaxFailures /\ failures' = failures + 1
    /\ \E t \in tasks : PromptFails(t) \/ ApprovalFails(t)
    /\ UNCHANGED <<acts, approved>>

ChatNext ==
    \/ \E k \in {"chat", "run", "question", "plan", "terminal"} : submitDraft(k)
    \/ \E k \in {"chat", "plan", "terminal"} : answerQuestionnaire(k)
    \/ approvePendingPlan \/ cancelPendingPlan \/ cancelActiveSubmission
    \/ CloseSidebar \/ OpenSidebar
    \/ Proceed \/ Fail

(* Every request is answered, every stream ends and every wait has a deadline. *)
ChatSpec == ChatInit /\ [][ChatNext]_chatVars /\ WF_chatVars(Proceed)

-----------------------------------------------------------------------------
(* Every variable has its type, and there is a pending flow exactly when it has a   *)
(* kind (PendingInteractionFlow in interaction-flow.ts).                            *)
ChatTypeOK ==
    /\ chat.open \in BOOLEAN /\ chat.submitting \in BOOLEAN /\ chat.blocked \in BOOLEAN
    /\ chat.stream \in 0..MaxSubmits /\ chat.audit \in 0..MaxSubmits
    /\ chat.flow.id \in 0..MaxSubmits /\ chat.flow.kind \in FlowKind
    /\ chat.flow.id = 0 <=> chat.flow.kind = "none"
    /\ \A i \in ID : /\ messages[i] \in {"none", "streaming", "final", "error"}
                     /\ cards[i] \in {"none", "pending", "answered", "approved", "cancelled"}
                     /\ audits[i] \in {"none", "running", "done", "error"}
    /\ \A t \in tasks : t.id \in ID /\ t.conn \in {"none", "open", "closed", "done"}

(* A task that an earlier opening of the sidebar left has written this opening's    *)
(* state: the finally block of an approval has no guard.                            *)
Disturbed == chat.opening \in late

(* The open panel is blocked exactly while it is submitting, and it is submitting   *)
(* while the active submission runs: a superseded submission's finally block never  *)
(* gives the panel back early.                                                      *)
BusyIsExact ==
    /\ chat.open => (chat.blocked <=> chat.submitting)
    /\ chat.open /\ (\E t \in tasks : isActiveSubmission(t)) => chat.submitting \/ Disturbed

(* The terminal command of a flow runs only after the operator approved the flow,   *)
(* and once: neither a confirmation round trip, a failure, a second click on the    *)
(* card nor reopening the sidebar repeats it.                                       *)
RunsOnlyApproved ==
    \A i \in ID : service.ran[i] <= IF i \in approved THEN 1 ELSE 0

(* A stream that is still open belongs to the active submission: cancelling,        *)
(* closing the sidebar and connecting too late all close it.  (Where an opening was *)
(* disturbed, a second submission takes over the stream the panel holds.)           *)
NoLeakedStream ==
    \A t \in tasks : t.conn = "open" => isActiveSubmission(t) \/ t.opening \in late

(* Once nothing runs, no audit card of the open panel is left running: every way a  *)
(* submission or an approval can end settles its audit entries.                     *)
AuditsSettle == chat.open /\ tasks = {} => Disturbed \/ \A i \in ID : audits[i] # "running"

(* A card that shows its buttons is the pending flow, so pressing them does         *)
(* something (answerQuestionnaire and approvePendingPlan ignore any other card).    *)
PendingCardIsFlow ==
    \A i \in ID : cards[i] = "pending" /\ chat.open => chat.flow.id = i \/ Disturbed

(* Together: what the operator reads on the cards of a conversation is what         *)
(* happened and what can be done.                                                   *)
CardsAreHonest == RunsOnlyApproved /\ PendingCardIsFlow /\ AuditsSettle

(* The open panel does not stay busy: every submission and every approval ends and  *)
(* gives the composer back to the operator.                                         *)
SubmissionEnds == []<>~(chat.open /\ chat.submitting)
=============================================================================
