----------------------------- MODULE AiSidebar -----------------------------
(***************************************************************************)
(* The AI sidebar around the agent panel: opening and closing it, a prompt *)
(* handed over by a terminal with or without an immediate submit, and the  *)
(* queue of file attachments that goes out with the next prompt.           *)
(*                                                                         *)
(* React runs the sidebar's effects before the next event, so every step   *)
(* ends with them (Effects).  A text is who wrote it: text is "handoff" or *)
(* what the operator typed, from the id of the hand-off it came from.      *)
(***************************************************************************)
EXTENDS Integers, Sequences, FiniteSets

CONSTANTS File,          \* files that may be attached
          MaxHandoffs, MaxSends, MaxActions

VARIABLES ai,       \* the sidebar, see Fresh
          actions,
          sent      \* history: the prompts submitted

aiVars == <<ai, actions, sent>>

NoHandoff == [id |-> 0, submit |-> FALSE]
Blank == [text |-> "", from |-> 0]
Fresh == [isOpen |-> FALSE, expanded |-> FALSE, mode |-> "chat", queued |-> NoHandoff, ids |-> 0,
          pendingAutoSubmit |-> 0, draft |-> Blank, busy |-> "no", blocked |-> FALSE,
          attachments |-> <<>>, touched |-> FALSE]

AiInit == ai = Fresh /\ actions = 0 /\ sent = <<>>

Listed(s) == {s[i] : i \in DOMAIN s}
Drop(s, f) == SelectSeq(s, LAMBDA g : g # f)
queueAiAttachmentReference(s, f) == Append(Drop(s, f), f)

(* Variant: a hand-off without auto-submit leaves an armed one armed.     *)
ConsumeKeepsArmed(a) ==
    IF ~a.isOpen \/ a.queued.id = 0 THEN a
    ELSE [a EXCEPT !.draft = [text |-> "handoff", from |-> a.queued.id],
                   !.pendingAutoSubmit = IF a.queued.submit THEN a.queued.id ELSE @,
                   !.queued = NoHandoff, !.touched = FALSE]

(***************************************************************************)
(* What the effects do: a queued hand-off is consumed, and an armed        *)
(* auto-submit fires as soon as the panel is free and the draft not blank. *)
(***************************************************************************)
consumeAiPromptHandoff(a) ==
    IF ~a.isOpen \/ a.queued.id = 0 THEN a
    ELSE [a EXCEPT !.draft = [text |-> "handoff", from |-> a.queued.id],
                   !.pendingAutoSubmit = IF a.queued.submit THEN a.queued.id ELSE 0,
                   !.queued = NoHandoff, !.touched = FALSE]

CanSubmit(a) == a.isOpen /\ a.busy = "no" /\ a.draft.text # ""

\* submitDraft of the agent panel as the sidebar sees it: the draft and, unless
\* it is a /run command, the attachments are taken; a prompt the terminal policy
\* blocks goes no further; the others make the panel busy.
Submitted(a, busy) ==
    [a EXCEPT !.draft = Blank, !.busy = busy,
              !.attachments = IF a.draft.text = "run" THEN @ ELSE <<>>]
Outcomes(a) ==
    IF a.draft.text = "run" THEN {IF a.blocked THEN "no" ELSE "submitting"}
    ELSE {"submitting", "interaction"} \cup (IF a.blocked THEN {"no"} ELSE {})
Prompt(a, auto) ==
    [text |-> a.draft.text, from |-> a.draft.from, armed |-> auto, touched |-> a.touched,
     attachments |-> IF a.draft.text = "run" THEN {} ELSE Listed(a.attachments)]

Effects(next) ==
    LET a == consumeAiPromptHandoff(next)
    IN IF a.pendingAutoSubmit # 0 /\ CanSubmit(a)
       THEN /\ Len(sent) < MaxSends
            /\ \E busy \in Outcomes(a) :
                  ai' = [Submitted(a, busy) EXCEPT !.pendingAutoSubmit = 0]
            /\ sent' = Append(sent, Prompt(a, a.pendingAutoSubmit))
       ELSE ai' = a /\ UNCHANGED sent

Action == actions < MaxActions /\ actions' = actions + 1
-----------------------------------------------------------------------------
(***************************************************************************)
(* Opening.  The panel's own effect resets its draft and its busy flags,   *)
(* but the sidebar's effects of the same render still see what the panel   *)
(* held when it was closed: an armed submit that finds it free sends that  *)
(* draft, and a hand-off consumed in this render is overwritten.           *)
(***************************************************************************)
resetAgentPanelBootstrapState(a) == [a EXCEPT !.draft = Blank, !.busy = "no"]

Open(closed) ==
    LET a == [closed EXCEPT !.isOpen = TRUE]
    IN IF a.pendingAutoSubmit # 0 /\ CanSubmit(a)
       THEN /\ Len(sent) < MaxSends
            /\ \E busy \in Outcomes(a) :
                  ai' = [Submitted(a, busy) EXCEPT !.pendingAutoSubmit = 0, !.queued = NoHandoff]
            /\ sent' = Append(sent, Prompt(a, a.pendingAutoSubmit))
       ELSE Effects(resetAgentPanelBootstrapState(a))

openAiSidebar == Action /\ ~ai.isOpen /\ Open(ai)

\* Closing drops a pending interaction and keeps the draft.
closeAiSidebar ==
    /\ Action /\ ai.isOpen
    /\ Effects([ai EXCEPT !.isOpen = FALSE, !.expanded = FALSE,
                          !.busy = IF @ = "interaction" THEN "no" ELSE @])
handleToggleAiPanel == Action /\ ai.isOpen /\ Effects([ai EXCEPT !.expanded = ~@])
setChatMode == Action /\ ai.expanded /\ Effects([ai EXCEPT !.mode = IF @ = "chat" THEN "dev" ELSE "chat"])

\* A terminal hands over a prompt: the newest replaces one not yet consumed.
queueAiPromptHandoff(submit) ==
    /\ Action
    /\ ai.ids < MaxHandoffs
    /\ LET a == [ai EXCEPT !.ids = @ + 1, !.queued = [id |-> ai.ids + 1, submit |-> submit]]
       IN IF a.isOpen THEN Effects(a) ELSE Open(a)

setDraft(text) ==
    /\ Action
    /\ ai.isOpen /\ ai.expanded
    /\ Effects([ai EXCEPT !.draft = [text |-> text, from |-> 0], !.touched = TRUE])

submitDraft ==
    /\ Action
    /\ ai.expanded /\ CanSubmit(ai)
    /\ Len(sent) < MaxSends
    /\ \E busy \in Outcomes(ai) : ai' = Submitted(ai, busy)
    /\ sent' = Append(sent, Prompt(ai, 0))

\* A file is attached from a files panel, which opens the sidebar, or from the
\* library of recent attachments; a chip is removed.
attachFile(f) ==
    /\ Action
    /\ LET a == [ai EXCEPT !.attachments = queueAiAttachmentReference(@, f)]
       IN IF a.isOpen THEN Effects(a) ELSE Open(a)
removeQueuedAiAttachmentReference(f) ==
    /\ Action
    /\ ai.expanded
    /\ f \in Listed(ai.attachments)
    /\ Effects([ai EXCEPT !.attachments = Drop(@, f)])

\* What the panel is busy with ends.  While the sidebar is closed only an
\* approved command and a conversation request still clear their flag; the
\* end of an aborted stream is not looked at any more.
AgentEnds ==
    /\ UNCHANGED actions
    /\ ai.busy # "no"
    /\ ai.isOpen \/ ai.busy \in {"approved", "conversation"}
    /\ Effects([ai EXCEPT !.busy = "no"])

\* The operator approves the plan: a terminal command, or a prompt as any other.
Approve ==
    /\ UNCHANGED actions
    /\ ai.isOpen /\ ai.busy = "interaction"
    /\ \E busy \in {"approved", "submitting"} : Effects([ai EXCEPT !.busy = busy])

\* A conversation switch begins; the terminal policy of the runtime changes.
SwitchBegins == Action /\ ai.expanded /\ ai.busy = "no" /\ Effects([ai EXCEPT !.busy = "conversation"])
PolicyChanges == Action /\ ~ai.blocked /\ Effects([ai EXCEPT !.blocked = TRUE])

AiNext ==
    \/ openAiSidebar \/ closeAiSidebar \/ handleToggleAiPanel \/ setChatMode
    \/ \E submit \in BOOLEAN : queueAiPromptHandoff(submit)
    \/ \E text \in {"", "chat", "run"} : setDraft(text)
    \/ submitDraft
    \/ \E f \in File : attachFile(f) \/ removeQueuedAiAttachmentReference(f)
    \/ AgentEnds \/ Approve \/ SwitchBegins \/ PolicyChanges

AiSpec == AiInit /\ [][AiNext]_aiVars
-----------------------------------------------------------------------------
\* What the immediate submit of a hand-off sends is that hand-off's prompt, as
\* long as the operator did not type into the draft after it arrived; and no
\* hand-off is submitted twice.  It is about the two effects of the sidebar,
\* which arm the submit and fire it when the panel is free, possibly much later
\* and after another hand-off or a close and a reopening.
AutoSubmitSendsHandoff ==
    /\ \A i \in DOMAIN sent : sent[i].armed # 0 => sent[i].from = sent[i].armed \/ sent[i].touched
    /\ \A i, j \in DOMAIN sent : sent[i].armed # 0 /\ sent[i].armed = sent[j].armed => i = j
=============================================================================
