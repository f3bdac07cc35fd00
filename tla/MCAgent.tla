------------------------------- MODULE MCAgent -------------------------------
(* The agent panel's two models on one run: its conversations and, beside     *)
(* them, the submission of one conversation.                                  *)
EXTENDS AgentConversations, AgentSubmission

VARIABLE part  \* the model this behaviour is of

(* A fourth operation is for behaviours without a failure, where it meets a   *)
(* function that is still in flight from an older epoch of the panel.         *)
FourthMeetsOld ==
    /\ ops' <= 3 \/ fails' = 0
    /\ ops = 3 /\ ops' = 4 => \E c \in calls : c.op # "list" /\ c.epoch < panel.epoch

MCInit == part \in {"conversations", "submission"} /\ Init /\ ChatInit

MCNext ==
    \/ part = "conversations" /\ Next /\ FourthMeetsOld /\ UNCHANGED <<part, chatVars>>
    \/ part = "submission" /\ ChatNext /\ UNCHANGED <<part, vars>>

Continues ==
    \/ part = "conversations" /\ (Backend \/ Receive) /\ FourthMeetsOld /\ UNCHANGED <<part, chatVars>>
    \/ part = "submission" /\ Proceed /\ UNCHANGED <<part, vars>>

(* Requests are answered or fail, and what waits for them goes on.            *)
MCSpec == MCInit /\ [][MCNext]_<<part, vars, chatVars>> /\ WF_<<part, vars, chatVars>>(Continues)

(* The panel goes on, whatever fails, is superseded or comes late: the pending *)
(* flag of a conversation's change is lowered (the finally block of            *)
(* mutateConversationCollectionForPanel), and the open panel does not stay     *)
(* busy, as every submission and approval ends.                                *)
AgentGoesOn == PendingClears /\ SubmissionEnds
=============================================================================
