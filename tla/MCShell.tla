------------------------------ MODULE MCShell ------------------------------
(***************************************************************************)
(* Three parts of the shell that keep state of their own and only meet     *)
(* through the panels they open, checked side by side in one run: part     *)
(* says which of them a behaviour is about, and the others stay where they *)
(* start.                                                                  *)
(***************************************************************************)
EXTENDS Workspace, FilePanels, AiSidebar

VARIABLE part

MCInit ==
    /\ part \in {"workspace", "panel", "sidebar"}
    /\ WorkspaceInit
    /\ PanelInit /\ (part # "panel" => panel = "files")
    /\ AiInit

MCNext ==
    /\ UNCHANGED part
    /\ \/ part = "workspace" /\ WorkspaceNext /\ UNCHANGED <<panelVars, aiVars>>
       \/ part = "panel" /\ PanelNext /\ UNCHANGED <<workspaceVars, aiVars>>
       \/ part = "sidebar" /\ AiNext /\ UNCHANGED <<workspaceVars, panelVars>>

MCSpec == MCInit /\ [][MCNext]_<<part, workspaceVars, panelVars, aiVars>>
=============================================================================
