----------------------------- MODULE Workspace -----------------------------
(***************************************************************************)
(* The workspace shell: the workspace tabs of the top bar, the live        *)
(* Dockview layout of the active one, the snapshots the others are kept    *)
(* as, the debounced save to the browser's storage, and the panels that    *)
(* are opened and closed around requests to the backend.                   *)
(*                                                                         *)
(* A layout is its set of panels and which of them is active; geometry is  *)
(* left out.  Dockview itself is external: addPanel refuses an id that is  *)
(* in use and a reference panel that is gone, and fromJSON and clear       *)
(* replace every panel object (epoch counts the replacements).             *)
(***************************************************************************)
EXTENDS Integers, Sequences, FiniteSets, SequencesExt, FiniteSetsExt

CONSTANTS Title,       \* names an operator may type; "" is the blank one
          MaxTabs,     \* workspaces open at once
          MaxWidgets,  \* backend widgets ever created
          MaxTasks,    \* requests in flight at once
          MaxOps,      \* operator steps
          MaxFails,    \* requests that fail or whose answer is lost
          MaxRestarts

VARIABLES workspaceTabs, activeWorkspaceId, live, epoch, catalog, ready, timer, disk, menu,
          tasks, widgets, created, ops, fails, restarts,
          laid,    \* history: the layout each workspace was last given
          issued,  \* history: the workspace ids ever shown in the top bar
          lost     \* history: widgets that went out of sight by a known way

shellVars == <<workspaceTabs, activeWorkspaceId, live, epoch, catalog, ready, timer, disk, menu>>
ghosts == <<laid, issued, lost>>
counters == <<ops, fails, restarts>>
workspaceVars == <<shellVars, tasks, widgets, created, counters, ghosts>>

DEFAULT_ACTIVE_WORKSPACE_ID == 2

(***************************************************************************)
(* Panels and layouts.  tab says that the panel knows its runtime tab.     *)
(***************************************************************************)
NoPanel == <<"none", 0>>
Main == 1
Side == 2

createTerminalPanelParams(id, widget, tab) ==
    [id |-> id, kind |-> "terminal", widget |-> widget, tab |-> tab]
createFilesPanelParams(w) == [id |-> <<"widget", w>>, kind |-> "files", widget |-> w, tab |-> FALSE]
createPreviewPanelParams(w) == [id |-> <<"widget", w>>, kind |-> "preview", widget |-> w, tab |-> FALSE]

EmptyLayout == [panels |-> {}, active |-> NoPanel]
PanelIds(layout) == {p.id : p \in layout.panels}
Panel(layout, id) == CHOOSE p \in layout.panels : p.id = id
WidgetsOf(layout) == {p.widget : p \in layout.panels}

CanAdd(layout, id, ref) == id \notin PanelIds(layout) /\ ref \in PanelIds(layout) \cup {NoPanel}
addPanel(layout, p) == [panels |-> layout.panels \cup {p}, active |-> p.id]
SuccessorActive(layout, id) ==
    IF layout.active # id THEN {layout.active}
    ELSE IF PanelIds(layout) = {id} THEN {NoPanel} ELSE PanelIds(layout) \ {id}
removePanel(layout, id, next) ==
    [panels |-> {p \in layout.panels : p.id # id}, active |-> next]

(* Variant: the next id is the number of terminal panels.                  *)
createNextTerminalPanelIdByCount(layout) ==
    <<"terminal", Cardinality({p \in layout.panels : p.id[1] = "terminal"})>>

createNextTerminalPanelId(layout) ==
    <<"terminal", Min({n \in 1 .. Cardinality(layout.panels) + 1 :
                          <<"terminal", n>> \notin PanelIds(layout)})>>

seedDockviewWorkspaceBootstrap(canSeed) ==
    LET terminals == {createTerminalPanelParams(<<"terminal-header", 1>>, Main, FALSE),
                      createTerminalPanelParams(<<"terminal", 1>>, Side, FALSE)}
        tool == [id |-> <<"tool", 1>>, kind |-> "commander", widget |-> 0, tab |-> FALSE]
    IN IF canSeed THEN [panels |-> terminals \cup {tool}, active |-> tool.id] ELSE EmptyLayout

(***************************************************************************)
(* Snapshots.  saved is FALSE for a workspace whose snapshot is null.      *)
(***************************************************************************)
Null == [saved |-> FALSE, layout |-> EmptyLayout]
Snapshot(layout) == [saved |-> TRUE, layout |-> layout]

captureDockviewWorkspaceSnapshot(layout) ==
    IF layout.panels = {} THEN Null ELSE Snapshot(layout)
readDockviewWorkspaceSnapshot(tabs, id) ==
    LET found == SelectSeq(tabs, LAMBDA t : t.id = id)
    IN IF found = <<>> THEN Null ELSE found[1].snapshot
writeDockviewWorkspaceSnapshot(tabs, id, snapshot) ==
    [i \in DOMAIN tabs |-> IF tabs[i].id = id THEN [tabs[i] EXCEPT !.snapshot = snapshot] ELSE tabs[i]]
createDockviewWorkspaceTab(tabs) ==
    LET id == 1 + Max({0} \cup {tabs[i].id : i \in DOMAIN tabs})
    IN [id |-> id, title |-> "Workspace", snapshot |-> Null]

createDefaultWorkspaceTabs ==
    [i \in 1 .. 2 |-> [id |-> i, title |-> "Workspace", snapshot |-> Null]]
TabIds(tabs) == {tabs[i].id : i \in DOMAIN tabs}

normalizePersistedDockviewWorkspaceState(stored) ==
    IF stored.present /\ stored.tabs # <<>> /\ stored.active \in TabIds(stored.tabs)
    THEN stored
    ELSE [present |-> FALSE, tabs |-> createDefaultWorkspaceTabs, active |-> DEFAULT_ACTIVE_WORKSPACE_ID]

persistCurrentWorkspaceSnapshot(tabs) ==
    IF ~ready THEN tabs
    ELSE writeDockviewWorkspaceSnapshot(tabs, activeWorkspaceId, captureDockviewWorkspaceSnapshot(live))
-----------------------------------------------------------------------------
(***************************************************************************)
(* Starting the shell: the stored state is read once and written back by   *)
(* the first effect, before Dockview exists: only the first start of all   *)
(* (restarts = 0) finds no stored state.                                   *)
(***************************************************************************)
Closed == [open |-> 0, renaming |-> FALSE, draft |-> ""]
NoStore == [present |-> FALSE, tabs |-> <<>>, active |-> 0]

useDockviewWorkspaceEffects(tabs, id) == disk' = [present |-> TRUE, tabs |-> tabs, active |-> id]

WorkspaceInit ==
    LET state == normalizePersistedDockviewWorkspaceState(NoStore)
    IN /\ workspaceTabs = state.tabs
       /\ activeWorkspaceId = state.active
       /\ disk = [present |-> TRUE, tabs |-> state.tabs, active |-> state.active]
       /\ live = EmptyLayout
       /\ epoch = 0
       /\ catalog = "loading"
       /\ ready = FALSE
       /\ timer = FALSE
       /\ menu = Closed
       /\ tasks = <<>>
       /\ widgets = {Main, Side}
       /\ created = 0
       /\ ops = 0
       /\ fails = 0
       /\ restarts = 0
       /\ laid = [id \in {1, 2} |-> EmptyLayout]
       /\ issued = {1, 2}
       /\ lost = {}

(***************************************************************************)
(* What every change of the live layout carries with it.                   *)
(***************************************************************************)
Relay(layout) == [id \in DOMAIN laid \cup {activeWorkspaceId} |->
                     IF id = activeWorkspaceId THEN layout ELSE laid[id]]
Raced == [i \in DOMAIN tasks |-> [tasks[i] EXCEPT !.raced = TRUE]]

LayoutBecomes(layout) ==
    /\ live' = layout
    /\ timer' = TRUE
    /\ laid' = Relay(layout)
    /\ UNCHANGED <<workspaceTabs, activeWorkspaceId, disk, epoch, catalog, ready, issued>>

Restore(tabs, id) ==
    IF ready
    THEN /\ live' = readDockviewWorkspaceSnapshot(tabs, id).layout
         /\ epoch' = epoch + 1
         /\ timer' = TRUE
    ELSE UNCHANGED <<live, epoch, timer>>

Operator == ops < MaxOps /\ ops' = ops + 1 /\ UNCHANGED <<fails, restarts>>
PointerOrKey == menu' \in {menu, Closed}
-----------------------------------------------------------------------------
(***************************************************************************)
(* The workspace tabs.                                                     *)
(***************************************************************************)
\* The catalog of widget kinds arrives whole, or not at all: Dockview is
\* mounted either way.
useWorkspaceWidgetCatalog ==
    /\ catalog = "loading"
    /\ catalog' \in {"ready", "error"}
    /\ UNCHANGED <<workspaceTabs, activeWorkspaceId, live, epoch, ready, timer, disk, menu>>
    /\ UNCHANGED <<tasks, widgets, created, counters, ghosts>>

handleDockviewReady ==
    /\ ~ready /\ catalog # "loading"
    /\ ready' = TRUE
    /\ LET snapshot == readDockviewWorkspaceSnapshot(workspaceTabs, activeWorkspaceId)
       IN \/ /\ snapshot.saved \/ restarts > 0
             /\ live' = snapshot.layout
             /\ timer' = snapshot.saved
             /\ UNCHANGED <<workspaceTabs, disk, laid>>
          \/ /\ ~snapshot.saved /\ restarts = 0
             /\ LET seed == seedDockviewWorkspaceBootstrap(catalog = "ready")
                    tabs == writeDockviewWorkspaceSnapshot(workspaceTabs,
                               DEFAULT_ACTIVE_WORKSPACE_ID, Snapshot(seed))
                IN /\ live' = seed
                   /\ timer' = (seed # EmptyLayout)
                   /\ workspaceTabs' = tabs
                   /\ useDockviewWorkspaceEffects(tabs, activeWorkspaceId)
                   /\ laid' = [id \in DOMAIN laid |->
                                 IF id \in {activeWorkspaceId, DEFAULT_ACTIVE_WORKSPACE_ID}
                                 THEN seed ELSE laid[id]]
    /\ UNCHANGED <<activeWorkspaceId, epoch, catalog, menu, tasks, widgets, created, counters, issued, lost>>

(* Variant: the workspace is marked active before its snapshot is taken.   *)
selectDockviewWorkspaceActivatesFirst(id) ==
    /\ Operator /\ PointerOrKey
    /\ id # activeWorkspaceId
    /\ LET tabs == IF ready THEN writeDockviewWorkspaceSnapshot(workspaceTabs, id,
                                  captureDockviewWorkspaceSnapshot(live)) ELSE workspaceTabs
       IN /\ workspaceTabs' = tabs
          /\ activeWorkspaceId' = id
          /\ Restore(tabs, id)
          /\ useDockviewWorkspaceEffects(tabs, id)
    /\ tasks' = Raced
    /\ UNCHANGED <<catalog, ready, widgets, created, ghosts>>

selectDockviewWorkspace(id) ==
    /\ Operator /\ PointerOrKey
    /\ id # activeWorkspaceId
    /\ LET tabs == persistCurrentWorkspaceSnapshot(workspaceTabs)
       IN /\ workspaceTabs' = tabs
          /\ activeWorkspaceId' = id
          /\ Restore(tabs, id)
          /\ useDockviewWorkspaceEffects(tabs, id)
    /\ tasks' = Raced
    /\ UNCHANGED <<catalog, ready, widgets, created, ghosts>>

addDockviewWorkspace ==
    /\ Operator /\ PointerOrKey
    /\ Len(workspaceTabs) < MaxTabs
    /\ LET next == createDockviewWorkspaceTab(workspaceTabs)
           tabs == Append(persistCurrentWorkspaceSnapshot(workspaceTabs), next)
       IN /\ workspaceTabs' = tabs
          /\ activeWorkspaceId' = next.id
          /\ Restore(tabs, next.id)
          /\ useDockviewWorkspaceEffects(tabs, next.id)
          /\ laid' = [id \in DOMAIN laid \cup {next.id} |-> IF id = next.id THEN EmptyLayout ELSE laid[id]]
          /\ issued' = issued \cup {next.id}
    /\ tasks' = Raced
    /\ UNCHANGED <<catalog, ready, widgets, created, lost>>

NeighbourOf(tabs, index) ==
    IF index <= Len(tabs) THEN tabs[index] ELSE tabs[Len(tabs)]

Dropped(id) == WidgetsOf(readDockviewWorkspaceSnapshot(workspaceTabs, id).layout)
                  \cup (IF id = activeWorkspaceId THEN WidgetsOf(live) ELSE {})

deleteDockviewWorkspace(id) ==
    /\ Operator
    /\ menu.open = id /\ ~menu.renaming /\ menu' = Closed
    /\ Len(workspaceTabs) > 1
    /\ LET index == SelectInSeq(workspaceTabs, LAMBDA t : t.id = id)
           next == SelectSeq(workspaceTabs, LAMBDA t : t.id # id)
           fallback == NeighbourOf(next, index).id
       IN /\ workspaceTabs' = next
          /\ lost' = lost \cup Dropped(id)
          /\ laid' = [i \in DOMAIN laid \ {id} |-> laid[i]]
          /\ IF id = activeWorkspaceId
             THEN /\ activeWorkspaceId' = fallback
                  /\ Restore(next, fallback)
                  /\ tasks' = Raced
             ELSE UNCHANGED <<activeWorkspaceId, live, epoch, timer, tasks>>
          /\ useDockviewWorkspaceEffects(next, activeWorkspaceId')
    /\ UNCHANGED <<catalog, ready, widgets, created, issued>>

renameDockviewWorkspace(tabs, id, title) ==
    IF title = "" THEN tabs
    ELSE [i \in DOMAIN tabs |-> IF tabs[i].id = id THEN [tabs[i] EXCEPT !.title = title] ELSE tabs[i]]

(***************************************************************************)
(* The menu of a tab in the top bar.                                       *)
(***************************************************************************)
MenuStep == Operator /\ UNCHANGED <<activeWorkspaceId, live, epoch, catalog, ready, timer, tasks, widgets, created, ghosts>>

TitleOf(id) == SelectSeq(workspaceTabs, LAMBDA t : t.id = id)[1].title

handleToggleWorkspaceMenu(id) ==
    /\ MenuStep
    /\ menu' = IF menu.open = id THEN Closed ELSE [open |-> id, renaming |-> FALSE, draft |-> TitleOf(id)]
    /\ UNCHANGED <<workspaceTabs, disk>>

handleStartRenameWorkspace ==
    /\ MenuStep
    /\ menu.open # 0 /\ ~menu.renaming
    /\ menu' = [menu EXCEPT !.renaming = TRUE, !.draft = TitleOf(menu.open)]
    /\ UNCHANGED <<workspaceTabs, disk>>

setRenameDraft(title) ==
    /\ MenuStep
    /\ menu.renaming
    /\ menu' = [menu EXCEPT !.draft = title]
    /\ UNCHANGED <<workspaceTabs, disk>>

cancelRename ==
    /\ MenuStep
    /\ menu.renaming
    /\ menu' \in {[menu EXCEPT !.renaming = FALSE], Closed}
    /\ UNCHANGED <<workspaceTabs, disk>>

handleSubmitWorkspaceRename ==
    /\ MenuStep
    /\ menu.renaming
    /\ menu' = Closed
    /\ workspaceTabs' = renameDockviewWorkspace(workspaceTabs, menu.open, menu.draft)
    /\ useDockviewWorkspaceEffects(workspaceTabs', activeWorkspaceId)

TabMenu ==
    \/ \E id \in TabIds(workspaceTabs) : handleToggleWorkspaceMenu(id)
    \/ handleStartRenameWorkspace
    \/ \E title \in Title : setRenameDraft(title)
    \/ cancelRename
    \/ handleSubmitWorkspaceRename
    \/ \E id \in TabIds(workspaceTabs) : deleteDockviewWorkspace(id)

Tabs ==
    \/ \E id \in TabIds(workspaceTabs) : selectDockviewWorkspace(id)
    \/ addDockviewWorkspace

(***************************************************************************)
(* The debounced save, and a restart of the whole shell: the requests in   *)
(* flight and a layout not yet saved are gone.                             *)
(***************************************************************************)
persistTimerFires ==
    /\ timer
    /\ timer' = FALSE
    /\ workspaceTabs' = persistCurrentWorkspaceSnapshot(workspaceTabs)
    /\ useDockviewWorkspaceEffects(workspaceTabs', activeWorkspaceId)
    /\ UNCHANGED <<activeWorkspaceId, live, epoch, catalog, ready, menu, tasks, widgets, created, counters, ghosts>>

InFlight == {tasks[i].widget : i \in DOMAIN tasks} \ {0}

Restart ==
    LET state == normalizePersistedDockviewWorkspaceState(disk)
    IN /\ restarts < MaxRestarts
       /\ restarts' = restarts + 1
       /\ workspaceTabs' = state.tabs
       /\ activeWorkspaceId' = state.active
       /\ live' = EmptyLayout
       /\ epoch' = 0
       /\ catalog' = "loading"
       /\ ready' = FALSE
       /\ timer' = FALSE
       /\ menu' = Closed
       /\ useDockviewWorkspaceEffects(state.tabs, state.active)
       /\ tasks' = <<>>
       /\ laid' = [id \in TabIds(state.tabs) |-> readDockviewWorkspaceSnapshot(state.tabs, id).layout]
       /\ lost' = lost \cup InFlight \cup (IF timer THEN WidgetsOf(live) ELSE {})
       /\ UNCHANGED <<widgets, created, ops, fails, issued>>
-----------------------------------------------------------------------------
(***************************************************************************)
(* Opening panels.  The rail computes a terminal's panel id before it asks *)
(* the backend; the others name the panel after the widget, or compute the *)
(* id when the answer is there.  ref is the reference panel captured by a  *)
(* files panel; the other openers place the panel beside the panel that is *)
(* active when the answer arrives.                                         *)
(***************************************************************************)
Task(op) == [op |-> op, phase |-> "asked", id |-> NoPanel, ref |-> NoPanel, widget |-> 0,
             raced |-> FALSE, epoch |-> epoch]
Ask(task) ==
    /\ Operator /\ PointerOrKey
    /\ ready
    /\ Len(tasks) < MaxTasks
    /\ tasks' = Append(tasks, task)
    /\ UNCHANGED <<workspaceTabs, activeWorkspaceId, live, epoch, catalog, ready, timer, disk, widgets, created, ghosts>>

isWorkspaceWidgetKindCreatable == catalog = "ready"

handleCreateTerminalWidget ==
    isWorkspaceWidgetKindCreatable /\ Ask([Task("terminal") EXCEPT !.id = createNextTerminalPanelId(live)])

getBackendTargetWidgetId ==
    IF live.active # NoPanel /\ Panel(live, live.active).kind \in {"terminal", "files"}
    THEN Panel(live, live.active).widget ELSE 0

handleCreateFilesWidget ==
    isWorkspaceWidgetKindCreatable /\ getBackendTargetWidgetId # 0 /\ Ask(Task("files"))

openFromFilesPanel ==
    \E p \in live.panels, op \in {"preview", "terminalHere"} :
        p.kind = "files" /\ Ask([Task(op) EXCEPT !.ref = p.id])

ensureAiTerminalVisibility == Ask(Task("ai"))

FindVisible(widget) == {p \in live.panels : p.kind = "terminal" /\ p.widget = widget}

revealExistingTerminalPanel(widget) ==
    /\ Operator /\ PointerOrKey
    /\ ready
    /\ LET shown == FindVisible(widget)
           panel == createTerminalPanelParams(createNextTerminalPanelId(live), widget, FALSE)
       IN IF shown # {}
          THEN LayoutBecomes([live EXCEPT !.active = (CHOOSE p \in shown : TRUE).id]) /\ UNCHANGED tasks
          ELSE LayoutBecomes(addPanel(live, panel)) /\ tasks' = Raced
    /\ UNCHANGED <<widgets, created, lost>>

activatePanel(id) ==
    /\ Operator /\ PointerOrKey
    /\ ready /\ id # live.active
    /\ LayoutBecomes([live EXCEPT !.active = id])
    /\ UNCHANGED <<tasks, widgets, created, lost>>

(***************************************************************************)
(* Closing a panel: a terminal panel closes its runtime tab if it knows    *)
(* one, a files or preview panel its widget, the commander nothing.        *)
(***************************************************************************)
ClosesBackend(p) == p.tab \/ p.kind \in {"files", "preview"}

closePanelNow(p) ==
    /\ Operator /\ PointerOrKey
    /\ ready /\ ~ClosesBackend(p)
    /\ \E next \in SuccessorActive(live, p.id) : LayoutBecomes(removePanel(live, p.id, next))
    /\ tasks' = Raced
    /\ lost' = lost \cup {p.widget}
    /\ UNCHANGED <<widgets, created>>

handleClosePanel(p) ==
    /\ ClosesBackend(p)
    /\ Ask([Task("close") EXCEPT !.id = p.id, !.widget = p.widget])

PanelSteps ==
    \/ handleCreateTerminalWidget
    \/ handleCreateFilesWidget
    \/ openFromFilesPanel
    \/ ensureAiTerminalVisibility
    \/ \E w \in widgets \ {Main, Side} : revealExistingTerminalPanel(w)
    \/ \E id \in PanelIds(live) : activatePanel(id)
    \/ \E p \in live.panels : closePanelNow(p) \/ handleClosePanel(p)
-----------------------------------------------------------------------------
(***************************************************************************)
(* The backend, and what its answers do.                                   *)
(***************************************************************************)
Becomes(i, task) == tasks' = [tasks EXCEPT ![i] = task]
Without(i, ts) == RemoveAt(ts, i)
Backend == UNCHANGED <<shellVars, ops, restarts, laid, issued>>

Serve(i) ==
    /\ tasks[i].phase = "asked"
    /\ IF tasks[i].op = "close"
       THEN /\ widgets' = widgets \ {tasks[i].widget}
            /\ Becomes(i, [tasks[i] EXCEPT !.phase = "served"])
            /\ UNCHANGED created
       ELSE /\ created < MaxWidgets
            /\ created' = created + 1
            /\ widgets' = widgets \cup {Side + created'}
            /\ Becomes(i, [tasks[i] EXCEPT !.phase = "served", !.widget = Side + created'])
    /\ UNCHANGED <<fails, lost>> /\ Backend

\* The request is refused, or it was carried out and the answer is lost:
\* the client logs the error and changes nothing.
RequestFails(i) ==
    /\ fails < MaxFails
    /\ fails' = fails + 1
    /\ tasks' = Without(i, tasks)
    /\ lost' = IF tasks[i].phase = "served" THEN lost \cup {tasks[i].widget} ELSE lost
    /\ UNCHANGED <<widgets, created>> /\ Backend

Answered(i, op) == tasks[i].phase = "served" /\ tasks[i].op = op

AddOrLog(i, p, ref) ==
    IF CanAdd(live, p.id, ref)
    THEN LayoutBecomes(addPanel(live, p)) /\ tasks' = Without(i, Raced) /\ UNCHANGED lost
    ELSE /\ tasks' = Without(i, tasks)
         /\ lost' = IF tasks[i].raced THEN lost \cup {p.widget} ELSE lost
         /\ UNCHANGED <<live, timer, laid, workspaceTabs, activeWorkspaceId, disk, epoch, catalog, ready, issued>>

terminalCreated(i) ==
    /\ Answered(i, "terminal")
    /\ AddOrLog(i, createTerminalPanelParams(tasks[i].id, tasks[i].widget, TRUE), NoPanel)

filesCreated(i) ==
    /\ Answered(i, "files")
    /\ AddOrLog(i, createFilesPanelParams(tasks[i].widget), NoPanel)

onOpenPreview(i) ==
    /\ Answered(i, "preview")
    /\ AddOrLog(i, createPreviewPanelParams(tasks[i].widget), tasks[i].ref)

onOpenTerminal(i) ==
    /\ Answered(i, "terminalHere")
    /\ AddOrLog(i, createTerminalPanelParams(<<"widget", tasks[i].widget>>, tasks[i].widget, TRUE), tasks[i].ref)

aiTerminalCreated(i) ==
    /\ Answered(i, "ai")
    /\ AddOrLog(i, createTerminalPanelParams(createNextTerminalPanelId(live), tasks[i].widget, TRUE), NoPanel)

\* panel.close() acts on the panel object of the click: one that a restore
\* has replaced, or that another click has closed, is not part of the layout.
StillOpen(task) ==
    task.epoch = epoch /\ \E p \in live.panels : p.id = task.id /\ p.widget = task.widget

closeTerminalPanel(i) ==
    /\ Answered(i, "close")
    /\ IF StillOpen(tasks[i])
       THEN /\ \E next \in SuccessorActive(live, tasks[i].id) :
                  LayoutBecomes(removePanel(live, tasks[i].id, next))
            /\ tasks' = Without(i, Raced)
       ELSE /\ tasks' = Without(i, tasks)
            /\ UNCHANGED <<live, timer, laid, workspaceTabs, activeWorkspaceId, disk, epoch, catalog, ready, issued>>
    /\ UNCHANGED lost

Receive(i) ==
    /\ \/ terminalCreated(i) \/ filesCreated(i) \/ onOpenPreview(i)
       \/ onOpenTerminal(i) \/ aiTerminalCreated(i) \/ closeTerminalPanel(i)
    /\ UNCHANGED <<menu, widgets, created, counters>>

WorkspaceNext ==
    \/ useWorkspaceWidgetCatalog \/ handleDockviewReady \/ Tabs \/ TabMenu \/ PanelSteps
    \/ persistTimerFires \/ Restart
    \/ \E i \in DOMAIN tasks : Serve(i) \/ RequestFails(i) \/ Receive(i)

WorkspaceSpec == WorkspaceInit /\ [][WorkspaceNext]_workspaceVars
-----------------------------------------------------------------------------
\* Every workspace is kept as it was last laid out: an inactive one as it was
\* left, and the active one as it is on screen unless the debounced save is
\* still pending; and what is stored is what the top bar shows.  It is about
\* persistCurrentWorkspaceSnapshot being called before, and with the id of,
\* the workspace that is left, in select, add and delete.
LayoutsAreKept ==
    /\ \A i \in DOMAIN workspaceTabs :
          \/ workspaceTabs[i].id = activeWorkspaceId /\ timer
          \/ workspaceTabs[i].snapshot.layout = laid[workspaceTabs[i].id]
    /\ ready => live = laid[activeWorkspaceId]
    /\ disk = [present |-> TRUE, tabs |-> workspaceTabs, active |-> activeWorkspaceId]

\* A widget the backend created for the shell has a panel in some workspace,
\* or its answer is under way.  It goes out of sight only in the ways listed
\* where lost grows: its workspace is deleted, the shell restarts before the
\* layout is saved, its answer is lost, its panel is closed without a runtime
\* tab, or the panel could not be added because the layout changed under the
\* request.
Shown == WidgetsOf(live) \cup UNION {WidgetsOf(workspaceTabs[i].snapshot.layout) : i \in DOMAIN workspaceTabs}
WidgetsAreShown == widgets \ {Main, Side} \subseteq Shown \cup InFlight \cup lost

\* "newly created workspaces now use max(id) + 1 so add-after-delete does not
\* reuse tab ids" (docs/validation/workspace.md): an id that is new in the top
\* bar was never there before.
TabIdsAreFresh == [][(TabIds(workspaceTabs') \ TabIds(workspaceTabs)) \cap issued = {}]_workspaceVars
=============================================================================
