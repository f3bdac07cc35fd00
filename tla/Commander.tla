------------------------------- MODULE Commander -------------------------------
(***************************************************************************)
(* The two-pane file manager widget (frontend/src/features/commander and    *)
(* widgets/commander): the widget's store, the asynchronous functions of    *)
(* its hook, the file backend they call, and the debounced write of the     *)
(* store to local storage.                                                  *)
(*                                                                          *)
(* A task is one asynchronous function in flight.  It holds the request it  *)
(* waits for (call), the directory loads it waits for (loads), what it does *)
(* next (then), and the values its closure captured when the operator       *)
(* acted: the pending operation (op) and the panes (seen).                  *)
(***************************************************************************)
EXTENDS CommanderPane

CONSTANTS Fresh,     \* the names a prompt may give, in the order they are suggested
          Binary,    \* the names of files that are not text
          Session,   \* the sessions: [commands, ops, fails], the groups of commands the
                     \* operator uses, and bounds on the commands and on failing requests
          MaxTasks   \* bound on the tasks in flight when the operator acts

\* "restart" sessions begin with the start of the page, observe local storage and
\* may reload the page; the others begin when both panes are loaded
Command == {"navigate", "view", "select", "search", "transfer", "clone", "edit", "dialog",
            "restart"}

ASSUME CommanderAssumption == /\ Fresh \in Seq(Name \ {Folder}) /\ Fresh # <<>>
                              /\ Binary \subseteq Name \ {Folder}
                              /\ \A s \in Session : s.commands \subseteq Command
                                                    /\ s.ops \in Nat /\ s.fails \in Nat
                              /\ MaxTasks \in Nat

VARIABLES fs,        \* [Path -> SUBSET Name], what each directory holds
          widget,    \* the widget's state in the store, and its path editor
          inFlight,  \* mutationRequestInFlightRef
          context,   \* the runtime context: "pending", "ready" or "failed"
          tasks,     \* Seq of tasks
          disk,      \* what local storage holds for the widget
          timer,     \* the debounced write is scheduled
          session,   \* the session, chosen once
          ops, fails,
          wanted,    \* the path each pane was last asked to show (history)
          unflagged, \* a skip started a transfer without the in-flight mark (history)
          failed     \* a pane's last request failed and nothing succeeded since (history)

vars == <<fs, widget, inFlight, context, tasks, disk, timer, session, ops, fails,
          wanted, unflagged, failed>>

history == <<wanted, unflagged, failed>>

Template == {"counter", "fixed", "empty"}

NoOp == [kind |-> "none", pane |-> "left", path |-> None, tpane |-> "left", tpath |-> None,
         ids |-> <<>>, names |-> <<>>, conflicts |-> <<>>, duplicates |-> <<>>,
         preview |-> <<>>, mode |-> "none", name |-> None, template |-> "empty",
         mask |-> None, index |-> 0]

View(w) == [showHidden |-> w.showHidden, sort |-> w.sort, desc |-> w.desc,
            dirsFirst |-> w.dirsFirst]

serializeCommanderWidgetRuntimeState(w) ==
  [active |-> w.active, view |-> View(w), viewMode |-> w.viewMode,
   panes |-> [p \in PaneId |-> serializePaneState(w.panes[p])]]

\* no pending operation and no dialog survive a restart, and no rows
createCommanderWidgetRuntimeState(saved) ==
  [active     |-> IF saved = None THEN "left" ELSE saved.active,
   showHidden |-> IF saved = None THEN FALSE ELSE saved.view.showHidden,
   sort       |-> IF saved = None THEN "name" ELSE saved.view.sort,
   desc       |-> IF saved = None THEN FALSE ELSE saved.view.desc,
   dirsFirst  |-> IF saved = None THEN TRUE ELSE saved.view.dirsFirst,
   viewMode   |-> IF saved = None THEN "split" ELSE saved.viewMode,
   pending    |-> NoOp,
   dialog     |-> None,
   editing    |-> None,
   panes      |-> [p \in PaneId |->
                     IF saved = None THEN createEmptyPaneState
                     ELSE createPaneStateFromPersisted(saved.panes[p])]]

\* local storage of an earlier session: the panes at two different directories
SavedPane(path) == [path |-> path, filter |-> None, cursor |-> None, anchor |-> None,
                    selected |-> <<>>, back |-> <<>>, forward |-> <<>>]

Saved == [active |-> "left", viewMode |-> "split",
          view |-> [showHidden |-> FALSE, sort |-> "name", desc |-> FALSE, dirsFirst |-> TRUE],
          panes |-> [p \in PaneId |-> SavedPane(IF p = "left" THEN "root" ELSE "sub")]]

Starting == "restart" \in session.commands

\* both panes loaded: what the first two loads leave
LoadedPane(pane, dirs, view) ==
  LET path == IF pane.path = None THEN "root" ELSE pane.path
  IN  buildCommanderPaneState([pane EXCEPT !.path = path, !.dir = dirs[path]], view)

LoadedWidget(w, dirs) ==
  [w EXCEPT !.panes = [p \in PaneId |-> LoadedPane(w.panes[p], dirs, View(w))]]

Init ==
  /\ fs \in {[p \in Path |-> IF p = "root" THEN {Folder, 2, 3} ELSE sub] : sub \in {{2}, {2, 3}}}
  /\ disk \in {None, Saved}
  /\ session \in Session
  /\ widget = IF Starting THEN createCommanderWidgetRuntimeState(disk)
              ELSE LoadedWidget(createCommanderWidgetRuntimeState(disk), fs)
  /\ context = IF Starting THEN "pending" ELSE "ready"
  /\ inFlight = FALSE /\ tasks = <<>> /\ timer = FALSE
  /\ ops = 0 /\ fails = 0
  /\ wanted = [p \in PaneId |-> IF Starting THEN None ELSE widget.panes[p].path]
  /\ unflagged = FALSE /\ failed = [p \in PaneId |-> FALSE]

--------------------------------------------------------------------------------
(***************************************************************************)
(* Store updates.                                                           *)
(***************************************************************************)
\* Variant: a second change within the delay only stops the timer
StoreDropsTimer(w) ==
  /\ widget' = [w EXCEPT !.editing = IF w.pending # NoOp \/ w.dialog # None
                                     THEN None ELSE @]
  /\ timer' = (Starting /\ ~timer /\ widget' # widget)

\* a pending operation or a dialog closes the path editor; every change of the
\* store (re)starts the debounce timer (which only "restart" sessions observe)
Store(w) ==
  /\ widget' = [w EXCEPT !.editing = IF w.pending # NoOp \/ w.dialog # None
                                     THEN None ELSE @]
  /\ timer' = (Starting /\ (timer \/ widget' # widget))

updatePaneState(w, p, pane) == [w EXCEPT !.panes[p] = pane]

setCommanderPaneLoading(w, p) ==
  updatePaneState(w, p, [w.panes[p] EXCEPT !.loading = TRUE, !.error = FALSE])

setCommanderPaneLoadError(w, p, path) ==
  updatePaneState(w, p, failPane(w.panes[p], View(w), path))

\* Variant: the mark of the load is left
HydrateStaysLoading(w, load) ==
  [updatePaneState(w, load.pane,
     [hydratePane(w.panes[load.pane], View(w), load) EXCEPT !.loading = TRUE])
     EXCEPT !.active = load.pane]

\* the pane that was loaded becomes the active one
hydrateCommanderPaneDirectory(w, load) ==
  [updatePaneState(w, load.pane, hydratePane(w.panes[load.pane], View(w), load))
     EXCEPT !.active = load.pane]

setCommanderPaneFilterQuery(w, p, filter) ==
  updatePaneState(w, p, buildCommanderPaneState(
    [w.panes[p] EXCEPT !.filter = filter], View(w)))

cancelCommanderPendingOperation(w) == [w EXCEPT !.pending = NoOp]

Rebuilt(w) ==
  [w EXCEPT !.panes = [p \in PaneId |-> buildCommanderPaneState(w.panes[p], View(w))]]

Active(w) == w.panes[w.active]

--------------------------------------------------------------------------------
(***************************************************************************)
(* Tasks.                                                                   *)
(***************************************************************************)
Load(p, path, how, filter, cursor, selected) ==
  [pane |-> p, path |-> path, history |-> how, filter |-> filter, cursor |-> cursor,
   anchor |-> cursor, selected |-> selected, current |-> TRUE,
   status |-> "sent", listing |-> {}]

\* loadPaneDirectory without options: cursor and selection are not kept
PlainLoad(p, path, how, seen) == Load(p, path, how, seen[p].filter, None, <<>>)

Call(op, entries, over) ==
  [op |-> op, entries |-> entries, over |-> over, status |-> "sent"]

NoCall == Call("none", <<>>, FALSE)

Task(call, loads, then, op, dialog) ==
  [call |-> call, loads |-> loads, then |-> then, op |-> op,
   seen |-> widget.panes, dialog |-> dialog, current |-> TRUE]

\* a newer load of the same pane makes the older ones stale
Supersede(task, panes) ==
  [task EXCEPT !.loads = [i \in DOMAIN @ |->
                            IF @[i].pane \in panes
                            THEN [@[i] EXCEPT !.current = FALSE] ELSE @[i]]]

PanesOf(loads) == {loads[i].pane : i \in DOMAIN loads}

SupersedeAll(ts, loads) == [i \in DOMAIN ts |-> Supersede(ts[i], PanesOf(loads))]

Loading(w, loads) ==
  [w EXCEPT !.panes = [p \in PaneId |->
     IF p \in PanesOf(loads)
     THEN setCommanderPaneLoading(w, p).panes[p] ELSE w.panes[p]]]

Want(loads) ==
  wanted' = [p \in PaneId |->
     IF p \in PanesOf(loads)
     THEN loads[CHOOSE i \in DOMAIN loads : loads[i].pane = p].path ELSE wanted[p]]

\* start the task with its loads; w is the store the handler left
StartLoads(w, loads, then, op) ==
  /\ tasks' = Append(SupersedeAll(tasks, loads), Task(NoCall, loads, then, op, None))
  /\ Store(Loading(w, loads))
  /\ Want(loads)

\* a load of the pane that is still in flight will be shown after all
Unloading(p) ==
  \A i \in DOMAIN tasks : \A k \in DOMAIN tasks[i].loads :
    tasks[i].loads[k].pane = p => ~tasks[i].loads[k].current

\* an error shows the pane at the path the failed function was about
Redirect(p, path) ==
  /\ Store(setCommanderPaneLoadError(widget, p, path))
  /\ wanted' = [wanted EXCEPT ![p] = IF Unloading(p) THEN path ELSE @]

StartCall(call, then, op, dialog) ==
  /\ tasks' = Append(tasks, Task(call, <<>>, then, op, dialog))
  /\ UNCHANGED <<widget, timer, wanted>>

Operator(command) ==
  /\ command \in session.commands
  /\ ops < session.ops /\ Len(tasks) < MaxTasks
  /\ ops' = ops + 1
  /\ UNCHANGED <<fs, context, disk, session, fails>>

Ready == context = "ready"

\* a command that only changes the store
Local(w) ==
  /\ Store(w)
  /\ UNCHANGED <<tasks, inFlight, history>>

\* the dialog covers the widget and swallows its keys
Reachable == widget.dialog = None

\* plain keys and the hint bar work when nothing is pending
Idle == Reachable /\ widget.pending = NoOp

--------------------------------------------------------------------------------
(***************************************************************************)
(* Start, loads and navigation.                                             *)
(***************************************************************************)
\* the context resolves: both panes are loaded, from their own path or the root
ContextResolved ==
  LET path(p) == IF widget.panes[p].path = None THEN "root" ELSE widget.panes[p].path
  IN  /\ context = "pending"
      /\ context' = "ready"
      /\ tasks' = tasks \o
           <<Task(NoCall, <<PlainLoad("left", path("left"), "replace", widget.panes)>>,
                  "none", NoOp, None),
             Task(NoCall, <<PlainLoad("right", path("right"), "replace", widget.panes)>>,
                  "none", NoOp, None)>>
      /\ Store(setCommanderPaneLoading(setCommanderPaneLoading(widget, "left"), "right"))
      /\ wanted' = [p \in PaneId |-> path(p)]
      /\ UNCHANGED <<fs, inFlight, disk, session, ops, fails, unflagged, failed>>

\* without a context nothing is ever loaded, until a restart
ContextFails ==
  /\ context = "pending" /\ fails < session.fails
  /\ context' = "failed" /\ fails' = fails + 1
  /\ Store(setCommanderPaneLoadError(
             setCommanderPaneLoadError(widget, "left", widget.panes["left"].path),
             "right", widget.panes["right"].path))
  /\ UNCHANGED <<fs, inFlight, tasks, disk, session, ops, history>>

Navigate(p, path, how) ==
  /\ Ready
  /\ StartLoads(widget, <<PlainLoad(p, path, how, widget.panes)>>, "none", NoOp)
  /\ UNCHANGED <<inFlight, unflagged, failed>>

\* a double click on a folder's row, or Enter, Ctrl+PageDown on the cursor's
openPaneEntry(p, id) ==
  /\ Operator("navigate") /\ Reachable
  /\ id = <<"root", Folder>> /\ id \in Ids(Rows(widget.panes[p]))
  /\ Navigate(p, "sub", "push")

confirmPathEdit(p, path) ==
  /\ Operator("navigate") /\ widget.editing = p
  /\ IF path = widget.panes[p].path \/ ~Ready
     THEN Local([widget EXCEPT !.editing = None])
     ELSE /\ StartLoads([widget EXCEPT !.editing = None],
                        <<PlainLoad(p, path, "push", widget.panes)>>, "none", NoOp)
          /\ UNCHANGED <<inFlight, unflagged, failed>>

startPathEdit(p) ==
  /\ Operator("navigate") /\ Idle /\ widget.editing # p
  /\ Local([widget EXCEPT !.active = p, !.editing = p])

cancelPathEdit ==
  /\ Operator("navigate") /\ widget.editing # None
  /\ Local([widget EXCEPT !.editing = None])

goPaneParent(p) ==
  /\ Operator("navigate") /\ Reachable /\ p = widget.active
  /\ widget.panes[p].path = "sub"
  /\ Navigate(p, "root", "push")

goPaneBack(p) ==
  /\ Operator("navigate") /\ Reachable /\ p = widget.active
  /\ widget.panes[p].back # <<>>
  /\ Navigate(p, Last(widget.panes[p].back), "back")

goPaneForward(p) ==
  /\ Operator("navigate") /\ Reachable /\ p = widget.active
  /\ widget.panes[p].forward # <<>>
  /\ Navigate(p, Last(widget.panes[p].forward), "forward")

switchCommanderActivePane ==
  /\ Operator("transfer") /\ Idle
  /\ Local([widget EXCEPT !.active = Other(@)])

\* a press anywhere in a pane
setCommanderActivePane(p) ==
  /\ Operator("navigate") /\ Reachable /\ p # widget.active
  /\ Local([widget EXCEPT !.active = p])

--------------------------------------------------------------------------------
(***************************************************************************)
(* View settings: both panes are rebuilt.                                   *)
(***************************************************************************)
toggleCommanderShowHidden ==
  /\ Operator("view") /\ Reachable
  /\ Local(Rebuilt([widget EXCEPT !.showHidden = ~@]))

toggleCommanderDirsFirst ==
  /\ Operator("view") /\ Reachable
  /\ Local(Rebuilt([widget EXCEPT !.dirsFirst = ~@]))

setCommanderViewMode(mode) ==
  /\ Operator("view") /\ Reachable /\ mode # widget.viewMode
  /\ Local([widget EXCEPT !.viewMode = mode])

\* the same column again turns the order round
setCommanderSortMode(mode) ==
  /\ Operator("view") /\ Reachable
  /\ Local(Rebuilt([widget EXCEPT !.sort = mode, !.desc = mode = widget.sort /\ ~@]))

\* the filter is dropped by a load, and again in the store when it is answered
clearActivePaneFilter ==
  LET p == widget.active
  IN  /\ Operator("view") /\ Reachable /\ Ready
      /\ StartLoads(widget, <<Load(p, widget.panes[p].path, "replace", None,
                                   widget.panes[p].cursor, widget.panes[p].selected)>>,
                    "clear", [NoOp EXCEPT !.pane = p])
      /\ UNCHANGED <<inFlight, unflagged, failed>>

--------------------------------------------------------------------------------
(***************************************************************************)
(* Cursor and selection.                                                    *)
(***************************************************************************)
Pane(p, pane) == Local([updatePaneState(widget, p, pane) EXCEPT !.active = p])

\* a click on a row; with Shift it selects a range
setCommanderPaneCursor(p, id, range) ==
  /\ Operator("select") /\ Reachable /\ RowIndex(widget.panes[p], id) # 0
  /\ Pane(p, IF range THEN setSelectionRangeAtCursor(widget.panes[p], id)
             ELSE At(widget.panes[p], id))

\* Ctrl+click
toggleCommanderPaneSelection(p, id) ==
  /\ \E c \in {"select", "transfer", "clone"} : Operator(c)
  /\ Reachable /\ RowIndex(widget.panes[p], id) # 0
  /\ Pane(p, toggleEntrySelection(widget.panes[p], id))

moveCommanderActivePaneCursor(delta, extend) ==
  /\ Operator("select") /\ Idle
  /\ Pane(widget.active,
          IF extend THEN movePaneCursorWithSelection(Active(widget), delta)
          ELSE movePaneCursor(Active(widget), delta))

setCommanderPaneBoundaryCursor(boundary, extend) ==
  /\ Operator("select") /\ Idle
  /\ Pane(widget.active,
          IF extend THEN setCursorToBoundaryWithSelection(Active(widget), boundary)
          ELSE setCursorToBoundary(Active(widget), boundary))

toggleCommanderActivePaneSelection(advance) ==
  LET pane == toggleEntrySelection(Active(widget), Active(widget).cursor)
  IN  /\ Operator("select") /\ Idle /\ Active(widget).cursor # None
      /\ Pane(widget.active, IF advance THEN movePaneCursor(pane, 1) ELSE pane)

invertCommanderActivePaneSelection ==
  /\ Operator("select") /\ Idle
  /\ Pane(widget.active, invertPaneSelection(Active(widget)))

--------------------------------------------------------------------------------
(***************************************************************************)
(* Pending operations.                                                      *)
(***************************************************************************)
\* the name a template, or the name typed, gives the i-th entry
applyCommanderRenameTemplate(op, i) ==
  CASE op.mode = "single"        -> op.name
    [] op.template = "empty"     -> None
    [] op.template = "fixed"     -> Fresh[1]
    [] op.template = "counter"   -> IF i <= Len(Fresh) THEN Fresh[i] ELSE Last(Fresh)

previewCommanderRenameEntries(pane, op) ==
  LET ids   == resolveEntriesInOrder(pane, op.ids)
      next  == [i \in DOMAIN ids |-> applyCommanderRenameTemplate(op, i)]
      twice(n) == \E i, j \in DOMAIN next : i # j /\ next[i] = n /\ next[j] = n
      taken(n) == n \in pane.dir \ ToSet(NamesOf(ids))
  IN  [i \in DOMAIN ids |->
         [id |-> ids[i], next |-> next[i],
          status |-> IF next[i] = None THEN "invalid"
                     ELSE IF twice(next[i]) THEN "duplicate"
                     ELSE IF taken(next[i]) THEN "conflict" ELSE "ok"]]

\* the names shown as conflicts, and those that block the confirmation
WithPreview(pane, op) ==
  LET preview == previewCommanderRenameEntries(pane, op)
      of(st)  == {i \in DOMAIN preview : preview[i].status \in st}
      pick(is) == SetToSeq({IF preview[i].next = None THEN preview[i].id[2]
                            ELSE preview[i].next : i \in is})
  IN  [op EXCEPT !.preview = preview, !.conflicts = pick(of({"conflict"})),
                 !.duplicates = pick(of({"duplicate", "invalid"}))]

\* ids keep the order of the selection, names the order of the rows
RequestOn(w, kind) ==
  LET pane == Active(w)
      ids  == getOperationEntryIds(pane)
  IN  [NoOp EXCEPT !.kind = kind, !.pane = w.active, !.path = pane.path,
                   !.tpane = w.active, !.tpath = pane.path, !.ids = ids,
                   !.names = SelectSeq(pane.entries, LAMBDA n : <<pane.path, n>> \in Ids(ids))]

RenameOperation(w) ==
  LET op  == RequestOn(w, "rename")
      ids == toCommanderEntryId(op.path, op.names)
  IN  IF Len(op.names) = 1
      THEN [op EXCEPT !.ids = ids, !.mode = "single", !.name = op.names[1],
                      !.preview = <<[id |-> ids[1], next |-> op.names[1], status |-> "ok"]>>]
      ELSE WithPreview(Active(w), [op EXCEPT !.ids = ids, !.mode = "batch",
                                             !.template = "counter"])

CloneOperation(w) ==
  LET op == RequestOn(w, "copy")
  IN  IF Len(op.ids) = 1
      THEN [op EXCEPT !.mode = "single",
                      !.name = suggestCommanderCloneName(Active(w), op.ids[1], Fresh)]
      ELSE WithPreview(Active(w), [op EXCEPT !.mode = "batch", !.template = "counter"])

TransferOperation(w, kind) ==
  LET to == Other(w.active)
      op == RequestOn(w, kind)
  IN  [op EXCEPT !.tpane = to, !.tpath = w.panes[to].path, !.mode = "pane",
                 !.conflicts = getCommanderConflictingEntryNames(Active(w), w.panes[to], op.ids)]

SamePath(w) == w.panes["left"].path = w.panes["right"].path

MaskOperation(w, kind) ==
  [RequestOn(w, kind) EXCEPT !.ids = <<>>, !.names = <<>>,
     !.mask = CASE kind = "filter" -> Active(w).filter [] kind = "search" -> None
                [] OTHER -> Name]

\* the model's folder keeps its name
KeepsFolder == Folder \notin ToSet(RequestOn(widget, "rename").names)

requestCopy ==
  /\ \E c \in {"transfer", "clone"} : Operator(c)
  /\ Idle /\ getOperationEntryIds(Active(widget)) # <<>>
  /\ IF SamePath(widget)
     THEN /\ "clone" \in session.commands /\ KeepsFolder
          /\ Len(getOperationEntryIds(Active(widget))) > 1 \/ CloneOperation(widget).name # None
          /\ Local([widget EXCEPT !.pending = CloneOperation(widget)])
     ELSE Local([widget EXCEPT !.pending = TransferOperation(widget, "copy")])

requestMove ==
  /\ Operator("transfer") /\ Idle
  /\ getOperationEntryIds(Active(widget)) # <<>> /\ ~SamePath(widget)
  /\ Local([widget EXCEPT !.pending = TransferOperation(widget, "move")])

requestDelete ==
  /\ Operator("edit") /\ Idle /\ getOperationEntryIds(Active(widget)) # <<>>
  /\ Local([widget EXCEPT !.pending = RequestOn(widget, "delete")])

requestRename ==
  /\ Operator("edit") /\ Idle /\ RequestOn(widget, "rename").names # <<>> /\ KeepsFolder
  /\ Local([widget EXCEPT !.pending = RenameOperation(widget)])

\* the tree of the model is two deep: directories are made in the root
requestMkdir ==
  /\ Operator("edit") /\ Idle /\ Active(widget).path = "root"
  /\ Local([widget EXCEPT !.pending = [RequestOn(widget, "mkdir") EXCEPT
                            !.ids = <<>>, !.names = <<>>, !.name = Folder]])

\* Ctrl+F and Ctrl+S replace a prompt that is open; the selection masks do not
requestMask(kind) ==
  /\ Operator(CASE kind = "filter" -> "view" [] kind = "search" -> "search"
                [] OTHER -> "search")
  /\ IF kind \in {"filter", "search"} THEN Reachable ELSE Idle
  /\ Local([widget EXCEPT !.pending = MaskOperation(widget, kind)])

Prompt == {"select", "unselect", "filter", "search"}

AnyOperator == \E c \in session.commands : Operator(c)

typeMask(mask) ==
  LET op == widget.pending
      pane == widget.panes[op.pane]
  IN  /\ AnyOperator
      /\ op.kind \in Prompt
      /\ Local([widget EXCEPT !.pending.mask = mask,
                  !.pending.index =
                     IF op.kind # "search" THEN @
                     ELSE getCommanderResolvedSearchMatchIndex(
                            getCommanderSearchMatches(pane, mask), pane.cursor, 1)])

typeName(name) ==
  LET op   == [widget.pending EXCEPT !.name = name]
      pane == widget.panes[op.pane]
  IN  /\ AnyOperator
      /\ op.kind = "mkdir" \/ op.mode = "single"
      /\ Local([widget EXCEPT !.pending =
           CASE op.kind = "mkdir" -> op
             [] op.kind = "rename" -> WithPreview(pane, op)
             [] OTHER -> [op EXCEPT !.conflicts =
                            IF name # None /\ name # op.names[1]
                               /\ getCommanderEntryNameConflict(pane, name, op.ids[1])
                            THEN <<name>> ELSE <<>>]])

typeTemplate(template) ==
  LET op == [widget.pending EXCEPT !.template = template]
  IN  /\ AnyOperator
      /\ op.mode = "batch"
      /\ Local([widget EXCEPT !.pending = WithPreview(widget.panes[op.pane], op)])

stepCommanderPendingSearchMatch(delta) ==
  LET op    == widget.pending
      pane  == widget.panes[op.pane]
      found == getCommanderSearchMatches(pane, op.mask)
      at    == getCommanderResolvedSearchMatchIndex(found, pane.cursor, op.index)
      to    == ((at - 1 + delta + Len(found)) % Len(found)) + 1
  IN  /\ Operator("search") /\ Reachable
      /\ op.kind = "search" /\ found # <<>>
      /\ Local([updatePaneState(widget, op.pane, At(pane, found[to]))
                  EXCEPT !.pending.index = to])

cancelPendingOperation ==
  /\ AnyOperator
  /\ widget.pending # NoOp /\ Reachable
  /\ Local(cancelCommanderPendingOperation(widget))

--------------------------------------------------------------------------------
(***************************************************************************)
(* Confirmations and conflicts.                                             *)
(***************************************************************************)
Conflicts(op) == op.kind \in {"copy", "move"} /\ op.conflicts # <<>>

\* the entries of a transfer, looked up in the panes its closure saw: <<source,
\* target directory, target name>>.  A batch clone pairs the previewed names
\* with the sources by position
TransferEntries(op, ids, seen) ==
  LET src  == resolveEntriesInOrder(seen[op.pane], ids)
      at(id) == IF id \in Ids(op.ids) THEN CHOOSE k \in DOMAIN op.ids : op.ids[k] = id ELSE 0
      kept == SelectSeq(op.preview, LAMBDA item :
                item.next # None /\ at(item.id) \in DOMAIN src)
  IN  CASE src = <<>> -> <<>>
        [] src # <<>> /\ op.mode = "batch" ->
             [i \in DOMAIN kept |-> <<src[at(kept[i].id)], op.path, kept[i].next>>]
        [] src # <<>> /\ op.mode = "single" -> << <<src[1], op.path, op.name>> >>
        [] OTHER -> [i \in DOMAIN src |-> <<src[i], op.tpath, src[i][2]>>]

RenameEntries(op, pane) ==
  IF op.mode = "single"
  THEN IF op.name = None \/ op.ids[1] \notin Ids(resolveEntriesInOrder(pane, op.ids))
       THEN <<>> ELSE << << <<op.path, op.ids[1][2]>>, op.path, op.name>> >>
  ELSE LET kept == SelectSeq(op.preview, LAMBDA item :
                     item.next # None /\ resolveEntriesInOrder(pane, <<item.id>>) # <<>>)
       IN  [i \in DOMAIN kept |-> << <<op.path, kept[i].id[2]>>, op.path, kept[i].next>>]

Sources(op, seen) ==
  LET ids == resolveEntriesInOrder(seen[op.pane], op.ids)
  IN  [i \in DOMAIN ids |-> <<ids[i], op.path, ids[i][2]>>]

\* the request of a confirmed operation, without entries when there is nothing to do
MutationCall(op, seen) ==
  CASE op.kind \in {"copy", "move"} -> Call(op.kind, TransferEntries(op, op.ids, seen), FALSE)
    [] op.kind = "delete" -> Call("delete", Sources(op, seen), FALSE)
    [] op.kind = "mkdir"  -> Call("mkdir", << <<None, op.path, op.name>> >>, FALSE)
    [] op.kind = "rename" -> Call("rename",
                                  IF op.duplicates # <<>> THEN <<>>
                                  ELSE RenameEntries(op, seen[op.pane]), op.conflicts # <<>>)

Mutation == {"copy", "move", "delete", "mkdir", "rename"}

\* a clone needs a name of its own, a directory needs a name
Refused(op) ==
  \/ op.kind = "mkdir" /\ op.name = None
  \/ op.kind = "copy" /\ op.mode = "single" /\ op.name \in {None, op.names[1]}
  \/ op.kind = "copy" /\ op.mode = "batch" /\ op.template = "empty"

ConfirmLocal(op) ==
  LET pane  == widget.panes[op.pane]
      found == getCommanderSearchMatches(pane, op.mask)
      w     == cancelCommanderPendingOperation(widget)
  IN  Local(IF op.kind \in {"select", "unselect"}
            THEN updatePaneState(w, op.pane, applySelectionMaskToPane(pane, op.mask, op.kind))
            ELSE IF found = <<>> THEN w
            ELSE updatePaneState(w, op.pane, At(pane,
                   found[getCommanderResolvedSearchMatchIndex(found, pane.cursor, op.index)])))

ConfirmFilter(op) ==
  LET pane == widget.panes[op.pane]
  IN  IF Ready
      THEN /\ StartLoads(widget, <<[Load(op.pane, op.path, "replace", op.mask, pane.cursor,
                                        pane.selected) EXCEPT !.anchor = pane.anchor]>>,
                         "filter", op)
           /\ UNCHANGED <<inFlight, unflagged, failed>>
      ELSE Local(cancelCommanderPendingOperation(
                   setCommanderPaneFilterQuery(widget, op.pane, op.mask)))

ConfirmMutation(op) ==
  LET call == MutationCall(op, widget.panes)
  IN  /\ ~inFlight
      /\ IF Refused(op)
         THEN /\ Redirect(op.pane, op.path)
              /\ UNCHANGED <<tasks, inFlight, unflagged, failed>>
         ELSE IF call.entries = <<>>
         THEN op.kind \in {"copy", "move"} /\ Local(cancelCommanderPendingOperation(widget))
         ELSE /\ inFlight' = TRUE
              /\ StartCall(call, op.kind, op, None)
              /\ UNCHANGED <<unflagged, failed>>

\* Enter in the prompt, at the widget's root, or the bar's button
confirmPendingOperationAsync ==
  LET op == widget.pending
  IN  /\ AnyOperator /\ op # NoOp /\ ~Conflicts(op)
      /\ Reachable \/ op.kind \in Prompt \cup {"mkdir", "rename"} \/ op.mode = "single"
      /\ CASE op.kind \in Mutation -> ConfirmMutation(op)
           [] op.kind = "filter"   -> ConfirmFilter(op)
           [] OTHER                -> ConfirmLocal(op)

\* the entry is found by its place among the names, and the id at the same
\* place is dropped
removePendingTransferEntry(op, name) ==
  IF name \notin ToSet(op.names) THEN op
  ELSE LET k == CHOOSE i \in DOMAIN op.names : op.names[i] = name
       IN  [op EXCEPT !.ids = IF k \in DOMAIN @ THEN RemoveAt(@, k) ELSE @,
                      !.names = RemoveAt(@, k),
                      !.conflicts = SelectSeq(@, LAMBDA n : n # name)]

Transfer(op, ids, over, then) ==
  LET entries == TransferEntries(op, ids, widget.panes)
  IN  IF entries = <<>> THEN Local(cancelCommanderPendingOperation(widget))
      ELSE /\ inFlight' = TRUE
           /\ StartCall(Call(op.kind, entries, over), then, op, None)
           /\ UNCHANGED <<unflagged, failed>>

\* Variant: a second click is not held back
ResolvingTwice(op) == AnyOperator /\ Conflicts(op) /\ Reachable

Resolving(op) == AnyOperator /\ Conflicts(op) /\ Reachable /\ ~inFlight

overwriteAllPendingConflicts ==
  LET op == widget.pending
  IN  Resolving(op) /\ Transfer(op, op.ids, TRUE, "transfer")

skipAllPendingConflicts ==
  LET op   == widget.pending
      kept == SelectSeq([i \in DOMAIN op.ids |-> <<i, op.ids[i]>>], LAMBDA e :
                e[1] \notin DOMAIN op.names \/ op.names[e[1]] \notin ToSet(op.conflicts))
  IN  /\ Resolving(op)
      /\ IF op.mode # "pane" THEN Local(cancelCommanderPendingOperation(widget))
         ELSE Transfer(op, [i \in DOMAIN kept |-> kept[i][2]], FALSE, "transfer")

\* what follows a resolved conflict; marked says whether the in-flight mark is set
Continue(ts, w, rest, seen, marked) ==
  LET call == Call(rest.kind, TransferEntries(rest, rest.ids, seen), FALSE)
      send == rest.ids # <<>> /\ rest.conflicts = <<>> /\ call.entries # <<>>
  IN  /\ tasks' = IF send THEN Append(ts, [Task(call, <<>>, "transfer", rest, None)
                                             EXCEPT !.seen = seen]) ELSE ts
      /\ Store([w EXCEPT !.pending = IF send \/ rest.conflicts # <<>> THEN rest ELSE NoOp])
      /\ inFlight' = (marked /\ send)

\* one conflict: the id at the place of the conflicting name is sent
overwritePendingConflict ==
  LET op   == widget.pending
      name == Head(op.conflicts)
      k    == CHOOSE i \in DOMAIN op.names : op.names[i] = name
  IN  /\ Resolving(op)
      /\ IF op.mode # "pane" THEN Transfer(op, op.ids, TRUE, "transfer")
         ELSE /\ name \in ToSet(op.names) /\ k \in DOMAIN op.ids
              /\ LET entries == TransferEntries(op, <<op.ids[k]>>, widget.panes)
                 IN  IF entries = <<>>
                     THEN /\ Continue(tasks, widget, removePendingTransferEntry(op, name),
                                      widget.panes, TRUE)
                          /\ UNCHANGED wanted
                     ELSE /\ inFlight' = TRUE
                          /\ StartCall(Call(op.kind, entries, TRUE), "overwrite", op, None)
              /\ UNCHANGED <<unflagged, failed>>

\* the rest is sent at once when no conflict is left, without the in-flight mark
skipPendingConflict ==
  LET op   == widget.pending
      rest == removePendingTransferEntry(op, Head(op.conflicts))
  IN  /\ Resolving(op)
      /\ IF op.mode # "pane" THEN Local(cancelCommanderPendingOperation(widget))
         ELSE /\ Continue(tasks, widget, rest, widget.panes, FALSE)
              /\ unflagged' = (unflagged \/ Len(tasks') > Len(tasks))
              /\ UNCHANGED <<wanted, failed>>

--------------------------------------------------------------------------------
(***************************************************************************)
(* The file dialog.                                                         *)
(***************************************************************************)
\* a newer request makes the older ones stale
SupersedeReads(ts) ==
  [i \in DOMAIN ts |-> IF ts[i].then = "read" THEN [ts[i] EXCEPT !.current = FALSE] ELSE ts[i]]

\* a double click or Enter on a file, F3 and F4 on the cursor's; the press made
\* the pane active
openFileDialogForEntry(p, id, mode) ==
  /\ Operator("dialog") /\ Reachable /\ p = widget.active
  /\ id \in Ids(Rows(widget.panes[p])) /\ id[2] # Folder
  /\ tasks' = Append(SupersedeReads(tasks),
                Task(Call(mode, << <<id, id[1], id[2]>> >>, FALSE), <<>>, "read", NoOp,
                     [pane |-> p, id |-> id, mode |-> mode, dirty |-> FALSE]))
  /\ UNCHANGED <<widget, timer, inFlight, history>>

setCommanderFileDialogDraft ==
  /\ Operator("dialog") /\ widget.dialog # None
  /\ widget.dialog.mode = "edit" /\ ~widget.dialog.dirty
  /\ Local([widget EXCEPT !.dialog.dirty = TRUE])

\* a dirty draft is discarded only after a second confirmation
closeCommanderFileDialog ==
  /\ Operator("dialog") /\ widget.dialog # None
  /\ Local([widget EXCEPT !.dialog = None])

saveFileDialogAsync ==
  LET id == widget.dialog.id
  IN  /\ Operator("dialog") /\ widget.dialog # None
      /\ widget.dialog.mode = "edit" /\ ~inFlight
      /\ inFlight' = TRUE
      /\ StartCall(Call("write", << <<id, id[1], id[2]>> >>, TRUE), "save", NoOp, widget.dialog)
      /\ UNCHANGED <<unflagged, failed>>

openFileDialogEntryExternallyAsync(what) ==
  LET id == widget.dialog.id
  IN  /\ Operator("dialog") /\ widget.dialog # None
      /\ StartCall(Call(what, << <<id, id[1], id[2]>> >>, FALSE), "open", NoOp, widget.dialog)
      /\ UNCHANGED <<inFlight, unflagged, failed>>

--------------------------------------------------------------------------------
(***************************************************************************)
(* The file backend (core/app/fs_mutation.go, fs_navigation.go).  A request *)
(* is validated first and has no effect when it is refused.                 *)
(***************************************************************************)
\* the empty path of a pane that was never loaded is the root
resolveFSPath(path) == IF path = None THEN "root" ELSE path

DirExists(path) == path = "root" \/ Folder \in fs["root"]

Exists(id) == DirExists(id[1]) /\ id[2] \in fs[id[1]]

Valid(call) ==
  LET E == ToSet(call.entries)
      moved == {e[1] : e \in E}
      twice == Cardinality({<<e[2], e[3]>> : e \in E}) < Len(call.entries)
      free(e) == call.over \/ ~Exists(<<e[2], e[3]>>)
  IN  CASE call.op \in {"copy", "move"} ->
             ~twice /\ \A e \in E : /\ Exists(e[1]) /\ DirExists(e[2]) /\ free(e)
                                    /\ e[1] # <<e[2], e[3]>>
                                    /\ ~(e[1] = <<"root", Folder>> /\ e[2] = "sub")
        [] call.op = "rename" ->
             ~twice /\ \A e \in E : /\ Exists(e[1])
                                    /\ free(e) \/ <<e[2], e[3]>> \in moved
        [] call.op = "mkdir" -> \A e \in E : DirExists(e[2]) /\ free(e)
        [] OTHER -> \A e \in E : Exists(e[1])

RemoveNames(dirs, ids) ==
  LET kept == [p \in Path |-> {n \in dirs[p] : <<p, n>> \notin ids}]
  IN  [kept EXCEPT !["sub"] = IF Folder \in kept["root"] THEN @ ELSE {}]

AddNames(dirs, ids) == [p \in Path |-> dirs[p] \cup {n \in Name : <<p, n>> \in ids}]

Effect(call) ==
  LET sources == {e[1] : e \in ToSet(call.entries)}
      targets == {<<e[2], e[3]>> : e \in ToSet(call.entries)}
  IN  CASE call.op \in {"copy", "mkdir"}   -> AddNames(fs, targets)
        [] call.op \in {"move", "rename"}  -> AddNames(RemoveNames(fs, sources), targets)
        [] call.op = "delete"              -> RemoveNames(fs, sources)
        [] OTHER                           -> fs

Backend == UNCHANGED <<widget, inFlight, context, disk, timer, session, ops, history>>

\* an editor asks for the text of a binary file: invalid_fs_text
Outcome(call) ==
  IF ~Valid(call) THEN "failed"
  ELSE IF call.op = "edit" /\ call.entries[1][3] \in Binary THEN "binary" ELSE "ok"

Resolved(call) ==
  [call EXCEPT !.entries = [k \in DOMAIN @ |-> <<@[k][1], resolveFSPath(@[k][2]), @[k][3]>>]]

ServeCall(i) ==
  LET call == Resolved(tasks[i].call)
  IN  /\ call.op # "none" /\ call.status = "sent"
      /\ fs' = IF Valid(call) THEN Effect(call) ELSE fs
      /\ tasks' = [tasks EXCEPT ![i].call = [call EXCEPT !.status = Outcome(call)]]
      /\ UNCHANGED fails
      /\ Backend

\* the listing is filtered by the query the load carries
listCommanderDirectory(i, k) ==
  LET load == tasks[i].loads[k]
      path == resolveFSPath(load.path)
  IN  /\ load.status = "sent"
      /\ tasks' = [tasks EXCEPT ![i].loads[k] =
           IF ~DirExists(path) THEN [load EXCEPT !.status = "failed"]
           ELSE [load EXCEPT !.status = "ok", !.path = path, !.listing =
                   getCommanderMatchedEntries(fs[path], load.filter, TRUE)]]
      /\ UNCHANGED <<fs, fails>>
      /\ Backend

\* a request is lost, or its answer is lost after it took effect
RequestFails(i) ==
  /\ fails < session.fails
  /\ fails' = fails + 1
  /\ \/ /\ tasks[i].call.op # "none" /\ tasks[i].call.status = "sent"
        /\ tasks' = [tasks EXCEPT ![i].call.status = "failed"]
        /\ LET call == Resolved(tasks[i].call)
           IN  fs' \in {fs, IF Valid(call) THEN Effect(call) ELSE fs}
     \/ /\ \E k \in DOMAIN tasks[i].loads :
             /\ tasks[i].loads[k].status = "sent"
             /\ tasks' = [tasks EXCEPT ![i].loads[k].status = "failed"]
        /\ UNCHANGED fs
  /\ Backend

--------------------------------------------------------------------------------
(***************************************************************************)
(* The asynchronous functions go on.                                        *)
(***************************************************************************)
Received == UNCHANGED <<fs, context, disk, session, ops, fails, unflagged>>

\* the task goes on to wait for loads; w is the store as it left it
ThenLoad(i, w, loads) ==
  /\ tasks' = [SupersedeAll(tasks, loads) EXCEPT ![i].call = NoCall, ![i].loads = loads]
  /\ Store(Loading(w, loads))
  /\ Want(loads)
  /\ UNCHANGED <<inFlight, failed>>
  /\ Received

EndWithError(i, p, path) ==
  /\ tasks' = RemoveAt(tasks, i)
  /\ Redirect(p, path)
  /\ failed' = [failed EXCEPT ![p] = TRUE]
  /\ Received

Answered(i, status) == /\ i \in DOMAIN tasks
                       /\ tasks[i].call.op # "none" /\ tasks[i].call.status = status

Transferring == {"copy", "move", "transfer", "overwrite"}

Mutating == Transferring \cup {"delete", "mkdir", "rename", "save"}

\* the target of the transfer is shown with what was transferred selected; a
\* move also reloads the pane it came from
performTransferMutation(i) ==
  LET task    == tasks[i]
      op      == task.op
      p       == op.tpane
      all     == [k \in DOMAIN task.call.entries |->
                    <<task.call.entries[k][2], task.call.entries[k][3]>>]
      targets == SelectSeq(all, LAMBDA id : id[1] = op.tpath)
      target  == Load(p, op.tpath, "replace", task.seen[p].filter,
                      IF targets = <<>> THEN None ELSE targets[1], targets)
      source  == PlainLoad(op.pane, op.path, "replace", task.seen)
  IN  /\ Answered(i, "ok") /\ task.then \in Transferring
      /\ ThenLoad(i, widget, IF op.kind = "move" THEN <<source, target>> ELSE <<target>>)

\* delete, mkdir, rename: the prompt is closed, whichever is open by now
FinishEdit(i) ==
  LET task == tasks[i]
      op   == task.op
      to   == << op.path, task.call.entries[1][3] >>
      all  == [k \in DOMAIN task.call.entries |-> <<op.path, task.call.entries[k][3]>>]
      filter == task.seen[op.pane].filter
  IN  /\ Answered(i, "ok") /\ task.then \in {"delete", "mkdir", "rename"}
      /\ ThenLoad(i, cancelCommanderPendingOperation(widget),
           << CASE task.then = "delete" -> PlainLoad(op.pane, op.path, "replace", task.seen)
                [] task.then = "mkdir"  -> Load(op.pane, op.path, "replace", filter, to, <<>>)
                [] task.then = "rename" -> Load(op.pane, op.path, "replace", filter, to, all) >>)

\* the dialog is set as it was when the save began
FinishSave(i) ==
  LET task == tasks[i]
      d    == task.dialog
  IN  /\ Answered(i, "ok") /\ task.then = "save"
      /\ ThenLoad(i, [widget EXCEPT !.dialog = [d EXCEPT !.dirty = FALSE]],
                  <<Load(d.pane, d.id[1], "replace", task.seen[d.pane].filter, d.id, <<d.id>>)>>)

handleTransferMutationError(i) ==
  /\ Answered(i, "failed") /\ tasks[i].then \in Transferring
  /\ inFlight' = FALSE
  /\ EndWithError(i, tasks[i].op.tpane, tasks[i].op.tpath)

EditFails(i) ==
  /\ Answered(i, "failed") /\ tasks[i].then \in {"delete", "mkdir", "rename"}
  /\ inFlight' = FALSE
  /\ EndWithError(i, tasks[i].op.pane, tasks[i].op.path)

SaveFails(i) ==
  /\ Answered(i, "failed") /\ tasks[i].then = "save"
  /\ inFlight' = FALSE
  /\ EndWithError(i, tasks[i].dialog.pane, tasks[i].dialog.id[1])

\* an error of a read is shown in the pane as it is now, stale or not
ReadFails(i) ==
  LET p == tasks[i].dialog.pane
  IN  /\ Answered(i, "failed")
      /\ tasks[i].then \in {"read", "open"} /\ tasks[i].dialog.mode # "blocked"
      /\ tasks' = RemoveAt(tasks, i)
      /\ Redirect(p, IF tasks[i].then = "open" THEN tasks[i].dialog.id[1]
                     ELSE widget.panes[p].path)
      /\ failed' = [failed EXCEPT ![p] = TRUE]
      /\ UNCHANGED inFlight
      /\ Received

Opened(i) ==
  /\ Answered(i, "ok") /\ tasks[i].then = "open"
  /\ tasks' = RemoveAt(tasks, i)
  /\ UNCHANGED <<widget, timer, inFlight, wanted, failed>>
  /\ Received

\* the editor falls back to a preview, of which only the size is used
ReadBinary(i) ==
  /\ Answered(i, "binary")
  /\ tasks' = [tasks EXCEPT ![i].call = [@ EXCEPT !.op = "view", !.status = "sent"],
                            ![i].dialog.mode = "blocked"]
  /\ UNCHANGED <<widget, timer, inFlight, wanted, failed>>
  /\ Received

setCommanderFileDialog(i) ==
  LET d == tasks[i].dialog
  IN  /\ tasks[i].then = "read"
      /\ Answered(i, "ok") \/ (Answered(i, "failed") /\ d.mode = "blocked")
      /\ tasks' = RemoveAt(tasks, i)
      /\ IF tasks[i].current
         THEN Store([widget EXCEPT !.dialog =
                [d EXCEPT !.mode = IF @ = "view" /\ d.id[2] \in Binary THEN "blocked" ELSE @]])
         ELSE UNCHANGED <<widget, timer>>
      /\ UNCHANGED <<inFlight, wanted, failed>>
      /\ Received

\* Variant: the answer of a superseded load is applied
ApplyLoadAnyway(w, load) ==
  IF load.status = "ok"
  THEN hydrateCommanderPaneDirectory(w, load)
  ELSE setCommanderPaneLoadError(w, load.pane, load.path)

\* a listing or its error, when no newer load of the pane was started
ApplyLoad(w, load) ==
  IF ~load.current THEN w
  ELSE IF load.status = "ok" THEN hydrateCommanderPaneDirectory(w, load)
  ELSE setCommanderPaneLoadError(w, load.pane, load.path)

\* what the function does when its last load has returned
Finish(task, ts, w) ==
  LET op == task.op
  IN  CASE task.then = "none" ->
             tasks' = ts /\ Store(w) /\ UNCHANGED inFlight
        [] task.then = "filter" ->
             /\ tasks' = ts /\ UNCHANGED inFlight
             /\ Store(cancelCommanderPendingOperation(
                        setCommanderPaneFilterQuery(w, op.pane, op.mask)))
        [] task.then = "clear" ->
             /\ tasks' = ts /\ UNCHANGED inFlight
             /\ Store(setCommanderPaneFilterQuery(
                        setCommanderPaneFilterQuery(w, op.pane, None), w.active, None))
        [] task.then \in {"copy", "move", "transfer"} ->
             /\ tasks' = ts /\ inFlight' = FALSE
             /\ Store(cancelCommanderPendingOperation(w))
        [] task.then = "overwrite" ->
             Continue(ts, w, removePendingTransferEntry(op, Head(op.conflicts)), task.seen, TRUE)
        [] OTHER ->
             tasks' = ts /\ inFlight' = FALSE /\ Store(w)

ReceiveLoad(i, k) ==
  LET task == tasks[i]
      load == task.loads[k]
      w    == ApplyLoad(widget, load)
      left == [task EXCEPT !.loads = RemoveAt(@, k)]
  IN  /\ load.status # "sent"
      /\ IF left.loads = <<>>
         THEN Finish(task, RemoveAt(tasks, i), w)
         ELSE tasks' = [tasks EXCEPT ![i] = left] /\ Store(w) /\ UNCHANGED inFlight
      /\ failed' = IF load.current THEN [failed EXCEPT ![load.pane] = load.status = "failed"]
                   ELSE failed
      /\ UNCHANGED wanted
      /\ Received

--------------------------------------------------------------------------------
(***************************************************************************)
(* Persistence and restart.                                                 *)
(***************************************************************************)
\* 120 ms after the last change of the store
writePersistedCommanderWidgets ==
  /\ timer
  /\ disk' = serializeCommanderWidgetRuntimeState(widget)
  /\ timer' = FALSE
  /\ UNCHANGED <<fs, widget, inFlight, context, tasks, session, ops, fails, history>>

\* the page is reloaded: what was not written yet and every task is lost
Restart ==
  /\ Starting
  /\ ops < session.ops /\ ops' = ops + 1
  /\ widget' = createCommanderWidgetRuntimeState(disk)
  /\ inFlight' = FALSE /\ context' = "pending" /\ tasks' = <<>> /\ timer' = FALSE
  /\ wanted' = [p \in PaneId |-> None]
  /\ unflagged' = FALSE /\ failed' = [p \in PaneId |-> FALSE]
  /\ UNCHANGED <<fs, disk, session, fails>>

Operate ==
  \/ \E p \in PaneId, id \in EntryId : openPaneEntry(p, id)
  \/ \E p \in PaneId, path \in Path : confirmPathEdit(p, path)
  \/ \E p \in PaneId : \/ startPathEdit(p) \/ goPaneParent(p) \/ goPaneBack(p)
                       \/ goPaneForward(p) \/ setCommanderActivePane(p)
  \/ cancelPathEdit \/ switchCommanderActivePane
  \/ toggleCommanderShowHidden \/ toggleCommanderDirsFirst \/ clearActivePaneFilter
  \/ \E mode \in {"split", "commander"} : setCommanderViewMode(mode)
  \/ \E mode \in {"name", "size"} : setCommanderSortMode(mode)
  \/ \E p \in PaneId, id \in EntryId :
       \/ \E range \in BOOLEAN : setCommanderPaneCursor(p, id, range)
       \/ toggleCommanderPaneSelection(p, id)
       \/ \E mode \in {"view", "edit"} : openFileDialogForEntry(p, id, mode)
  \/ \E extend \in BOOLEAN :
       \/ \E delta \in {-1, 1} : moveCommanderActivePaneCursor(delta, extend)
       \/ \E boundary \in {"start", "end"} : setCommanderPaneBoundaryCursor(boundary, extend)
       \/ toggleCommanderActivePaneSelection(extend)
  \/ invertCommanderActivePaneSelection
  \/ requestCopy \/ requestMove \/ requestDelete \/ requestRename \/ requestMkdir
  \/ \E kind \in Prompt : requestMask(kind)
  \/ \E mask \in {None, {2}, Name} : typeMask(mask)
  \/ \E name \in {None, 2} \cup ToSet(Fresh) : typeName(name)
  \/ \E template \in Template : typeTemplate(template)
  \/ \E delta \in {-1, 1} : stepCommanderPendingSearchMatch(delta)
  \/ cancelPendingOperation \/ confirmPendingOperationAsync
  \/ overwriteAllPendingConflicts \/ skipAllPendingConflicts
  \/ overwritePendingConflict \/ skipPendingConflict
  \/ setCommanderFileDialogDraft \/ closeCommanderFileDialog \/ saveFileDialogAsync
  \/ \E what \in {"open", "folder"} : openFileDialogEntryExternallyAsync(what)

Serve ==
  \E i \in DOMAIN tasks :
    \/ ServeCall(i)
    \/ \E k \in DOMAIN tasks[i].loads : listCommanderDirectory(i, k)

Receive ==
  \E i \in DOMAIN tasks :
    \/ performTransferMutation(i) \/ FinishEdit(i) \/ FinishSave(i)
    \/ handleTransferMutationError(i) \/ EditFails(i) \/ SaveFails(i) \/ ReadFails(i)
    \/ Opened(i) \/ ReadBinary(i) \/ setCommanderFileDialog(i)
    \/ \E k \in DOMAIN tasks[i].loads : ReceiveLoad(i, k)

Next ==
  \/ Operate \/ Restart
  \/ ContextResolved \/ ContextFails
  \/ Serve \/ Receive
  \/ \E i \in DOMAIN tasks : RequestFails(i)
  \/ writePersistedCommanderWidgets

\* requests are answered, answers are handled and the timer fires.  A task in
\* flight can always be served or go on, so the second conjunct is
\* WF_vars(Serve \/ Receive), written without ENABLED for TLC's sake.
Fairness == /\ WF_vars(ContextResolved)
            /\ []<>(tasks = <<>>) \/ []<><<Serve \/ Receive>>_vars
            /\ WF_vars(writePersistedCommanderWidgets)

Spec == Init /\ [][Next]_vars /\ Fairness

--------------------------------------------------------------------------------
\* A pane's rows are always the projection of its listing under the widget's
\* view settings and its filter, and cursor, anchor and selection are rows of
\* it; only a pane that was restored and not loaded yet still holds the ids
\* that were saved (rebuildCommanderPaneState after every change).
PaneIsProjection ==
  \A p \in PaneId :
    LET pane == widget.panes[p]
        ids  == Ids(Rows(pane))
    IN  /\ pane.entries = projectCommanderEntries(pane.dir, pane.filter, View(widget))
        /\ \/ /\ pane.cursor \in ids \cup (IF ids = {} THEN {None} ELSE {})
              /\ pane.anchor \in ids \cup {None}
              /\ Ids(pane.selected) \subseteq ids
           \/ pane.loading /\ pane.dir = {}

\* The answer of the latest request wins: once the latest load of a pane has
\* returned, the pane is at the path that load asked for, or at the one a later
\* failure sent it to, whatever older answers arrive (paneRequestIdsRef in
\* loadPaneDirectory).
LatestLoadWins ==
  \A p \in PaneId :
    (wanted[p] # None /\ Unloading(p))
      => widget.panes[p].path = wanted[p]

\* A Back or Forward that will still be applied lands on the top of the stack
\* it pops, however many loads, mutations and failures were interleaved.
HistoryMatchesLoad ==
  \A i \in DOMAIN tasks : \A k \in DOMAIN tasks[i].loads :
    LET load == tasks[i].loads[k]
        pane == widget.panes[load.pane]
    IN  load.current =>
          /\ load.history = "back" => pane.back # <<>> /\ Last(pane.back) = load.path
          /\ load.history = "forward" => pane.forward # <<>> /\ Last(pane.forward) = load.path

\* Loads that overlap take effect in the order they were asked for, in the
\* path of the pane and in its history.
LoadsAreOrdered == LatestLoadWins /\ HistoryMatchesLoad

\* At most one mutation of the file system is in flight, and the in-flight
\* mark is set exactly while it is (mutationRequestInFlightRef); the transfer
\* that a skip of the last conflict starts is the one that escapes the mark.
OneMutation ==
  LET mutations == {i \in DOMAIN tasks : tasks[i].then \in Mutating}
  IN  ~unflagged => /\ Cardinality(mutations) <= 1
                    /\ inFlight <=> mutations # {}

\* Every pane stops loading and every mutation releases the widget.
LoadingEnds ==
  /\ \A p \in PaneId : []<>(~widget.panes[p].loading)
  /\ []<>(~inFlight)

\* What the operator sees is written to local storage, however the changes and
\* the debounce timer interleave (store-persistence.ts).
StateIsSaved == Starting => []<>(disk = serializeCommanderWidgetRuntimeState(widget))

\* A pane whose last load or mutation failed says so.
FailureIsShown ==
  \A p \in PaneId : failed[p] /\ ~widget.panes[p].loading => widget.panes[p].error

\* The entry that "Overwrite" sends is the one the conflict prompt names.
OverwritesWhatWasShown ==
  \A i \in DOMAIN tasks :
    (tasks[i].then = "overwrite" /\ tasks[i].call.op # "none") =>
      \A k \in DOMAIN tasks[i].call.entries :
        tasks[i].call.entries[k][3] = Head(tasks[i].op.conflicts)
================================================================================
