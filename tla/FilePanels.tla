----------------------------- MODULE FilePanels -----------------------------
(***************************************************************************)
(* The files panel and the preview panel: a listing (or a preview) that is *)
(* loaded again whenever the path or the refresh counter changes, with the *)
(* earlier request aborted, and the status lines of the actions on it.     *)
(*                                                                         *)
(* A path is the sequence of its names; what a directory holds changes     *)
(* with the version of the file system.  The preview panel shows one file. *)
(***************************************************************************)
EXTENDS Integers, Sequences, FiniteSets, SequencesExt

CONSTANTS MaxSteps,   \* operator steps
          MaxVersion, \* changes of the file system
          MaxErrors   \* requests that fail

VARIABLES panel, currentPath, pathDraft, filterValue, showHidden, sort, state, loads,
          openState, requests, latest, version, steps, errors,
          since    \* history: the version when the newest load began

panelVars == <<panel, currentPath, pathDraft, filterValue, showHidden, sort, state, loads,
               openState, requests, latest, version, steps, errors, since>>

(***************************************************************************)
(* The file system: one folder "d" with one file, and files beside it.     *)
(***************************************************************************)
Entry(name, kind, hidden, size, time) ==
    [name |-> name, kind |-> kind, hidden |-> hidden, sizeBytes |-> size, modifiedTime |-> time]
Root == <<>>
Sub == <<4>>
BlankPath == <<0>>
Entries(path, v) ==
    IF path = Root
    THEN {Entry(4, "directory", FALSE, 0, 1), Entry(2, "file", FALSE, 1, 2), Entry(3, "file", TRUE, 2, 1)}
            \cup (IF v > 1 THEN {Entry(1, "file", FALSE, 2, 2)} ELSE {})
    ELSE {Entry(2, "file", FALSE, 1, 1)}
getRuntimePathParent(path) == IF path = Root THEN Root ELSE Front(path)

(***************************************************************************)
(* The rows of the files panel.                                            *)
(***************************************************************************)
getEntryKindRank(e) == IF e.kind = "directory" THEN 0 ELSE 1
getDefaultSortDirection(mode) == IF mode \in {"modified", "size"} THEN "desc" ELSE "asc"

compareBy(mode, e, f) ==
    LET first == CASE mode = "kind" -> getEntryKindRank(e) - getEntryKindRank(f)
                   [] mode = "modified" -> e.modifiedTime - f.modifiedTime
                   [] mode = "size" -> e.sizeBytes - f.sizeBytes
                   [] mode = "name" -> 0
    IN IF first = 0 THEN e.name - f.name ELSE first

sortFilesPanelEntries(entries, by) ==
    LET Before(e, f) ==
            IF by.mode # "kind" /\ getEntryKindRank(e) # getEntryKindRank(f)
            THEN getEntryKindRank(e) < getEntryKindRank(f)
            ELSE IF by.direction = "desc" THEN compareBy(by.mode, f, e) < 0 ELSE compareBy(by.mode, e, f) < 0
    IN SetToSortSeq(entries, Before)

visibleEntries ==
    IF state.status # "ready" THEN {}
    ELSE {e \in state.entries : (showHidden \/ ~e.hidden) /\ (filterValue = 0 \/ e.name = filterValue)}
sortedEntries == sortFilesPanelEntries(visibleEntries, sort)
-----------------------------------------------------------------------------
Loading == [status |-> "loading", path |-> Root, version |-> 0, entries |-> {}]
Load(path) == [path |-> path, aborted |-> FALSE, answer |-> Loading]
NoLine == [label |-> 0, status |-> "idle"]
Slots == {"open", "copy"}

(* Variant: an answer to an older request still counts.                    *)
BeginLoadKeepsOld(path) ==
    /\ loads' = Append(loads, Load(path))
    /\ state' = Loading
    /\ since' = version

BeginLoad(path) ==
    /\ loads' = Append([i \in DOMAIN loads |-> [loads[i] EXCEPT !.aborted = TRUE]], Load(path))
    /\ state' = Loading
    /\ since' = version

PanelInit ==
    /\ panel \in {"files", "preview"}
    /\ currentPath = Root /\ pathDraft = Root
    /\ filterValue = 0 /\ showHidden = FALSE
    /\ sort = [mode |-> "name", direction |-> "asc"]
    /\ state = Loading
    /\ loads = <<Load(Root)>>
    /\ openState = [s \in Slots |-> NoLine]
    /\ requests = <<>>
    /\ latest = [s \in Slots |-> 0]
    /\ version = 1 /\ since = 1
    /\ steps = 0 /\ errors = 0

OperatorStep == steps < MaxSteps /\ steps' = steps + 1 /\ UNCHANGED <<panel, version, errors>>
Files == panel = "files"
Quiet == UNCHANGED <<currentPath, state, loads, since, openState, requests, latest>>

(***************************************************************************)
(* Moving to another directory: the effects of currentPath reset the path  *)
(* field and the status line and load the listing.                         *)
(***************************************************************************)
setCurrentPath(path) ==
    /\ currentPath' = path
    /\ pathDraft' = path
    /\ openState' = [s \in Slots |-> NoLine]
    /\ BeginLoad(path)
    /\ UNCHANGED <<requests, latest>>
View == UNCHANGED <<filterValue, showHidden, sort>>

handleOpenParent ==
    /\ OperatorStep /\ Files /\ View
    /\ currentPath # Root
    /\ setCurrentPath(getRuntimePathParent(currentPath))

handleOpenPath ==
    /\ OperatorStep /\ Files /\ View
    /\ IF pathDraft \notin {BlankPath, currentPath} THEN setCurrentPath(pathDraft)
       ELSE pathDraft' = currentPath /\ Quiet

typePath(path) == OperatorStep /\ Files /\ View /\ pathDraft' = path /\ Quiet

refreshPanel ==
    /\ OperatorStep /\ View
    /\ BeginLoad(currentPath)
    /\ UNCHANGED <<currentPath, pathDraft, openState, requests, latest>>

handleSort(mode) ==
    /\ OperatorStep /\ Files
    /\ sort' = IF sort.mode # mode THEN [mode |-> mode, direction |-> getDefaultSortDirection(mode)]
               ELSE [sort EXCEPT !.direction = IF @ = "asc" THEN "desc" ELSE "asc"]
    /\ UNCHANGED <<pathDraft, filterValue, showHidden>> /\ Quiet

setShowHidden == OperatorStep /\ Files /\ showHidden' = ~showHidden /\ UNCHANGED <<pathDraft, filterValue, sort>> /\ Quiet
setFilterValue(name) ==
    OperatorStep /\ Files /\ filterValue' = name /\ UNCHANGED <<pathDraft, showHidden, sort>> /\ Quiet

(***************************************************************************)
(* The actions on a row, on the directory and on the previewed file: open  *)
(* externally, open the folder, preview, terminal, copy the path, attach.  *)
(* Each sets its status line, waits and sets it again.  The files panel    *)
(* has one line and no guard; the preview panel has one for opening and    *)
(* one for copying, ignores all but the newest request, and disables the   *)
(* buttons of a line while it is pending.                                  *)
(***************************************************************************)
BeginAction(slot, label) ==
    /\ openState' = [openState EXCEPT ![slot] = [label |-> label, status |-> "pending"]]
    /\ latest' = [latest EXCEPT ![slot] = @ + 1]
    /\ requests' = Append(requests, [slot |-> slot, label |-> label, id |-> latest'[slot]])
    /\ UNCHANGED <<currentPath, pathDraft, state, loads, since>>

handleFileAction(label) == OperatorStep /\ Files /\ View /\ BeginAction("open", label)

handleOpenEntry(i) ==
    /\ i \in DOMAIN sortedEntries
    /\ LET e == sortedEntries[i]
       IN IF e.kind = "directory"
          THEN OperatorStep /\ Files /\ View /\ setCurrentPath(Append(currentPath, e.name))
          ELSE handleFileAction(e.name)

handlePreviewAction(slot) ==
    /\ OperatorStep /\ ~Files /\ View
    /\ openState[slot].status # "pending"
    /\ BeginAction(slot, 0)
-----------------------------------------------------------------------------
(***************************************************************************)
(* Answers.                                                                *)
(***************************************************************************)
Still == UNCHANGED <<panel, currentPath, pathDraft, filterValue, showHidden, sort, steps>>
Failing == errors < MaxErrors /\ errors' = errors + 1

listFilesDirectory(i) ==
    /\ loads[i].answer = Loading
    /\ \/ /\ loads' = [loads EXCEPT ![i].answer =
                          [status |-> "ready", path |-> loads[i].path, version |-> version,
                           entries |-> Entries(loads[i].path, version)]]
          /\ UNCHANGED errors
       \/ /\ Failing
          /\ loads' = [loads EXCEPT ![i].answer = [Loading EXCEPT !.status = "error"]]
    /\ UNCHANGED <<state, openState, requests, latest, version, since>> /\ Still

loadAnswered(i) ==
    /\ loads[i].answer # Loading
    /\ state' = IF loads[i].aborted THEN state ELSE loads[i].answer
    /\ loads' = RemoveAt(loads, i)
    /\ UNCHANGED <<openState, requests, latest, version, since, errors>> /\ Still

settle(r, status) ==
    IF ~Files /\ latest[r.slot] # r.id THEN UNCHANGED openState
    ELSE openState' = [openState EXCEPT ![r.slot] = [label |-> r.label, status |-> status]]

actionAnswered(i) ==
    /\ requests' = RemoveAt(requests, i)
    /\ \/ settle(requests[i], "success") /\ UNCHANGED errors
       \/ settle(requests[i], "error") /\ Failing
    /\ UNCHANGED <<state, loads, latest, version, since>> /\ Still

FileSystemChanges ==
    /\ version < MaxVersion
    /\ version' = version + 1
    /\ UNCHANGED <<state, loads, openState, requests, latest, since, errors>> /\ Still

PanelNext ==
    \/ handleOpenParent \/ handleOpenPath \/ refreshPanel \/ setShowHidden
    \/ \E path \in {Root, Sub, BlankPath} : typePath(path)
    \/ \E mode \in {"name", "size", "modified", "kind"} : handleSort(mode)
    \/ \E name \in {0, 2} : setFilterValue(name)
    \/ \E i \in 1 .. 4 : handleOpenEntry(i)
    \/ handleFileAction(0)
    \/ \E slot \in Slots : handlePreviewAction(slot)
    \/ \E i \in DOMAIN loads : listFilesDirectory(i) \/ loadAnswered(i)
    \/ \E i \in DOMAIN requests : actionAnswered(i)
    \/ FileSystemChanges

PanelSpec == PanelInit /\ [][PanelNext]_panelVars
-----------------------------------------------------------------------------
\* The panel never shows the listing of a path it has left, nor one read before
\* the refresh that was asked for last; it is loading exactly while the newest
\* request is unanswered; and a pending status line has a request under way.
\* It is about the abort in the cleanup of the load effect and about the status
\* being set before the await and after it on every path.
PanelIsCurrent ==
    /\ state.status = "ready" => state.path = currentPath /\ state.version >= since
    /\ state.status = "loading" <=> \E i \in DOMAIN loads : ~loads[i].aborted
    /\ \A s \in Slots : openState[s].status = "pending" =>
          \E i \in DOMAIN requests : requests[i].slot = s /\ requests[i].label = openState[s].label
=============================================================================
