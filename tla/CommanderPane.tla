----------------------------- MODULE CommanderPane -----------------------------
(***************************************************************************)
(* One pane of the two-pane file manager: how its rows are projected from   *)
(* the directory listing, how cursor, anchor and selection move over them,  *)
(* and how the history stacks follow a loaded directory.  A pane is a       *)
(* record of the widget's store; every operator here is a reducer, from a   *)
(* pane to a pane, and has no variables of its own.                         *)
(*                                                                          *)
(* A name is a number, ordered as localeCompare orders the strings; an      *)
(* entry's id is its directory with its name.  A mask is None (no pattern)  *)
(* or a set of names, the names its wildcards match.                        *)
(***************************************************************************)
EXTENDS Naturals, Sequences, FiniteSets, SequencesExt

CONSTANTS Name,    \* the file names, a set of positive numbers
          Folder,  \* the name in the root directory that is the subdirectory
          Hidden,  \* the names that start with a dot
          Size,    \* [Name -> Nat], 0 for a folder, 1 + bytes for a file
          None

ASSUME NamesAssumption == /\ Name \subseteq Nat \ {0}
                          /\ Folder \in Name
                          /\ Hidden \subseteq Name
                          /\ Size \in [Name -> Nat]
                          /\ Size[Folder] = 0

PaneId == {"left", "right"}

Path == {"root", "sub"}

EntryId == Path \X Name

Other(p) == IF p = "left" THEN "right" ELSE "left"

\* entry ids of a sequence of names of one directory
toCommanderEntryId(path, names) == [i \in DOMAIN names |-> <<path, names[i]>>]

Ids(s) == ToSet(s)

--------------------------------------------------------------------------------
(***************************************************************************)
(* Rows: hidden entries dropped, sorted, filtered.                          *)
(***************************************************************************)
\* -1, 0 and 1 of the comparator, as "a comes before b"
Before(view, a, b) ==
  LET bySize == view.sort = "size" /\ Size[a] # Size[b]
      lower  == IF bySize THEN Size[a] > Size[b] ELSE a < b
  IN  IF view.dirsFirst /\ (a = Folder) # (b = Folder)
      THEN a = Folder
      ELSE IF view.desc THEN ~lower ELSE lower

sortCommanderEntries(names, view) ==
  SetToSortSeq(names, LAMBDA a, b : a # b /\ Before(view, a, b))

\* a mask with no pattern matches everything or nothing, as the caller says
getCommanderMatchedEntries(names, mask, emptyMeansAll) ==
  IF mask # None THEN names \cap mask
  ELSE IF emptyMeansAll THEN names ELSE {}

projectCommanderEntries(dir, filter, view) ==
  sortCommanderEntries(
    getCommanderMatchedEntries(
      {n \in dir : view.showHidden \/ n \notin Hidden}, filter, TRUE), view)

\* the ids of the rows a pane shows
Rows(pane) == toCommanderEntryId(pane.path, pane.entries)

Row(pane, i) == <<pane.path, pane.entries[i]>>

\* the position of an id among the rows, 0 when it is not shown
RowIndex(pane, id) ==
  IF id \in Ids(Rows(pane))
  THEN CHOOSE i \in DOMAIN pane.entries : Row(pane, i) = id
  ELSE 0

FirstRow(pane) == IF pane.entries = <<>> THEN None ELSE Row(pane, 1)

LastRow(pane) == IF pane.entries = <<>> THEN None
                 ELSE Row(pane, Len(pane.entries))

--------------------------------------------------------------------------------
(***************************************************************************)
(* Panes.                                                                   *)
(***************************************************************************)
createEmptyPaneState ==
  [path |-> None, filter |-> None, dir |-> {}, entries |-> <<>>, cursor |-> None,
   anchor |-> None, selected |-> <<>>, back |-> <<>>, forward |-> <<>>,
   loading |-> TRUE, error |-> FALSE]

createPaneStateFromPersisted(saved) ==
  [path |-> saved.path, filter |-> saved.filter, dir |-> {}, entries |-> <<>>,
   cursor |-> saved.cursor, anchor |-> saved.anchor, selected |-> saved.selected,
   back |-> saved.back, forward |-> saved.forward,
   loading |-> TRUE, error |-> FALSE]

serializePaneState(pane) ==
  [path |-> pane.path, filter |-> pane.filter, cursor |-> pane.cursor,
   anchor |-> pane.anchor, selected |-> pane.selected, back |-> pane.back,
   forward |-> pane.forward]

\* Variant: the selection is kept as it was
RebuildKeepsSelection(pane, view) ==
  LET shown  == [pane EXCEPT !.entries =
                   projectCommanderEntries(pane.dir, pane.filter, view)]
      ids    == Ids(Rows(shown))
      cursor == IF pane.cursor \in ids THEN pane.cursor ELSE FirstRow(shown)
  IN  [shown EXCEPT
         !.cursor   = cursor,
         !.anchor   = IF pane.anchor \in ids THEN pane.anchor ELSE cursor,
         !.loading  = FALSE,
         !.error    = FALSE]

\* what is not shown any more is neither cursor nor anchor nor selected; the
\* loading mark and the error are cleared whatever the caller asked for
buildCommanderPaneState(pane, view) ==
  LET shown  == [pane EXCEPT !.entries =
                   projectCommanderEntries(pane.dir, pane.filter, view)]
      ids    == Ids(Rows(shown))
      cursor == IF pane.cursor \in ids THEN pane.cursor ELSE FirstRow(shown)
  IN  [shown EXCEPT
         !.selected = SelectSeq(pane.selected, LAMBDA id : id \in ids),
         !.cursor   = cursor,
         !.anchor   = IF pane.anchor \in ids THEN pane.anchor ELSE cursor,
         !.loading  = FALSE,
         !.error    = FALSE]

\* a listing arrives: the history stacks follow how the directory was reached
hydratePane(pane, view, load) ==
  LET here == IF pane.path = None THEN <<>> ELSE <<pane.path>>
  IN  buildCommanderPaneState(
        [pane EXCEPT
           !.path     = load.path,
           !.filter   = load.filter,
           !.dir      = load.listing,
           !.selected = load.selected,
           !.cursor   = load.cursor,
           !.anchor   = load.anchor,
           !.back     = CASE load.history \in {"push", "forward"} -> @ \o here
                          [] load.history = "back" -> Front(@)
                          [] OTHER -> @,
           !.forward  = CASE load.history = "push" -> <<>>
                          [] load.history = "back" -> @ \o here
                          [] load.history = "forward" -> Front(@)
                          [] OTHER -> @], view)

\* a load or a mutation failed: the pane moves to the path, without its rows
failPane(pane, view, path) ==
  LET moved == path # pane.path
  IN  buildCommanderPaneState(
        [pane EXCEPT !.path     = path,
                     !.dir      = IF moved THEN {} ELSE @,
                     !.selected = IF moved THEN <<>> ELSE @,
                     !.cursor   = IF moved THEN None ELSE @,
                     !.anchor   = IF moved THEN None ELSE @,
                     !.error    = TRUE], view)

--------------------------------------------------------------------------------
(***************************************************************************)
(* Cursor and selection.                                                    *)
(***************************************************************************)
At(pane, id) == [pane EXCEPT !.cursor = id, !.anchor = id]

\* the row a step of delta from the cursor ends on, clamped to the rows
Stepped(pane, delta) ==
  LET from == IF RowIndex(pane, pane.cursor) = 0 THEN 1
              ELSE RowIndex(pane, pane.cursor)
      to   == IF from + delta < 1 THEN 1
              ELSE IF from + delta > Len(pane.entries) THEN Len(pane.entries)
              ELSE from + delta
  IN  Row(pane, to)

movePaneCursor(pane, delta) ==
  IF pane.entries = <<>> THEN pane ELSE At(pane, Stepped(pane, delta))

setCursorToBoundary(pane, boundary) ==
  IF pane.entries = <<>> THEN pane
  ELSE At(pane, IF boundary = "start" THEN FirstRow(pane) ELSE LastRow(pane))

\* the rows between the anchor and the target are selected, and nothing else
setSelectionRangeAtCursor(pane, target) ==
  LET anchor == IF pane.anchor # None THEN pane.anchor
                ELSE IF pane.cursor # None THEN pane.cursor ELSE target
      to     == RowIndex(pane, target)
      from   == IF RowIndex(pane, anchor) = 0 THEN to ELSE RowIndex(pane, anchor)
      first  == IF from <= to THEN from ELSE to
      last   == IF from <= to THEN to ELSE from
  IN  IF to = 0 THEN pane
      ELSE [pane EXCEPT !.cursor = target, !.anchor = anchor,
                        !.selected = SubSeq(Rows(pane), first, last)]

movePaneCursorWithSelection(pane, delta) ==
  IF pane.entries = <<>> THEN pane
  ELSE setSelectionRangeAtCursor(pane, Stepped(pane, delta))

setCursorToBoundaryWithSelection(pane, boundary) ==
  IF pane.entries = <<>> THEN pane
  ELSE setSelectionRangeAtCursor(pane,
         IF boundary = "start" THEN FirstRow(pane) ELSE LastRow(pane))

\* a selected entry is appended: the selection keeps the order of the clicks
toggleEntrySelection(pane, id) ==
  IF RowIndex(pane, id) = 0 THEN pane
  ELSE [pane EXCEPT !.anchor   = id,
                    !.selected = IF id \in Ids(@)
                                 THEN SelectSeq(@, LAMBDA s : s # id)
                                 ELSE Append(@, id)]

AnchorOr(pane, ids) == IF pane.cursor # None THEN pane.cursor
                       ELSE IF ids = <<>> THEN None ELSE Head(ids)

getCommanderMaskMatches(pane, mask) ==
  SelectSeq(pane.entries, LAMBDA n :
    n \in getCommanderMatchedEntries(ToSet(pane.entries), mask, FALSE))

applySelectionMaskToPane(pane, mask, mode) ==
  LET hit   == {<<pane.path, n>> : n \in ToSet(getCommanderMaskMatches(pane, mask))}
      after == IF mode = "select"
               THEN SelectSeq(Rows(pane), LAMBDA id :
                                id \in Ids(pane.selected) \cup hit)
               ELSE SelectSeq(pane.selected, LAMBDA id : id \notin hit)
  IN  [pane EXCEPT !.selected = after,
                   !.anchor = IF @ # None THEN @ ELSE AnchorOr(pane, after)]

invertPaneSelection(pane) ==
  LET after == SelectSeq(Rows(pane), LAMBDA id : id \notin Ids(pane.selected))
  IN  [pane EXCEPT !.selected = after, !.anchor = AnchorOr(pane, after)]

--------------------------------------------------------------------------------
(***************************************************************************)
(* Search and conflicts.                                                    *)
(***************************************************************************)
\* an empty query finds nothing; a query here is a set of names, the names
\* that contain it
getCommanderSearchMatches(pane, query) ==
  IF query = None THEN <<>>
  ELSE SelectSeq(Rows(pane), LAMBDA id : id[2] \in query)

\* the cursor's own hit when it is one, else the remembered hit, clamped
getCommanderResolvedSearchMatchIndex(matches, cursor, fallback) ==
  IF matches = <<>> THEN 0
  ELSE IF cursor \in Ids(matches)
       THEN CHOOSE i \in DOMAIN matches : matches[i] = cursor
       ELSE IF fallback > Len(matches) THEN Len(matches)
       ELSE IF fallback < 1 THEN 1 ELSE fallback

\* the selection, or the row under the cursor
getOperationEntryIds(pane) ==
  IF pane.selected # <<>> THEN pane.selected
  ELSE IF pane.cursor # None THEN <<pane.cursor>> ELSE <<>>

\* the ids that the last listing of the pane still has, in the order given
resolveEntriesInOrder(pane, ids) ==
  SelectSeq(ids, LAMBDA id : id[1] = pane.path /\ id[2] \in pane.dir)

NamesOf(ids) == [i \in DOMAIN ids |-> ids[i][2]]

getCommanderConflictingEntryNames(source, target, ids) ==
  IF source.path = target.path THEN <<>>
  ELSE SelectSeq(NamesOf(resolveEntriesInOrder(source, ids)),
                 LAMBDA n : n \in target.dir)

getCommanderEntryNameConflict(pane, name, ignore) ==
  \E n \in pane.dir : n = name /\ <<pane.path, n>> # ignore

\* the first name of the form "x-copy", "x-copy-2" ... that is free; Fresh is
\* the order in which they are tried
suggestCommanderCloneName(pane, id, Fresh) ==
  LET free == SelectSeq(Fresh, LAMBDA n :
                ~getCommanderEntryNameConflict(pane, n, id))
  IN  IF resolveEntriesInOrder(pane, <<id>>) = <<>> THEN None
      ELSE IF free = <<>> THEN Last(Fresh) ELSE Head(free)
================================================================================
