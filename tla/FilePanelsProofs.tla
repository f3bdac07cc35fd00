--------------------------- MODULE FilePanelsProofs ---------------------------
(***************************************************************************)
(* Proofs about FilePanels, for any number of steps, changes of the file   *)
(* system and failing requests: a panel shows its own path, as it was      *)
(* after the newest request for it began.  Of the loads of a panel only    *)
(* the newest is not aborted, so no other one can be shown (LoadsOK).      *)
(***************************************************************************)
EXTENDS FilePanels, TLAPS

-----------------------------------------------------------------------------
(* Sequences.                                                              *)

IsSeq(s) == \E S : s \in Seq(S)

(* An element more.                                                        *)
LEMMA PutBehind ==
  ASSUME NEW s, IsSeq(s), NEW x
  PROVE  /\ IsSeq(Append(s, x)) /\ Len(s) + 1 \notin DOMAIN s
         /\ DOMAIN Append(s, x) = DOMAIN s \cup {Len(s) + 1}
         /\ Append(s, x)[Len(s) + 1] = x /\ \A i \in DOMAIN s : Append(s, x)[i] = s[i]
<1>1. PICK S : s \in Seq(S)
  BY Zenon DEF IsSeq
<1>2. PICK T : T = S \cup {x}
  BY Zenon
<1>3. s \in Seq(T) /\ x \in T
  BY <1>1, <1>2
<1>4. Append(s, x) \in Seq(T)
  BY <1>3
<1>5. IsSeq(Append(s, x))
  BY <1>4, Zenon DEF IsSeq
<1>6. DOMAIN s = 1..Len(s) /\ Len(s) \in Nat
  BY <1>3
<1>7. Len(s) + 1 \notin DOMAIN s
  BY <1>6
<1>8. DOMAIN Append(s, x) = 1..(Len(s) + 1)
  BY <1>3
<1>9. DOMAIN Append(s, x) = DOMAIN s \cup {Len(s) + 1}
  BY <1>6, <1>8
<1>10. Append(s, x)[Len(s) + 1] = x /\ \A i \in 1..Len(s) : Append(s, x)[i] = s[i]
  BY <1>3
<1> QED BY <1>5, <1>6, <1>7, <1>9, <1>10, Zenon

LEMMA Joined ==
  ASSUME NEW S, NEW a \in Seq(S), NEW b \in Seq(S)
  PROVE  /\ a \o b \in Seq(S) /\ Len(a \o b) = Len(a) + Len(b) /\ DOMAIN (a \o b) = 1..(Len(a) + Len(b))
         /\ \A k \in 1..(Len(a) + Len(b)) : (a \o b)[k] = IF k <= Len(a) THEN a[k] ELSE b[k - Len(a)]
<1>1. a \o b \in Seq(S) /\ Len(a \o b) = Len(a) + Len(b)
  OBVIOUS
<1>2. DOMAIN (a \o b) = 1..(Len(a) + Len(b))
  BY <1>1
<1>3. \A k \in 1..(Len(a) + Len(b)) : (a \o b)[k] = IF k <= Len(a) THEN a[k] ELSE b[k - Len(a)]
  OBVIOUS
<1> QED BY <1>1, <1>2, <1>3, Zenon

(* Taking an element out of a sequence.                                    *)
LEMMA TakenOut ==
  ASSUME NEW s, IsSeq(s), NEW i \in DOMAIN s
  PROVE  /\ IsSeq(RemoveAt(s, i)) /\ DOMAIN RemoveAt(s, i) = 1..(Len(s) - 1)
         /\ DOMAIN s = 1..Len(s) /\ Len(s) \in Nat
         /\ \A k \in 1..(Len(s) - 1) : RemoveAt(s, i)[k] = s[IF k < i THEN k ELSE k + 1]
<1>1. PICK S : s \in Seq(S)
  BY Zenon DEF IsSeq
<1>2. DOMAIN s = 1..Len(s) /\ Len(s) \in Nat /\ i \in 1..Len(s)
  BY <1>1
<1>3. PICK a : a = SubSeq(s, 1, i - 1)
  BY Zenon
<1>4. PICK b : b = SubSeq(s, i + 1, Len(s))
  BY Zenon
<1>5. a \in Seq(S) /\ Len(a) = i - 1 /\ \A k \in 1..(i - 1) : a[k] = s[k]
  BY <1>1, <1>2, <1>3
<1>6. b \in Seq(S) /\ Len(b) = Len(s) - i /\ \A k \in 1..(Len(s) - i) : b[k] = s[i + k]
  BY <1>1, <1>2, <1>4
<1>7. RemoveAt(s, i) = a \o b
  BY <1>3, <1>4, Zenon DEF RemoveAt
<1>8. /\ a \o b \in Seq(S) /\ Len(a \o b) = Len(a) + Len(b) /\ DOMAIN (a \o b) = 1..(Len(a) + Len(b))
      /\ \A k \in 1..(Len(a) + Len(b)) : (a \o b)[k] = IF k <= Len(a) THEN a[k] ELSE b[k - Len(a)]
  BY <1>5, <1>6, Joined, Zenon
<1>9. Len(a) + Len(b) = Len(s) - 1
  BY <1>2, <1>5, <1>6
<1>10. ASSUME NEW k \in 1..(Len(s) - 1)
       PROVE  (a \o b)[k] = s[IF k < i THEN k ELSE k + 1]
  <2>0. (a \o b)[k] = IF k <= Len(a) THEN a[k] ELSE b[k - Len(a)]
    BY <1>8, <1>9, Zenon
  <2>1. CASE k < i
    <3>1. k \in 1..(i - 1) /\ k <= Len(a)
      BY <2>1, <1>2, <1>5
    <3> QED BY <2>0, <2>1, <3>1, <1>5, Zenon
  <2>2. CASE ~(k < i)
    <3>1. k - Len(a) \in 1..(Len(s) - i) /\ i + (k - Len(a)) = k + 1 /\ ~(k <= Len(a))
      BY <2>2, <1>2, <1>5
    <3>2. b[k - Len(a)] = s[k + 1]
      BY <3>1, <1>6, Zenon
    <3> QED BY <2>0, <2>2, <3>1, <3>2, Zenon
  <2> QED BY <2>1, <2>2, Zenon
<1>11. IsSeq(RemoveAt(s, i)) /\ DOMAIN RemoveAt(s, i) = 1..(Len(s) - 1)
  BY <1>7, <1>8, <1>9, Zenon DEF IsSeq
<1> QED BY <1>2, <1>7, <1>10, <1>11, Zenon

(* An element that is taken out leaves the others in their order.          *)
LEMMA OthersStay ==
  ASSUME NEW s, IsSeq(s), NEW i \in DOMAIN s, NEW r, r = RemoveAt(s, i)
  PROVE  /\ IsSeq(r)
         /\ \A k \in DOMAIN r : \E j \in DOMAIN s \ {i} : r[k] = s[j]
         /\ \A j \in DOMAIN s \ {i} : \E k \in DOMAIN r : r[k] = s[j]
<1>1. /\ IsSeq(r) /\ DOMAIN r = 1..(Len(s) - 1) /\ DOMAIN s = 1..Len(s) /\ Len(s) \in Nat
      /\ \A k \in 1..(Len(s) - 1) : r[k] = s[IF k < i THEN k ELSE k + 1]
  BY TakenOut, Zenon
<1>2. ASSUME NEW k \in DOMAIN r PROVE \E j \in DOMAIN s \ {i} : r[k] = s[j]
  <2>1. (IF k < i THEN k ELSE k + 1) \in DOMAIN s \ {i}
    BY <1>1
  <2> QED BY <1>1, <2>1, Zenon
<1>3. ASSUME NEW j \in DOMAIN s \ {i} PROVE \E k \in DOMAIN r : r[k] = s[j]
  <2>1. PICK k : k = IF j < i THEN j ELSE j - 1
    BY Zenon
  <2>2. k \in DOMAIN r /\ (IF k < i THEN k ELSE k + 1) = j
    BY <1>1, <2>1
  <2> QED BY <1>1, <2>2, Zenon
<1> QED BY <1>1, <1>2, <1>3, Zenon

-----------------------------------------------------------------------------
(* The file panels.  At most one load is not aborted, it is for the path   *)
(* on screen, and what it answers was read after it began; a line that is  *)
(* pending has a request, in the preview panel the newest of the line.     *)

LoadField == {"path", "aborted", "answer"}

LoadOK(l, path, v) ==
  /\ l = [f \in LoadField |-> l[f]] /\ l.aborted \in BOOLEAN
  /\ l.answer = Loading \/ l.answer.status \in {"ready", "error"}
  /\ l.answer.status = "ready" => l.answer.path = l.path
  /\ ~l.aborted => l.path = path /\ (l.answer.status = "ready" => l.answer.version >= v)

LoadsOK(ls, path, v) ==
  /\ IsSeq(ls)
  /\ \A i \in DOMAIN ls : LoadOK(ls[i], path, v)
  /\ \A i, j \in DOMAIN ls : ~ls[i].aborted /\ ~ls[j].aborted => i = j

ShownOK(st, ls, path, v) ==
  /\ st.status = "ready" => st.path = path /\ st.version >= v
  /\ st.status = "loading" <=> \E i \in DOMAIN ls : ~ls[i].aborted

Awaited(q, r, s, line, id) == r.slot = s /\ r.label = line.label /\ (q = "preview" => r.id = id)

LinesOK(q, lines, rs, ids) ==
  /\ IsSeq(rs)
  /\ lines = [s \in Slots |-> lines[s]] /\ ids = [s \in Slots |-> ids[s]]
  /\ \A s \in Slots : lines[s].status = "pending" =>
        \E i \in DOMAIN rs : Awaited(q, rs[i], s, lines[s], ids[s])

PanelInv ==
  /\ panel \in {"files", "preview"} /\ version \in Nat /\ since \in Nat /\ since <= version
  /\ LoadsOK(loads, currentPath, since) /\ ShownOK(state, loads, currentPath, since)
  /\ LinesOK(panel, openState, requests, latest)

(* A new load aborts all others.                                           *)
LEMMA BeginLoadKeeps ==
  ASSUME PanelInv, NEW path, BeginLoad(path)
  PROVE  LoadsOK(loads', path, since') /\ ShownOK(state', loads', path, since') /\ since' = version
<1>1. PICK old : old = [i \in DOMAIN loads |-> [loads[i] EXCEPT !.aborted = TRUE]]
  BY Zenon
<1>2. IsSeq(old) /\ DOMAIN old = DOMAIN loads
  <2>1. PICK S : loads \in Seq(S)
    BY Zenon DEF PanelInv, LoadsOK, IsSeq
  <2>2. PICK T : T = {[l EXCEPT !.aborted = TRUE] : l \in S}
    BY Zenon
  <2>3. DOMAIN loads = 1..Len(loads) /\ Len(loads) \in Nat /\ \A i \in DOMAIN loads : loads[i] \in S
    BY <2>1
  <2>4. old \in [1..Len(loads) -> T]
    BY <1>1, <2>2, <2>3, Zenon
  <2>5. old \in Seq(T)
    BY <2>3, <2>4
  <2> QED BY <1>1, <2>5, Zenon DEF IsSeq
<1>3. \A i \in DOMAIN old : LoadOK(old[i], path, version) /\ old[i].aborted
  <2> SUFFICES ASSUME NEW i \in DOMAIN old PROVE LoadOK(old[i], path, version) /\ old[i].aborted
    OBVIOUS
  <2>1. LoadOK(loads[i], currentPath, since)
    BY <1>2, Zenon DEF PanelInv, LoadsOK
  <2>2. old[i] = [loads[i] EXCEPT !.aborted = TRUE]
    BY <1>1, <1>2, Zenon
  <2>3. PICK l : l = loads[i]
    BY Zenon
  <2>4. PICK m : m = [l EXCEPT !.aborted = TRUE]
    BY Zenon
  <2>5. l = [f \in LoadField |-> l[f]]
    BY <2>1, <2>3, Zenon DEF LoadOK
  <2>6. /\ m = [f \in LoadField |-> m[f]] /\ m.aborted = TRUE /\ m.path = l.path /\ m.answer = l.answer
    BY <2>4, <2>5, Zenon DEF LoadField
  <2>7. LoadOK(m, path, version)
    BY <2>1, <2>3, <2>6, Zenon DEF LoadOK
  <2> QED BY <2>2, <2>3, <2>4, <2>6, <2>7, Zenon
<1>4. PICK new : new = Load(path)
  BY Zenon
<1>5. LoadOK(new, path, version) /\ ~new.aborted
  BY <1>4, Zenon DEF Load, LoadOK, Loading, LoadField
<1>6. loads' = Append(old, new) /\ state' = Loading /\ since' = version
  BY <1>1, <1>4, Zenon DEF BeginLoad
<1>7. /\ IsSeq(loads') /\ DOMAIN loads' = DOMAIN old \cup {Len(old) + 1} /\ Len(old) + 1 \notin DOMAIN old
      /\ loads'[Len(old) + 1] = new /\ \A i \in DOMAIN old : loads'[i] = old[i]
  <2>1. /\ IsSeq(Append(old, new)) /\ Len(old) + 1 \notin DOMAIN old
        /\ DOMAIN Append(old, new) = DOMAIN old \cup {Len(old) + 1}
        /\ Append(old, new)[Len(old) + 1] = new
        /\ \A i \in DOMAIN old : Append(old, new)[i] = old[i]
    BY <1>2, PutBehind, Zenon
  <2> QED BY <1>6, <2>1, Zenon
<1>8. LoadsOK(loads', path, version)
  BY <1>3, <1>5, <1>7, Zenon DEF LoadsOK
<1>9. state'.status = "loading"
  BY <1>6, Zenon DEF Loading
<1>10. ShownOK(state', loads', path, version)
  BY <1>5, <1>7, <1>9, Zenon DEF ShownOK
<1> QED BY <1>6, <1>8, <1>10, Zenon

(* The files panel moves to another directory.                             *)
LEMMA MoveKeeps ==
  ASSUME PanelInv, NEW path, setCurrentPath(path), UNCHANGED <<panel, version>>
  PROVE  PanelInv'
<1>1. BeginLoad(path) /\ currentPath' = path /\ requests' = requests /\ latest' = latest
      /\ openState' = [s \in Slots |-> NoLine]
  BY Zenon DEF setCurrentPath
<1>2. LoadsOK(loads', currentPath', since') /\ ShownOK(state', loads', currentPath', since') /\ since' = version
  BY <1>1, BeginLoadKeeps, Zenon
<1>3. NoLine.status # "pending"
  BY Zenon DEF NoLine
<1>4. LinesOK(panel', openState', requests', latest')
  BY <1>1, <1>3, Zenon DEF PanelInv, LinesOK
<1>5. version' \in Nat /\ since' \in Nat /\ since' <= version' /\ panel' \in {"files", "preview"}
  BY <1>2 DEF PanelInv
<1> QED BY <1>2, <1>4, <1>5, Zenon DEF PanelInv

LEMMA RefreshKeeps == ASSUME PanelInv, refreshPanel PROVE PanelInv'
<1>1. BeginLoad(currentPath) /\ UNCHANGED <<currentPath, openState, requests, latest, panel, version>>
  BY Zenon DEF refreshPanel, OperatorStep
<1>2. LoadsOK(loads', currentPath', since') /\ ShownOK(state', loads', currentPath', since') /\ since' = version
  BY <1>1, BeginLoadKeeps, Zenon
<1>3. LinesOK(panel', openState', requests', latest')
  BY <1>1, Zenon DEF PanelInv
<1>4. version' \in Nat /\ since' \in Nat /\ since' <= version' /\ panel' \in {"files", "preview"}
  BY <1>1, <1>2 DEF PanelInv
<1> QED BY <1>2, <1>3, <1>4, Zenon DEF PanelInv

LEMMA QuietKeeps == ASSUME PanelInv, Quiet, UNCHANGED <<panel, version>> PROVE PanelInv'
  BY Zenon DEF PanelInv, Quiet

(* An action sets its line and sends its request.                          *)
LEMMA ActionKeeps ==
  ASSUME PanelInv, NEW slot \in Slots, NEW label, BeginAction(slot, label), UNCHANGED <<panel, version>>
  PROVE  PanelInv'
<1>1. PICK line : line = [label |-> label, status |-> "pending"]
  BY Zenon
<1>2. PICK id : id = latest'[slot]
  BY Zenon
<1>3. PICK r : r = [slot |-> slot, label |-> label, id |-> id]
  BY Zenon
<1>4. /\ openState' = [openState EXCEPT ![slot] = line] /\ requests' = Append(requests, r)
      /\ latest' = [latest EXCEPT ![slot] = @ + 1] /\ UNCHANGED <<currentPath, state, loads, since>>
  BY <1>1, <1>2, <1>3, Zenon DEF BeginAction
<1>5. /\ openState = [s \in Slots |-> openState[s]] /\ latest = [s \in Slots |-> latest[s]] /\ IsSeq(requests)
      /\ \A s \in Slots : openState[s].status = "pending" =>
            \E i \in DOMAIN requests : Awaited(panel, requests[i], s, openState[s], latest[s])
  BY Zenon DEF PanelInv, LinesOK
<1>6. /\ openState' = [s \in Slots |-> openState'[s]] /\ latest' = [s \in Slots |-> latest'[s]]
      /\ openState'[slot] = line
      /\ \A s \in Slots : s # slot => openState'[s] = openState[s] /\ latest'[s] = latest[s]
  BY <1>4, <1>5, Zenon
<1>7. /\ IsSeq(requests') /\ DOMAIN requests' = DOMAIN requests \cup {Len(requests) + 1}
      /\ requests'[Len(requests) + 1] = r /\ \A i \in DOMAIN requests : requests'[i] = requests[i]
  <2>1. /\ IsSeq(Append(requests, r)) /\ DOMAIN Append(requests, r) = DOMAIN requests \cup {Len(requests) + 1}
        /\ Append(requests, r)[Len(requests) + 1] = r
        /\ \A i \in DOMAIN requests : Append(requests, r)[i] = requests[i]
    BY <1>5, PutBehind, Zenon
  <2> QED BY <1>4, <2>1, Zenon
<1>8. Awaited(panel, r, slot, line, latest'[slot])
  BY <1>1, <1>2, <1>3, Zenon DEF Awaited
<1>9. LinesOK(panel', openState', requests', latest')
  <2>1. ASSUME NEW s \in Slots, openState'[s].status = "pending"
        PROVE  \E i \in DOMAIN requests' : Awaited(panel, requests'[i], s, openState'[s], latest'[s])
    <3>1. CASE s = slot
      BY <3>1, <1>6, <1>7, <1>8, Zenon
    <3>2. CASE s # slot
      BY <2>1, <3>2, <1>5, <1>6, <1>7, Zenon
    <3> QED BY <3>1, <3>2, Zenon
  <2> QED BY <1>6, <1>7, <2>1, Zenon DEF LinesOK
<1> QED BY <1>4, <1>9, Zenon DEF PanelInv

(* The operator's steps.                                                   *)
LEMMA OperatorKeeps ==
  ASSUME PanelInv,
         \/ handleOpenParent \/ handleOpenPath \/ refreshPanel \/ setShowHidden
         \/ \E path \in {Root, Sub, BlankPath} : typePath(path)
         \/ \E mode \in {"name", "size", "modified", "kind"} : handleSort(mode)
         \/ \E name \in {0, 2} : setFilterValue(name)
         \/ \E i \in 1 .. 4 : handleOpenEntry(i)
         \/ handleFileAction(0)
         \/ \E slot \in Slots : handlePreviewAction(slot)
  PROVE  PanelInv'
<1>0. "open" \in Slots
  BY Zenon DEF Slots
<1>1. CASE handleOpenParent
  BY <1>1, MoveKeeps, Zenon DEF handleOpenParent, OperatorStep
<1>2. CASE handleOpenPath
  BY <1>2, MoveKeeps, QuietKeeps, Zenon DEF handleOpenPath, OperatorStep
<1>3. CASE refreshPanel
  BY <1>3, RefreshKeeps, Zenon
<1>4. CASE setShowHidden
  BY <1>4, QuietKeeps, Zenon DEF setShowHidden, OperatorStep
<1>5. ASSUME NEW path \in {Root, Sub, BlankPath}, typePath(path) PROVE PanelInv'
  BY <1>5, QuietKeeps, Zenon DEF typePath, OperatorStep
<1>6. ASSUME NEW mode \in {"name", "size", "modified", "kind"}, handleSort(mode) PROVE PanelInv'
  BY <1>6, QuietKeeps, Zenon DEF handleSort, OperatorStep
<1>7. ASSUME NEW name \in {0, 2}, setFilterValue(name) PROVE PanelInv'
  BY <1>7, QuietKeeps, Zenon DEF setFilterValue, OperatorStep
<1>8. ASSUME NEW label, handleFileAction(label) PROVE PanelInv'
  BY <1>0, <1>8, ActionKeeps, Zenon DEF handleFileAction, OperatorStep
<1>9. ASSUME NEW i \in 1..4, handleOpenEntry(i) PROVE PanelInv'
  <2>1. PICK e : e = sortedEntries[i]
    BY Zenon
  <2>2. \/ OperatorStep /\ setCurrentPath(Append(currentPath, e.name))
        \/ handleFileAction(e.name)
    BY <1>9, <2>1, Zenon DEF handleOpenEntry
  <2> QED BY <2>2, <1>8, MoveKeeps, Zenon DEF OperatorStep
<1>10. ASSUME NEW slot \in Slots, handlePreviewAction(slot) PROVE PanelInv'
  BY <1>10, ActionKeeps, Zenon DEF handlePreviewAction, OperatorStep
<1> QED BY <1>1, <1>2, <1>3, <1>4, <1>5, <1>6, <1>7, <1>8, <1>9, <1>10, Zenon

(* A load is answered.                                                     *)
LEMMA ListedKeeps == ASSUME PanelInv, NEW i \in DOMAIN loads, listFilesDirectory(i) PROVE PanelInv'
<1>1. PICK x : /\ loads' = [loads EXCEPT ![i].answer = x]
               /\ x.status \in {"ready", "error"}
               /\ x.status = "ready" => x.path = loads[i].path /\ x.version = version
  <2>1. CASE loads' = [loads EXCEPT ![i].answer =
                          [status |-> "ready", path |-> loads[i].path, version |-> version,
                           entries |-> Entries(loads[i].path, version)]]
    <3>1. PICK x : x = [status |-> "ready", path |-> loads[i].path, version |-> version,
                        entries |-> Entries(loads[i].path, version)]
      BY Zenon
    <3>2. x.status = "ready" /\ x.path = loads[i].path /\ x.version = version
      BY <3>1, Zenon
    <3> QED BY <2>1, <3>1, <3>2, Zenon
  <2>2. CASE loads' = [loads EXCEPT ![i].answer = [Loading EXCEPT !.status = "error"]]
    <3>1. PICK x : x = [Loading EXCEPT !.status = "error"]
      BY Zenon
    <3>2. x.status = "error"
      BY <3>1, Zenon DEF Loading
    <3> QED BY <2>2, <3>1, <3>2, Zenon
  <2> QED BY <2>1, <2>2, Zenon DEF listFilesDirectory
<1>2. UNCHANGED <<state, openState, requests, latest, version, since, panel, currentPath>>
  BY Zenon DEF listFilesDirectory, Still
<1>3. PICK l : l = loads[i]
  BY Zenon
<1>4. PICK m : m = [l EXCEPT !.answer = x]
  BY Zenon
<1>5. LoadOK(l, currentPath, since)
  BY <1>3, Zenon DEF PanelInv, LoadsOK
<1>6. m = [f \in LoadField |-> m[f]] /\ m.aborted = l.aborted /\ m.path = l.path /\ m.answer = x
  <2>1. l = [f \in LoadField |-> l[f]]
    BY <1>5, Zenon DEF LoadOK
  <2> QED BY <1>4, <2>1, Zenon DEF LoadField
<1>7. version >= since
  BY Zenon DEF PanelInv
<1>8. LoadOK(m, currentPath, since)
  BY <1>1, <1>3, <1>5, <1>6, <1>7, Zenon DEF LoadOK
<1>9. loads' = [loads EXCEPT ![i] = m]
  BY <1>1, <1>3, <1>4, Zenon
<1>10. PICK S : loads \in Seq(S)
  BY Zenon DEF PanelInv, LoadsOK, IsSeq
<1>11. DOMAIN loads' = DOMAIN loads /\ loads'[i] = m /\ \A j \in DOMAIN loads : j # i => loads'[j] = loads[j]
  BY <1>9, Zenon
<1>12. IsSeq(loads')
  <2>1. PICK T : T = S \cup {m}
    BY Zenon
  <2>2. loads \in Seq(T) /\ m \in T
    BY <1>10, <2>1
  <2>3. loads' \in Seq(T)
    BY <1>9, <2>2
  <2> QED BY <2>3, Zenon DEF IsSeq
<1>13. \A j \in DOMAIN loads : loads'[j].aborted = loads[j].aborted
  BY <1>3, <1>6, <1>11, Zenon
<1>14. LoadsOK(loads', currentPath, since)
  BY <1>8, <1>11, <1>12, <1>13, Zenon DEF PanelInv, LoadsOK
<1>15. ShownOK(state, loads', currentPath, since)
  BY <1>11, <1>13, Zenon DEF PanelInv, ShownOK
<1> QED BY <1>2, <1>14, <1>15, Zenon DEF PanelInv

(* The panel takes the answer, unless the load was aborted.                *)
LEMMA AnsweredKeeps == ASSUME PanelInv, NEW i \in DOMAIN loads, loadAnswered(i) PROVE PanelInv'
<1>1. /\ UNCHANGED <<openState, requests, latest, version, since, panel, currentPath>>
      /\ loads[i].answer # Loading /\ loads' = RemoveAt(loads, i)
      /\ loads[i].aborted => state' = state
      /\ ~loads[i].aborted => state' = loads[i].answer
  BY Zenon DEF loadAnswered, Still
<1>2. /\ IsSeq(loads) /\ \A j \in DOMAIN loads : LoadOK(loads[j], currentPath, since)
      /\ \A j, k \in DOMAIN loads : ~loads[j].aborted /\ ~loads[k].aborted => j = k
  BY Zenon DEF PanelInv, LoadsOK
<1>3. /\ DOMAIN loads' = 1..(Len(loads) - 1) /\ DOMAIN loads = 1..Len(loads) /\ Len(loads) \in Nat
      /\ \A k \in 1..(Len(loads) - 1) : loads'[k] = loads[IF k < i THEN k ELSE k + 1]
  BY <1>1, <1>2, TakenOut, Zenon
<1>4. /\ IsSeq(loads')
      /\ \A k \in DOMAIN loads' : \E j \in DOMAIN loads \ {i} : loads'[k] = loads[j]
      /\ \A j \in DOMAIN loads \ {i} : \E k \in DOMAIN loads' : loads'[k] = loads[j]
  <2>1. PICK r : r = loads'
    BY Zenon
  <2>2. /\ IsSeq(r)
        /\ \A k \in DOMAIN r : \E j \in DOMAIN loads \ {i} : r[k] = loads[j]
        /\ \A j \in DOMAIN loads \ {i} : \E k \in DOMAIN r : r[k] = loads[j]
    BY <1>1, <1>2, <2>1, OthersStay
  <2> QED BY <2>1, <2>2, Zenon
<1>5. ASSUME NEW j \in DOMAIN loads', NEW k \in DOMAIN loads', ~loads'[j].aborted, ~loads'[k].aborted
      PROVE  j = k
  <2>1. PICK a : a = IF j < i THEN j ELSE j + 1
    BY Zenon
  <2>2. PICK b : b = IF k < i THEN k ELSE k + 1
    BY Zenon
  <2>3. a \in DOMAIN loads /\ b \in DOMAIN loads
    BY <1>3, <2>1, <2>2
  <2>4. loads'[j] = loads[a] /\ loads'[k] = loads[b]
    BY <1>3, <2>1, <2>2, Zenon
  <2>5. a = b
    BY <1>2, <1>5, <2>3, <2>4, Zenon
  <2> QED BY <1>3, <2>1, <2>2, <2>5
<1>6. LoadsOK(loads', currentPath, since)
  BY <1>2, <1>4, <1>5, Zenon DEF LoadsOK
<1>7. ShownOK(state', loads', currentPath, since)
  <2>1. ShownOK(state, loads, currentPath, since)
    BY Zenon DEF PanelInv
  <2>2. CASE loads[i].aborted
    <3>1. (\E k \in DOMAIN loads' : ~loads'[k].aborted) <=> \E j \in DOMAIN loads : ~loads[j].aborted
      BY <1>4, <2>2, Zenon
    <3> QED BY <1>1, <2>1, <2>2, <3>1, Zenon DEF ShownOK
  <2>3. CASE ~loads[i].aborted
    <3>1. \A k \in DOMAIN loads' : loads'[k].aborted
      BY <1>2, <1>4, <2>3, Zenon
    <3>2. state'.status \in {"ready", "error"}
      BY <1>1, <1>2, <2>3, Zenon DEF LoadOK
    <3>3. state'.status = "ready" => state'.path = currentPath /\ state'.version >= since
      BY <1>1, <1>2, <2>3, Zenon DEF LoadOK
    <3>4. state'.status # "loading"
      BY <3>2, Zenon
    <3> QED BY <3>1, <3>3, <3>4, Zenon DEF ShownOK
  <2> QED BY <2>2, <2>3, Zenon
<1> QED BY <1>1, <1>6, <1>7, Zenon DEF PanelInv

(* An action is answered: it sets its line, unless the preview panel has   *)
(* begun another on the same line.                                         *)
LEMMA ActionAnsweredKeeps ==
  ASSUME PanelInv, NEW i \in DOMAIN requests, actionAnswered(i)
  PROVE  PanelInv'
<1>1. PICK r : r = requests[i]
  BY Zenon
<1>2. UNCHANGED <<state, loads, latest, version, since, panel, currentPath>> /\ requests' = RemoveAt(requests, i)
  BY Zenon DEF actionAnswered, Still
<1>3. /\ IsSeq(requests)
      /\ openState = [s \in Slots |-> openState[s]] /\ latest = [s \in Slots |-> latest[s]]
      /\ \A s \in Slots : openState[s].status = "pending" =>
            \E j \in DOMAIN requests : Awaited(panel, requests[j], s, openState[s], latest[s])
  BY Zenon DEF PanelInv, LinesOK
<1>4. IsSeq(requests') /\ \A j \in DOMAIN requests \ {i} : \E k \in DOMAIN requests' : requests'[k] = requests[j]
  <2>1. PICK q : q = requests'
    BY Zenon
  <2>2. IsSeq(q) /\ \A j \in DOMAIN requests \ {i} : \E k \in DOMAIN q : q[k] = requests[j]
    BY <1>2, <1>3, <2>1, OthersStay
  <2> QED BY <2>1, <2>2, Zenon
<1>5. PICK status \in {"success", "error"} : settle(r, status)
  BY <1>1, Zenon DEF actionAnswered
<1>6. CASE ~Files /\ latest[r.slot] # r.id
  <2>1. openState' = openState
    BY <1>5, <1>6, Zenon DEF settle
  <2>2. panel = "preview"
    BY <1>6, Zenon DEF PanelInv, Files
  <2>3. \A s \in Slots : ~Awaited(panel, requests[i], s, openState[s], latest[s])
    BY <1>1, <1>6, <2>2, Zenon DEF Awaited
  <2>4. LinesOK(panel, openState', requests', latest)
    BY <1>3, <1>4, <2>1, <2>3, Zenon DEF LinesOK
  <2> QED BY <1>2, <2>4, Zenon DEF PanelInv
<1>7. CASE Files \/ latest[r.slot] = r.id
  <2>1. PICK line : line = [label |-> r.label, status |-> status]
    BY Zenon
  <2>2. openState' = [openState EXCEPT ![r.slot] = line]
    BY <1>5, <1>7, <2>1, Zenon DEF settle
  <2>3. line.status # "pending"
    BY <1>5, <2>1, Zenon
  <2>4. openState' = [s \in Slots |-> openState'[s]]
    BY <1>3, <2>2, Zenon
  <2>5. \A s \in Slots : s = r.slot => openState'[s] = line
    BY <1>3, <2>2, Zenon
  <2>6. \A s \in Slots : s # r.slot => openState'[s] = openState[s]
    BY <1>3, <2>2, Zenon
  <2>7. \A s \in Slots : s # r.slot => ~Awaited(panel, requests[i], s, openState[s], latest[s])
    BY <1>1, Zenon DEF Awaited
  <2>8. ASSUME NEW s \in Slots, openState'[s].status = "pending"
        PROVE  \E k \in DOMAIN requests' : Awaited(panel, requests'[k], s, openState'[s], latest[s])
    <3>1. s # r.slot
      BY <2>3, <2>5, <2>8, Zenon
    <3>2. PICK j \in DOMAIN requests : Awaited(panel, requests[j], s, openState[s], latest[s])
      BY <1>3, <2>6, <2>8, <3>1, Zenon
    <3>3. j # i
      BY <2>7, <3>1, <3>2, Zenon
    <3> QED BY <1>4, <2>6, <3>1, <3>2, <3>3, Zenon
  <2>9. LinesOK(panel, openState', requests', latest)
    BY <1>3, <1>4, <2>4, <2>8, Zenon DEF LinesOK
  <2> QED BY <1>2, <2>9, Zenon DEF PanelInv
<1> QED BY <1>6, <1>7, Zenon

LEMMA PanelNextKeeps == PanelInv /\ [PanelNext]_panelVars => PanelInv'
<1> SUFFICES ASSUME PanelInv, [PanelNext]_panelVars PROVE PanelInv'
  OBVIOUS
<1>1. CASE UNCHANGED panelVars
  BY <1>1, Zenon DEF PanelInv, panelVars
<1>2. ASSUME NEW i \in DOMAIN loads, listFilesDirectory(i) \/ loadAnswered(i) PROVE PanelInv'
  BY <1>2, ListedKeeps, AnsweredKeeps, Zenon
<1>3. ASSUME NEW i \in DOMAIN requests, actionAnswered(i) PROVE PanelInv'
  BY <1>3, ActionAnsweredKeeps, Zenon
<1>4. CASE FileSystemChanges
  <2>1. version' = version + 1 /\ UNCHANGED <<state, loads, openState, requests, latest, since, panel, currentPath>>
    BY <1>4, Zenon DEF FileSystemChanges, Still
  <2>2. version' \in Nat /\ since <= version'
    BY <2>1 DEF PanelInv
  <2> QED BY <2>1, <2>2, Zenon DEF PanelInv
<1> QED BY <1>1, <1>2, <1>3, <1>4, OperatorKeeps, Zenon DEF PanelNext

\* However loads, refreshes, changes of the directory and actions overlap, a
\* panel shows the listing of its own path, read after the newest request for
\* it began, and a pending status line has a request under way: PanelIsCurrent
\* in every reachable state (files-panel-widget.tsx, preview-panel-widget.tsx).
THEOREM PanelIsCurrentAlways == PanelSpec => []PanelIsCurrent
<1>1. PanelInit => PanelInv
  <2> SUFFICES ASSUME PanelInit PROVE PanelInv
    OBVIOUS
  <2>1. PICK l : l = Load(Root)
    BY Zenon
  <2>2. LoadOK(l, Root, 1) /\ ~l.aborted
    BY <2>1, Zenon DEF Load, LoadOK, Loading, LoadField
  <2>3. loads = <<l>> /\ DOMAIN loads = {1} /\ loads[1] = l /\ requests = <<>>
    BY <2>1 DEF PanelInit
  <2>4. IsSeq(loads) /\ IsSeq(requests)
    <3>1. loads \in Seq({l}) /\ requests \in Seq({l})
      BY <2>3
    <3> QED BY <3>1, Zenon DEF IsSeq
  <2>5. currentPath = Root /\ version = 1 /\ since = 1 /\ panel \in {"files", "preview"} /\ state.status = "loading"
    BY Zenon DEF PanelInit, Loading
  <2>6. LoadsOK(loads, currentPath, since)
    BY <2>2, <2>3, <2>4, <2>5, Zenon DEF LoadsOK
  <2>7. ShownOK(state, loads, currentPath, since)
    <3>1. state.status # "ready"
      BY <2>5, Zenon
    <3> QED BY <2>2, <2>3, <2>5, <3>1, Zenon DEF ShownOK
  <2>8. LinesOK(panel, openState, requests, latest)
    <3>1. NoLine.status # "pending"
      BY Zenon DEF NoLine
    <3>2. openState = [s \in Slots |-> NoLine] /\ latest = [s \in Slots |-> 0]
      BY Zenon DEF PanelInit
    <3> QED BY <2>4, <3>1, <3>2, Zenon DEF LinesOK
  <2>9. version \in Nat /\ since \in Nat /\ since <= version
    BY <2>5
  <2> QED BY <2>5, <2>6, <2>7, <2>8, <2>9, Zenon DEF PanelInv
<1>2. PanelInv => PanelIsCurrent
  BY Zenon DEF PanelInv, ShownOK, LinesOK, Awaited, PanelIsCurrent
<1> QED BY <1>1, <1>2, PanelNextKeeps, PTL DEF PanelSpec
=============================================================================
