------------------------------ MODULE StoreProofs ------------------------------
(***************************************************************************)
(* Proofs about three stores: TaskStore, the core's table of tasks, for    *)
(* any sets of tasks, workers and handlers and any retry policies;         *)
(* PreferenceStore, the frontend's shared record, for every set of fields, *)
(* every range, and any number of changes and faults; and AiSidebar, the   *)
(* record behind the AI sidebar, for any number of hand-offs.              *)
(*                                                                         *)
(* What makes the invariants of the task store inductive is what a handler *)
(* inside markFinal may rely on although its read is old (CallInv): the    *)
(* retry policy of a row never changes once the row exists.  The record of *)
(* preferences needs to know which of a load and a save in flight began    *)
(* first (OverlapIsNoted), and the sidebar that a hand-off which waits or  *)
(* is armed was not sent yet (UnsentOK).                                   *)
(***************************************************************************)
EXTENDS TaskStore, PreferenceStore, AiSidebar, TLAPS

-----------------------------------------------------------------------------
(* Sequences.                                                              *)

IsSeq(s) == \E S : s \in Seq(S)

(* An element more.                                                        *)
LEMMA PutBehind ==
  ASSUME NEW s, IsSeq(s), NEW x
  PROVE  /\ IsSeq(Append(s, x)) /\ Len(s) + 1 \notin DOMAIN s
         /\ DOMAIN Append(s, x) = DOMAIN s \cup {Len(s) + 1}
         /\ Append(s, x)[Len(s) + 1] = x /\ \A i \in DOMAIN s : Append(s, x)[i] = s[i]
<1>1. PICK S : s \in Seq(S)
  BY Zenon DEF IsSeq
<1>2. PICK T : T = S \cup {x}
  BY Zenon
<1>3. s \in Seq(T) /\ x \in T
  BY <1>1, <1>2
<1>4. Append(s, x) \in Seq(T)
  BY <1>3
<1>5. IsSeq(Append(s, x))
  BY <1>4, Zenon DEF IsSeq
<1>6. DOMAIN s = 1..Len(s) /\ Len(s) \in Nat
  BY <1>3
<1>7. Len(s) + 1 \notin DOMAIN s
  BY <1>6
<1>8. DOMAIN Append(s, x) = 1..(Len(s) + 1)
  BY <1>3
<1>9. DOMAIN Append(s, x) = DOMAIN s \cup {Len(s) + 1}
  BY <1>6, <1>8
<1>10. Append(s, x)[Len(s) + 1] = x /\ \A i \in 1..Len(s) : Append(s, x)[i] = s[i]
  BY <1>3
<1> QED BY <1>5, <1>6, <1>7, <1>9, <1>10, Zenon

-----------------------------------------------------------------------------
(* The store of preferences.                                               *)
PrefTypeOK ==
    /\ saved \in Values /\ shown \in Values /\ answer \in Values /\ next \in Values
    /\ isLoading \in BOOLEAN /\ isSaving \in BOOLEAN /\ error \in BOOLEAN
    /\ overlapped \in BOOLEAN /\ clean \in BOOLEAN
    /\ load \in Request /\ save \in Request
    /\ target \subseteq Field
    /\ changes \in Nat

\* A load and a save in flight together means the load began second.
OverlapIsNoted == (load # "none" /\ save # "none") => overlapped

\* What an undisturbed load was answered is still what the backend holds.
LoadIsFresh == (load = "served" /\ ~overlapped) => answer = saved

\* What a save was answered is what the backend holds: there is one save.
SaveIsStored == save = "served" => saved = next

\* A save begun on a clean screen carries the backend's other fields.
SaveIsBased ==
    (save = "sent" /\ clean) => \A f \in Field \ target : next[f] = saved[f]

\* The first request follows the first mount.
MountedFirst == load # "none" => changes # 0

PrefInv ==
    /\ PrefTypeOK /\ MountedFirst /\ PrefFlagsHaveOwner /\ OverlapIsNoted /\ LoadIsFresh
    /\ SaveIsStored /\ SaveIsBased /\ ShownIsSaved

\* A clamped value is in the range of its field, and a value in range is kept
\* (clampTerminalFontSize, clampTerminalLineHeight, clampTerminalScrollback).
LEMMA ClampLemma ==
    ASSUME NEW f \in Field, NEW v \in Int
    PROVE  /\ clamp(f, v) \in Low[f]..High[f]
           /\ v \in Low[f]..High[f] => clamp(f, v) = v
<1>1. Low[f] \in Int /\ High[f] \in Int /\ Low[f] <= High[f]
  BY RangeAssumption
<1> QED BY <1>1 DEF clamp

\* A record with all its fields in range is a record of Values.
LEMMA ValuesLemma ==
    ASSUME NEW r, r = [f \in Field |-> r[f]],
           \A f \in Field : r[f] \in Low[f]..High[f]
    PROVE  r \in Values
BY Zenon DEF Values

\* normalizeTerminalSettings keeps a record in range, and puts any other in it.
LEMMA NormalizeLemma ==
    ASSUME NEW r \in [Field -> Int]
    PROVE  /\ normalize(r) \in Values
           /\ r \in Values => normalize(r) = r
           /\ \A f \in Field : r[f] \in Low[f]..High[f] => normalize(r)[f] = r[f]
<1>1. \A f \in Field : normalize(r)[f] = clamp(f, r[f])
  BY Zenon DEF normalize
<1>2. ASSUME NEW f \in Field
      PROVE  /\ normalize(r)[f] \in Low[f]..High[f]
             /\ r[f] \in Low[f]..High[f] => normalize(r)[f] = r[f]
  <2>1. r[f] \in Int /\ normalize(r)[f] = clamp(f, r[f])
    BY <1>1, Zenon
  <2>2. /\ clamp(f, r[f]) \in Low[f]..High[f]
        /\ r[f] \in Low[f]..High[f] => clamp(f, r[f]) = r[f]
    BY <2>1, ClampLemma, Zenon
  <2> QED BY <2>1, <2>2, Zenon
<1>3. \A f \in Field : r[f] \in Low[f]..High[f] => normalize(r)[f] = r[f]
  BY <1>2, Zenon
<1>4. normalize(r) = [f \in Field |-> normalize(r)[f]]
  BY Zenon DEF normalize
<1>5. normalize(r) \in Values
  BY <1>2, <1>4, ValuesLemma, Zenon
<1>6. r \in Values => normalize(r) = r
  <2> SUFFICES ASSUME r \in Values PROVE normalize(r) = r
    OBVIOUS
  <2>1. \A f \in Field : normalize(r)[f] = r[f]
    BY <1>3, Zenon DEF Values
  <2> QED BY <2>1, <1>4, Zenon
<1> QED BY <1>3, <1>5, <1>6, Zenon

\* A record of Values is a record of integers.
LEMMA ValuesAreInt == ASSUME NEW r \in Values PROVE r \in [Field -> Int]
<1>1. ASSUME NEW f \in Field PROVE r[f] \in Int
  <2>1. r[f] \in Low[f]..High[f]
    BY Zenon DEF Values
  <2>2. Low[f] \in Int /\ High[f] \in Int
    BY RangeAssumption, Zenon
  <2> QED BY <2>1, <2>2
<1>2. r = [f \in Field |-> r[f]]
  BY Zenon DEF Values
<1> QED BY <1>1, <1>2, Zenon

\* The defaults are in range.
LEMMA DefaultInValues == Default \in Values
<1>1. Default = [f \in Field |-> Default[f]]
  BY RangeAssumption, Zenon
<1> QED BY <1>1, RangeAssumption, ValuesLemma, Zenon

\* The invariant holds before the first widget mounts.
LEMMA PrefInitInv == PrefInit => PrefInv
<1> SUFFICES ASSUME PrefInit PROVE PrefInv
  OBVIOUS
<1>1. changes \in Nat
  BY Zenon DEF PrefInit
<1>2. PrefTypeOK
  BY <1>1, DefaultInValues, Zenon DEF PrefInit, PrefTypeOK, Request
<1>3. /\ MountedFirst /\ PrefFlagsHaveOwner /\ OverlapIsNoted /\ LoadIsFresh
      /\ SaveIsStored /\ SaveIsBased /\ ShownIsSaved
  BY Zenon DEF PrefInit, MountedFirst, PrefFlagsHaveOwner, OverlapIsNoted, LoadIsFresh,
         SaveIsStored, SaveIsBased, ShownIsSaved
<1> QED BY <1>2, <1>3, Zenon DEF PrefInv

\* A change sends a record in range whose other fields are those on screen.
LEMMA PersistLemma ==
    ASSUME PrefInv, NEW fs \in SUBSET Field, NEW r \in [Field -> Int],
           \A f \in Field \ fs : r[f] = shown[f],
           persist(fs, r)
    PROVE  PrefInv'
<1> USE DEF persist, controlsEnabled
<1>1. next' \in Values
  BY NormalizeLemma, Zenon
<1>2. PrefTypeOK'
  <2>1. changes' \in Nat
    BY DEF PrefInv, PrefTypeOK
  <2>2. clean' \in BOOLEAN
    BY Zenon
  <2> QED BY <1>1, <2>1, <2>2, Zenon DEF PrefInv, PrefTypeOK, Request
<1>3. PrefFlagsHaveOwner' /\ MountedFirst'
  BY DEF PrefInv, PrefTypeOK, PrefFlagsHaveOwner, MountedFirst
<1>6. OverlapIsNoted' /\ SaveIsStored' /\ ShownIsSaved'
  BY Zenon DEF PrefInv, PrefFlagsHaveOwner, OverlapIsNoted, SaveIsStored, ShownIsSaved
<1>4. LoadIsFresh'
  BY Zenon DEF PrefInv, PrefFlagsHaveOwner, LoadIsFresh
<1>5. SaveIsBased'
  <2> SUFFICES ASSUME clean', NEW f \in Field \ fs
               PROVE  next'[f] = saved[f]
    BY Zenon DEF SaveIsBased
  <2>1. shown = saved
    BY Zenon DEF PrefInv, PrefTypeOK, PrefFlagsHaveOwner, ShownIsSaved
  <2>2. r[f] = shown[f] /\ shown[f] \in Low[f]..High[f]
    BY Zenon DEF PrefInv, PrefTypeOK, Values
  <2>3. next'[f] = r[f]
    BY <2>2, NormalizeLemma, Zenon
  <2> QED BY <2>1, <2>2, <2>3, Zenon
<1> QED BY <1>2, <1>3, <1>4, <1>5, <1>6, Zenon DEF PrefInv

\* Every step keeps the invariant.
LEMMA PrefStepInv == PrefInv /\ [PrefNext]_prefVars => PrefInv'
<1> SUFFICES ASSUME PrefInv, [PrefNext]_prefVars PROVE PrefInv'
  OBVIOUS
<1> USE DEF PrefInv, PrefTypeOK, MountedFirst, PrefFlagsHaveOwner, OverlapIsNoted,
            LoadIsFresh, SaveIsStored, SaveIsBased, ShownIsSaved, Request
<1>1. CASE ensureLoaded
  <2>1. changes' \in Nat /\ changes' # 0
    BY <1>1 DEF ensureLoaded
  <2>2. overlapped' \in BOOLEAN /\ (overlapped' <=> save # "none")
    BY <1>1, Zenon DEF ensureLoaded
  <2>3. PrefTypeOK'
    BY <1>1, <2>1, <2>2, Zenon DEF ensureLoaded
  <2> QED BY <1>1, <2>1, <2>2, <2>3, Zenon DEF ensureLoaded
<1>2. CASE resetDefaults
  <2>1. Default \in [Field -> Int] /\ persist(Field, Default)
    BY <1>2, RangeAssumption, Zenon DEF resetDefaults
  <2> QED BY <2>1, PersistLemma, Zenon
<1>3. ASSUME NEW f \in Field, setField(f) PROVE PrefInv'
  <2>1. PICK v \in Options(f) : persist({f}, [shown EXCEPT ![f] = v])
    BY <1>3, Zenon DEF setField
  <2>2. shown \in [Field -> Int]
    BY ValuesAreInt, Zenon
  <2>3. v \in Int
    BY <2>2, RangeAssumption DEF Options
  <2> DEFINE r == [shown EXCEPT ![f] = v]
  <2>4. r \in [Field -> Int] /\ \A g \in Field \ {f} : r[g] = shown[g]
    BY <2>2, <2>3, Zenon
  <2> HIDE DEF r
  <2> QED BY <2>1, <2>4, PersistLemma, Zenon DEF r
<1>4. CASE ServeLoad
  BY <1>4, Zenon DEF ServeLoad
<1>5. CASE ServeSave
  <2>1. normalize(next) = next
    BY ValuesAreInt, NormalizeLemma, Zenon
  <2> QED BY <1>5, <2>1, Zenon DEF ServeSave
<1>6. CASE LoadFails
  BY <1>6, Zenon DEF LoadFails
<1>7. CASE SaveFails
  BY <1>7, Zenon DEF SaveFails
<1>8. CASE refresh
  <2>1. normalize(answer) = answer
    BY ValuesAreInt, NormalizeLemma, Zenon
  <2>2. error' \in BOOLEAN /\ (error' <=> error \/ load = "failed")
    BY <1>8, Zenon DEF refresh
  <2>3. PrefTypeOK'
    BY <1>8, <2>1, <2>2, Zenon DEF refresh
  <2> QED BY <1>8, <2>1, <2>2, <2>3, Zenon DEF refresh
<1>9. CASE saveReturns
  <2>1. normalize(next) = next
    BY ValuesAreInt, NormalizeLemma, Zenon
  <2>2. error' \in BOOLEAN /\ (error' <=> error \/ save = "failed")
    BY <1>9, Zenon DEF saveReturns
  <2>3. PrefTypeOK'
    BY <1>9, <2>1, <2>2, Zenon DEF saveReturns
  <2> QED BY <1>9, <2>1, <2>2, <2>3, Zenon DEF saveReturns
<1>10. CASE UNCHANGED prefVars
  BY <1>10, Zenon DEF prefVars
<1> QED
  BY <1>1, <1>2, <1>3, <1>4, <1>5, <1>6, <1>7, <1>8, <1>9, <1>10, Zenon DEF PrefNext

\* The inductive invariant holds in every reachable state.
THEOREM PrefInvariant == PrefSpec => []PrefInv
BY PrefInitInv, PrefStepInv, PTL DEF PrefSpec

\* At rest the screen shows what the backend holds, whatever the fields are
\* and however many loads, saves and failures came before
\* (refreshTerminalPreferences, persistTerminalSettings).
THEOREM ShownIsSavedAlways == PrefSpec => []ShownIsSaved
<1>1. PrefInv => ShownIsSaved
  BY Zenon DEF PrefInv
<1> QED BY <1>1, PrefInvariant, PTL

\* A flag is up exactly while its request is in flight.
THEOREM PrefFlagsAlways == PrefSpec => []PrefFlagsHaveOwner
<1>1. PrefInv => PrefFlagsHaveOwner
  BY Zenon DEF PrefInv
<1> QED BY <1>1, PrefInvariant, PTL

\* Every stored and shown value is within its range.
THEOREM InRangeAlways == PrefSpec => []InRange
<1>1. PrefInv => InRange
  BY Zenon DEF PrefInv, PrefTypeOK, InRange
<1> QED BY <1>1, PrefInvariant, PTL

\* Saving one preference from a clean screen changes no other in the backend
\* (persistTerminalSettings, setAiComposerSubmitMode, setAiDebugModeEnabled).
THEOREM SaveKeepsOthersAlways == PrefSpec => SaveKeepsOthers
<1> DEFINE Kept == (ServeSave /\ clean) => \A f \in Field \ target : saved'[f] = saved[f]
<1>1. PrefInv /\ [PrefNext]_prefVars => [Kept]_prefVars
  <2> SUFFICES ASSUME PrefInv, ServeSave, clean, NEW f \in Field \ target
               PROVE  saved'[f] = saved[f]
    OBVIOUS
  <2>1. normalize(next) = next
    BY ValuesAreInt, NormalizeLemma, Zenon DEF PrefInv, PrefTypeOK
  <2> QED BY <2>1, Zenon DEF PrefInv, SaveIsBased, ServeSave
<1> QED BY <1>1, PrefInvariant, PTL DEF PrefSpec, SaveKeepsOthers

-----------------------------------------------------------------------------
(* The AI sidebar.  An armed submit belongs to the hand-off it was armed   *)
(* for: the draft is that hand-off's, or was typed over, or is blank; and  *)
(* an id that is queued or armed was not sent yet.                         *)

AiField == {"isOpen", "expanded", "mode", "queued", "ids", "pendingAutoSubmit", "draft", "busy",
            "blocked", "attachments", "touched"}

ArmedOK(a) ==
  a.pendingAutoSubmit # 0 =>
     a.draft.from = a.pendingAutoSubmit \/ a.touched \/ a.draft.text = ""

IdsOK(a) ==
  /\ a.ids \in Nat /\ a.queued.id \in 0..a.ids /\ a.pendingAutoSubmit \in 0..a.ids
  /\ a.queued.id # 0 => a.queued.id # a.pendingAutoSubmit

UnsentOK(a, s) ==
  \A i \in DOMAIN s : s[i].armed # 0 => s[i].armed # a.queued.id /\ s[i].armed # a.pendingAutoSubmit

SidebarOK(a, s) == a = [f \in AiField |-> a[f]] /\ ArmedOK(a) /\ IdsOK(a) /\ UnsentOK(a, s)

SentOK(ids, s) ==
  /\ IsSeq(s)
  /\ \A i \in DOMAIN s : s[i].armed \in 0..ids
  /\ \A i \in DOMAIN s : s[i].armed # 0 => s[i].from = s[i].armed \/ s[i].touched
  /\ \A i, j \in DOMAIN s : s[i].armed # 0 /\ s[i].armed = s[j].armed => i = j

AiInv == SidebarOK(ai, sent) /\ SentOK(ai.ids, sent)

(* A hand-off that is consumed arms or disarms the submit.                 *)
LEMMA Consumed ==
  ASSUME NEW a, NEW s, SidebarOK(a, s)
  PROVE  SidebarOK(consumeAiPromptHandoff(a), s) /\ consumeAiPromptHandoff(a).ids = a.ids
<1>1. CASE ~a.isOpen \/ a.queued.id = 0
  BY <1>1, Zenon DEF consumeAiPromptHandoff
<1>2. CASE ~(~a.isOpen \/ a.queued.id = 0)
  <2>1. PICK b : b = consumeAiPromptHandoff(a)
    BY Zenon
  <2>2. b = [a EXCEPT !.draft = [text |-> "handoff", from |-> a.queued.id],
                      !.pendingAutoSubmit = IF a.queued.submit THEN a.queued.id ELSE 0,
                      !.queued = NoHandoff, !.touched = FALSE]
    BY <1>2, <2>1, Zenon DEF consumeAiPromptHandoff
  <2>3. /\ b = [f \in AiField |-> b[f]]
        /\ b.draft.from = a.queued.id /\ b.pendingAutoSubmit \in {a.queued.id, 0}
        /\ b.queued.id = 0 /\ b.ids = a.ids
    BY <2>2, Zenon DEF SidebarOK, AiField, NoHandoff
  <2>4. ArmedOK(b)
    BY <2>3, Zenon DEF ArmedOK
  <2>5. IdsOK(b) /\ UnsentOK(b, s)
    BY <2>3 DEF SidebarOK, IdsOK, UnsentOK
  <2> QED BY <2>1, <2>3, <2>4, <2>5, Zenon DEF SidebarOK
<1> QED BY <1>1, <1>2, Zenon

(* An armed submit that fires sends its own hand-off, for the first time.  *)
LEMMA Fires ==
  ASSUME NEW a, NEW s, SidebarOK(a, s), SentOK(a.ids, s),
         a.pendingAutoSubmit # 0, CanSubmit(a), NEW busy, NEW b,
         \/ b = [Submitted(a, busy) EXCEPT !.pendingAutoSubmit = 0]
         \/ b = [Submitted(a, busy) EXCEPT !.pendingAutoSubmit = 0, !.queued = NoHandoff]
  PROVE  LET t == Append(s, Prompt(a, a.pendingAutoSubmit)) IN SidebarOK(b, t) /\ SentOK(b.ids, t)
<1>0. PICK t, x : x = Prompt(a, a.pendingAutoSubmit) /\ t = Append(s, x)
  BY Zenon
<1>1. x.from = a.draft.from /\ x.armed = a.pendingAutoSubmit /\ x.touched = a.touched
  BY <1>0, Zenon DEF Prompt
<1>2. /\ b = [f \in AiField |-> b[f]] /\ b.pendingAutoSubmit = 0 /\ b.ids = a.ids
      /\ b.queued \in {a.queued, NoHandoff}
  BY Zenon DEF Submitted, SidebarOK, AiField
<1>3. /\ IsSeq(t) /\ Len(s) + 1 \notin DOMAIN s /\ DOMAIN t = DOMAIN s \cup {Len(s) + 1}
      /\ t[Len(s) + 1] = x /\ \A i \in DOMAIN s : t[i] = s[i]
  BY <1>0, PutBehind DEF SentOK
<1>4. b.queued.id \in {a.queued.id, 0}
  BY <1>2 DEF NoHandoff
<1>5. x.from = x.armed \/ x.touched
  BY <1>1, Zenon DEF SidebarOK, ArmedOK, CanSubmit
<1>6. \A i \in DOMAIN s : s[i].armed # 0 => s[i].armed # x.armed
  BY <1>1, Zenon DEF SidebarOK, UnsentOK
<1>7. x.armed \in 0..b.ids /\ x.armed # 0 /\ x.armed # a.queued.id
  BY <1>1, <1>2, Zenon DEF SidebarOK, IdsOK
<1>8. SentOK(b.ids, t)
  BY <1>2, <1>3, <1>5, <1>6, <1>7 DEF SentOK
<1>9. UnsentOK(b, t)
  BY <1>2, <1>3, <1>4, <1>7, Zenon DEF UnsentOK, SidebarOK
<1>10. ArmedOK(b)
  BY <1>2, Zenon DEF ArmedOK
<1>11. IdsOK(b)
  BY <1>2, <1>4 DEF IdsOK, SidebarOK
<1> QED BY <1>0, <1>2, <1>8, <1>9, <1>10, <1>11, Zenon DEF SidebarOK

LEMMA EffectsKeep ==
  ASSUME NEW a, SidebarOK(a, sent), SentOK(a.ids, sent), Effects(a)
  PROVE  AiInv'
<1>1. PICK b : b = consumeAiPromptHandoff(a)
  BY Zenon
<1>2. SidebarOK(b, sent) /\ SentOK(b.ids, sent)
  BY <1>1, Consumed, Zenon
<1>3. CASE b.pendingAutoSubmit # 0 /\ CanSubmit(b)
  <2>1. PICK busy : ai' = [Submitted(b, busy) EXCEPT !.pendingAutoSubmit = 0]
    BY <1>1, <1>3, Zenon DEF Effects
  <2>2. sent' = Append(sent, Prompt(b, b.pendingAutoSubmit))
    BY <1>1, <1>3, Zenon DEF Effects
  <2>3. SidebarOK(ai', sent') /\ SentOK(ai'.ids, sent')
    BY <1>2, <1>3, <2>1, <2>2, Fires, Zenon
  <2> QED BY <2>3, Zenon DEF AiInv, SidebarOK, SentOK, ArmedOK, IdsOK, UnsentOK
<1>4. CASE ~(b.pendingAutoSubmit # 0 /\ CanSubmit(b))
  <2>1. ai' = b /\ sent' = sent
    BY <1>1, <1>4, Zenon DEF Effects
  <2>2. SidebarOK(ai', sent') /\ SentOK(ai'.ids, sent')
    BY <1>2, <2>1, Zenon
  <2> QED BY <2>2, Zenon DEF AiInv, SidebarOK, SentOK, ArmedOK, IdsOK, UnsentOK
<1> QED BY <1>3, <1>4, Zenon

LEMMA OpenKeeps ==
  ASSUME NEW closed, SidebarOK(closed, sent), SentOK(closed.ids, sent), Open(closed)
  PROVE  AiInv'
<1>1. PICK a : a = [closed EXCEPT !.isOpen = TRUE]
  BY Zenon
<1>2. /\ a = [f \in AiField |-> a[f]] /\ a.queued = closed.queued /\ a.ids = closed.ids
      /\ a.pendingAutoSubmit = closed.pendingAutoSubmit /\ a.draft = closed.draft /\ a.touched = closed.touched
  BY <1>1, Zenon DEF SidebarOK, AiField
<1>3. SidebarOK(a, sent) /\ SentOK(a.ids, sent)
  BY <1>2, Zenon DEF SidebarOK, ArmedOK, IdsOK, UnsentOK
<1>4. CASE a.pendingAutoSubmit # 0 /\ CanSubmit(a)
  <2>1. PICK busy : ai' = [Submitted(a, busy) EXCEPT !.pendingAutoSubmit = 0, !.queued = NoHandoff]
    BY <1>1, <1>4, Zenon DEF Open
  <2>2. sent' = Append(sent, Prompt(a, a.pendingAutoSubmit))
    BY <1>1, <1>4, Zenon DEF Open
  <2>3. SidebarOK(ai', sent') /\ SentOK(ai'.ids, sent')
    BY <1>3, <1>4, <2>1, <2>2, Fires, Zenon
  <2> QED BY <2>3, Zenon DEF AiInv, SidebarOK, SentOK, ArmedOK, IdsOK, UnsentOK
<1>5. CASE ~(a.pendingAutoSubmit # 0 /\ CanSubmit(a))
  <2>1. PICK b : b = resetAgentPanelBootstrapState(a)
    BY Zenon
  <2>2. Effects(b)
    BY <1>1, <1>5, <2>1, Zenon DEF Open
  <2>3. /\ b = [f \in AiField |-> b[f]] /\ b.queued = a.queued /\ b.ids = a.ids
        /\ b.pendingAutoSubmit = a.pendingAutoSubmit /\ b.draft.text = ""
    BY <1>2, <2>1, Zenon DEF resetAgentPanelBootstrapState, AiField, Blank
  <2>4. SidebarOK(b, sent) /\ SentOK(b.ids, sent)
    BY <1>3, <2>3, Zenon DEF SidebarOK, ArmedOK, IdsOK, UnsentOK
  <2> QED BY <2>2, <2>4, EffectsKeep, Zenon
<1> QED BY <1>4, <1>5, Zenon

(* An event that leaves the hand-offs and the draft alone.                 *)
LEMMA SameHandoff ==
  ASSUME AiInv, NEW a, a = [f \in AiField |-> a[f]], a.queued = ai.queued, a.ids = ai.ids,
         a.pendingAutoSubmit = ai.pendingAutoSubmit, a.draft = ai.draft, a.touched = ai.touched
  PROVE  SidebarOK(a, sent) /\ SentOK(a.ids, sent)
BY Zenon DEF AiInv, SidebarOK, ArmedOK, IdsOK, UnsentOK

LEMMA HandoffKeeps == ASSUME AiInv, NEW submit, queueAiPromptHandoff(submit) PROVE AiInv'
<1>1. PICK a : a = [ai EXCEPT !.ids = @ + 1, !.queued = [id |-> ai.ids + 1, submit |-> submit]]
  BY Zenon
<1>2. /\ a = [f \in AiField |-> a[f]] /\ a.queued.id = ai.ids + 1 /\ a.ids = ai.ids + 1
      /\ a.pendingAutoSubmit = ai.pendingAutoSubmit /\ a.draft = ai.draft /\ a.touched = ai.touched
  BY <1>1, Zenon DEF AiInv, SidebarOK, AiField
<1>3. ArmedOK(a)
  BY <1>2, Zenon DEF AiInv, SidebarOK, ArmedOK
<1>4. IdsOK(a)
  BY <1>2 DEF AiInv, SidebarOK, IdsOK
<1>5. UnsentOK(a, sent)
  <2>1. \A i \in DOMAIN sent : sent[i].armed # ai.ids + 1
    BY DEF AiInv, SidebarOK, IdsOK, SentOK
  <2> QED BY <1>2, <2>1, Zenon DEF AiInv, SidebarOK, UnsentOK
<1>6. SentOK(a.ids, sent)
  <2>1. \A i \in DOMAIN sent : sent[i].armed \in 0..a.ids
    BY <1>2 DEF AiInv, SidebarOK, IdsOK, SentOK
  <2> QED BY <2>1, Zenon DEF AiInv, SentOK
<1>7. SidebarOK(a, sent)
  BY <1>2, <1>3, <1>4, <1>5, Zenon DEF SidebarOK
<1>8. CASE a.isOpen
  <2>1. Effects(a)
    BY <1>1, <1>8, Zenon DEF queueAiPromptHandoff
  <2> QED BY <1>6, <1>7, <2>1, EffectsKeep, Zenon
<1>9. CASE ~a.isOpen
  <2>1. Open(a)
    BY <1>1, <1>9, Zenon DEF queueAiPromptHandoff
  <2> QED BY <1>6, <1>7, <2>1, OpenKeeps, Zenon
<1> QED BY <1>8, <1>9, Zenon

LEMMA DraftKeeps == ASSUME AiInv, NEW text, setDraft(text) PROVE AiInv'
<1>1. PICK a : a = [ai EXCEPT !.draft = [text |-> text, from |-> 0], !.touched = TRUE]
  BY Zenon
<1>2. /\ a = [f \in AiField |-> a[f]] /\ a.queued = ai.queued /\ a.ids = ai.ids
      /\ a.pendingAutoSubmit = ai.pendingAutoSubmit /\ a.touched = TRUE
  BY <1>1, Zenon DEF AiInv, SidebarOK, AiField
<1>3. SidebarOK(a, sent) /\ SentOK(a.ids, sent)
  BY <1>2, Zenon DEF AiInv, SidebarOK, ArmedOK, IdsOK, UnsentOK
<1>4. Effects(a)
  BY <1>1, Zenon DEF setDraft
<1> QED BY <1>3, <1>4, EffectsKeep, Zenon

LEMMA SubmitKeeps == ASSUME AiInv, submitDraft PROVE AiInv'
<1>1. PICK busy : ai' = Submitted(ai, busy)
  BY Zenon DEF submitDraft
<1>2. /\ ai' = [f \in AiField |-> ai'[f]] /\ ai'.queued = ai.queued /\ ai'.ids = ai.ids
      /\ ai'.pendingAutoSubmit = ai.pendingAutoSubmit /\ ai'.draft.text = ""
  BY <1>1, Zenon DEF AiInv, SidebarOK, AiField, Submitted, Blank
<1>3. PICK x : x = Prompt(ai, 0) /\ x.armed = 0
  <2>1. Prompt(ai, 0).armed = 0
    BY Zenon DEF Prompt
  <2> QED BY <2>1, Zenon
<1>4. sent' = Append(sent, x)
  BY <1>3, Zenon DEF submitDraft
<1>5. /\ IsSeq(sent') /\ Len(sent) + 1 \notin DOMAIN sent /\ DOMAIN sent' = DOMAIN sent \cup {Len(sent) + 1}
      /\ sent'[Len(sent) + 1] = x /\ \A i \in DOMAIN sent : sent'[i] = sent[i]
  BY <1>4, PutBehind DEF AiInv, SentOK
<1>6. SidebarOK(ai', sent')
  BY <1>2, <1>3, <1>5, Zenon DEF AiInv, SidebarOK, ArmedOK, IdsOK, UnsentOK
<1>7. 0 \in 0..ai.ids
  BY DEF AiInv, SidebarOK, IdsOK
<1>8. SentOK(ai'.ids, sent')
  BY <1>2, <1>3, <1>5, <1>7, Zenon DEF AiInv, SentOK
<1> QED BY <1>6, <1>8, Zenon DEF AiInv, SidebarOK, SentOK, ArmedOK, IdsOK, UnsentOK, IsSeq

LEMMA AttachKeeps == ASSUME AiInv, NEW f, attachFile(f) PROVE AiInv'
<1>1. PICK a : a = [ai EXCEPT !.attachments = queueAiAttachmentReference(@, f)]
  BY Zenon
<1>2. /\ a = [g \in AiField |-> a[g]] /\ a.queued = ai.queued /\ a.ids = ai.ids
      /\ a.pendingAutoSubmit = ai.pendingAutoSubmit /\ a.draft = ai.draft /\ a.touched = ai.touched
  BY <1>1, Zenon DEF AiInv, SidebarOK, AiField
<1>3. SidebarOK(a, sent) /\ SentOK(a.ids, sent)
  BY <1>2, SameHandoff, Zenon
<1>4. CASE a.isOpen
  <2>1. Effects(a)
    BY <1>1, <1>4, Zenon DEF attachFile
  <2> QED BY <1>3, <2>1, EffectsKeep, Zenon
<1>5. CASE ~a.isOpen
  <2>1. Open(a)
    BY <1>1, <1>5, Zenon DEF attachFile
  <2> QED BY <1>3, <2>1, OpenKeeps, Zenon
<1> QED BY <1>4, <1>5, Zenon

LEMMA EventKeeps ==
  ASSUME AiInv, NEW a, Effects(a), a = [f \in AiField |-> a[f]], a.queued = ai.queued, a.ids = ai.ids,
         a.pendingAutoSubmit = ai.pendingAutoSubmit, a.draft = ai.draft, a.touched = ai.touched
  PROVE  AiInv'
BY SameHandoff, EffectsKeep, Zenon

LEMMA AiNextKeeps == AiInv /\ [AiNext]_aiVars => AiInv'
<1> SUFFICES ASSUME AiInv, [AiNext]_aiVars PROVE AiInv'
  OBVIOUS
<1>0. ai = [f \in AiField |-> ai[f]]
  BY Zenon DEF AiInv, SidebarOK
<1>1. CASE UNCHANGED aiVars
  BY <1>1, Zenon DEF aiVars, AiInv, SidebarOK, SentOK, ArmedOK, IdsOK, UnsentOK, IsSeq
<1>2. CASE openAiSidebar
  BY <1>2, OpenKeeps, Zenon DEF openAiSidebar, AiInv
<1>3. CASE closeAiSidebar
  <2>1. PICK a : a = [ai EXCEPT !.isOpen = FALSE, !.expanded = FALSE, !.busy = IF @ = "interaction" THEN "no" ELSE @]
    BY Zenon
  <2>2. Effects(a)
    BY <1>3, <2>1, Zenon DEF closeAiSidebar
  <2> QED BY <1>0, <2>1, <2>2, EventKeeps, Zenon DEF AiField
<1>4. CASE handleToggleAiPanel
  <2>1. PICK a : a = [ai EXCEPT !.expanded = ~@]
    BY Zenon
  <2>2. Effects(a)
    BY <1>4, <2>1, Zenon DEF handleToggleAiPanel
  <2> QED BY <1>0, <2>1, <2>2, EventKeeps, Zenon DEF AiField
<1>5. CASE setChatMode
  <2>1. PICK a : a = [ai EXCEPT !.mode = IF @ = "chat" THEN "dev" ELSE "chat"]
    BY Zenon
  <2>2. Effects(a)
    BY <1>5, <2>1, Zenon DEF setChatMode
  <2> QED BY <1>0, <2>1, <2>2, EventKeeps, Zenon DEF AiField
<1>6. ASSUME NEW f \in File, removeQueuedAiAttachmentReference(f) PROVE AiInv'
  <2>1. PICK a : a = [ai EXCEPT !.attachments = Drop(@, f)]
    BY Zenon
  <2>2. Effects(a)
    BY <1>6, <2>1, Zenon DEF removeQueuedAiAttachmentReference
  <2> QED BY <1>0, <2>1, <2>2, EventKeeps, Zenon DEF AiField
<1>7. CASE AgentEnds \/ Approve \/ SwitchBegins
  <2>1. PICK busy : Effects([ai EXCEPT !.busy = busy])
    BY <1>7, Zenon DEF AgentEnds, Approve, SwitchBegins
  <2>2. PICK a : a = [ai EXCEPT !.busy = busy]
    BY Zenon
  <2>3. Effects(a)
    BY <2>1, <2>2, Zenon
  <2> QED BY <1>0, <2>2, <2>3, EventKeeps, Zenon DEF AiField
<1>8. CASE PolicyChanges
  <2>1. PICK a : a = [ai EXCEPT !.blocked = TRUE]
    BY Zenon
  <2>2. Effects(a)
    BY <1>8, <2>1, Zenon DEF PolicyChanges
  <2> QED BY <1>0, <2>1, <2>2, EventKeeps, Zenon DEF AiField
<1> QED
  BY <1>1, <1>2, <1>3, <1>4, <1>5, <1>6, <1>7, <1>8, HandoffKeeps, DraftKeeps, SubmitKeeps, AttachKeeps, Zenon
  DEF AiNext

(* For any number of hand-offs, prompts, files and events: what the        *)
(* immediate submit of a hand-off sends is that hand-off's prompt unless   *)
(* the operator typed into it, and no hand-off is submitted twice, however *)
(* long the panel was busy or closed in between (app-ai-sidebar.tsx).      *)
THEOREM AutoSubmitSendsHandoffAlways == AiSpec => []AutoSubmitSendsHandoff
<1>1. AiInit => AiInv
  <2> SUFFICES ASSUME AiInit PROVE AiInv
    OBVIOUS
  <2>1. IsSeq(sent)
    <3>1. sent \in Seq({})
      BY DEF AiInit
    <3> QED BY <3>1, Zenon DEF IsSeq
  <2>2. ai = [f \in AiField |-> ai[f]] /\ ai.ids = 0 /\ ai.queued.id = 0 /\ ai.pendingAutoSubmit = 0
    BY Zenon DEF AiInit, Fresh, AiField, NoHandoff
  <2>3. DOMAIN sent = {}
    BY DEF AiInit
  <2>4. ArmedOK(ai) /\ UnsentOK(ai, sent) /\ SentOK(ai.ids, sent)
    BY <2>1, <2>2, <2>3, Zenon DEF ArmedOK, UnsentOK, SentOK
  <2>5. IdsOK(ai)
    BY <2>2 DEF IdsOK
  <2> QED BY <2>2, <2>4, <2>5, Zenon DEF AiInv, SidebarOK
<1>2. AiInv => AutoSubmitSendsHandoff
  BY Zenon DEF AiInv, SentOK, AutoSubmitSendsHandoff
<1> QED BY <1>1, <1>2, AiNextKeeps, PTL DEF AiSpec

-----------------------------------------------------------------------------
(* The store of tasks.  The theorems on induction are needed from here on. *)
INSTANCE WellFoundedInduction

(* What the read of a call in flight still says about the row.             *)
CallInv ==
  \A h \in Handlers : call[h] # Idle =>
     /\ call[h].seen.status = "running"
     /\ call[h].seen.retryCount <= call[h].seen.maxRetries
     /\ call[h].seen.maxRetries = row[call[h].task].maxRetries
     /\ row[call[h].task].status # "absent"

StoreInv == TypeOK /\ LockMatchesStatus /\ RetryWithinBudget /\ CallInv

-----------------------------------------------------------------------------
(* The retry policy.                                                       *)

(* A set of numbers that is not empty has a least one.                     *)
LEMMA LeastNumber ==
  ASSUME NEW T \in SUBSET Nat, T # {}
  PROVE  \E x \in T : \A y \in T : x <= y
<1>1. PICK R : R = OpToRel(<, Nat)
  BY Zenon
<1>2. IsWellFoundedOn(R, Nat)
  BY <1>1, NatLessThanWellFounded, Zenon
<1>3. PICK x \in T : \A y \in T : ~ (<<y, x>> \in R)
  BY <1>2, WFMin, Zenon
<1>4. \A y, z \in Nat : y < z => <<y, z>> \in R
  BY <1>1, Zenon DEF OpToRel
<1>5. ASSUME NEW y \in T PROVE x <= y
  <2>1. x \in Nat /\ y \in Nat
    OBVIOUS
  <2>2. ~(y < x)
    BY <1>3, <1>4, <2>1, Zenon
  <2> QED
    BY <2>1, <2>2
<1> QED
  BY <1>5, Zenon

(* What holds of 0 and passes on holds of every number: without a least    *)
(* exception there is none.                                                *)
LEMMA Passes ==
  ASSUME NEW T \in SUBSET Nat, 0 \in T, \A n \in T : n + 1 \in T
  PROVE  T = Nat
<1> SUFFICES ASSUME T # Nat PROVE FALSE
  OBVIOUS
<1>1. PICK x \in Nat \ T : \A y \in Nat \ T : x <= y
  <2>1. Nat \ T \in SUBSET Nat /\ Nat \ T # {}
    OBVIOUS
  <2> QED
    BY <2>1, LeastNumber, Zenon
<1>2. x # 0 /\ x - 1 \in Nat /\ (x - 1) + 1 = x
  BY <1>1
<1>3. x - 1 \in T
  BY <1>1, <1>2
<1> QED
  BY <1>1, <1>2, <1>3, Zenon

-----------------------------------------------------------------------------
(* The delays of the first passes, as the loop computes them.              *)
Delays(d, base, n) ==
  d = [passes \in 0..n |-> IF passes = 0 THEN ClampedBase(base) ELSE Doubled(d[passes - 1])]

LEMMA DelaysAt ==
  ASSUME NEW base, NEW n \in Nat, NEW d, Delays(d, base, n)
  PROVE  /\ d[0] = ClampedBase(base)
         /\ \A k \in 0..n : k # 0 => d[k] = Doubled(d[k - 1])
BY DEF Delays

(* The loop is defined for every number of passes.                         *)
LEMMA DelaysExist ==
  ASSUME NEW base, NEW n \in Nat
  PROVE  \E d : Delays(d, base, n)
<1> DEFINE T == {m \in Nat : \E d : Delays(d, base, m)}
<1>1. 0 \in T
  <2>1. Delays([k \in 0..0 |-> ClampedBase(base)], base, 0)
    BY DEF Delays
  <2> QED
    BY <2>1, Zenon
<1>2. ASSUME NEW m \in T PROVE m + 1 \in T
  <2>1. m \in Nat
    OBVIOUS
  <2>2. PICK d : Delays(d, base, m)
    OBVIOUS
  <2>3. PICK e : e = [k \in 0..(m + 1) |-> IF k \in 0..m THEN d[k] ELSE Doubled(d[m])]
    BY Zenon
  <2>4. ASSUME NEW k \in 0..(m + 1)
        PROVE  e[k] = IF k = 0 THEN ClampedBase(base) ELSE Doubled(e[k - 1])
    <3>1. CASE k = 0
      <4>1. e[0] = d[0]
        BY <2>1, <2>3
      <4> QED
        BY <2>1, <2>2, <3>1, <4>1, DelaysAt, Zenon
    <3>2. CASE k \in 0..m /\ k # 0
      <4>1. e[k] = d[k] /\ e[k - 1] = d[k - 1]
        BY <2>1, <2>3, <3>2
      <4> QED
        BY <2>1, <2>2, <3>2, <4>1, DelaysAt
    <3>3. CASE k = m + 1
      <4>1. e[m + 1] = Doubled(d[m]) /\ e[m] = d[m] /\ k # 0 /\ k - 1 = m
        BY <2>1, <2>3, <3>3
      <4> QED
        BY <3>3, <4>1, Zenon
    <3> QED
      BY <2>1, <3>1, <3>2, <3>3
  <2>5. Delays(e, base, m + 1)
    BY <2>3, <2>4, Zenon DEF Delays
  <2> QED
    BY <2>1, <2>5
<1>3. T \in SUBSET Nat
  OBVIOUS
<1> HIDE DEF T
<1>4. n \in T
  BY <1>1, <1>2, <1>3, Passes, Zenon
<1> QED
  BY <1>4, Zenon DEF T

(* Loops of different lengths agree on the passes they share.              *)
LEMMA DelaysAgree ==
  ASSUME NEW base, NEW n \in Nat, NEW m \in Nat, n <= m, NEW d, NEW e,
         Delays(d, base, n), Delays(e, base, m)
  PROVE  d[n] = e[n]
<1> DEFINE T == {k \in Nat : k <= n => d[k] = e[k]}
<1>1. 0 \in T
  BY DelaysAt, Zenon
<1>2. ASSUME NEW k \in T PROVE k + 1 \in T
  <2>1. k \in Nat /\ (k <= n => d[k] = e[k])
    OBVIOUS
  <2>2. ASSUME k + 1 <= n PROVE d[k + 1] = e[k + 1]
    <3>1. k + 1 \in 0..n /\ k + 1 \in 0..m /\ k + 1 # 0 /\ (k + 1) - 1 = k /\ k <= n
      BY <2>1, <2>2
    <3>2. d[k + 1] = Doubled(d[k]) /\ e[k + 1] = Doubled(e[k])
      BY <3>1, DelaysAt
    <3> QED
      BY <2>1, <3>1, <3>2, Zenon
  <2> QED
    BY <2>1, <2>2
<1>3. T \in SUBSET Nat
  OBVIOUS
<1> HIDE DEF T
<1>4. n \in T
  BY <1>1, <1>2, <1>3, Passes, Zenon
<1> QED
  BY <1>4 DEF T

LEMMA BackoffIsLastDelay ==
  ASSUME NEW base, NEW n \in Nat
  PROVE  \E d : Delays(d, base, n) /\ BoundedRetryBackoffSeconds(base, n) = d[n]
<1> DEFINE f == CHOOSE d : d = [passes \in 0..n |-> IF passes = 0 THEN ClampedBase(base) ELSE Doubled(d[passes - 1])]
<1>1. Delays(f, base, n)
  BY DelaysExist, Zenon DEF Delays
<1>2. BoundedRetryBackoffSeconds(base, n) = f[n]
  BY Zenon DEF BoundedRetryBackoffSeconds
<1> QED
  BY <1>1, <1>2, Zenon

LEMMA DoubledIsCapped ==
  ASSUME NEW x \in 1..MaxBackoff
  PROVE  /\ Doubled(x) \in 1..MaxBackoff
         /\ Doubled(x) = IF 2 * x > MaxBackoff THEN MaxBackoff ELSE 2 * x
BY SMTT(30) DEF Doubled, MaxBackoff

(* The delay before a retry starts at the base, doubles with every retry   *)
(* made, and stays within a second and an hour: what                       *)
(* boundedRetryBackoffSeconds computes, for every base and count.          *)
THEOREM BackoffDoublesToTheCap ==
  ASSUME NEW base \in Int, NEW n \in Nat
  PROVE  /\ BoundedRetryBackoffSeconds(base, 0) = ClampedBase(base)
         /\ BoundedRetryBackoffSeconds(base, n) \in 1..MaxBackoff
         /\ BoundedRetryBackoffSeconds(base, n + 1) =
               LET twice == 2 * BoundedRetryBackoffSeconds(base, n)
               IN  IF twice > MaxBackoff THEN MaxBackoff ELSE twice
<1> DEFINE B(k) == BoundedRetryBackoffSeconds(base, k)
<1>1. B(0) = ClampedBase(base)
  BY BackoffIsLastDelay, DelaysAt
<1>2. ASSUME NEW k \in Nat PROVE B(k + 1) = Doubled(B(k))
  <2>1. PICK d : Delays(d, base, k) /\ B(k) = d[k]
    BY BackoffIsLastDelay, Zenon
  <2>2. PICK e : Delays(e, base, k + 1) /\ B(k + 1) = e[k + 1]
    BY BackoffIsLastDelay
  <2>3. d[k] = e[k]
    BY <2>1, <2>2, DelaysAgree
  <2>4. e[k + 1] = Doubled(e[k])
    <3>1. PICK m \in Nat : m = k + 1 /\ m \in 0..m /\ m # 0 /\ m - 1 = k
      OBVIOUS
    <3>2. Delays(e, base, m)
      BY <2>2, <3>1, Zenon
    <3>3. \A j \in 0..m : j # 0 => e[j] = Doubled(e[j - 1])
      BY <3>2, DelaysAt, Zenon
    <3> QED
      BY <3>1, <3>3, Zenon
  <2> QED
    BY <2>1, <2>2, <2>3, <2>4, Zenon
<1> HIDE DEF B
<1> DEFINE T == {k \in Nat : B(k) \in 1..MaxBackoff}
<1>3. 0 \in T
  <2>1. ClampedBase(base) \in 1..MaxBackoff
    BY DEF ClampedBase, MaxBackoff
  <2> QED
    BY <1>1, <2>1, Zenon
<1>4. ASSUME NEW k \in T PROVE k + 1 \in T
  <2>1. k \in Nat /\ B(k) \in 1..MaxBackoff
    OBVIOUS
  <2>2. B(k + 1) \in 1..MaxBackoff
    BY <1>2, <2>1, DoubledIsCapped, Zenon
  <2> QED
    BY <2>1, <2>2
<1>5. T \in SUBSET Nat
  OBVIOUS
<1> HIDE DEF T
<1>6. n \in T
  BY <1>3, <1>4, <1>5, Passes, Zenon
<1>7. B(n) \in 1..MaxBackoff
  BY <1>6, Zenon DEF T
<1>8. B(n + 1) = IF 2 * B(n) > MaxBackoff THEN MaxBackoff ELSE 2 * B(n)
  BY <1>2, <1>7, DoubledIsCapped, Zenon
<1> QED
  BY <1>1, <1>7, <1>8, Zenon DEF B

-----------------------------------------------------------------------------
(* A row of the table has its fields' types.                              *)
LEMMA AbsentIsRow == Absent \in Row
BY Zenon DEF Absent, Row, Status

(* A second has at least one tick.                                        *)
LEMMA TicksAreNat == TicksPerSecond \in Nat \ {0}
BY BaseAssumption DEF TicksPerSecond

(* A normalised policy allows between 0 and 100 retries.                   *)
LEMMA MaxRetriesBound ==
  ASSUME NEW m \in MaxRetriesChoices \cup {0}
  PROVE  m \in 0..100
BY StoreAssumption

(* The row a retry writes is a row, with room left in the retry budget.   *)
LEMMA RetriedRowType ==
  ASSUME TypeOK, CallInv, NEW h \in Handlers, call[h] # Idle, WillRetry(call[h])
  PROVE  /\ RetriedRow(call[h]) \in Row
         /\ RetriedRow(call[h]).status = "pending"
         /\ RetriedRow(call[h]).lockedBy = NoWorker
         /\ RetriedRow(call[h]).maxRetries = row[call[h].task].maxRetries
         /\ RetriedRow(call[h]).retryCount <= RetriedRow(call[h]).maxRetries
<1> DEFINE c == call[h]
           d == BoundedRetryBackoffSeconds(c.seen.backoff, c.seen.retryCount)
<1>1. c \in Call /\ row[c.task] \in Row
  BY Zenon DEF TypeOK, Call
<1>2. c.seen \in Row
  BY <1>1, Zenon DEF Call
<1>3. /\ c.seen.retryCount \in Nat /\ c.seen.maxRetries \in 0..100
      /\ c.seen.retryCount < c.seen.maxRetries
      /\ c.seen.backoff \in BackoffChoices \cup {0}
      /\ c.seen.maxRetries = row[c.task].maxRetries
  <2>1. /\ c.seen.retryCount \in Nat
        /\ c.seen.maxRetries \in MaxRetriesChoices \cup {0}
        /\ c.seen.backoff \in BackoffChoices \cup {0}
    BY <1>2, Zenon DEF Row
  <2>2. c.seen.maxRetries \in 0..100
    BY <2>1, MaxRetriesBound, Zenon
  <2>3. c.seen.retryCount < c.seen.maxRetries
    BY Zenon DEF WillRetry
  <2>4. c.seen.maxRetries = row[c.task].maxRetries
    BY Zenon DEF CallInv
  <2> QED BY <2>1, <2>2, <2>3, <2>4, Zenon
<1>4. d \in Nat
  <2>1. \A b \in BackoffChoices \cup {0} : b \in Int
    BY StoreAssumption
  <2>2. c.seen.backoff \in Int /\ c.seen.retryCount \in Nat
    BY <1>3, <2>1, Zenon
  <2>3. d \in 1..MaxBackoff
    BY <2>2, BackoffDoublesToTheCap, Zenon
  <2> HIDE DEF d
  <2> QED BY <2>3 DEF MaxBackoff
<1> HIDE DEF d
<1> DEFINE due == clock + TicksPerSecond * d
<1>5. due \in Nat
  BY <1>4, TicksAreNat DEF TypeOK
<1>6. RetriedRow(c) = [row[c.task] EXCEPT
        !.status = "pending", !.lockedBy = NoWorker,
        !.retryCount = c.seen.retryCount + 1,
        !.nextRetryAt = due]
  BY Zenon DEF RetriedRow, d
<1> HIDE DEF c, due
<1>7. row[c.task].maxRetries \in Nat
  BY <1>3
<1>8. RetriedRow(c) \in Row
  <2>1. c.seen.retryCount + 1 \in Nat
    BY <1>3
  <2> QED BY <1>1, <2>1, <1>5, <1>6, Zenon DEF Row, Status
<1>9. /\ RetriedRow(c).status = "pending"
      /\ RetriedRow(c).lockedBy = NoWorker
      /\ RetriedRow(c).maxRetries = row[c.task].maxRetries
      /\ RetriedRow(c).retryCount = c.seen.retryCount + 1
  BY <1>1, <1>6, Zenon DEF Row
<1>10. RetriedRow(c).retryCount <= RetriedRow(c).maxRetries
  BY <1>3, <1>9
<1> QED BY <1>8, <1>9, <1>10, Zenon DEF c
(* An event of the right shape keeps the journal a sequence of events.    *)
LEMMA LoggedType ==
  ASSUME TypeOK, NEW t \in Tasks, NEW from \in Status, NEW to \in Status,
         NEW by \in Workers \cup {NoWorker},
         NEW note \in {"created", "claimed", "done", "failed",
                       "retry_scheduled", "retry_exhausted"}
  PROVE  Logged(t, from, to, by, note) \in Seq(Event)
<1>1. [from |-> from, to |-> to, by |-> by, note |-> note] \in Event
  BY Zenon DEF Event
<1>2. journal[t] \in Seq(Event)
  BY Zenon DEF TypeOK
<1> QED BY <1>1, <1>2 DEF Logged

-----------------------------------------------------------------------------
(* The empty tables satisfy the invariant.                                *)
LEMMA InitStoreInv == Init => StoreInv
<1> SUFFICES ASSUME Init PROVE StoreInv
  OBVIOUS
<1> USE DEF Init
<1>1. TypeOK
  BY AbsentIsRow DEF TypeOK
<1>2. LockMatchesStatus
  BY Zenon DEF LockMatchesStatus, Absent
<1>3. RetryWithinBudget
  BY DEF RetryWithinBudget, Absent
<1>4. CallInv
  BY Zenon DEF CallInv
<1> QED BY <1>1, <1>2, <1>3, <1>4, Zenon DEF StoreInv

(* A new row is pending, unlocked and has used none of its retries.       *)
LEMMA CreateKeepsStoreInv ==
  ASSUME StoreInv, NEW t \in Tasks, NEW at \in RunAtChoices,
         NEW m \in MaxRetriesChoices, NEW b \in BackoffChoices,
         CreateTask(t, at, m, b)
  PROVE  StoreInv'
<1> USE DEF StoreInv
<1> DEFINE new == [Absent EXCEPT !.status = "pending", !.runAt = at,
                     !.maxRetries = m, !.backoff = NormalizedBackoff(m, b)]
<1>1. row' = [row EXCEPT ![t] = new]
  BY Zenon DEF CreateTask
<1>2. at \in Nat /\ NormalizedBackoff(m, b) \in BackoffChoices \cup {0}
  BY StoreAssumption DEF NormalizedBackoff
<1>3. /\ new \in Row /\ new.status = "pending" /\ new.lockedBy = NoWorker
      /\ new.retryCount = 0 /\ new.maxRetries = m
  BY <1>2, AbsentIsRow, Zenon DEF Absent, Row, Status
<1> HIDE DEF new
<1>4. row \in [Tasks -> Row] /\ row[t].status = "absent"
  BY Zenon DEF TypeOK, CreateTask
<1>5. \A u \in Tasks : row'[u] = IF u = t THEN new ELSE row[u]
  BY <1>1, <1>4, Zenon
<1>6. TypeOK'
  <2>1. row' \in [Tasks -> Row]
    BY <1>1, <1>3, <1>4, Zenon
  <2>2. Logged(t, "absent", "pending", NoWorker, "created") \in Seq(Event)
    BY LoggedType, Zenon DEF Status
  <2>3. journal' \in [Tasks -> Seq(Event)]
    BY <2>2, Zenon DEF CreateTask, TypeOK
  <2> QED BY <2>1, <2>3, Zenon DEF CreateTask, TypeOK
<1>7. LockMatchesStatus'
  BY <1>3, <1>5, Zenon DEF LockMatchesStatus
<1>8. RetryWithinBudget'
  <2>1. m \in Nat
    BY MaxRetriesBound
  <2> QED BY <1>3, <1>5, <2>1 DEF RetryWithinBudget
<1>9. CallInv'
  <2>1. call' = call
    BY Zenon DEF CreateTask
  <2>2. \A h \in Handlers : call[h] # Idle => call[h].task \in Tasks
    BY Zenon DEF TypeOK, Call
  <2>3. \A h \in Handlers : call[h] # Idle => row'[call[h].task] = row[call[h].task]
    BY <1>4, <1>5, <2>2, Zenon DEF CallInv
  <2> QED BY <2>1, <2>3, Zenon DEF CallInv
<1> QED BY <1>6, <1>7, <1>8, <1>9, Zenon

(* A claim locks pending rows and leaves their retry counters alone.      *)
LEMMA ClaimKeepsStoreInv ==
  ASSUME StoreInv, NEW w \in Workers, NEW limit \in Limits, ClaimReadyTasks(w, limit)
  PROVE  StoreInv'
<1> USE DEF StoreInv
<1> DEFINE taken(t) == [row[t] EXCEPT !.status = "running", !.lockedBy = w]
<1>1. PICK S \in SUBSET Tasks :
        /\ ClaimBatch(S, limit)
        /\ row' = [t \in Tasks |-> IF t \in S THEN taken(t) ELSE row[t]]
        /\ journal' = [t \in Tasks |->
             IF t \in S THEN Logged(t, row[t].status, "running", w, "claimed")
                        ELSE journal[t]]
        /\ UNCHANGED <<call, clock>>
  BY Zenon DEF ClaimReadyTasks
<1>2. \A t \in Tasks : row[t] \in Row
  BY Zenon DEF TypeOK
<1>3. \A t \in Tasks : /\ taken(t) \in Row /\ taken(t).status = "running"
                       /\ taken(t).lockedBy = w
                       /\ taken(t).retryCount = row[t].retryCount
                       /\ taken(t).maxRetries = row[t].maxRetries
  BY <1>2, Zenon DEF Row, Status
<1> HIDE DEF taken
<1>4. \A t \in Tasks : row'[t] = IF t \in S THEN taken(t) ELSE row[t]
  BY <1>1, Zenon
<1>5. TypeOK'
  <2>1. row' \in [Tasks -> Row]
    BY <1>1, <1>2, <1>3, Zenon
  <2>2. ASSUME NEW t \in Tasks
        PROVE  Logged(t, row[t].status, "running", w, "claimed") \in Seq(Event)
    <3>1. row[t].status \in Status
      BY <1>2, Zenon DEF Row
    <3> QED BY <3>1, LoggedType, Zenon DEF Status
  <2>3. journal' \in [Tasks -> Seq(Event)]
    BY <1>1, <2>2, Zenon DEF TypeOK
  <2> QED BY <1>1, <2>1, <2>3, Zenon DEF TypeOK
<1>6. LockMatchesStatus'
  <2>1. w # NoWorker
    BY StoreAssumption
  <2> QED BY <1>3, <1>4, <2>1, Zenon DEF LockMatchesStatus
<1>7. RetryWithinBudget'
  BY <1>3, <1>4, Zenon DEF RetryWithinBudget
<1>8. CallInv'
  <2>1. \A h \in Handlers : call[h] # Idle => call[h].task \in Tasks
    BY Zenon DEF TypeOK, Call
  <2> QED BY <1>1, <1>3, <1>4, <2>1, Zenon DEF CallInv
<1> QED BY <1>5, <1>6, <1>7, <1>8, Zenon

(* A done or fail request remembers a row within its retry budget.        *)
LEMMA ReadKeepsStoreInv ==
  ASSUME StoreInv, NEW h \in Handlers, NEW t \in Tasks, NEW w \in Workers,
         NEW final \in {"done", "failed"}, ReadForFinal(h, t, w, final)
  PROVE  StoreInv'
<1> USE DEF StoreInv
<1> DEFINE c == [task |-> t, worker |-> w, next |-> final, seen |-> row[t]]
<1>1. /\ row[t].status = "running" /\ UNCHANGED <<row, journal, clock>>
      /\ call' = [call EXCEPT ![h] = c]
  BY Zenon DEF ReadForFinal
<1>2. row[t] \in Row
  BY Zenon DEF TypeOK
<1>3. c \in Call /\ c.task = t /\ c.seen = row[t]
  BY <1>2, Zenon DEF Call
<1> HIDE DEF c
<1>4. TypeOK'
  BY <1>1, <1>3, Zenon DEF TypeOK
<1>5. LockMatchesStatus' /\ RetryWithinBudget'
  BY <1>1, Zenon DEF LockMatchesStatus, RetryWithinBudget
<1>6. CallInv'
  <2>1. \A g \in Handlers : call'[g] = IF g = h THEN c ELSE call[g]
    BY <1>1, Zenon DEF TypeOK
  <2> QED BY <1>1, <1>3, <2>1 DEF CallInv, RetryWithinBudget
<1> QED BY <1>4, <1>5, <1>6, Zenon

(* A step that only ends a call, or ends it with a new row that keeps the  *)
(* policy, leaves what the other calls rely on.                            *)
LEMMA EndOfCall ==
  ASSUME StoreInv, NEW h \in Handlers, NEW t \in Tasks, NEW r \in Row,
         row' = [row EXCEPT ![t] = r],
         call' = [call EXCEPT ![h] = Idle],
         r.maxRetries = row[t].maxRetries, r.status # "absent",
         r.retryCount <= r.maxRetries,
         r.lockedBy = NoWorker <=> r.status \in {"absent", "pending"},
         journal' \in [Tasks -> Seq(Event)], clock' = clock
  PROVE  StoreInv'
<1> USE DEF StoreInv
<1>1. row \in [Tasks -> Row] /\ call \in [Handlers -> Call \cup {Idle}]
  BY Zenon DEF TypeOK
<1>2. \A u \in Tasks : row'[u] = IF u = t THEN r ELSE row[u]
  BY <1>1, Zenon
<1>3. \A g \in Handlers : call'[g] = IF g = h THEN Idle ELSE call[g]
  BY <1>1, Zenon
<1>4. TypeOK'
  <2>1. row' \in [Tasks -> Row]
    BY <1>1, Zenon
  <2>2. call' \in [Handlers -> Call \cup {Idle}]
    BY <1>1, Zenon
  <2> QED BY <2>1, <2>2, Zenon DEF TypeOK
<1>5. LockMatchesStatus'
  BY <1>2, Zenon DEF LockMatchesStatus
<1>6. RetryWithinBudget'
  BY <1>2, Zenon DEF RetryWithinBudget
<1>7. CallInv'
  <2>1. \A g \in Handlers : call[g] # Idle => call[g].task \in Tasks
    BY <1>1, Zenon DEF Call
  <2> QED BY <1>2, <1>3, <2>1 DEF CallInv
<1> QED BY <1>4, <1>5, <1>6, <1>7, Zenon

(* A retry counts from the remembered row, which had a retry left.        *)
LEMMA RetryKeepsStoreInv ==
  ASSUME StoreInv, NEW h \in Handlers, ScheduleRetry(h)
  PROVE  StoreInv'
<1> DEFINE c == call[h]
<1>1. /\ c # Idle /\ WillRetry(c) /\ clock' = clock
      /\ row' = [row EXCEPT ![c.task] = RetriedRow(c)]
      /\ call' = [call EXCEPT ![h] = Idle]
      /\ journal' = [journal EXCEPT ![c.task] =
           Logged(c.task, "running", "pending", c.worker, "retry_scheduled")]
  BY Zenon DEF ScheduleRetry
<1>2. c.task \in Tasks /\ c.worker \in Workers
  BY <1>1, Zenon DEF StoreInv, TypeOK, Call
<1>3. /\ RetriedRow(c) \in Row /\ RetriedRow(c).status = "pending"
      /\ RetriedRow(c).lockedBy = NoWorker
      /\ RetriedRow(c).maxRetries = row[c.task].maxRetries
      /\ RetriedRow(c).retryCount <= RetriedRow(c).maxRetries
  BY <1>1, RetriedRowType, Zenon DEF StoreInv
<1>4. Logged(c.task, "running", "pending", c.worker, "retry_scheduled") \in Seq(Event)
  BY <1>2, LoggedType, Zenon DEF StoreInv, Status
<1> HIDE DEF c
<1>5. journal' \in [Tasks -> Seq(Event)]
  BY <1>1, <1>2, <1>4, Zenon DEF StoreInv, TypeOK
<1> QED BY <1>1, <1>2, <1>3, <1>5, EndOfCall, Zenon

(* The final update changes the status of a running row only.             *)
LEMMA FinalizeKeepsStoreInv ==
  ASSUME StoreInv, NEW h \in Handlers, Finalize(h)
  PROVE  StoreInv'
<1> DEFINE c == call[h]
           r == [row[c.task] EXCEPT !.status = c.next, !.nextRetryAt = None]
<1>1. /\ c # Idle /\ StillHeld(c) /\ clock' = clock
      /\ row' = [row EXCEPT ![c.task].status = c.next, ![c.task].nextRetryAt = None]
      /\ call' = [call EXCEPT ![h] = Idle]
      /\ journal' = [journal EXCEPT ![c.task] =
           Logged(c.task, c.seen.status, c.next, c.worker, FinalNote(c))]
  BY Zenon DEF Finalize
<1>2. /\ c.task \in Tasks /\ c.worker \in Workers /\ c.next \in {"done", "failed"}
      /\ c.seen.status = "running" /\ row \in [Tasks -> Row]
  BY <1>1, Zenon DEF StoreInv, TypeOK, Call, CallInv
<1>3. row' = [row EXCEPT ![c.task] = r]
  BY <1>1, <1>2, Zenon DEF Row
<1>4. Logged(c.task, c.seen.status, c.next, c.worker, FinalNote(c)) \in Seq(Event)
  <2>1. FinalNote(c) \in {"done", "failed", "retry_exhausted"}
    BY Zenon DEF FinalNote
  <2>2. c.next \in Status /\ c.seen.status \in Status
    BY <1>2, Zenon DEF Status
  <2> QED BY <1>2, <2>1, <2>2, LoggedType, Zenon DEF StoreInv
<1>5. row[c.task].status = "running"
  BY <1>1, Zenon DEF StillHeld
<1> HIDE DEF c
<1>6. /\ r \in Row /\ r.status = c.next /\ r.lockedBy = row[c.task].lockedBy
      /\ r.maxRetries = row[c.task].maxRetries
      /\ r.retryCount = row[c.task].retryCount
  BY <1>2 DEF Row, Status, None
<1> HIDE DEF r
<1>7. journal' \in [Tasks -> Seq(Event)]
  BY <1>1, <1>2, <1>4, Zenon DEF StoreInv, TypeOK
<1>8. row[c.task].lockedBy # NoWorker /\ r.retryCount <= r.maxRetries
  BY <1>2, <1>5, <1>6, Zenon DEF StoreInv, LockMatchesStatus, RetryWithinBudget
<1>9. /\ r.status # "absent"
      /\ r.lockedBy = NoWorker <=> r.status \in {"absent", "pending"}
  BY <1>2, <1>6, <1>8, Zenon
<1>10. /\ c.task \in Tasks /\ r \in Row
       /\ call' = [call EXCEPT ![h] = Idle] /\ clock' = clock
       /\ r.maxRetries = row[c.task].maxRetries
  BY <1>1, <1>2, <1>6, Zenon
<1> QED BY <1>3, <1>7, <1>8, <1>9, <1>10, EndOfCall, Zenon

(* An update that no longer matches leaves the tables alone.              *)
LEMMA RollBackKeepsStoreInv ==
  ASSUME StoreInv, NEW h \in Handlers, RollBack(h)
  PROVE  StoreInv'
<1>1. /\ call' = [call EXCEPT ![h] = Idle] /\ UNCHANGED <<row, journal, clock>>
  BY Zenon DEF RollBack
<1>2. TypeOK'
  BY <1>1, Zenon DEF StoreInv, TypeOK
<1>3. LockMatchesStatus' /\ RetryWithinBudget'
  BY <1>1, Zenon DEF StoreInv, LockMatchesStatus, RetryWithinBudget
<1>4. CallInv'
  BY <1>1, Zenon DEF StoreInv, TypeOK, CallInv
<1> QED BY <1>2, <1>3, <1>4, Zenon DEF StoreInv

(* Every step of the store keeps the invariant.                           *)
LEMMA NextKeepsStoreInv == StoreInv /\ [Next]_vars => StoreInv'
<1> SUFFICES ASSUME StoreInv, [Next]_vars PROVE StoreInv'
  OBVIOUS
<1>1. CASE \E t \in Tasks, at \in RunAtChoices, m \in MaxRetriesChoices,
              b \in BackoffChoices : CreateTask(t, at, m, b)
  BY <1>1, CreateKeepsStoreInv, Zenon
<1>2. CASE \E w \in Workers, limit \in Limits : ClaimReadyTasks(w, limit)
  BY <1>2, ClaimKeepsStoreInv, Zenon
<1>3. CASE \E h \in Handlers, t \in Tasks, w \in Workers, final \in {"done", "failed"} :
              ReadForFinal(h, t, w, final)
  BY <1>3, ReadKeepsStoreInv, Zenon
<1>4. CASE \E h \in Handlers : ScheduleRetry(h)
  BY <1>4, RetryKeepsStoreInv, Zenon
<1>5. CASE \E h \in Handlers : Finalize(h)
  BY <1>5, FinalizeKeepsStoreInv, Zenon
<1>6. CASE \E h \in Handlers : RollBack(h)
  BY <1>6, RollBackKeepsStoreInv, Zenon
<1>7. CASE Tick \/ UNCHANGED vars
  <2>1. row' = row /\ journal' = journal /\ call' = call /\ clock' \in Nat
    BY <1>7 DEF Tick, vars, StoreInv, TypeOK
  <2>2. TypeOK'
    BY <2>1, Zenon DEF StoreInv, TypeOK
  <2>3. LockMatchesStatus' /\ RetryWithinBudget'
    BY <2>1, Zenon DEF StoreInv, LockMatchesStatus, RetryWithinBudget
  <2>4. CallInv'
    BY <2>1, Zenon DEF StoreInv, CallInv
  <2> QED BY <2>2, <2>3, <2>4, Zenon DEF StoreInv
<1> QED BY <1>1, <1>2, <1>3, <1>4, <1>5, <1>6, <1>7, Zenon DEF Next

(* The invariant holds in every reachable state of the store.             *)
THEOREM StoreInvariant == Spec => []StoreInv
<1> QED BY InitStoreInv, NextKeepsStoreInv, PTL DEF Spec

(* The retry counter never passes the task's policy, for any policy and    *)
(* however many done and fail requests overlap.                            *)
THEOREM RetryBudget == Spec => []RetryWithinBudget
<1> QED BY StoreInvariant, PTL DEF StoreInv

(* Rows, events and calls keep their types.                               *)
THEOREM StoreTypes == Spec => []TypeOK
<1> QED BY StoreInvariant, PTL DEF StoreInv

(* A pending task is never locked and a running one never unlocked.       *)
THEOREM LocksMatch == Spec => []LockMatchesStatus
<1> QED BY StoreInvariant, PTL DEF StoreInv

-----------------------------------------------------------------------------
(* A step of the store maps to a step of TaskLifecycle or to a stutter.   *)
LEMMA StepRefines ==
  ASSUME StoreInv, [Next]_vars
  PROVE  [L!Next]_(L!lifecycleVars)
<1> DEFINE status == [t \in Tasks |-> row[t].status]
           holder == [t \in Tasks |-> row[t].lockedBy]
<1>0. row \in [Tasks -> Row]
  BY Zenon DEF StoreInv, TypeOK
<1>1. ASSUME NEW t \in Tasks, NEW at \in RunAtChoices, NEW m \in MaxRetriesChoices,
             NEW b \in BackoffChoices, CreateTask(t, at, m, b)
      PROVE  L!Submit(t)
  <2> DEFINE new == [Absent EXCEPT !.status = "pending", !.runAt = at,
                       !.maxRetries = m, !.backoff = NormalizedBackoff(m, b)]
  <2>1. row' = [row EXCEPT ![t] = new] /\ row[t].status = "absent"
    BY <1>1, Zenon DEF CreateTask
  <2>2. new.status = "pending" /\ new.lockedBy = NoWorker
    BY Zenon DEF Absent
  <2>3. row[t].lockedBy = NoWorker
    BY <2>1, Zenon DEF StoreInv, LockMatchesStatus
  <2> HIDE DEF new
  <2>4. \A u \in Tasks : row'[u] = IF u = t THEN new ELSE row[u]
    BY <1>0, <2>1, Zenon
  <2>5. status' = [status EXCEPT ![t] = "pending"]
    BY <2>2, <2>4, Zenon
  <2>6. holder' = holder
    BY <2>2, <2>3, <2>4, Zenon
  <2> QED BY <2>1, <2>5, <2>6, Zenon DEF L!Submit
<1>2. ASSUME NEW w \in Workers, NEW limit \in Limits, ClaimReadyTasks(w, limit)
      PROVE  \E S \in SUBSET Tasks : L!Take(w, S)
  <2> DEFINE taken(t) == [row[t] EXCEPT !.status = "running", !.lockedBy = w]
  <2>1. PICK S \in (SUBSET Tasks) \ {{}} :
          /\ ClaimBatch(S, limit)
          /\ row' = [t \in Tasks |-> IF t \in S THEN taken(t) ELSE row[t]]
    BY <1>2, Zenon DEF ClaimReadyTasks
  <2>2. \A t \in Tasks : taken(t).status = "running" /\ taken(t).lockedBy = w
    BY <1>0, Zenon DEF Row
  <2>3. \A t \in S : row[t].status = "pending" /\ row[t].lockedBy = NoWorker
    BY <2>1, Zenon DEF ClaimBatch, Ready
  <2> HIDE DEF taken
  <2>4. status' = [t \in Tasks |-> IF t \in S THEN "running" ELSE status[t]]
    BY <2>1, <2>2, Zenon
  <2>5. holder' = [t \in Tasks |-> IF t \in S THEN w ELSE holder[t]]
    BY <2>1, <2>2, Zenon
  <2>6. S # {} /\ \A t \in S : status[t] = "pending" /\ holder[t] = NoWorker
    BY <2>1, <2>3, Zenon
  <2> QED BY <2>1, <2>4, <2>5, <2>6, Zenon DEF L!Take
<1>3. ASSUME NEW h \in Handlers, ScheduleRetry(h)
      PROVE  \E t \in Tasks, w \in Workers : L!GiveBack(t, w)
  <2> DEFINE c == call[h]
  <2>1. /\ c # Idle /\ WillRetry(c) /\ StillHeld(c)
        /\ row' = [row EXCEPT ![c.task] = RetriedRow(c)]
    BY <1>3, Zenon DEF ScheduleRetry
  <2>2. c.task \in Tasks /\ c.worker \in Workers
    BY <2>1, Zenon DEF StoreInv, TypeOK, Call
  <2>3. RetriedRow(c).status = "pending" /\ RetriedRow(c).lockedBy = NoWorker
    BY <2>1, RetriedRowType, Zenon DEF StoreInv
  <2> HIDE DEF c
  <2>4. \A u \in Tasks : row'[u] = IF u = c.task THEN RetriedRow(c) ELSE row[u]
    BY <1>0, <2>1, Zenon
  <2>5. status' = [status EXCEPT ![c.task] = "pending"]
    BY <2>2, <2>3, <2>4, Zenon
  <2>6. holder' = [holder EXCEPT ![c.task] = NoWorker]
    BY <2>2, <2>3, <2>4, Zenon
  <2>7. status[c.task] = "running" /\ holder[c.task] = c.worker
    BY <2>1, <2>2, Zenon DEF StillHeld
  <2> QED BY <2>2, <2>5, <2>6, <2>7, Zenon DEF L!GiveBack
<1>4. ASSUME NEW h \in Handlers, Finalize(h)
      PROVE  \E t \in Tasks, w \in Workers, o \in {"done", "failed"} : L!Finish(t, w, o)
  <2> DEFINE c == call[h]
  <2>1. /\ c # Idle /\ StillHeld(c)
        /\ row' = [row EXCEPT ![c.task].status = c.next, ![c.task].nextRetryAt = None]
    BY <1>4, Zenon DEF Finalize
  <2>2. c.task \in Tasks /\ c.worker \in Workers /\ c.next \in {"done", "failed"}
    BY <2>1, Zenon DEF StoreInv, TypeOK, Call
  <2> HIDE DEF c
  <2>3. \A u \in Tasks : u # c.task => row'[u] = row[u]
    BY <1>0, <2>1, Zenon
  <2>4. row'[c.task].status = c.next /\ row'[c.task].lockedBy = row[c.task].lockedBy
    BY <1>0, <2>1, <2>2, Zenon DEF Row
  <2>5. status' = [status EXCEPT ![c.task] = c.next]
    BY <2>2, <2>3, <2>4, Zenon
  <2>6. holder' = holder
    BY <2>2, <2>3, <2>4, Zenon
  <2>7. status[c.task] = "running" /\ holder[c.task] = c.worker
    BY <2>1, <2>2, Zenon DEF StillHeld
  <2> QED BY <2>2, <2>5, <2>6, <2>7, Zenon DEF L!Finish
<1>5. ASSUME row' = row
      PROVE  UNCHANGED L!lifecycleVars
  BY <1>5, Zenon DEF L!lifecycleVars
<1>6. \/ \E t \in Tasks, at \in RunAtChoices, m \in MaxRetriesChoices,
            b \in BackoffChoices : CreateTask(t, at, m, b)
      \/ \E w \in Workers, limit \in Limits : ClaimReadyTasks(w, limit)
      \/ \E h \in Handlers : ScheduleRetry(h)
      \/ \E h \in Handlers : Finalize(h)
      \/ row' = row
  BY Zenon DEF Next, ReadForFinal, RollBack, Tick, vars
<1> HIDE DEF status, holder
<1> QED BY <1>1, <1>2, <1>3, <1>4, <1>5, <1>6, Zenon DEF L!Next

(* The store implements the task lifecycle its callers rely on.           *)
THEOREM StoreImplementsLifecycle == Spec => ImplementsLifecycle
<1>1. Init => L!Init
  <2> SUFFICES ASSUME Init PROVE L!Init
    OBVIOUS
  <2>1. \A t \in Tasks : row[t].status = "absent" /\ row[t].lockedBy = NoWorker
    BY Zenon DEF Init, Absent
  <2> QED BY <2>1, Zenon DEF L!Init
<1>2. StoreInv /\ [Next]_vars => [L!Next]_(L!lifecycleVars)
  BY StepRefines, Zenon
<1> QED BY <1>1, <1>2, StoreInvariant, PTL DEF Spec, ImplementsLifecycle, L!Spec

-----------------------------------------------------------------------------
(* A final row never changes: no claim, retry or second finalisation       *)
(* touches it, whatever a handler read before it became final.             *)
THEOREM FinalStaysFinal == Spec => FinalIsForever
<1> DEFINE Kept == \A t \in Tasks : row[t].status \in Final => row'[t] = row[t]
<1>1. StoreInv /\ [Next]_vars => Kept
  <2> SUFFICES ASSUME StoreInv, [Next]_vars, NEW t \in Tasks, row[t].status \in Final
               PROVE  row'[t] = row[t]
    OBVIOUS
  <2>0. row \in [Tasks -> Row] /\ row[t].status # "pending"
           /\ row[t].status # "running" /\ row[t].status # "absent"
    BY Zenon DEF StoreInv, TypeOK, Final
  <2>1. ASSUME NEW u \in Tasks, NEW at \in RunAtChoices, NEW m \in MaxRetriesChoices,
               NEW b \in BackoffChoices, CreateTask(u, at, m, b)
        PROVE  row'[t] = row[t]
    BY <2>0, <2>1, Zenon DEF CreateTask
  <2>2. ASSUME NEW w \in Workers, NEW limit \in Limits, ClaimReadyTasks(w, limit)
        PROVE  row'[t] = row[t]
    <3> DEFINE taken(u) == [row[u] EXCEPT !.status = "running", !.lockedBy = w]
    <3>1. PICK S \in (SUBSET Tasks) \ {{}} :
            /\ ClaimBatch(S, limit)
            /\ row' = [u \in Tasks |-> IF u \in S THEN taken(u) ELSE row[u]]
      BY <2>2, Zenon DEF ClaimReadyTasks
    <3>2. t \notin S
      BY <2>0, <3>1, Zenon DEF ClaimBatch, Ready
    <3> HIDE DEF taken
    <3> QED BY <3>1, <3>2, Zenon
  <2>3. ASSUME NEW h \in Handlers, ScheduleRetry(h)
        PROVE  row'[t] = row[t]
    <3>1. call[h].task # t
      BY <2>0, <2>3, Zenon DEF ScheduleRetry, StillHeld
    <3>2. row' = [row EXCEPT ![call[h].task] = RetriedRow(call[h])]
      BY <2>3, Zenon DEF ScheduleRetry
    <3> QED BY <2>0, <3>1, <3>2, Zenon
  <2>4. ASSUME NEW h \in Handlers, Finalize(h)
        PROVE  row'[t] = row[t]
    <3>1. call[h].task # t
      BY <2>0, <2>4, Zenon DEF Finalize, StillHeld
    <3>2. row' = [row EXCEPT ![call[h].task].status = call[h].next,
                             ![call[h].task].nextRetryAt = None]
      BY <2>4, Zenon DEF Finalize
    <3> QED BY <2>0, <3>1, <3>2, Zenon
  <2>5. CASE row' = row
    BY <2>5, Zenon
  <2> QED BY <2>1, <2>2, <2>3, <2>4, <2>5, Zenon DEF Next, ReadForFinal, RollBack, Tick, vars
<1> QED BY <1>1, StoreInvariant, PTL DEF Spec, FinalIsForever

(* What the claims and the markFinal calls decide by, for any number of    *)
(* tasks, workers and requests in flight.                                  *)
THEOREM StoreIsSoundAlways == Spec => []StoreIsSound
<1>1. RetryWithinBudget /\ LockMatchesStatus => StoreIsSound
  BY Zenon DEF StoreIsSound
<1> QED
  BY <1>1, RetryBudget, LocksMatch, PTL

(* The store implements TaskLifecycle and never changes a final row.       *)
THEOREM LifecycleIsKeptAlways == Spec => LifecycleIsKept
<1> QED
  BY StoreImplementsLifecycle, FinalStaysFinal, PTL DEF LifecycleIsKept

-----------------------------------------------------------------------------
(* The journal of one task: what JournalIsExact says of it, and that the   *)
(* last event of a running task names the row's holder.  Without the last  *)
(* conjunct an update could not know whose claim it ends.                  *)
JournalOf(t) ==
  LET j == journal[t] IN
  /\ (j = <<>>) <=> (row[t].status = "absent")
  /\ j # <<>> => j[1].from = "absent" /\ j[Len(j)].to = row[t].status
  /\ \A i \in 1..(Len(j) - 1) : j[i].to = j[i + 1].from
  /\ \A i \in 2..Len(j) : j[i].from = "running" => j[i].by = j[i - 1].by
  /\ row[t].status = "running" => j[Len(j)].by = row[t].lockedBy

JournalInv == \A t \in Tasks : JournalOf(t)

(* Appending the event that tells the row's change keeps the journal its  *)
(* history.                                                                *)
LEMMA AppendKeepsJournal ==
  ASSUME TypeOK, NEW t \in Tasks, JournalOf(t), NEW e \in Event,
         journal'[t] = Append(journal[t], e),
         e.from = row[t].status, e.to = row'[t].status,
         row'[t].status # "absent",
         row[t].status = "running" => e.by = row[t].lockedBy,
         row'[t].status = "running" => e.by = row'[t].lockedBy
  PROVE  JournalOf(t)'
<1> DEFINE j == journal[t]
           k == journal'[t]
           n == Len(j)
<1>1. j \in Seq(Event)
  BY Zenon DEF TypeOK
<1>2. /\ n \in Nat /\ Len(k) = n + 1 /\ k # <<>> /\ k[n + 1] = e
      /\ \A i \in 1..n : k[i] = j[i]
      /\ j = <<>> <=> n = 0
  BY <1>1
<1> HIDE DEF j, k, n
<1>3. k[1].from = "absent" /\ k[Len(k)].to = row'[t].status
  BY <1>2 DEF JournalOf, j
<1>4. ASSUME NEW i \in 1..(Len(k) - 1)
      PROVE  k[i].to = k[i + 1].from
  <2>1. CASE i = n
    BY <1>2, <2>1 DEF JournalOf, j, n
  <2>2. CASE i # n
    <3>1. i \in 1..(n - 1) /\ i + 1 \in 1..n
      BY <1>2, <2>2
    <3> QED BY <1>2, <3>1 DEF JournalOf, j, n
  <2> QED BY <2>1, <2>2, Zenon
<1>5. ASSUME NEW i \in 2..Len(k), k[i].from = "running"
      PROVE  k[i].by = k[i - 1].by
  <2>1. CASE i = n + 1
    BY <1>2, <1>5, <2>1 DEF JournalOf, j, n
  <2>2. CASE i # n + 1
    <3>1. i \in 2..n /\ i - 1 \in 1..n
      BY <1>2, <2>2
    <3> QED BY <1>2, <1>5, <3>1 DEF JournalOf, j, n
  <2> QED BY <2>1, <2>2, Zenon
<1>6. row'[t].status = "running" => k[Len(k)].by = row'[t].lockedBy
  BY <1>2, Zenon
<1> QED BY <1>2, <1>3, <1>4, <1>5, <1>6, Zenon DEF JournalOf, k

(* A task whose row and journal stay keeps its journal's property.        *)
LEMMA SameKeepsJournal ==
  ASSUME NEW t \in Tasks, JournalOf(t), row'[t] = row[t], journal'[t] = journal[t]
  PROVE  JournalOf(t)'
BY Zenon DEF JournalOf

(* Every transaction logs the change it makes, and no other step logs.    *)
LEMMA NextKeepsJournalInv == StoreInv /\ JournalInv /\ [Next]_vars => JournalInv'
<1> SUFFICES ASSUME StoreInv, JournalInv, [Next]_vars, NEW u \in Tasks
             PROVE  JournalOf(u)'
  BY Zenon DEF JournalInv
<1>0. /\ row \in [Tasks -> Row] /\ journal \in [Tasks -> Seq(Event)]
      /\ TypeOK /\ JournalOf(u) /\ row[u] \in Row
  BY Zenon DEF StoreInv, TypeOK, JournalInv
<1>1. ASSUME NEW t \in Tasks, NEW at \in RunAtChoices, NEW m \in MaxRetriesChoices,
             NEW b \in BackoffChoices, CreateTask(t, at, m, b)
      PROVE  JournalOf(u)'
  <2> DEFINE new == [Absent EXCEPT !.status = "pending", !.runAt = at,
                       !.maxRetries = m, !.backoff = NormalizedBackoff(m, b)]
             e == [from |-> "absent", to |-> "pending", by |-> NoWorker,
                   note |-> "created"]
  <2>1. /\ row' = [row EXCEPT ![t] = new] /\ row[t].status = "absent"
        /\ journal' = [journal EXCEPT ![t] = Append(journal[t], e)]
    BY <1>1, Zenon DEF CreateTask, Logged
  <2>2. new.status = "pending"
    BY Zenon DEF Absent
  <2>3. e \in Event /\ e.from = "absent" /\ e.to = "pending"
    BY Zenon DEF Event, Status
  <2> HIDE DEF new, e
  <2> QED BY <1>0, <2>1, <2>2, <2>3, AppendKeepsJournal, SameKeepsJournal, Zenon
<1>2. ASSUME NEW w \in Workers, NEW limit \in Limits, ClaimReadyTasks(w, limit)
      PROVE  JournalOf(u)'
  <2> DEFINE taken(t) == [row[t] EXCEPT !.status = "running", !.lockedBy = w]
             e(t) == [from |-> row[t].status, to |-> "running", by |-> w,
                      note |-> "claimed"]
  <2>1. PICK S \in SUBSET Tasks :
          /\ ClaimBatch(S, limit)
          /\ row' = [t \in Tasks |-> IF t \in S THEN taken(t) ELSE row[t]]
          /\ journal' = [t \in Tasks |-> IF t \in S THEN Append(journal[t], e(t))
                                                    ELSE journal[t]]
    BY <1>2, Zenon DEF ClaimReadyTasks, Logged
  <2>2. taken(u).status = "running" /\ taken(u).lockedBy = w
    BY <1>0, Zenon DEF Row
  <2>3. /\ e(u) \in Event /\ e(u).from = row[u].status /\ e(u).to = "running"
        /\ e(u).by = w
    BY <1>0, Zenon DEF Event, Row, Status
  <2>4. u \in S => row[u].status = "pending"
    BY <2>1, Zenon DEF ClaimBatch, Ready
  <2>5. /\ row'[u] = IF u \in S THEN taken(u) ELSE row[u]
        /\ journal'[u] = IF u \in S THEN Append(journal[u], e(u)) ELSE journal[u]
    BY <2>1, Zenon
  <2> HIDE DEF taken, e
  <2> QED BY <1>0, <2>2, <2>3, <2>4, <2>5, AppendKeepsJournal, SameKeepsJournal, Zenon
<1>3. ASSUME NEW h \in Handlers, ScheduleRetry(h)
      PROVE  JournalOf(u)'
  <2> DEFINE c == call[h]
             e == [from |-> "running", to |-> "pending", by |-> c.worker,
                   note |-> "retry_scheduled"]
  <2>1. /\ c # Idle /\ WillRetry(c) /\ StillHeld(c)
        /\ row' = [row EXCEPT ![c.task] = RetriedRow(c)]
        /\ journal' = [journal EXCEPT ![c.task] = Append(journal[c.task], e)]
    BY <1>3, Zenon DEF ScheduleRetry, Logged
  <2>2. c.task \in Tasks /\ c.worker \in Workers
    BY <2>1, Zenon DEF StoreInv, TypeOK, Call
  <2>3. RetriedRow(c).status = "pending"
    BY <2>1, RetriedRowType, Zenon DEF StoreInv
  <2>4. row[c.task].status = "running" /\ row[c.task].lockedBy = c.worker
    BY <2>1, Zenon DEF StillHeld
  <2> HIDE DEF c
  <2>5. e \in Event /\ e.from = "running" /\ e.to = "pending" /\ e.by = c.worker
    BY <2>2, Zenon DEF Event, Status
  <2> HIDE DEF e
  <2> QED BY <1>0, <2>1, <2>2, <2>3, <2>4, <2>5, AppendKeepsJournal, SameKeepsJournal, Zenon
<1>4. ASSUME NEW h \in Handlers, Finalize(h)
      PROVE  JournalOf(u)'
  <2> DEFINE c == call[h]
             e == [from |-> c.seen.status, to |-> c.next, by |-> c.worker,
                   note |-> FinalNote(c)]
  <2>1. /\ c # Idle /\ StillHeld(c)
        /\ row' = [row EXCEPT ![c.task].status = c.next, ![c.task].nextRetryAt = None]
        /\ journal' = [journal EXCEPT ![c.task] = Append(journal[c.task], e)]
    BY <1>4, Zenon DEF Finalize, Logged
  <2>2. /\ c.task \in Tasks /\ c.worker \in Workers /\ c.next \in {"done", "failed"}
        /\ c.seen.status = "running"
    BY <2>1, Zenon DEF StoreInv, TypeOK, Call, CallInv
  <2>3. row[c.task].status = "running" /\ row[c.task].lockedBy = c.worker
    BY <2>1, Zenon DEF StillHeld
  <2>4. FinalNote(c) \in {"done", "failed", "retry_exhausted"}
    BY Zenon DEF FinalNote
  <2> HIDE DEF c
  <2>5. e \in Event /\ e.from = "running" /\ e.to = c.next /\ e.by = c.worker
    BY <2>2, <2>4, Zenon DEF Event, Status
  <2> HIDE DEF e
  <2>6. row'[c.task].status = c.next /\ \A t \in Tasks : t # c.task => row'[t] = row[t]
    BY <1>0, <2>1, <2>2, Zenon DEF Row
  <2> QED BY <1>0, <2>1, <2>2, <2>3, <2>5, <2>6, AppendKeepsJournal, SameKeepsJournal, Zenon
<1>5. CASE row' = row /\ journal' = journal
  BY <1>0, <1>5, SameKeepsJournal, Zenon
<1> QED
  BY <1>1, <1>2, <1>3, <1>4, <1>5, Zenon DEF Next, ReadForFinal, RollBack, Tick, vars

(* The events of every task are the history of its row, and the worker    *)
(* whose claim began a run is the one named at its end, however late the   *)
(* done and fail requests come (markFinal, ClaimReadyTasks, CreateTask).   *)
THEOREM JournalIsExactAlways == Spec => []JournalIsExact
<1>1. Init => JournalInv
  BY DEF Init, JournalInv, JournalOf, Absent
<1>2. JournalInv => JournalIsExact
  BY Zenon DEF JournalInv, JournalOf, JournalIsExact, JournalIsHistory, HolderEndsItsRun
<1> QED BY <1>1, <1>2, NextKeepsJournalInv, StoreInvariant, PTL DEF Spec
=============================================================================
