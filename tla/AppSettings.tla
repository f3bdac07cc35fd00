----------------------------- MODULE AppSettings -----------------------------
(***************************************************************************)
(* The settings of the application that are one value each: the window     *)
(* title (held twice, by the shell and by the settings section, and kept   *)
(* in step by a window event), the locale (shown before it is saved) and   *)
(* the watcher mode (saved, then read again).                              *)
(*   features/runtime/model/use-window-title-settings.ts                   *)
(*   features/i18n/model/locale-provider.tsx                               *)
(*   features/runtime/model/use-runtime-settings.ts                        *)
(***************************************************************************)
EXTENDS Naturals, FiniteSets

CONSTANTS Title,      \* texts of a custom title, "" excluded
          Locale,     \* the supported locales
          MaxActs,    \* bound on what the operator does
          MaxDrops    \* bound on lost requests and answers

VARIABLES
    part,     \* which setting this behaviour is about
    ui,       \* holder -> its state; a holder is "app" or "section"
    draft,    \* the title being typed in the section
    requests, \* the requests in flight
    stored,   \* the value of the backend
    crossed,  \* a read and a write were in flight together since the last
              \* answer to a request that was alone
    lost,     \* the answer of a write was lost since then
    known,    \* some answer has been shown
    acts, drops

appVars == <<part, ui, draft, requests, stored, crossed, lost, known, acts, drops>>

Part == {"title", "locale", "watcher"}

AutoTitle == [mode |-> "auto", text |-> ""]

Value(p) ==
    CASE p = "title"   -> {AutoTitle} \cup [mode : {"custom"}, text : Title \cup {""}]
      [] p = "locale"  -> Locale
      [] p = "watcher" -> {"ephemeral", "persistent"}

\* The value a holder has before anything was read.
Initial(p) ==
    CASE p = "title"   -> AutoTitle
      [] p = "locale"  -> CHOOSE l \in Locale : TRUE
      [] p = "watcher" -> "ephemeral"

\* The holder that lives as long as the application.
Lasting(p) == IF p = "watcher" THEN {} ELSE {"app"}

\* The holder the controls of the section work on.
Holder == IF part = "locale" THEN "app" ELSE "section"

Mounted(p) == [mounted |-> TRUE, life |-> 0, value |-> Initial(p), loading |-> TRUE,
               saving |-> FALSE, error |-> FALSE]

Unmounted(p) == [Mounted(p) EXCEPT !.mounted = FALSE, !.loading = FALSE]

\* A request: a read, or a write of `patch`; `previous` is the value the
\* handler captured.
Request(w, op, patch, previous) ==
    [by |-> w, life |-> ui[w].life, op |-> op, patch |-> patch,
     previous |-> previous, state |-> "sent", answer |-> previous, alone |-> TRUE]

Reads(rs) == {r \in rs : r.op = "read" \/ r.op = "reread"}

\* A request begins, alone or beside others.
Begin(r) ==
    /\ requests' = IF requests = {} THEN {r}
                   ELSE {[q EXCEPT !.alone = FALSE] : q \in requests \cup {r}}
    /\ crossed' = (crossed \/ (Reads(requests') # {} /\ requests' \ Reads(requests') # {}))

AppInit ==
    /\ part \in Part
    /\ stored \in Value(part)
    /\ ui = [w \in {"app", "section"} |->
                IF w \in Lasting(part) THEN Mounted(part) ELSE Unmounted(part)]
    /\ requests = {[by |-> w, life |-> 0, op |-> "read", patch |-> Initial(part),
                    previous |-> Initial(part), state |-> "sent",
                    answer |-> Initial(part), alone |-> TRUE] : w \in Lasting(part)}
    /\ draft = ""
    /\ crossed = FALSE /\ lost = FALSE /\ known = FALSE /\ acts = 0 /\ drops = 0

Acts == acts < MaxActs /\ acts' = acts + 1

\* The section is opened: its holder is new and reads.
mountSection ==
    /\ Acts
    /\ part # "locale" /\ ~ui["section"].mounted
    /\ LET life == ui["section"].life + 1
           w == [Mounted(part) EXCEPT !.life = life] IN
        /\ ui' = [ui EXCEPT !["section"] = w]
        /\ Begin([Request("section", "read", Initial(part), Initial(part))
                    EXCEPT !.life = life])
    /\ draft' = ""
    /\ UNCHANGED <<part, stored, lost, known, drops>>

unmountSection ==
    /\ Acts
    /\ ui["section"].mounted
    /\ ui' = [ui EXCEPT !["section"].mounted = FALSE, !["section"].loading = FALSE,
                        !["section"].saving = FALSE]
    /\ UNCHANGED <<part, draft, requests, stored, crossed, lost, known, drops>>

Free(w) == ui[w].mounted /\ ~ui[w].loading /\ ~ui[w].saving

\* The refresh button.
refresh ==
    /\ Acts
    /\ Free(Holder)
    /\ ui' = [ui EXCEPT ![Holder].loading = TRUE, ![Holder].error = FALSE]
    /\ Begin(Request(Holder, "read", ui[Holder].value, ui[Holder].value))
    /\ UNCHANGED <<part, draft, stored, lost, known, drops>>

\* A save of the section: the locale is shown at once.
Save(patch) ==
    /\ Acts
    /\ ui' = [ui EXCEPT ![Holder].saving = TRUE, ![Holder].error = FALSE,
                        ![Holder].value = IF part = "locale" THEN patch ELSE @]
    /\ Begin(Request(Holder, "write", patch, ui[Holder].value))
    /\ UNCHANGED <<part, draft, stored, lost, known, drops>>

\* The radio and the two buttons of the window title card; a missing field of
\* the patch is the text "keep".
updateSettings ==
    /\ part = "title" /\ Free("section")
    /\ LET v == ui["section"].value IN
        \/ v.mode = "auto" /\ Save([mode |-> "custom", text |-> "keep"])
        \/ v.mode = "custom" /\ Save([mode |-> "auto", text |-> "keep"])
        \/ v.mode = "custom" /\ Save([mode |-> "custom", text |-> draft])

typeTitle ==
    /\ Acts
    /\ part = "title" /\ Free("section")
    /\ ui["section"].value.mode = "custom"
    /\ \E t \in Title \cup {""} : t # draft /\ draft' = t
    /\ UNCHANGED <<part, ui, requests, stored, crossed, lost, known, drops>>

setLocale ==
    /\ part = "locale" /\ Free("app")
    /\ \E l \in Locale : l # ui["app"].value /\ Save(l)

updateWatcherMode ==
    /\ part = "watcher" /\ Free("section")
    /\ \E m \in Value("watcher") : m # ui["section"].value /\ Save(m)

\* The backend: a title that is not custom has no text.
Patched(patch) ==
    IF part # "title" THEN patch
    ELSE IF patch.mode = "auto" THEN AutoTitle
    ELSE [mode |-> "custom", text |-> IF patch.text = "keep" THEN stored.text ELSE patch.text]

Serve(r) ==
    /\ r.state = "sent"
    /\ stored' = IF r.op = "write" THEN Patched(r.patch) ELSE stored
    /\ requests' = (requests \ {r}) \cup {[r EXCEPT !.state = "served", !.answer = stored']}
    /\ UNCHANGED <<part, ui, draft, crossed, lost, known, acts, drops>>

\* A request or its answer is lost, or is answered with an error.
Drop(r) ==
    /\ r.state \in {"sent", "served"}
    /\ drops < MaxDrops
    /\ drops' = drops + 1
    /\ requests' = (requests \ {r}) \cup {[r EXCEPT !.state = "failed"]}
    /\ lost' = (lost \/ (r.state = "served" /\ r.op = "write"))
    /\ UNCHANGED <<part, ui, draft, stored, crossed, known, acts>>

Mine(r) == ui[r.by].mounted /\ ui[r.by].life = r.life

\* The holders that take over the answer to r: the one that asked, and through
\* the event every mounted holder of the window title, whether the one that
\* asked is still mounted or not.
applyViewState(r, w) ==
    \/ Mine(r) /\ r.by = w
    \/ part = "title" /\ ui[w].mounted

Ended(r, s) == IF r.op = "read" THEN [s EXCEPT !.loading = FALSE]
                               ELSE [s EXCEPT !.saving = FALSE]

\* An answer.  A watcher mode that was written is read again before it is
\* shown; the other answers carry the value.
Answered(r) ==
    /\ r.state = "served"
    /\ IF part = "watcher" /\ r.op = "write"
       THEN /\ requests' = (requests \ {r})
                 \cup {[r EXCEPT !.op = "reread", !.state = "sent"]}
            /\ UNCHANGED <<ui, draft, lost, crossed, known>>
       ELSE /\ requests' = requests \ {r}
            /\ ui' = [w \in DOMAIN ui |->
                        LET s == IF applyViewState(r, w)
                                 THEN [ui[w] EXCEPT !.value = r.answer] ELSE ui[w] IN
                        IF Mine(r) /\ r.by = w THEN Ended(r, s) ELSE s]
            /\ draft' = IF part = "title" /\ ui["section"].mounted
                            /\ ui'["section"].value.text # ui["section"].value.text
                        THEN ui'["section"].value.text ELSE draft
            /\ lost' = (lost /\ ~r.alone)
            /\ crossed' = (crossed /\ ~r.alone)
            /\ known' = TRUE
    /\ UNCHANGED <<part, stored, acts, drops>>

\* An error is shown by the holder that asked; the locale goes back to the one
\* before.
Failed(r) ==
    /\ r.state = "failed"
    /\ requests' = requests \ {r}
    /\ ui' = IF Mine(r)
             THEN [ui EXCEPT ![r.by] =
                    [Ended(r, @) EXCEPT !.error = TRUE,
                                        !.value = IF part = "locale" /\ r.op = "write"
                                                  THEN r.previous ELSE @]]
             ELSE ui
    /\ UNCHANGED <<part, draft, stored, crossed, lost, known, acts, drops>>

AppNext ==
    \/ mountSection \/ unmountSection \/ refresh
    \/ updateSettings \/ typeTitle \/ setLocale \/ updateWatcherMode
    \/ \E r \in requests : Serve(r) \/ Drop(r) \/ Answered(r) \/ Failed(r)

AppSpec == AppInit /\ [][AppNext]_appVars

-----------------------------------------------------------------------------
Settled == requests = {} /\ ~crossed /\ ~lost

\* Once nothing is in flight every holder shows the backend's value: the shell
\* and the section agree on the window title although each has its own copy, a
\* watcher mode is the one in force, and a locale that could not be saved is
\* back to the stored one even while its error shows.  Excepted are a holder
\* whose load failed, a read that crossed a write, and a write whose answer was
\* lost.
HoldersShowStored ==
    Settled => \A w \in DOMAIN ui :
        (ui[w].mounted /\ (~ui[w].error \/ (part = "locale" /\ known)))
            => ui[w].value = stored
=============================================================================
