--------------------------- MODULE RemoteProfiles ---------------------------
(***************************************************************************)
(* The remote profiles section: the saved SSH profiles, the connection     *)
(* that is the default, the form that creates or edits a profile, and the  *)
(* tmux sessions of a profile.                                             *)
(*                                                                         *)
(* widgets/settings/remote-profiles-settings-section.tsx and               *)
(* features/remote/api/client.ts.  A profile keeps the fields that decide  *)
(* something: its host (no host, no save), launch mode and tmux session;   *)
(* of the connections snapshot the id of the default connection is kept.   *)
(***************************************************************************)
EXTENDS SettingsFrame

CONSTANTS Profile,      \* the ids the backend can give out
          Saved,        \* the profiles saved before the section is opened
          Multiplexed,  \* those of them that start a tmux session
          Host,         \* the host names the operator types
          Tmux          \* the tmux sessions of a remote host

local == "local"        \* the id of the connection that is always there

Fields == [host |-> "", port |-> "", mode |-> "shell", session |-> ""]
defaultProfileDraft == Fields

\* What the backend stores before the first request: each saved profile has
\* a host of its own.
Backend ==
    [profiles |-> [p \in Saved |->
        [host |-> p, mode |-> IF p \in Multiplexed THEN "tmux" ELSE "shell",
         session |-> ""]],
     active |-> local]

Blank ==
    [profiles |-> << >>, active |-> local,
     form |-> defaultProfileDraft, editing |-> None, filter |-> None,
     loading |-> TRUE, saving |-> FALSE, importing |-> FALSE, busy |-> None,
     tmux |-> << >>, drafts |-> << >>, browsing |-> None, error |-> FALSE]

\* The request the mount effect sends.
Mounted == {Task("load", None, None)}

With(f, k, x) == [y \in DOMAIN f \cup {k} |-> IF y = k THEN x ELSE f[y]]
Without(f, k) == [y \in DOMAIN f \ {k} |-> f[y]]

-----------------------------------------------------------------------------
(* Which controls the section offers.                                      *)

\* A filter hides the rows it does not match.
profileMatchesFilter(p) == view.filter = None \/ view.filter = p

visibleProfiles == {p \in DOMAIN view.profiles : profileMatchesFilter(p)}

Row(p) == ~view.loading /\ p \in visibleProfiles
isBusy(p) == view.busy = p
RowIsFree(p) == Row(p) /\ ~isBusy(p) /\ ~view.saving
TmuxRow(p) == Row(p) /\ view.profiles[p].mode = "tmux"

\* The buttons below the tmux sessions of p, shown once they were browsed.
TmuxIsFree(p) ==
    TmuxRow(p) /\ p \in DOMAIN view.tmux /\ ~view.saving /\ view.busy = None

canSaveProfile == view.form.host # ""

-----------------------------------------------------------------------------
(* The operator.                                                           *)

Quietly(v) == [v EXCEPT !.error = FALSE]

resetProfileForm(v) == [v EXCEPT !.editing = None, !.form = defaultProfileDraft]

loadProfilesAndConnections ==
    /\ ~view.loading
    /\ BeginReload([Quietly(view) EXCEPT !.loading = TRUE], Mounted)

handleImport ==
    /\ ~view.importing
    /\ Begin([Quietly(view) EXCEPT !.importing = TRUE], {Task("import", None, None)})

\* The save of the form: a port that is no number is refused at once.
handleSaveProfile ==
    /\ canSaveProfile /\ ~view.saving /\ view.busy = None
    /\ IF view.form.port = "bad"
       THEN Local([view EXCEPT !.error = TRUE])
       ELSE Begin([Quietly(view) EXCEPT !.saving = TRUE],
                  {Task("save", view.editing,
                        [host |-> view.form.host, mode |-> view.form.mode,
                         session |-> IF view.form.mode = "tmux"
                                     THEN view.form.session ELSE ""])})

StartEdit(v, p) ==
    LET q == v.profiles[p] IN
    [Quietly(v) EXCEPT !.editing = p,
                       !.form = [host |-> q.host, port |-> "", mode |-> q.mode,
                                 session |-> q.session]]

handleStartEdit(p) == RowIsFree(p) /\ Local(StartEdit(view, p))

cancelEdit ==
    /\ view.editing # None /\ ~view.saving
    /\ Local(resetProfileForm(view))

\* The inputs of the form and the filter are never disabled.
typeProfile ==
    \/ \E h \in Host : h # view.form.host /\ Local([view EXCEPT !.form.host = h])
    \/ view.form.port = "" /\ Local([view EXCEPT !.form.port = "bad"])
    \/ view.form.port = "bad" /\ Local([view EXCEPT !.form.port = ""])
    \/ Local([view EXCEPT !.form.mode = IF @ = "tmux" THEN "shell" ELSE "tmux"])

typeFilter ==
    \E f \in Multiplexed \cup {None} :
        f # view.filter /\ Local([view EXCEPT !.filter = f])

\* A handler of one row takes the one busy slot of the section.
OnRow(op, p) ==
    /\ RowIsFree(p)
    /\ Begin([Quietly(view) EXCEPT !.busy = p], {Task(op, p, view.editing)})

handleDeleteProfile(p) == OnRow("delete", p)
handleCheckProfile(p) == OnRow("check", p)
handleSetDefaultProfile(p) == OnRow("select", p)
handleOpenProfileShell(p) == OnRow("open", p)

handleBrowseTmuxSessions(p) ==
    /\ RowIsFree(p) /\ TmuxRow(p) /\ view.browsing # p
    /\ Begin([Quietly(view) EXCEPT !.browsing = p],
             {Task("browse", p, view.profiles[p].session)})

handleTmuxSessionDraftChange(p) ==
    /\ TmuxRow(p) /\ p \in DOMAIN view.tmux
    /\ \E s \in Tmux : Local([view EXCEPT !.drafts = With(@, p, s)])

\* The session the named buttons are about.
NamedSession(p) ==
    IF p \in DOMAIN view.drafts THEN view.drafts[p] ELSE view.profiles[p].session

UseTmux(v, p, s) ==
    [StartEdit(v, p) EXCEPT !.form.mode = "tmux", !.form.session = s,
                            !.drafts = With(@, p, s)]

handleUseTmuxSession(p) ==
    /\ TmuxIsFree(p)
    /\ \E s \in view.tmux[p] : Local(UseTmux(view, p, s))

handleLoadNamedTmuxSession(p) ==
    /\ TmuxIsFree(p)
    /\ Local(IF NamedSession(p) = "" THEN [view EXCEPT !.error = TRUE]
             ELSE UseTmux(view, p, NamedSession(p)))

handleOpenNamedTmuxSession(p) ==
    /\ TmuxIsFree(p)
    /\ IF NamedSession(p) = "" THEN Local([view EXCEPT !.error = TRUE])
       ELSE Begin([Quietly(view) EXCEPT !.busy = p], {Task("open", p, view.editing)})

Operate ==
    \/ loadProfilesAndConnections \/ handleImport \/ handleSaveProfile
    \/ cancelEdit \/ typeProfile \/ typeFilter
    \/ \E p \in Profile :
        \/ handleStartEdit(p) \/ handleDeleteProfile(p) \/ handleCheckProfile(p)
        \/ handleSetDefaultProfile(p) \/ handleOpenProfileShell(p)
        \/ handleBrowseTmuxSessions(p) \/ handleTmuxSessionDraftChange(p)
        \/ handleUseTmuxSession(p) \/ handleLoadNamedTmuxSession(p)
        \/ handleOpenNamedTmuxSession(p)

-----------------------------------------------------------------------------
(* The backend: core/connections/service.go.                               *)

Unused(st) == Profile \ DOMAIN st.profiles

SavedAs(st, p, q) == [st EXCEPT !.profiles = With(@, p, q)]

ServeLoad(t, st) ==
    LET got == IF t.got = None THEN [profiles |-> None, active |-> None] ELSE t.got
        Reads(g) ==
            IF None \in {g.profiles, g.active}
            THEN /\ tasks' = (tasks \ {t}) \cup {[t EXCEPT !.got = g]}
                 /\ UNCHANGED <<section, view, store, mount, ops, fails, dirty>>
            ELSE Answered(t, st, g)
    IN  \/ got.profiles = None /\ Reads([got EXCEPT !.profiles = st.profiles])
        \/ got.active = None /\ Reads([got EXCEPT !.active = st.active])

\* A save without an id gets a fresh one; with the id of a profile that was
\* deleted meanwhile it creates the profile again.
SaveRemoteProfile(t, st) ==
    LET targets == IF t.arg = None THEN Unused(st) ELSE {t.arg} IN
    IF targets = {} THEN Refused(t)
    ELSE LET p == CHOOSE p \in targets : TRUE IN
         Answered(t, SavedAs(st, p, t.form), SavedAs(st, p, t.form).profiles)

ImportSSHConfig(t, st) ==
    \/ Answered(t, st, st.profiles)
    \/ /\ Unused(st) # {}
       /\ LET p == CHOOSE p \in Unused(st) : TRUE
              s == SavedAs(st, p, [host |-> p, mode |-> "shell", session |-> ""])
          IN  Answered(t, s, s.profiles)

DeleteRemoteProfile(t, st) ==
    IF t.arg \notin DOMAIN st.profiles THEN Refused(t)
    ELSE LET s == [profiles |-> Without(st.profiles, t.arg),
                   active |-> IF st.active = t.arg THEN local ELSE st.active]
         IN  Answered(t, s, s.profiles)

Check(t, st) == Answered(t, st, st.active)

Select(t, st) == Answered(t, [st EXCEPT !.active = t.arg], t.arg)

Serve ==
    \E t \in tasks :
        LET st == store["remote"] IN
        /\ t.section = "remote" /\ t.state = "sent"
        /\ \/ t.op = "load" /\ ServeLoad(t, st)
           \/ t.op = "save" /\ t.leg = 1 /\ SaveRemoteProfile(t, st)
           \/ t.op = "import" /\ t.leg = 1 /\ ImportSSHConfig(t, st)
           \/ t.op = "delete" /\ t.leg = 1 /\ DeleteRemoteProfile(t, st)
           \/ t.leg = 2 /\ Answered(t, st, st.active)
           \/ /\ t.op \in {"check", "select", "open", "browse"}
              /\ t.arg \notin DOMAIN st.profiles
              /\ Refused(t)
           \/ /\ t.arg \in DOMAIN st.profiles
              /\ \/ t.op = "check" /\ Check(t, st)
                 \/ t.op = "select" /\ Select(t, st)
                 \/ t.op = "open" /\ Answered(t, st, None)
                 \/ t.op = "browse" /\ \E s \in SUBSET Tmux : Answered(t, st, s)

-----------------------------------------------------------------------------
(* The handlers resume.                                                    *)

\* Variant: an import leaves the button disabled.
ReleasedNotImport(t, v) ==
    CASE t.op = "load"   -> [v EXCEPT !.loading = FALSE]
      [] t.op = "save"   -> [v EXCEPT !.saving = FALSE]
      [] t.op = "import" -> v
      [] t.op = "browse" -> [v EXCEPT !.browsing = None]
      [] OTHER           -> [v EXCEPT !.busy = None]

\* `finally`: the flag of the handler.
Released(t, v) ==
    CASE t.op = "load"   -> [v EXCEPT !.loading = FALSE]
      [] t.op = "save"   -> [v EXCEPT !.saving = FALSE]
      [] t.op = "import" -> [v EXCEPT !.importing = FALSE]
      [] t.op = "browse" -> [v EXCEPT !.browsing = None]
      [] OTHER           -> [v EXCEPT !.busy = None]

ApplyLoad(t) ==
    [view EXCEPT !.profiles = t.got.profiles, !.active = t.got.active,
                 !.tmux = << >>, !.drafts = << >>]

\* Sessions arrive; a draft is only made up where there is none.
ApplyBrowse(t) ==
    [view EXCEPT !.tmux = With(@, t.arg, t.got),
                 !.drafts = IF t.arg \in DOMAIN @ THEN @ ELSE With(@, t.arg, t.form)]

\* The second answer of a save, an import or a delete: the connections.  The
\* delete compares its profile with the one edited when it was clicked.
ApplyConnections(t) ==
    LET v == [view EXCEPT !.active = t.got] IN
    IF t.op = "save" \/ (t.op = "delete" /\ t.form = t.arg)
    THEN resetProfileForm(v) ELSE v

Fails(t) == Ends(t, Released(t, [view EXCEPT !.error = TRUE]))

Receive ==
    \E t \in Mine :
        /\ section = "remote"
        /\ \/ t.state = "failed" /\ Fails(t)
           \/ /\ t.state = "answered"
              /\ CASE t.op = "load" -> Ends(t, Released(t, ApplyLoad(t)))
                   [] t.op \in {"save", "import", "delete"} /\ t.leg = 1
                        -> Continues(t, [view EXCEPT !.profiles = t.got])
                   [] t.leg = 2 -> Ends(t, Released(t, ApplyConnections(t)))
                   [] t.op \in {"check", "select"}
                        -> Ends(t, Released(t, [view EXCEPT !.active = t.got]))
                   [] t.op = "open" -> Ends(t, Released(t, view))
                   [] t.op = "browse" -> Ends(t, Released(t, ApplyBrowse(t)))

-----------------------------------------------------------------------------
(* What the section owes the operator.                                     *)

\* A control is disabled only on behalf of a request that is in flight.
BusyHasOwner ==
    LET Flies(op, p) == \E t \in Mine : t.op = op /\ (p = None \/ t.arg = p) IN
    /\ view.loading => Flies("load", None)
    /\ view.saving => Flies("save", None)
    /\ view.importing => Flies("import", None)
    /\ view.browsing # None => Flies("browse", view.browsing)
    /\ view.busy # None =>
        \E op \in {"delete", "check", "select", "open"} : Flies(op, view.busy)

\* The list, and the default connection, are the backend's.
ShowsStore ==
    /\ view.profiles = store["remote"].profiles
    /\ view.active = store["remote"].active
=============================================================================
