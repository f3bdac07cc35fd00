------------------------------ MODULE Plugins ------------------------------
(***************************************************************************)
(* The plugins section: the installed plugins, their lifecycle, and the    *)
(* form that installs one from a source.                                   *)
(*                                                                         *)
(* widgets/settings/plugins-settings-section.tsx and                       *)
(* features/plugins/api/client.ts.  Every answer carries the whole         *)
(* catalog, which replaces the one that is shown.                          *)
(***************************************************************************)
EXTENDS SettingsFrame

CONSTANTS Plugin,       \* the ids of the plugins that can be installed
          Installed     \* those installed before the section is opened

defaultForm == [kind |-> "git", url |-> "", ref |-> "", metadata |-> ""]

Backend == [p \in Installed |-> [enabled |-> TRUE, version |-> 1]]

Blank ==
    [catalog |-> << >>, form |-> defaultForm, filter |-> None, loading |-> TRUE,
     submitting |-> FALSE, busy |-> None, error |-> FALSE]

Mounted == {Task("load", None, None)}

With(f, k, x) == [y \in DOMAIN f \cup {k} |-> IF y = k THEN x ELSE f[y]]
Without(f, k) == [y \in DOMAIN f \ {k} |-> f[y]]

Quietly(v) == [v EXCEPT !.error = FALSE]

-----------------------------------------------------------------------------
(* The operator.                                                           *)

Row(p) == ~view.loading /\ p \in DOMAIN view.catalog /\ view.filter \in {None, p}

\* A metadata line that is no key=value pair refuses the install at once; a
\* ref is sent for a git source only.
handleInstall ==
    /\ ~view.submitting /\ view.form.url # ""
    /\ IF view.form.metadata = "malformed"
       THEN Local([view EXCEPT !.error = TRUE])
       ELSE Begin([Quietly(view) EXCEPT !.submitting = TRUE],
                  {Task("install", None,
                        [url |-> view.form.url,
                         ref |-> IF view.form.kind = "git" THEN view.form.ref ELSE ""])})

\* Only the row whose action ran last is busy.
handleLifecycleAction(p, action) ==
    /\ Row(p) /\ view.busy # p
    /\ action = "enable" => ~view.catalog[p].enabled
    /\ action = "disable" => view.catalog[p].enabled
    /\ Begin([Quietly(view) EXCEPT !.busy = p], {Task(action, p, None)})

typeForm ==
    \/ view.form.url = "" /\ Local([view EXCEPT !.form.url = "u"])
    \/ view.form.kind = "git" /\ Local([view EXCEPT !.form.kind = "zip"])
    \/ view.form.kind = "git" /\ view.form.ref = "" /\ Local([view EXCEPT !.form.ref = "r"])
    \/ view.form.metadata = "" /\ Local([view EXCEPT !.form.metadata = "malformed"])

typeFilter == \E p \in Installed : view.filter # p /\ Local([view EXCEPT !.filter = p])

Operate ==
    \/ handleInstall \/ typeForm \/ typeFilter
    \/ \E p \in Plugin, action \in {"enable", "disable", "update", "delete"} :
          handleLifecycleAction(p, action)

-----------------------------------------------------------------------------
(* The backend: core/app/plugin_catalog_runtime.go.                        *)

\* An install takes the id its manifest declares; one that is taken is
\* refused.
InstallPlugin(t, st) ==
    \E p \in Plugin :
        IF p \in DOMAIN st THEN Refused(t)
        ELSE LET s == With(st, p, [enabled |-> TRUE, version |-> 1]) IN Answered(t, s, s)

LifecycleEffect(t, st) ==
    CASE t.op = "enable"  -> [st EXCEPT ![t.arg].enabled = TRUE]
      [] t.op = "disable" -> [st EXCEPT ![t.arg].enabled = FALSE]
      [] t.op = "update"  -> [st EXCEPT ![t.arg].version = 2]
      [] t.op = "delete"  -> Without(st, t.arg)

Serve ==
    \E t \in tasks :
        LET st == store["plugins"] IN
        /\ t.section = "plugins" /\ t.state = "sent"
        /\ \/ t.op = "load" /\ Answered(t, st, st)
           \/ t.op = "install" /\ InstallPlugin(t, st)
           \/ /\ t.op \in {"enable", "disable", "update", "delete"}
              /\ IF t.arg \notin DOMAIN st THEN Refused(t)
                 ELSE Answered(t, LifecycleEffect(t, st), LifecycleEffect(t, st))

-----------------------------------------------------------------------------
(* The handlers resume.                                                    *)

Released(t, v) ==
    CASE t.op = "load"    -> [v EXCEPT !.loading = FALSE]
      [] t.op = "install" -> [v EXCEPT !.submitting = FALSE]
      [] OTHER            -> [v EXCEPT !.busy = None]

\* The catalog of the answer is shown; an install also empties the form,
\* whatever was typed into it meanwhile.
Applied(t) ==
    LET v == [view EXCEPT !.catalog = t.got] IN
    IF t.op = "install" THEN [v EXCEPT !.form = [defaultForm EXCEPT !.kind = view.form.kind]]
    ELSE v

Receive ==
    \E t \in Mine :
        /\ section = "plugins"
        /\ \/ t.state = "failed" /\ Ends(t, Released(t, [view EXCEPT !.error = TRUE]))
           \/ t.state = "answered" /\ Ends(t, Released(t, Applied(t)))

-----------------------------------------------------------------------------

\* A control is disabled only on behalf of a request that is in flight
\* (isLoading, isSubmitting, busyPluginID).
BusyHasOwner ==
    /\ view.loading => \E t \in Mine : t.op = "load"
    /\ view.submitting => \E t \in Mine : t.op = "install"
    /\ view.busy # None => \E t \in Mine : t.arg = view.busy

\* The list of plugins is the backend's.
ShowsStore == view.catalog = store["plugins"]
=============================================================================
