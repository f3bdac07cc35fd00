----------------------------- MODULE McpServers -----------------------------
(***************************************************************************)
(* The MCP servers section: the registered servers and their lifecycle,    *)
(* the form that registers or edits a remote server, the templates that    *)
(* fill it in, and the probe of an endpoint.                               *)
(*                                                                         *)
(* widgets/settings/mcp-settings-section.tsx and                           *)
(* features/mcp/api/client.ts.  A server keeps its type, whether it is     *)
(* enabled and active, and its endpoint; the headers of the form are       *)
(* empty, malformed, or carry the header of the template's secret.         *)
(***************************************************************************)
EXTENDS SettingsFrame

CONSTANTS Server,        \* the ids the operator can type
          Process,       \* the servers the installation comes with
          Remote,        \* the remote servers registered before
          Default,       \* the id of the form before anything is typed
          Endpoint       \* the endpoints the operator can type

Template == {Default}    \* a template suggests a server of its own name

defaultForm ==
    [id |-> Default, endpoint |-> "default", headers |-> "", secret |-> FALSE,
     template |-> Default]

Backend ==
    [s \in Process \cup Remote |->
        [remote |-> s \in Remote, enabled |-> TRUE, active |-> FALSE,
         endpoint |-> IF s \in Remote THEN s ELSE ""]]

Blank ==
    [servers |-> << >>, templates |-> {}, form |-> defaultForm, editing |-> None,
     filter |-> None, loading |-> TRUE, loadingTemplates |-> TRUE,
     submitting |-> FALSE, probing |-> FALSE, busy |-> None, probe |-> None,
     error |-> FALSE]

\* The two requests the mount effect sends.
Mounted == {Task("load", None, None), Task("templates", None, None)}

upsertServer(servers, s, q) ==
    [y \in DOMAIN servers \cup {s} |-> IF y = s THEN q ELSE servers[y]]
Without(servers, s) == [y \in DOMAIN servers \ {s} |-> servers[y]]

-----------------------------------------------------------------------------
(* The form and the controls.                                              *)

\* The template that matches a server, by its id or by its endpoint.
matchTemplateForServer(s) == IF s \in view.templates THEN s ELSE None

\* A header line without a name, a name given twice, or the header of the
\* template's secret given by hand beside the secret, is refused.
buildDraftHeaders(form) ==
    IF \/ form.headers = "malformed"
       \/ form.headers = "auth" /\ form.secret /\ form.template \in view.templates
    THEN "refused" ELSE "ok"

canSubmit == view.form.id # "" /\ view.form.endpoint # ""

Row(s) == ~view.loading /\ s \in DOMAIN view.servers /\ view.filter \in {None, s}
isBusy(s) == view.busy = s

Quietly(v) == [v EXCEPT !.error = FALSE]

resetForm(v) == [v EXCEPT !.editing = None, !.form = defaultForm, !.probe = None]

-----------------------------------------------------------------------------
(* The operator.                                                           *)

loadServers ==
    /\ ~view.loading
    /\ BeginReload([Quietly(view) EXCEPT !.loading = TRUE], {Task("load", None, None)})

\* Register or update, by whether a server is edited.
handleSubmit ==
    LET v == [Quietly(view) EXCEPT !.probe = None] IN
    /\ canSubmit /\ ~view.submitting /\ view.busy = None
    /\ IF buildDraftHeaders(view.form) = "refused"
       THEN Local([v EXCEPT !.error = TRUE])
       ELSE Begin([v EXCEPT !.submitting = TRUE],
                  {Task("submit", view.editing, view.form)})

handleProbe ==
    LET v == [Quietly(view) EXCEPT !.probe = None] IN
    /\ canSubmit /\ ~view.submitting /\ ~view.probing /\ view.busy = None
    /\ IF buildDraftHeaders(view.form) = "refused"
       THEN Local([v EXCEPT !.error = TRUE])
       ELSE Begin([v EXCEPT !.probing = TRUE], {Task("probe", None, view.form.endpoint)})

OnRow(op, s) == Begin([Quietly(view) EXCEPT !.busy = s], {Task(op, s, view.editing)})

\* The lifecycle buttons of a row stay enabled while the form is submitted.
handleControl(s, action) ==
    /\ Row(s) /\ ~isBusy(s)
    /\ IF action = "enable" THEN ~view.servers[s].enabled ELSE view.servers[s].enabled
    /\ OnRow(action, s)

handleStartEdit(s) ==
    Row(s) /\ view.servers[s].remote /\ ~isBusy(s) /\ ~view.submitting /\ OnRow("edit", s)

handleDelete(s) ==
    Row(s) /\ view.servers[s].remote /\ ~isBusy(s) /\ ~view.submitting /\ OnRow("delete", s)

\* Variant: the template fills in the form of the server being edited.
handleApplyTemplateInEdit ==
    /\ ~view.loadingTemplates
    /\ ~view.submitting /\ ~view.probing /\ view.busy = None
    /\ \E x \in view.templates :
        Local([Quietly(view) EXCEPT
                 !.probe = None,
                 !.form = [defaultForm EXCEPT !.id = x, !.template = x]])

handleApplyTemplate ==
    /\ ~view.loadingTemplates
    /\ ~view.submitting /\ ~view.probing /\ view.busy = None
    /\ \E x \in view.templates :
        Local([Quietly(view) EXCEPT
                 !.editing = None, !.probe = None,
                 !.form = [defaultForm EXCEPT !.id = x, !.template = x]])

cancelEdit == view.editing # None /\ ~view.submitting /\ Local(resetForm(view))

\* The id cannot be typed while a server is edited; the rest always can.
typeForm ==
    \/ /\ view.editing = None
       /\ \E s \in Server \ {view.form.id} : Local([view EXCEPT !.form.id = s])
    \/ \E e \in Endpoint \ {view.form.endpoint} : Local([view EXCEPT !.form.endpoint = e])
    \/ /\ \E h \in {"malformed", "auth"} :
            view.form.headers = "" /\ Local([view EXCEPT !.form.headers = h])
    \/ /\ view.form.template \in view.templates /\ ~view.form.secret
       /\ Local([view EXCEPT !.form.secret = TRUE])

typeFilter == \E s \in Process : view.filter # s /\ Local([view EXCEPT !.filter = s])

Operate ==
    \/ loadServers \/ handleSubmit \/ handleProbe \/ handleApplyTemplate
    \/ cancelEdit \/ typeForm \/ typeFilter
    \/ \E s \in Server \cup Process :
        \/ handleStartEdit(s) \/ handleDelete(s)
        \/ \E action \in {"start", "stop", "restart", "enable", "disable"} :
              handleControl(s, action)

-----------------------------------------------------------------------------
(* The backend: core/app/mcp_runtime.go.                                   *)

\* A stopped server is inactive, a disabled one is stopped; only an enabled
\* one is started.
Controlled(action, q) ==
    CASE action \in {"start", "restart"} -> [q EXCEPT !.active = TRUE]
      [] action = "stop"    -> [q EXCEPT !.active = FALSE]
      [] action = "enable"  -> [q EXCEPT !.enabled = TRUE]
      [] action = "disable" -> [q EXCEPT !.enabled = FALSE, !.active = FALSE]

ControlMCPServer(t, st) ==
    IF \/ t.arg \notin DOMAIN st
       \/ t.op \in {"start", "restart"} /\ ~st[t.arg].enabled
    THEN Refused(t)
    ELSE LET q == Controlled(t.op, st[t.arg]) IN
         Answered(t, upsertServer(st, t.arg, q), [id |-> t.arg, server |-> q])

RegisterMCPServer(t, st) ==
    LET q == [remote |-> TRUE, enabled |-> TRUE, active |-> FALSE,
              endpoint |-> t.form.endpoint] IN
    IF t.form.id \in DOMAIN st THEN Refused(t)
    ELSE Answered(t, upsertServer(st, t.form.id, q), [id |-> t.form.id, server |-> q])

\* An update needs the id of its target; an active server is stopped first.
UpdateMCPServer(t, st) ==
    IF t.form.id # t.arg \/ t.arg \notin DOMAIN st THEN Refused(t)
    ELSE LET q == [st[t.arg] EXCEPT !.active = FALSE, !.endpoint = t.form.endpoint] IN
         Answered(t, upsertServer(st, t.arg, q), [id |-> t.arg, server |-> q])

DeleteMCPServer(t, st) ==
    IF t.arg \notin DOMAIN st THEN Refused(t)
    ELSE Answered(t, Without(st, t.arg), t.arg)

GetMCPServerSpec(t, st) ==
    IF t.arg \notin DOMAIN st THEN Refused(t)
    ELSE Answered(t, st, [id |-> t.arg, server |-> st[t.arg]])

Serve ==
    \E t \in tasks :
        LET st == store["mcp"] IN
        /\ t.section = "mcp" /\ t.state = "sent"
        /\ CASE t.op = "load" -> Answered(t, st, st)
             [] t.op = "templates" -> Answered(t, st, Template)
             [] t.op = "submit" /\ t.arg = None -> RegisterMCPServer(t, st)
             [] t.op = "submit" /\ t.arg # None -> UpdateMCPServer(t, st)
             [] t.op = "probe" -> Answered(t, st, t.form)
             [] t.op = "edit" -> GetMCPServerSpec(t, st)
             [] t.op = "delete" -> DeleteMCPServer(t, st)
             [] OTHER -> ControlMCPServer(t, st)

-----------------------------------------------------------------------------
(* The handlers resume.                                                    *)

Released(t, v) ==
    CASE t.op = "load"      -> [v EXCEPT !.loading = FALSE]
      [] t.op = "templates" -> [v EXCEPT !.loadingTemplates = FALSE]
      [] t.op = "submit"    -> [v EXCEPT !.submitting = FALSE]
      [] t.op = "probe"     -> [v EXCEPT !.probing = FALSE]
      [] OTHER              -> [v EXCEPT !.busy = None]

\* The catalog arrives: a selected template it does not hold is replaced.
ApplyTemplates(t) ==
    [view EXCEPT !.templates = t.got,
                 !.form.template =
                    IF t.got # {} /\ Default \notin t.got
                    THEN CHOOSE x \in t.got : TRUE ELSE @]

\* The details of the server to edit replace whatever the form holds.
ApplyEdit(t) ==
    [view EXCEPT !.editing = t.got.id, !.probe = None,
                 !.form = [id |-> t.got.id, endpoint |-> t.got.server.endpoint,
                           headers |-> "", secret |-> FALSE,
                           template |-> matchTemplateForServer(t.got.id)]]

\* A delete compares its server with the one edited when it was clicked.
ApplyDelete(t) ==
    LET v == [view EXCEPT !.servers = Without(@, t.got)] IN
    IF t.form = t.got THEN resetForm(v) ELSE v

\* Variant: the answer to a control is not merged into the list.
ApplyServerNot(t) == view

ApplyServer(t) == [view EXCEPT !.servers = upsertServer(@, t.got.id, t.got.server)]

Applied(t) ==
    CASE t.op = "load"      -> [view EXCEPT !.servers = t.got]
      [] t.op = "templates" -> ApplyTemplates(t)
      [] t.op = "submit"    -> resetForm(ApplyServer(t))
      [] t.op = "probe"     -> [view EXCEPT !.probe = t.got]
      [] t.op = "edit"      -> ApplyEdit(t)
      [] t.op = "delete"    -> ApplyDelete(t)
      [] OTHER              -> ApplyServer(t)

Receive ==
    \E t \in Mine :
        /\ section = "mcp"
        /\ \/ /\ t.state = "failed"
              /\ Ends(t, Released(t, [view EXCEPT !.error = TRUE]))
           \/ /\ t.state = "answered"
              /\ Ends(t, Released(t, Applied(t)))

-----------------------------------------------------------------------------
(* What the section owes the operator.                                     *)

\* A control is disabled only on behalf of a request that is in flight
\* (isLoading, isLoadingTemplates, isSubmitting, isProbing, busyServerID).
BusyHasOwner ==
    LET Flies(op) == \E t \in Mine : t.op = op IN
    /\ view.loading => Flies("load")
    /\ view.loadingTemplates => Flies("templates")
    /\ view.submitting => Flies("submit")
    /\ view.probing => Flies("probe")
    /\ view.busy # None => \E t \in Mine : t.arg = view.busy

\* The list of servers, with their states, is the backend's.
ShowsStore == view.servers = store["mcp"]

\* The id that is sent is the id of the server that is edited.
FormMatchesTarget == view.editing # None => view.form.id = view.editing
=============================================================================
