-------------------------- MODULE ProviderSettings --------------------------
(***************************************************************************)
(* The AI provider sections: the configured providers and the editor of    *)
(* one (section ai-apps), the chat models of a provider (ai-models), and   *)
(* the read-only limits (ai-limits).  The three mount the same hook.       *)
(*                                                                         *)
(* features/agent/model/use-agent-provider-settings.ts, its editor         *)
(* widgets/settings/agent-provider-settings-widget.tsx and the sections of *)
(* settings-shell-widget.tsx.  Of a provider the model keeps what decides  *)
(* something: whether it is enabled, its default model and its chat        *)
(* models; of the gateway, which routes are ready; of the run history,     *)
(* the runs of a page.  All providers are of one kind, the case in which   *)
(* answers about one can end up in the draft of another.                   *)
(***************************************************************************)
EXTENDS SettingsFrame

CONSTANTS Provider,      \* the ids the backend can give out
          Configured,    \* the providers configured before
          Models,        \* the models an endpoint offers, in order
          Runs           \* the recorded runs of a provider, newest first

Sections == {"ai-apps", "ai-models", "ai-limits"}
PageSize == 1            \* historyLimit

Range(s) == {s[i] : i \in 1..Len(s)}
First(S) == CHOOSE x \in S : TRUE

Backend ==
    [providers |-> [p \in Configured |-> [enabled |-> TRUE, model |-> "", chat |-> {}]],
     active |-> First(Configured), ready |-> {}]

Catalog(st) == [providers |-> st.providers, active |-> st.active]

\* The enabled providers whose route was probed and found ready.
Gateway(st) == {p \in st.ready \cap DOMAIN st.providers : st.providers[p].enabled}

Blank ==
    [catalog |-> None, gateway |-> None, selected |-> None, draft |-> None,
     models |-> {}, history |-> << >>, offset |-> 0, scope |-> "selected",
     more |-> FALSE, historyTimer |-> FALSE, modelTimer |-> FALSE,
     loading |-> TRUE, saving |-> FALSE, probing |-> FALSE, preparing |-> FALSE,
     loadingModels |-> FALSE, loadingHistory |-> FALSE, error |-> FALSE]

Mounted == {Task("load", None, None)}

With(f, k, x) == [y \in DOMAIN f \cup {k} |-> IF y = k THEN x ELSE f[y]]
Without(f, k) == [y \in DOMAIN f \ {k} |-> f[y]]

-----------------------------------------------------------------------------
(* Drafts, selection and the effects that follow a change of them.         *)

createEmptyProviderDraft == [mode |-> "new", id |-> None, enabled |-> TRUE, model |-> ""]

createProviderDraftFromView(p, q) ==
    [mode |-> "existing", id |-> p, enabled |-> q.enabled, model |-> q.model]

\* The provider to select: the preferred one, else the active one, else any.
getPreferredProvider(c, p) ==
    IF p \in DOMAIN c.providers THEN p
    ELSE IF c.active \in DOMAIN c.providers THEN c.active
    ELSE IF DOMAIN c.providers = {} THEN None ELSE First(DOMAIN c.providers)

\* A change of the selection or of a filter goes back to the first page; a
\* change of anything the history is read with reloads it, a draft that is
\* replaced asks for its models.
Effects(v) ==
    LET filtered == v.selected # view.selected \/ v.scope # view.scope
        w == IF filtered THEN [v EXCEPT !.offset = 0] ELSE v
    IN  [w EXCEPT
           !.historyTimer = @ \/ filtered \/ w.offset # view.offset,
           !.modelTimer = (w.draft # None) /\ (@ \/ w.draft # view.draft),
           !.models = IF w.draft = None THEN {} ELSE @,
           !.loadingModels = (w.draft # None) /\ @]

selectProviderFromCatalog(v, c, p) ==
    LET q == getPreferredProvider(c, p) IN
    [v EXCEPT !.catalog = c, !.selected = q,
              !.draft = IF q = None THEN None
                        ELSE createProviderDraftFromView(q, c.providers[q]),
              !.historyTimer = TRUE, !.modelTimer = TRUE]

Quietly(v) == [v EXCEPT !.error = FALSE]

\* What a reload of the history reads, from the closure that started it.
HistoryQuery == [scope |-> view.scope, provider |-> view.selected, offset |-> view.offset]

IsActive == view.catalog # None /\ view.catalog.active = view.selected
Existing == view.draft # None /\ view.draft.mode = "existing"

\* Recorded runs and offered models do not change: a read of them has its
\* answer when it is sent.
RunsOf(q) == IF q.scope = "all" \/ q.provider = First(Configured) THEN Runs ELSE << >>

\* One page of the recorded runs.
GatewayHistory(q) ==
    LET all == RunsOf(q)
        end == IF q.offset + PageSize < Len(all) THEN q.offset + PageSize ELSE Len(all)
    IN  [runs |-> [i \in 1..(end - q.offset) |-> all[q.offset + i]],
         more |-> Len(all) > q.offset + PageSize]

HistoryTask ==
    [Task("history", None, [query |-> HistoryQuery]) EXCEPT
        !.state = "answered", !.got = GatewayHistory(HistoryQuery)]

ModelsTask ==
    [Task("models", view.draft.id, view.draft) EXCEPT
        !.state = "answered", !.got = Range(Models)]

-----------------------------------------------------------------------------
(* The operator.                                                           *)

selectProvider(p) ==
    /\ section \in {"ai-apps", "ai-models"}
    /\ view.catalog # None /\ p \in DOMAIN view.catalog.providers
    /\ section = "ai-models" => ~view.loading
    /\ Local(Effects([Quietly(view) EXCEPT
                !.selected = p, !.modelTimer = TRUE,
                !.draft = createProviderDraftFromView(p, view.catalog.providers[p])]))

startCreateProvider ==
    /\ section = "ai-apps"
    /\ Local(Effects([Quietly(view) EXCEPT !.selected = None,
                                           !.draft = createEmptyProviderDraft]))

resetDraft ==
    /\ section = "ai-apps" /\ view.draft # None /\ ~view.saving
    /\ IF view.draft.mode = "new"
       THEN Local(Effects([Quietly(view) EXCEPT !.draft = createEmptyProviderDraft]))
       ELSE /\ view.draft.id \in DOMAIN view.catalog.providers
            /\ Local(Effects([Quietly(view) EXCEPT
                        !.draft = createProviderDraftFromView(
                                      view.draft.id, view.catalog.providers[view.draft.id])]))

\* The fields of the editor are never disabled.
updateDraftField ==
    /\ section = "ai-apps" /\ view.draft # None
    /\ \/ Local(Effects([view EXCEPT !.draft.enabled = ~@]))
       \/ /\ view.draft.model # Models[1]
          /\ Local(Effects([view EXCEPT !.draft.model = Models[1]]))

\* Save, activate and delete share a flag and capture the draft, the
\* selection and the history query.
Saving(op, arg, form) ==
    Begin([Quietly(view) EXCEPT !.saving = TRUE],
          {Task(op, arg, [sent |-> form, query |-> HistoryQuery])})

saveDraft ==
    /\ section = "ai-apps" /\ view.draft # None /\ ~view.saving
    /\ Saving(IF view.draft.mode = "new" THEN "create" ELSE "update", view.draft.id,
              [enabled |-> view.draft.enabled, model |-> view.draft.model])

activateSelectedProvider ==
    /\ section = "ai-apps" /\ Existing /\ ~view.saving /\ ~IsActive
    /\ Saving("activate", view.selected, None)

removeSelectedProvider ==
    /\ section = "ai-apps" /\ Existing /\ ~view.saving /\ ~IsActive
    /\ Saving("remove", view.draft.id, None)

\* A checkbox of the chat models: the whole list is sent.
updateProviderChatModels ==
    /\ section = "ai-models" /\ ~view.loading /\ view.selected # None
    /\ ~view.saving /\ ~view.loadingModels
    /\ LET q == view.catalog.providers[view.selected] IN
       \E m \in (q.chat \cup view.models) \ {q.model} :
          Saving("chat", view.selected,
                 IF m \in q.chat THEN q.chat \ {m} ELSE q.chat \cup {m})

\* The route actions of the editor.
OnRoute(op, flagged) ==
    /\ section = "ai-apps" /\ Existing /\ ~view.saving
    /\ Begin(flagged, {Task(op, view.selected, [sent |-> None, query |-> HistoryQuery])})

probeSelectedProvider ==
    ~view.probing /\ OnRoute("route-probe", [view EXCEPT !.probing = TRUE])

\* What the gateway suggests for a route: to probe it until it is ready, then
\* to prepare it.
getProviderGatewayRecoveryAction(p) ==
    IF view.gateway = None THEN None
    ELSE IF p \in view.gateway THEN "prepare" ELSE "probe"

prewarmSelectedProvider ==
    /\ getProviderGatewayRecoveryAction(view.selected) = "prepare"
    /\ ~view.preparing
    /\ OnRoute("prewarm", [view EXCEPT !.preparing = TRUE])

clearSelectedProviderRouteState ==
    ~view.preparing /\ OnRoute("clear", [view EXCEPT !.preparing = TRUE])

refreshAvailableModels ==
    /\ view.draft # None /\ ~view.loadingModels /\ section # "ai-limits"
    /\ Begin([view EXCEPT !.loadingModels = TRUE], {ModelsTask})

setHistoryScope ==
    /\ section = "ai-apps" /\ view.draft # None
    /\ Local(Effects([view EXCEPT !.scope = IF @ = "all" THEN "selected" ELSE "all"]))

loadMoreHistory ==
    /\ section = "ai-apps" /\ view.draft # None
    /\ view.more /\ ~view.loadingHistory
    /\ Local(Effects([view EXCEPT !.offset = @ + PageSize]))

Operate ==
    \/ startCreateProvider \/ resetDraft \/ updateDraftField \/ saveDraft
    \/ activateSelectedProvider \/ removeSelectedProvider \/ updateProviderChatModels
    \/ probeSelectedProvider \/ prewarmSelectedProvider
    \/ clearSelectedProviderRouteState \/ refreshAvailableModels
    \/ setHistoryScope \/ loadMoreHistory
    \/ \E p \in Provider : selectProvider(p)

\* The timers of the two effects: a reload of the history and of the models
\* of the draft.  A reload that equals one in flight joins it.
HistoryTimer ==
    LET v == [view EXCEPT !.historyTimer = FALSE] IN
    /\ section \in Sections /\ view.historyTimer
    /\ Cardinality(tasks) < MaxTasks
    /\ IF view.catalog = None \/ (view.scope = "selected" /\ view.selected = None)
       THEN view' = [v EXCEPT !.history = << >>, !.loadingHistory = FALSE] /\ tasks' = tasks
       ELSE /\ view' = [v EXCEPT !.loadingHistory = TRUE]
            /\ tasks' = tasks \cup {HistoryTask}
    /\ UNCHANGED <<section, store, mount, ops, fails, dirty>>

ModelTimer ==
    /\ section \in Sections /\ view.modelTimer
    /\ Cardinality(tasks) < MaxTasks
    /\ view' = [view EXCEPT !.modelTimer = FALSE, !.loadingModels = TRUE]
    /\ tasks' = tasks \cup {ModelsTask}
    /\ UNCHANGED <<section, store, mount, ops, fails, dirty>>

-----------------------------------------------------------------------------
(* The backend: core/agent/provider_store.go and the gateway.              *)

CreateProvider(t, st) ==
    LET free == Provider \ DOMAIN st.providers
        s == [st EXCEPT !.providers = With(@, First(free),
                 [enabled |-> t.form.sent.enabled, model |-> t.form.sent.model, chat |-> {}])]
    IN  IF free = {} THEN Refused(t)
        ELSE Answered(t, s, [catalog |-> Catalog(s), id |-> First(free)])

\* The active provider cannot be disabled.
UpdateProvider(t, st) ==
    LET s == [st EXCEPT !.providers[t.arg].enabled = t.form.sent.enabled,
                        !.providers[t.arg].model = t.form.sent.model] IN
    IF t.arg \notin DOMAIN st.providers \/ (st.active = t.arg /\ ~t.form.sent.enabled)
    THEN Refused(t) ELSE Answered(t, s, [catalog |-> Catalog(s), id |-> t.arg])

UpdateChatModels(t, st) ==
    LET s == [st EXCEPT !.providers[t.arg].chat = t.form.sent] IN
    IF t.arg \notin DOMAIN st.providers THEN Refused(t)
    ELSE Answered(t, s, [catalog |-> Catalog(s), id |-> t.arg])

SetActiveProvider(t, st) ==
    LET s == [st EXCEPT !.active = t.arg] IN
    IF t.arg \notin DOMAIN st.providers THEN Refused(t)
    ELSE IF ~st.providers[t.arg].enabled THEN Refused(t)
    ELSE Answered(t, s, [catalog |-> Catalog(s), id |-> t.arg])

\* The active provider cannot be deleted.
DeleteProvider(t, st) ==
    LET s == [st EXCEPT !.providers = Without(@, t.arg)] IN
    IF t.arg \notin DOMAIN st.providers \/ st.active = t.arg THEN Refused(t)
    ELSE Answered(t, s, [catalog |-> Catalog(s), id |-> None])

\* A probe records whether the route is ready; clearing it forgets that.
RouteAction(t, st) ==
    \E r \in (CASE t.op = "route-probe" -> {st.ready, st.ready \cup {t.arg}}
                [] t.op = "clear" -> {st.ready \ {t.arg}}
                [] t.op = "prewarm" -> {st.ready}) :
        Answered(t, [st EXCEPT !.ready = r], None)

ServeFirst(t, st) ==
    CASE t.op = "load"     -> Answered(t, st, [catalog |-> Catalog(st), id |-> None])
      [] t.op = "create"   -> CreateProvider(t, st)
      [] t.op = "update"   -> UpdateProvider(t, st)
      [] t.op = "chat"     -> UpdateChatModels(t, st)
      [] t.op = "activate" -> SetActiveProvider(t, st)
      [] t.op = "remove"   -> DeleteProvider(t, st)
      [] OTHER             -> RouteAction(t, st)

Serve ==
    \E t \in tasks :
        LET st == store["providers"] IN
        /\ t.section \in Sections /\ t.state = "sent"
        /\ \/ t.leg = 1 /\ ServeFirst(t, st)
           \/ t.leg = 2 /\ Answered(t, st, Gateway(st))

-----------------------------------------------------------------------------
(* The handlers resume.                                                    *)

Mutations == {"create", "update", "chat", "activate", "remove"}
Routes == {"route-probe", "prewarm", "clear"}

Released(t, v) ==
    CASE t.op = "load"        -> [v EXCEPT !.loading = FALSE]
      [] t.op \in Mutations   -> [v EXCEPT !.saving = FALSE]
      [] t.op = "route-probe" -> [v EXCEPT !.probing = FALSE]
      [] OTHER                -> [v EXCEPT !.preparing = FALSE]

\* A page is appended to the runs shown, or replaces them.
reloadHistory(t, v) ==
    IF t.state = "failed" THEN [v EXCEPT !.history = << >>, !.more = FALSE,
                                         !.loadingHistory = FALSE]
    ELSE [v EXCEPT !.history = IF t.form.query.offset > 0 THEN @ \o t.got.runs ELSE t.got.runs,
                   !.more = t.got.more, !.loadingHistory = FALSE]

\* A draft without a model takes the first one that was found, whichever
\* provider the draft is about by now.
ApplyModels(t, v) ==
    LET w == [v EXCEPT !.loadingModels = FALSE] IN
    IF t.state = "failed"
    THEN [w EXCEPT !.models = {t.form.model} \ {""}]
    ELSE [w EXCEPT !.models = (t.got \cup {t.form.model}) \ {""},
                   !.draft = IF @ # None /\ t.form.model = ""
                             THEN [@ EXCEPT !.model = Models[1]] ELSE @]

\* The legs after the first: the gateway, then for most handlers the history.
\* Their failures are shown in their own place and do not stop the handler.
AfterGateway(t, v) ==
    IF t.op \in {"load", "create", "remove"} THEN Ends(t, Released(t, v))
    ELSE ContinuesWith(t, [v EXCEPT !.loadingHistory = TRUE], GatewayHistory(t.form.query))

Receive ==
    \E t \in Mine :
        /\ section \in Sections
        /\ t.state \in {"answered", "failed"}
        /\ CASE t.op = "history" -> Ends(t, reloadHistory(t, view))
             [] t.op = "models" -> Ends(t, Effects(ApplyModels(t, view)))
             [] t.leg = 1 /\ t.state = "failed"
                  -> Ends(t, Released(t, [view EXCEPT !.error = TRUE]))
             [] t.leg = 1 /\ t.state = "answered" /\ t.op \in Routes -> Continues(t, view)
             [] t.leg = 1 /\ t.state = "answered" /\ t.op \notin Routes
                  -> Continues(t, Effects(selectProviderFromCatalog(
                                             view, t.got.catalog, t.got.id)))
             [] t.leg = 2
                  -> AfterGateway(t, [view EXCEPT !.gateway = IF t.state = "failed"
                                                              THEN None ELSE t.got])
             [] t.leg = 3 -> Ends(t, Released(t, reloadHistory(t, view)))

-----------------------------------------------------------------------------

\* A control is disabled only on behalf of a request that is in flight
\* (isLoading, isSaving, isProbing, isPreparing, isLoadingModels,
\* isLoadingHistory).
BusyHasOwner ==
    LET Flies(S) == \E t \in Mine : t.op \in S IN
    /\ view.loading => Flies({"load"})
    /\ view.saving => Flies(Mutations)
    /\ view.probing => Flies({"route-probe"})
    /\ view.preparing => Flies({"prewarm", "clear"})
    /\ view.loadingModels => Flies({"models"})
    /\ view.loadingHistory => Flies({"history"} \cup Mutations \cup Routes)

\* The catalog and the gateway's routes are the backend's.
ShowsStore ==
    /\ view.catalog = Catalog(store["providers"])
    /\ view.gateway = Gateway(store["providers"])

\* The editor edits the provider that is selected.
FormMatchesTarget ==
    IF Existing THEN view.selected = view.draft.id
    ELSE view.draft # None => view.selected = None
=============================================================================
