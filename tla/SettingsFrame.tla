--------------------------- MODULE SettingsFrame ---------------------------
(***************************************************************************)
(* What every section of the settings dialog is made of.  The dialog       *)
(* mounts one section at a time (settings-shell-widget.tsx renderSection), *)
(* so there is one section state, `view`.  An async handler runs to its    *)
(* first await in one step; what is left of it is a task, which waits for  *)
(* the backend.  The backend serves the request in a step of its own, and  *)
(* the handler resumes in another.  A task outlives the section that       *)
(* started it: its request is still served, and its state updates fall on  *)
(* an unmounted component.                                                 *)
(***************************************************************************)
EXTENDS Naturals, FiniteSets, Sequences

CONSTANTS None,       \* "null": no profile, no server, no timer
          Section,    \* the sections that are explored
          MaxOps,     \* bound on the operator's steps, by what a section shows
          MaxTasks,   \* bound on the handlers in flight together
          MaxFails    \* bound on the requests that fail

VARIABLES section,    \* the mounted section
          view,       \* its state
          tasks,      \* the handlers that wait for the backend
          store,      \* what the backend stores, for each section
          mount,      \* how many sections were mounted before this one
          ops, fails, \* counters of the bounds
          dirty       \* history: list requests overlapped, or an answer was
                      \* lost, since the list was last read on its own

vars == <<section, view, tasks, store, mount, ops, fails, dirty>>

\* A handler that has sent a request.  `arg` is what it was called on, `form`
\* what it captured of the section, `got` the part of the answer it has.
Task(op, arg, form) ==
    [id |-> ops, section |-> section, mount |-> mount, op |-> op, arg |-> arg,
     form |-> form, leg |-> 1, state |-> "sent", got |-> None]

Alive(t) == t.section = section /\ t.mount = mount

\* The tasks of the mounted section.
Mine == {t \in tasks : Alive(t)}

\* The handlers that neither read nor write what the section lists.
Aside == {"templates", "probe", "edit", "browse", "open", "models", "history"}

\* Three sections show the same AI providers.
StoreOf(s) == IF s \in {"ai-apps", "ai-models", "ai-limits"} THEN "providers" ELSE s

\* A request that reads or writes the section's list is in flight.
Overlap(s) == \E t \in tasks : StoreOf(t.section) = StoreOf(s) /\ t.op \notin Aside

Operator == ops < MaxOps[StoreOf(section)] /\ ops' = ops + 1

\* A step of the operator that sends nothing.
Local(v) ==
    /\ Operator
    /\ view' = v
    /\ UNCHANGED <<section, tasks, store, mount, fails, dirty>>

\* A handler runs to its first await.
Begin(v, ts) ==
    /\ Operator
    /\ Cardinality(tasks \cup ts) <= MaxTasks
    /\ view' = v
    /\ tasks' = tasks \cup ts
    /\ dirty' = (dirty \/ (Overlap(section) /\ \E t \in ts : t.op \notin Aside))
    /\ UNCHANGED <<section, store, mount, fails>>

\* A read of the whole list that is alone in flight makes the view fresh.
BeginReload(v, ts) ==
    /\ Operator
    /\ Cardinality(tasks \cup ts) <= MaxTasks
    /\ view' = v
    /\ tasks' = tasks \cup ts
    /\ dirty' = Overlap(section)
    /\ UNCHANGED <<section, store, mount, fails>>

\* The backend answers t: what it now stores, and what the answer carries.
Answered(t, st, got) ==
    /\ store' = [store EXCEPT ![StoreOf(t.section)] = st]
    /\ tasks' = (tasks \ {t}) \cup {[t EXCEPT !.state = "answered", !.got = got]}
    /\ UNCHANGED <<section, view, mount, ops, fails, dirty>>

\* The backend refuses t and changes nothing.
Refused(t) ==
    /\ tasks' = (tasks \ {t}) \cup {[t EXCEPT !.state = "failed"]}
    /\ UNCHANGED <<section, view, store, mount, ops, fails, dirty>>

\* The request does not reach the backend, or its answer does not come back:
\* the handler sees the same exception.  After the first request of a handler
\* an exception leaves it half done.
RequestFails ==
    /\ fails < MaxFails
    /\ fails' = fails + 1
    /\ \E t \in tasks :
        /\ t.state \in {"sent", "answered"}
        /\ tasks' = (tasks \ {t}) \cup {[t EXCEPT !.state = "failed"]}
        /\ dirty' = (\/ dirty \/ t.leg > 1 \/ t.op = "load"
                     \/ t.state = "answered" /\ t.op \notin Aside)
    /\ UNCHANGED <<section, view, store, mount, ops>>

\* The handler of t ends with the view v.
Ends(t, v) ==
    /\ view' = v
    /\ tasks' = tasks \ {t}
    /\ UNCHANGED <<section, store, mount, ops, fails, dirty>>

\* The handler of t goes on to its next request with the view v.
Continues(t, v) ==
    /\ view' = v
    /\ tasks' = (tasks \ {t})
                \cup {[t EXCEPT !.leg = @ + 1, !.state = "sent", !.got = None]}
    /\ UNCHANGED <<section, store, mount, ops, fails, dirty>>

\* ... to a request whose answer, `got`, no other request can change: that the
\* backend serves it is not a step of its own.
ContinuesWith(t, v, got) ==
    /\ view' = v
    /\ tasks' = (tasks \ {t})
                \cup {[t EXCEPT !.leg = @ + 1, !.state = "answered", !.got = got]}
    /\ UNCHANGED <<section, store, mount, ops, fails, dirty>>

\* A handler of a section that is gone: nobody sees its state updates.
Unmounted ==
    \E t \in tasks :
        /\ ~Alive(t)
        /\ t.state \in {"answered", "failed"}
        /\ tasks' = tasks \ {t}
        /\ UNCHANGED <<section, view, store, mount, ops, fails, dirty>>
=============================================================================
