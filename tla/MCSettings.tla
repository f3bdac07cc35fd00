----------------------------- MODULE MCSettings -----------------------------
(***************************************************************************)
(* The settings dialog for TLC.  A behaviour is about one of its parts:    *)
(* a section with a list (Settings), a preference store (PreferenceStore)  *)
(* or a setting of the application (AppSettings).  They share no state.    *)
(***************************************************************************)
EXTENDS PreferenceStore, Sequences

CONSTANTS None, Section, MaxOps, MaxTasks, MaxFails,
          Profile, Saved, Multiplexed, Host, Tmux,
          Server, Process, Remote, Default_, Endpoint,
          Plugin, Installed,
          Provider, Configured, Models, Runs,
          Title, Locale, MaxActs, MaxDrops

VARIABLES scope,                                                 \* the part
          section, view, tasks, store, mount, ops, fails, dirty, \* Settings
          part, ui, draft, requests, stored, crossed, lost, known,
          acts, drops                                            \* AppSettings

S == INSTANCE Settings WITH Default <- Default_
App == INSTANCE AppSettings

MCField == {"fontSize", "cursorStyle"}
MCLow == [f \in MCField |-> IF f = "fontSize" THEN 11 ELSE 0]
MCHigh == [f \in MCField |-> IF f = "fontSize" THEN 14 ELSE 1]
MCStep == [f \in MCField |-> IF f = "fontSize" THEN 2 ELSE 0]
MCDefault == [f \in MCField |-> IF f = "fontSize" THEN 13 ELSE 0]

ModelSeq == <<"m", "k">>
RunSeq == <<"r2", "r1">>
MCMaxOps == [remote |-> 3, mcp |-> 3, plugins |-> 4, providers |-> 2]

sectionVars == <<section, view, tasks, store, mount, ops, fails, dirty>>
appVars == <<part, ui, draft, requests, stored, crossed, lost, known, acts, drops>>

NoSection ==
    /\ section = None /\ view = None /\ tasks = None /\ store = None
    /\ mount = None /\ ops = None /\ fails = None /\ dirty = None

NoApp ==
    /\ part = None /\ ui = None /\ draft = None /\ requests = None /\ stored = None
    /\ crossed = None /\ lost = None /\ known = None /\ acts = None /\ drops = None

NoPreferences ==
    /\ saved = Default /\ shown = Default /\ answer = Default /\ next = Default
    /\ isLoading = TRUE /\ isSaving = FALSE /\ error = FALSE
    /\ load = "none" /\ save = "none" /\ target = {}
    /\ overlapped = FALSE /\ clean = FALSE /\ changes = 0 /\ faults = 0

MCInit ==
    \/ scope = "section" /\ S!Init /\ NoApp /\ NoPreferences
    \/ scope = "app" /\ App!AppInit /\ NoSection /\ NoPreferences
    \/ scope = "preferences" /\ PrefInit /\ NoSection /\ NoApp

MCNext ==
    /\ UNCHANGED scope
    /\ \/ scope = "section" /\ S!Next /\ UNCHANGED <<appVars, prefVars>>
       \/ scope = "app" /\ App!AppNext /\ UNCHANGED <<sectionVars, prefVars>>
       \/ scope = "preferences" /\ PrefNext /\ UNCHANGED <<sectionVars, appVars>>

MCSpec == MCInit /\ [][MCNext]_<<scope, sectionVars, appVars, prefVars>>

\* A button of a section is disabled as busy only on behalf of a handler in
\* flight (Settings).
BusyHasOwner == scope = "section" => S!BusyHasOwner

\* At rest a section lists what the backend holds (Settings), and every
\* holder of an application setting shows the stored value (AppSettings).
ShowsStore ==
    /\ scope = "section" => S!ShowsStore
    /\ scope = "app" => App!HoldersShowStored

\* A form never carries the fields of one item over the id of another
\* (Settings).
FormMatchesTarget == scope = "section" => S!FormMatchesTarget
=============================================================================
