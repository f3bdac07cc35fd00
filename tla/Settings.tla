------------------------------ MODULE Settings ------------------------------
(***************************************************************************)
(* The settings dialog: it mounts one section at a time and switching      *)
(* unmounts the one before (widgets/settings/settings-shell-widget.tsx).   *)
(* The sections share the frame of SettingsFrame and the one mounted view. *)
(***************************************************************************)
EXTENDS SettingsFrame

CONSTANTS Profile, Saved, Multiplexed, Host, Tmux,       \* RemoteProfiles
          Server, Process, Remote, Default, Endpoint,    \* McpServers
          Plugin, Installed,                             \* Plugins
          Provider, Configured, Models, Runs             \* ProviderSettings

R == INSTANCE RemoteProfiles
M == INSTANCE McpServers
P == INSTANCE Plugins
A == INSTANCE ProviderSettings

\* The state a section mounts with.
renderSection(s) ==
    CASE s = "remote"  -> R!Blank
      [] s = "mcp"     -> M!Blank
      [] s = "plugins" -> P!Blank
      [] s \in A!Sections -> A!Blank

\* The requests its mount effect sends.
MountTasks(s) ==
    {[t EXCEPT !.section = s] :
        t \in CASE s = "remote"  -> R!Mounted
                [] s = "mcp"     -> M!Mounted
                [] s = "plugins" -> P!Mounted
                [] s \in A!Sections -> A!Mounted}

Init ==
    /\ section \in Section
    /\ mount = 0 /\ ops = 0 /\ fails = 0 /\ dirty = FALSE
    /\ view = renderSection(section)
    /\ tasks = MountTasks(section)
    /\ store = [remote |-> R!Backend, mcp |-> M!Backend, plugins |-> P!Backend,
                providers |-> A!Backend]

\* Another section, or the same one again after the dialog was closed: the
\* handlers of the one before stay in flight.
setActiveSectionID ==
    /\ Operator
    /\ mount' = mount + 1
    /\ \E s \in Section :
        LET ts == {[t EXCEPT !.mount = mount + 1] : t \in MountTasks(s)} IN
        /\ Cardinality(tasks \cup ts) <= MaxTasks
        /\ StoreOf(s) = StoreOf(section)
        /\ section' = s
        /\ view' = renderSection(s)
        /\ tasks' = tasks \cup ts
        /\ dirty' = Overlap(s)
    /\ UNCHANGED <<store, fails>>

Next ==
    \/ section = "remote" /\ R!Operate
    \/ section = "mcp" /\ M!Operate
    \/ section = "plugins" /\ P!Operate
    \/ section \in A!Sections /\ A!Operate
    \/ A!HistoryTimer \/ A!ModelTimer
    \/ R!Serve \/ M!Serve \/ P!Serve \/ A!Serve
    \/ R!Receive \/ M!Receive \/ P!Receive \/ A!Receive
    \/ setActiveSectionID \/ RequestFails \/ Unmounted

Spec == Init /\ [][Next]_vars

-----------------------------------------------------------------------------
\* A button of the section is disabled as busy only while the handler that
\* disabled it is in flight: whatever answers come first and whichever fail,
\* no `finally` is skipped and none leaves the flag of another up.
BusyHasOwner ==
    CASE section = "remote"  -> R!BusyHasOwner
      [] section = "mcp"     -> M!BusyHasOwner
      [] section = "plugins" -> P!BusyHasOwner
      [] section \in A!Sections -> A!BusyHasOwner

\* Once its handlers have all returned, the section lists what the backend
\* holds, unless the requests of two handlers overlapped or one failed since
\* the last load: each handler merges its own answer into the list (upsert,
\* filter, replace), and no request is made to confirm it.
ShowsStore ==
    (Mine = {} /\ ~dirty) =>
        CASE section = "remote"  -> R!ShowsStore
          [] section = "mcp"     -> M!ShowsStore
          [] section = "plugins" -> P!ShowsStore
          [] section \in A!Sections -> A!ShowsStore

\* The form of the section describes the item its save would overwrite: the
\* fields of one MCP server or provider are never shown over the id of another.
FormMatchesTarget ==
    /\ section = "mcp" => M!FormMatchesTarget
    /\ section \in A!Sections => A!FormMatchesTarget
=============================================================================
