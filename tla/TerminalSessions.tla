--------------------------- MODULE TerminalSessions ---------------------------
(***************************************************************************)
(* The sessions of one terminal widget (core/terminal/service.go) and the  *)
(* requests that start, restart, focus and close them                      *)
(* (core/app/terminal_session_actions.go).  Widgets share only the lock.   *)
(*                                                                         *)
(* A request is a call; each piece of it that runs under the service lock  *)
(* is one step, and the launch and the kill of a process, which happen     *)
(* without the lock, are steps of their own.  A call launches at most one  *)
(* process, so the process and a fresh session id are named by the call.   *)
(*                                                                         *)
(* Left out: what a widget without a session shows (the restored map) and  *)
(* the launch report of its connection; neither feeds back into sessions.  *)
(***************************************************************************)
EXTENDS Naturals, Sequences, FiniteSets

CONSTANTS
  Calls,      \* requests
  Scenarios,  \* what the requests are: functions from Calls to Kinds
  Primary,    \* the session id equal to the widget id
  Remote,     \* the widget's connection is ssh
  None

Kinds == {"none", "boot", "sibling", "restart", "focus", "closeSession", "closeWidget", "shutdown"}
SessionIDs == Calls \cup {Primary}

ASSUME SessionsAssumption ==
  /\ Scenarios \subseteq [Calls -> Kinds]
  /\ Primary \notin Calls /\ None \notin SessionIDs
  /\ Remote \in BOOLEAN

VARIABLES
  present,    \* the widget is in the workspace
  group,      \* its session group; without sessions there is none
  starting,   \* per session id: the call that is launching it
  result,     \* what a launching call told the calls that wait for it
  proc,       \* the process each call launched
  recorded,   \* processes whose exit is in their session's state
  call        \* the requests

vars == <<present, group, starting, result, proc, recorded, call>>

NoGroup == [active |-> None, order |-> <<>>, sessions |-> [s \in SessionIDs |-> None]]
HasGroup == group.order # <<>>
Processes(g) == {g.sessions[s] : s \in SessionIDs} \ {None}

Init ==
  /\ present = TRUE
  /\ group = NoGroup
  /\ starting = [s \in SessionIDs |-> None]
  /\ result = [c \in Calls |-> "none"]
  /\ proc = [c \in Calls |-> "none"]
  /\ recorded = {}
  /\ \E kind \in Scenarios : call = [c \in Calls |->
       [kind |-> kind[c], pc |-> "idle", sid |-> Primary, op |-> "none", waitsFor |-> None, kill |-> {}, next |-> "done"]]

At(c, pc) == call[c].pc = pc
Kind(c) == call[c].kind
Goto(c, pc) == call' = [call EXCEPT ![c].pc = pc]

-----------------------------------------------------------------------------
(* findWorkspaceWidget; what follows depends on the request.  Once the     *)
(* server is shut down no request begins.                                  *)
Begin(c) ==
  /\ At(c, "idle") /\ Kind(c) # "none"
  /\ \A d \in Calls : Kind(d) = "shutdown" => At(d, "idle")
  /\ \E s \in SessionIDs :
        /\ Kind(c) \notin {"focus", "closeSession"} => s = Primary
        /\ call' = [call EXCEPT ![c] = [@ EXCEPT !.sid = s, !.op = "start", !.pc =
             CASE Kind(c) = "shutdown" -> "closeService"
               [] ~present -> "done"
               [] Kind(c) = "boot" -> "enter"
               [] Kind(c) \in {"sibling", "restart"} -> "look"
               [] Kind(c) = "focus" -> "focus"
               [] Kind(c) = "closeSession" -> "count"
               [] Kind(c) = "closeWidget" -> "remove"]]
  /\ UNCHANGED <<present, group, starting, result, proc, recorded>>

(* CreateTerminalSiblingSession: a fresh id if the widget has a group.     *)
LookSibling(c) ==
  /\ At(c, "look") /\ Kind(c) = "sibling"
  /\ call' = [call EXCEPT ![c] = [@ EXCEPT !.pc = "enter",
       !.sid = IF HasGroup THEN c ELSE Primary,
       !.op = IF HasGroup THEN "create" ELSE "start"]]
  /\ UNCHANGED <<present, group, starting, result, proc, recorded>>

(* RestartTerminalSession: the active session, if there is one.            *)
LookRestart(c) ==
  /\ At(c, "look") /\ Kind(c) = "restart"
  /\ call' = [call EXCEPT ![c] = [@ EXCEPT !.pc = "closeOne", !.next = "choose",
       !.sid = IF HasGroup THEN group.active ELSE Primary]]
  /\ UNCHANGED <<present, group, starting, result, proc, recorded>>

(* ... and after closing it, whether the widget still has a group.         *)
ChooseRestart(c) ==
  /\ At(c, "choose")
  /\ call' = [call EXCEPT ![c] = [@ EXCEPT !.pc = "enter", !.op = IF HasGroup THEN "create" ELSE "start"]]
  /\ UNCHANGED <<present, group, starting, result, proc, recorded>>

-----------------------------------------------------------------------------
(* StartSession and CreateSession up to the launch: an existing group, or  *)
(* session, is the answer; a launch of the same session in progress is     *)
(* waited for.                                                             *)
Answered(c) ==
  \/ call[c].op = "start" /\ HasGroup
  \/ call[c].op = "create" /\ HasGroup /\ group.sessions[call[c].sid] # None

Enter(c) ==
  LET s == call[c].sid IN
  /\ At(c, "enter")
  /\ IF call[c].op = "create" /\ ~HasGroup THEN Goto(c, "done") /\ UNCHANGED starting
     ELSE IF Answered(c) THEN Goto(c, "observe") /\ UNCHANGED starting
     ELSE IF starting[s] # None
     THEN /\ call' = [call EXCEPT ![c] = [@ EXCEPT !.pc = "wait", !.waitsFor = starting[s]]]
          /\ UNCHANGED starting
     ELSE starting' = [starting EXCEPT ![s] = c] /\ Goto(c, "launch")
  /\ UNCHANGED <<present, group, result, proc, recorded>>

(* startCall.wait: the answer of the launching call, or the request's end  *)
(* (startup waits in the background context, which never ends).            *)
WaitAnswered(c) ==
  /\ At(c, "wait") /\ result[call[c].waitsFor] # "none"
  /\ Goto(c, IF result[call[c].waitsFor] = "ok" THEN "observe" ELSE "done")
  /\ UNCHANGED <<present, group, starting, result, proc, recorded>>

WaitCancelled(c) ==
  /\ At(c, "wait") /\ Kind(c) # "boot"
  /\ Goto(c, "done")
  /\ UNCHANGED <<present, group, starting, result, proc, recorded>>

Launch(c) ==
  /\ At(c, "launch")
  /\ proc' = [proc EXCEPT ![c] = "running"]
  /\ Goto(c, "install")
  /\ UNCHANGED <<present, group, starting, result, recorded>>

(* Variant: the waiting calls are not told.                               *)
LaunchFailsSilently(c) ==
  /\ At(c, "launch")
  /\ starting' = [starting EXCEPT ![call[c].sid] = None]
  /\ Goto(c, "done")
  /\ UNCHANGED <<present, group, result, proc, recorded>>

LaunchFails(c) ==
  /\ At(c, "launch")
  /\ starting' = [starting EXCEPT ![call[c].sid] = None]
  /\ result' = [result EXCEPT ![c] = "error"]
  /\ Goto(c, "done")
  /\ UNCHANGED <<present, group, proc, recorded>>

(* StartSession installs a group of its own, whatever is there by now.     *)
InstallGroup(c) ==
  LET s == call[c].sid IN
  /\ At(c, "install") /\ call[c].op = "start"
  /\ group' = [active |-> s, order |-> <<s>>, sessions |-> [NoGroup.sessions EXCEPT ![s] = c]]
  /\ starting' = [starting EXCEPT ![s] = None]
  /\ result' = [result EXCEPT ![c] = "ok"]
  /\ Goto(c, "observe")
  /\ UNCHANGED <<present, proc, recorded>>

(* CreateSession adds to the group that is there by now ...               *)
InstallSession(c) ==
  LET s == call[c].sid IN
  /\ At(c, "install") /\ call[c].op = "create" /\ HasGroup
  /\ group' = [active |-> s, order |-> Append(group.order, s),
               sessions |-> [group.sessions EXCEPT ![s] = c]]
  /\ starting' = [starting EXCEPT ![s] = None]
  /\ result' = [result EXCEPT ![c] = "ok"]
  /\ Goto(c, "observe")
  /\ UNCHANGED <<present, proc, recorded>>

(* Variant: the new process is left running.                              *)
InstallRefusedKeepsProcess(c) ==
  /\ At(c, "install") /\ call[c].op = "create" /\ ~HasGroup
  /\ starting' = [starting EXCEPT ![call[c].sid] = None]
  /\ result' = [result EXCEPT ![c] = "error"]
  /\ Goto(c, "done")
  /\ UNCHANGED <<present, group, proc, recorded>>

(* ... and gives up, killing the new process, when there is none.         *)
InstallRefused(c) ==
  /\ At(c, "install") /\ call[c].op = "create" /\ ~HasGroup
  /\ starting' = [starting EXCEPT ![call[c].sid] = None]
  /\ result' = [result EXCEPT ![c] = "error"]
  /\ call' = [call EXCEPT ![c] = [@ EXCEPT !.pc = "kill", !.kill = {c}, !.next = "done"]]
  /\ UNCHANGED <<present, group, proc, recorded>>

(* observeConnectionLaunch: only ssh launches are watched.  It sees the    *)
(* active session, whichever that is.                                      *)
ObserveOk(c) ==
  /\ At(c, "observe")
  /\ Remote /\ Kind(c) # "boot" =>
       HasGroup /\ group.sessions[group.active] \notin recorded
  /\ Goto(c, "done")
  /\ UNCHANGED <<present, group, starting, result, proc, recorded>>

(* The group is gone, the active session ended, or the request did: the    *)
(* session this call asked for is closed.                                  *)
ObserveFails(c) ==
  /\ At(c, "observe") /\ Remote /\ Kind(c) # "boot"
  /\ call' = [call EXCEPT ![c] = [@ EXCEPT !.pc = "closeOne", !.next = "done"]]
  /\ UNCHANGED <<present, group, starting, result, proc, recorded>>

-----------------------------------------------------------------------------
(* slices.DeleteFunc: the order without session s.                         *)
Deleted(order, s) ==
  LET kept[i \in 0..Len(order)] ==
        IF i = 0 THEN <<>>
        ELSE IF order[i] = s THEN kept[i - 1] ELSE Append(kept[i - 1], order[i])
  IN  kept[Len(order)]

(* The group without session s; the last of the rest becomes active.       *)
Without(g, s) ==
  LET rest == Deleted(g.order, s)
  IN  IF rest = <<>> THEN NoGroup
      ELSE [active |-> IF g.active = s THEN rest[Len(rest)] ELSE g.active,
            order |-> rest,
            sessions |-> [g.sessions EXCEPT ![s] = None]]

(* CloseWidgetSession; not found is an answer too.                         *)
CloseOne(c) ==
  LET s == call[c].sid IN
  /\ At(c, "closeOne")
  /\ IF group.sessions[s] # None
     THEN /\ group' = Without(group, s)
          /\ call' = [call EXCEPT ![c] = [@ EXCEPT !.pc = "kill", !.kill = {group.sessions[s]}]]
     ELSE Goto(c, call[c].next) /\ UNCHANGED group
  /\ UNCHANGED <<present, starting, result, proc, recorded>>

(* CloseSession.                                                          *)
CloseAll(c) ==
  /\ At(c, "closeAll")
  /\ group' = NoGroup
  /\ call' = [call EXCEPT ![c] = [@ EXCEPT !.pc = "kill", !.kill = Processes(group)]]
  /\ UNCHANGED <<present, starting, result, proc, recorded>>

(* Close: the launches in progress are forgotten as well.                 *)
CloseService(c) ==
  /\ At(c, "closeService")
  /\ group' = NoGroup
  /\ starting' = [s \in SessionIDs |-> None]
  /\ call' = [call EXCEPT ![c] = [@ EXCEPT !.pc = "kill", !.kill = Processes(group)]]
  /\ UNCHANGED <<present, result, proc, recorded>>

(* cancel() and process.Close(), after the lock is released.               *)
Kill(c) ==
  /\ At(c, "kill")
  /\ IF call[c].kill = {} THEN Goto(c, call[c].next) /\ UNCHANGED proc
     ELSE \E p \in call[c].kill :
        /\ proc' = [proc EXCEPT ![p] = "killed"]
        /\ call' = [call EXCEPT ![c].kill = @ \ {p}]
  /\ UNCHANGED <<present, group, starting, result, recorded>>

(* CloseTerminalSession looks at the number of sessions first.             *)
CountSessions(c) ==
  /\ At(c, "count")
  /\ Goto(c, IF Len(group.order) <= 1 THEN "done" ELSE "closeOne")
  /\ UNCHANGED <<present, group, starting, result, proc, recorded>>

(* CloseWidget: the widget leaves the workspace, then its sessions close.  *)
RemoveWidget(c) ==
  /\ At(c, "remove")
  /\ present' = FALSE
  /\ Goto(c, IF present THEN "closeAll" ELSE "done")
  /\ UNCHANGED <<group, starting, result, proc, recorded>>

SetActiveSession(c) ==
  /\ At(c, "focus")
  /\ IF group.sessions[call[c].sid] # None
     THEN group' = [group EXCEPT !.active = call[c].sid]
     ELSE UNCHANGED group
  /\ Goto(c, "done")
  /\ UNCHANGED <<present, starting, result, proc, recorded>>

-----------------------------------------------------------------------------
(* The shell ends by itself.                                              *)
Exit(p) ==
  /\ proc[p] = "running"
  /\ proc' = [proc EXCEPT ![p] = "exited"]
  /\ UNCHANGED <<present, group, starting, result, recorded, call>>

(* waitForExit, unless the session has left the group.                    *)
WaitForExit(p) ==
  /\ proc[p] \in {"exited", "killed"} /\ p \notin recorded
  /\ p \in Processes(group)
  /\ recorded' = recorded \cup {p}
  /\ UNCHANGED <<present, group, starting, result, proc, call>>

Step(c) ==
  \/ LookSibling(c) \/ LookRestart(c) \/ ChooseRestart(c)
  \/ Enter(c) \/ WaitAnswered(c)
  \/ Launch(c) \/ LaunchFails(c) \/ InstallGroup(c) \/ InstallSession(c) \/ InstallRefused(c)
  \/ ObserveOk(c) \/ ObserveFails(c)
  \/ CloseOne(c) \/ CloseAll(c) \/ CloseService(c) \/ Kill(c)
  \/ CountSessions(c) \/ RemoveWidget(c) \/ SetActiveSession(c)

Next ==
  \E c \in Calls : Begin(c) \/ Step(c) \/ WaitCancelled(c) \/ Exit(c) \/ WaitForExit(c)

Spec == Init /\ [][Next]_vars

-----------------------------------------------------------------------------
PCs == {"idle", "look", "choose", "enter", "wait", "launch", "install", "observe", "count",
        "closeOne", "closeAll", "closeService", "kill", "remove", "focus", "done"}

CallRecord == [kind : Kinds, pc : PCs, sid : SessionIDs, op : {"none", "start", "create"},
               waitsFor : Calls \cup {None}, kill : SUBSET Calls, next : PCs]

TypeOK ==
  /\ present \in BOOLEAN
  /\ group \in [active : SessionIDs \cup {None}, order : Seq(SessionIDs),
                sessions : [SessionIDs -> Calls \cup {None}]]
  /\ starting \in [SessionIDs -> Calls \cup {None}]
  /\ result \in [Calls -> {"none", "ok", "error"}]
  /\ proc \in [Calls -> {"none", "running", "exited", "killed"}]
  /\ recorded \subseteq Calls
  /\ call \in [Calls -> CallRecord]

(* What every request relies on: the order lists each session of the group *)
(* once, and the active session is one of them.  GetState, Snapshot and    *)
(* SendInput answer "active session is missing" otherwise.                 *)
GroupIsConsistent ==
  /\ LET members == {s \in SessionIDs : group.sessions[s] # None} IN
       /\ {group.order[i] : i \in DOMAIN group.order} = members
       /\ Len(group.order) = Cardinality(members)
  /\ HasGroup => group.active \in SessionIDs /\ group.sessions[group.active] # None

(* No shell is lost: one that runs is in the group, or a call holds it,    *)
(* about to install or to kill it.                                         *)
NoOrphanedProcess ==
  \A p \in Calls : proc[p] = "running" =>
     \/ p \in Processes(group)
     \/ At(p, "install")
     \/ \E c \in Calls : At(c, "kill") /\ p \in call[c].kill

(* A session is launched by one call at a time.                            *)
OneLaunchPerSession ==
  LET launching == {c \in Calls : call[c].pc \in {"launch", "install"}} IN
  \A c, d \in launching : call[c].sid = call[d].sid => c = d

(* Whatever requests overlap, the sessions of a widget are launched once,  *)
(* listed as they are, and none of their shells is lost.                   *)
SessionsAreSound == GroupIsConsistent /\ NoOrphanedProcess /\ OneLaunchPerSession

(* Closing sessions never takes the last one of a widget.                  *)
LastSessionStays ==
  [][\A c \in Calls :
        Kind(c) = "closeSession" /\ At(c, "closeOne") /\ ~At(c, "closeOne")' /\ HasGroup
           => HasGroup']_vars

-----------------------------------------------------------------------------
(* Some goroutine that can go on does, launches return and kills end.      *)
Fairness == WF_vars(\E c \in Calls : Step(c)) /\ WF_vars(\E p \in Calls : WaitForExit(p))

FairSpec == Spec /\ Fairness

(* Nobody is left waiting: a request that waits for another one's launch   *)
(* is answered, however that launch ends, and the exit of a shell reaches  *)
(* the state of its session, as long as the session is in the group.       *)
SessionsGoOn ==
  []<>\A c \in Calls :
        /\ ~At(c, "wait")
        /\ proc[c] = "exited" /\ c \in Processes(group) => c \in recorded
=============================================================================
