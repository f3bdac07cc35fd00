------------------------------ MODULE McpRuntime ------------------------------
(* The runtime of an MCP server that is a process of its own (MCPRuntime in    *)
(* core/plugins/mcp_runtime_control.go): its entry of the process table, under *)
(* one lock, its record of the registry (mcp_registry.go), under another, and  *)
(* the requests of core/app/mcp_runtime.go that run on them beside the sweep   *)
(* of idle servers.  Every step is one stretch that holds a lock, or one call  *)
(* between two of them.                                                        *)
EXTENDS Integers, Sequences, FiniteSets

CONSTANTS Requests,   \* requests that may be in flight at the same time
          Sweeper,    \* the goroutine of runIdleSweepLoop
          MaxProcs,   \* bound: processes spawned
          MaxMcpOps   \* bound: requests and sweeps made

ASSUME McpAssumption == IsFiniteSet(Requests) /\ MaxProcs \in Nat /\ MaxMcpOps \in Nat

VARIABLES entry,      \* the registry's record of the server
          table,      \* the process the table holds, or 0
          procs,      \* what became of each process, and its use count
          threads,    \* the requests and the sweep, at a point of their code
          mcpOps, spawned,
          orphans,    \* ghost: handles that a second Start replaced
          overlapped  \* ghost: two threads have been under way together

mcpVars == <<entry, table, procs, threads, mcpOps, spawned, orphans, overlapped>>

Thread == Requests \cup {Sweeper}
Proc == 1..MaxProcs

(* A goroutine: the operation, where it is, the process in its hands, the       *)
(* registry calls it makes next, and where it goes on after them.              *)
Resting == [op |-> "none", at |-> "rest", proc |-> 0, calls |-> <<>>, then |-> "rest",
            before |-> <<>>]

McpInit ==
    /\ entry = [state |-> "stopped", active |-> FALSE, enabled |-> TRUE, used |-> "never"]
    /\ table = 0
    /\ procs = [p \in Proc |-> [life |-> "none", inUse |-> 0]]
    /\ threads = [t \in Thread |-> Resting]
    /\ mcpOps = 0 /\ spawned = 0 /\ orphans = {} /\ overlapped = FALSE

Goes(t, thread) == threads' = [threads EXCEPT ![t] = thread]
To(t, label) == [threads[t] EXCEPT !.at = label]

(* The registry calls that follow, each under the registry's own lock.  A call *)
(* is a field and its value.                                                   *)
Registering(t, calls, then) ==
    [threads[t] EXCEPT !.at = "registry", !.calls = calls, !.then = then, !.proc = 0]

SetState(state) == <<"state", state>>
SetActive(active) == <<"active", active>>
Touch == <<"used", "fresh">>

Registry(t) ==
    /\ threads[t].at = "registry"
    /\ LET call == Head(threads[t].calls)
           rest == Tail(threads[t].calls)
       IN /\ entry' = [entry EXCEPT ![call[1]] = call[2]]
          /\ Goes(t, IF rest # <<>> THEN [threads[t] EXCEPT !.calls = rest]
                     ELSE IF threads[t].then = "rest" THEN Resting
                     ELSE [threads[t] EXCEPT !.at = threads[t].then, !.calls = <<>>])
    /\ UNCHANGED <<table, procs, mcpOps, spawned, orphans, overlapped>>

-------------------------------------------------------------------------------
(* What a caller of Start and of Stop does when it returns: the registry calls *)
(* it goes on with, and where it is after them.                                *)
Activate == <<SetState("active"), Touch>>
Disable == << <<"enabled", FALSE>>, SetActive(FALSE)>>

AfterStart(t, calls) ==
    IF threads[t].op = "invoke" THEN Registering(t, calls \o Activate, "acquire")
    ELSE Registering(t, calls, "rest")

AfterStop(t, calls) ==
    CASE threads[t].op = "restart" -> Registering(t, calls, "start")
      [] threads[t].op = "disable" -> Registering(t, calls \o Disable, "persist")
      [] OTHER -> Registering(t, calls, "rest")

(* A request arrives and reads the registry; one that is refused for a disabled *)
(* server changes nothing.                                                      *)
Begins(t, thread) ==
    /\ threads[t] = Resting /\ mcpOps < MaxMcpOps
    /\ mcpOps' = mcpOps + 1
    /\ overlapped' = (overlapped \/ \E u \in Thread : threads[u] # Resting)
    /\ Goes(t, thread)
    /\ UNCHANGED <<entry, table, procs, spawned, orphans>>

Request(op, label) == [Resting EXCEPT !.op = op, !.at = label]

StartMCPServer(t) == entry.enabled /\ Begins(t, Request("start", "look up"))
StopMCPServer(t) == Begins(t, Request("stop", "stop"))
RestartMCPServer(t) == entry.enabled /\ Begins(t, Request("restart", "stop"))
InvokeMCP(t) == entry.enabled /\ Begins(t, Request("invoke", "is running"))

(* The record as it was is kept, to be put back when it cannot be saved.       *)
SetMCPServerEnabled(t) ==
    \/ Begins(t, [Request("disable", "stop") EXCEPT !.before = entry])
    \/ Begins(t, [Request("enable", "registry") EXCEPT
                    !.before = entry, !.calls = << <<"enabled", TRUE>> >>, !.then = "persist"])

(* The sweep decides on a copy of the registry.                                *)
SweepIdle ==
    /\ entry.state = "idle" /\ entry.used = "old"
    /\ Begins(Sweeper, Request("sweep", "stop"))

-------------------------------------------------------------------------------
(* Start, once the request has read the registry.                              *)
StartLooksUp(t) ==
    /\ threads[t].at = "look up"
    /\ Goes(t, IF table # 0 THEN [To(t, "running") EXCEPT !.proc = table]
               ELSE Registering(t, <<SetState("starting"), SetActive(TRUE)>>, "spawn"))
    /\ UNCHANGED <<entry, table, procs, mcpOps, spawned, orphans, overlapped>>

(* The use count is read after the lock was released.                          *)
StartFindsRunning(t) ==
    /\ threads[t].at = "running"
    /\ LET state == IF procs[threads[t].proc].inUse > 0 THEN "active" ELSE "idle"
       IN Goes(t, AfterStart(t, <<SetState(state), SetActive(TRUE), Touch>>))
    /\ UNCHANGED <<entry, table, procs, mcpOps, spawned, orphans, overlapped>>

SpawnFails(t) ==
    /\ threads[t].at = "spawn"
    /\ Goes(t, Registering(t, <<SetState("stopped"), SetActive(FALSE)>>, "rest"))
    /\ UNCHANGED <<entry, table, procs, mcpOps, spawned, orphans, overlapped>>

Spawn(t) ==
    /\ threads[t].at = "spawn" /\ spawned < MaxProcs
    /\ spawned' = spawned + 1
    /\ procs' = [procs EXCEPT ![spawned'].life = "running"]
    /\ Goes(t, [To(t, "install") EXCEPT !.proc = spawned'])
    /\ UNCHANGED <<entry, table, mcpOps, orphans, overlapped>>

(* Whatever the table held by now is replaced.                                 *)
Install(t) ==
    /\ threads[t].at = "install"
    /\ table' = threads[t].proc
    /\ orphans' = IF table = 0 THEN orphans ELSE orphans \cup {table}
    /\ Goes(t, AfterStart(t, <<SetState("idle"), SetActive(TRUE), Touch>>))
    /\ UNCHANGED <<entry, procs, mcpOps, spawned, overlapped>>

(* Restart and the undoing of a disable call Start, which reads again.         *)
StartAgain(t) ==
    /\ threads[t].at = "start"
    /\ Goes(t, IF entry.enabled THEN To(t, "look up") ELSE Resting)
    /\ UNCHANGED <<entry, table, procs, mcpOps, spawned, orphans, overlapped>>

-------------------------------------------------------------------------------
(* Stop, for a request or (auto) for the sweep.                                *)
Stopped(t) == IF threads[t].op = "sweep" THEN "stopped_auto" ELSE "stopped"

StopTakes(t) ==
    /\ table' = 0
    /\ Goes(t, IF table = 0 THEN AfterStop(t, <<SetState(Stopped(t)), SetActive(FALSE)>>)
               ELSE [To(t, "kill") EXCEPT !.proc = table])

(* Variant: whether the process is in use is not asked. *)
StopChecksNothing(t) ==
    /\ threads[t].at = "stop" /\ StopTakes(t)
    /\ UNCHANGED <<entry, procs, mcpOps, spawned, orphans, overlapped>>

Stop(t) ==
    /\ threads[t].at = "stop"
    /\ IF table # 0 /\ procs[table].inUse > 0 THEN Goes(t, Resting) /\ UNCHANGED table
       ELSE StopTakes(t)
    /\ UNCHANGED <<entry, procs, mcpOps, spawned, orphans, overlapped>>

KillProcess(t) ==
    /\ threads[t].at = "kill"
    /\ procs' = [procs EXCEPT ![threads[t].proc].life = "killed"]
    /\ Goes(t, AfterStop(t, <<SetState(Stopped(t)), SetActive(FALSE), Touch>>))
    /\ UNCHANGED <<entry, table, mcpOps, spawned, orphans, overlapped>>

restoreMCPServerSnapshot(before) ==
    << <<"enabled", before.enabled>>, SetState(before.state), SetActive(before.active)>>
    \o IF before.used = "never" THEN <<>> ELSE << <<"used", before.used>> >>

persistMCPRegistry(t) ==
    /\ threads[t].at = "persist"
    /\ LET before == threads[t].before
       IN \/ Goes(t, Resting)
          \/ Goes(t, [Registering(t, restoreMCPServerSnapshot(before),
                        IF before.enabled /\ before.active THEN "start" ELSE "rest")
                        EXCEPT !.before = <<>>, !.op = "start"])
    /\ UNCHANGED <<entry, table, procs, mcpOps, spawned, orphans, overlapped>>

-------------------------------------------------------------------------------
(* Invoke.  A server that is not running is started if the request allows it.  *)
isRunning(t) ==
    /\ threads[t].at = "is running"
    /\ IF table # 0 THEN Goes(t, Registering(t, Activate, "acquire"))
       ELSE Goes(t, Resting) \/ Goes(t, To(t, "start"))
    /\ UNCHANGED <<entry, table, procs, mcpOps, spawned, orphans, overlapped>>

acquireProcess(t) ==
    /\ threads[t].at = "acquire"
    /\ IF table = 0 THEN Goes(t, Resting) /\ UNCHANGED procs
       ELSE /\ procs' = [procs EXCEPT ![table].inUse = @ + 1]
            /\ Goes(t, [To(t, "call") EXCEPT !.proc = table])
    /\ UNCHANGED <<entry, table, mcpOps, spawned, orphans, overlapped>>

(* The invoker answers or fails; the deferred release runs either way.         *)
releaseProcess(t) ==
    /\ threads[t].at = "call"
    /\ LET p == threads[t].proc
       IN /\ procs' = [procs EXCEPT ![p].inUse = @ - 1]
          /\ Goes(t, IF procs'[p].inUse > 0 THEN Resting
                     ELSE Registering(t, <<SetState("idle"), Touch>>, "rest"))
    /\ UNCHANGED <<entry, table, mcpOps, spawned, orphans, overlapped>>

-------------------------------------------------------------------------------
(* The idle timeout passes.  (A process that exits on its own changes nothing  *)
(* here: nobody watches waitCh until Stop, and the table keeps its handle.)    *)
TimePasses ==
    /\ entry.used = "fresh"
    /\ entry' = [entry EXCEPT !.used = "old"]
    /\ UNCHANGED <<table, procs, threads, mcpOps, spawned, orphans, overlapped>>

McpStep(t) ==
    \/ Registry(t) \/ StartLooksUp(t) \/ StartFindsRunning(t) \/ SpawnFails(t) \/ Spawn(t)
    \/ Install(t) \/ StartAgain(t) \/ Stop(t) \/ KillProcess(t) \/ persistMCPRegistry(t)
    \/ isRunning(t) \/ acquireProcess(t) \/ releaseProcess(t)

McpNext ==
    \/ \E t \in Requests : StartMCPServer(t) \/ StopMCPServer(t) \/ RestartMCPServer(t)
                           \/ InvokeMCP(t) \/ SetMCPServerEnabled(t)
    \/ SweepIdle
    \/ \E t \in Thread : McpStep(t)
    \/ TimePasses

McpSpec == McpInit /\ [][McpNext]_mcpVars

-------------------------------------------------------------------------------
(* The threads that call process p.                                            *)
Users(p) == {t \in Thread : threads[t].at = "call" /\ threads[t].proc = p}

(* "In-flight MCP invocations are protected from stop/restart interruption"    *)
(* (docs/architecture/current-behavior.md): no stop, restart, disable or sweep *)
(* kills the process a call has acquired, and the use count, which Stop asks,  *)
(* is the number of calls on that process, also on one that is out of the      *)
(* table by then.                                                              *)
CallsAreProtected ==
    \A p \in Proc : /\ procs[p].inUse = Cardinality(Users(p))
                    /\ Users(p) # {} => procs[p].life # "killed"

(* A process that was spawned can be stopped: it is in the table, or in the    *)
(* hands of the thread that installs or kills it.  Only a handle that a second *)
(* Start replaced is out of reach.                                             *)
NoLostProcess ==
    \A p \in Proc : procs[p].life = "running" =>
        \/ table = p \/ p \in orphans
        \/ \E t \in Thread : threads[t].at \in {"install", "kill"} /\ threads[t].proc = p

(* When requests come one at a time, the registry says of the server at rest   *)
(* what the table says, also after failed spawns and saves that were undone.   *)
RegistryAgrees ==
    ~overlapped /\ (\A t \in Thread : threads[t] = Resting) =>
        /\ entry.active <=> table # 0
        /\ entry.state \in {"active", "idle"} <=> table # 0
        /\ table # 0 => entry.enabled

McpIsSound == CallsAreProtected /\ NoLostProcess /\ RegistryAgrees
===============================================================================
