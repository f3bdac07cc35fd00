------------------------------ MODULE MCServices ------------------------------
(* Three services of the core that keep state behind a lock of their own, each *)
(* in behaviours of its own: the sessions of a terminal widget, with the       *)
(* requests the widget may get side by side, the runtime of an MCP server, and *)
(* the conversations.                                                          *)
EXTENDS TerminalSessions, McpRuntime, Conversations, TLC

CONSTANTS c1, c2, c3, c4, c5

VARIABLE service   \* "terminal", "mcp" or "conversations"

Given(kinds) == [c \in Calls |-> LET i == CHOOSE i \in 1..5 : <<c1, c2, c3, c4, c5>>[i] = c IN kinds[i]]

(* Startup with two new sessions and a session close ...                       *)
Siblings == Given(<<"boot", "sibling", "sibling", "closeSession", "none">>)
(* ... with restarts and the close of the widget ...                           *)
Restarts == Given(<<"boot", "restart", "restart", "none", "closeWidget">>)
(* ... or with a new session, a focus change, a close and the close of the     *)
(* widget.                                                                     *)
Focus == Given(<<"boot", "sibling", "focus", "closeSession", "closeWidget">>)

Safe == {Siblings, Restarts, Focus}

MCInit ==
    /\ McpInit /\ ConvInit
    /\ \/ service = "terminal" /\ Init
       \/ service \in {"mcp", "conversations"} /\ Init /\ \A c \in Calls : call[c].kind = Siblings[c]

(* Requests for an MCP server are interchangeable, and so are two requests on  *)
(* a widget of the same kind.                                                  *)
Interchangeable == Permutations(Requests) \cup Permutations({c2, c3})

MCNext ==
    /\ UNCHANGED service
    /\ \/ service = "terminal" /\ Next /\ UNCHANGED <<mcpVars, convVars>>
       \/ service = "mcp" /\ McpNext /\ UNCHANGED <<vars, convVars>>
       \/ service = "conversations" /\ ConvNext /\ UNCHANGED <<vars, mcpVars>>

MCSpec == MCInit /\ [][MCNext]_<<service, vars, mcpVars, convVars>>
===============================================================================
