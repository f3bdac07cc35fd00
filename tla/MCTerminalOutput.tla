--------------------------- MODULE MCTerminalOutput ---------------------------
(* TerminalOutput on two instances: two sessions and one stream, with      *)
(* focus changes, closes and exits at any point, a ring of two of three    *)
(* chunks and a channel of one that overflows; and one session launched    *)
(* twice with two streams whose clients may stop reading.  Beside them,    *)
(* startup, a new session and the shutdown of the service in               *)
(* TerminalSessions, small enough for its liveness.                        *)
EXTENDS TerminalOutput

CONSTANTS sa, sb, u1, u2, c1, c2, c3, Primary

VARIABLES instance,   \* "focus", "clients" or "shutdown"
          present, group, starting, result, proc, recorded, call

(* An exit touches no stream; the first launch alone may exit here.        *)
OneStream ==
  /\ sub'[u2] = NoStream
  /\ 2 \notin exited'

OneSession ==
  /\ run'[sb] = 0 /\ 2 \notin exited'
  /\ \A r \in Runs : fanout'[r].seq <= 2
  /\ \A u \in Subs : sub'[u].first < 2

Shutdown == [c \in {c1, c2, c3} |-> CASE c = c1 -> "boot" [] c = c2 -> "sibling" [] c = c3 -> "shutdown"]

T == INSTANCE TerminalSessions WITH Calls <- {c1, c2, c3}, Scenarios <- {Shutdown}, Remote <- TRUE

sessionVars == <<present, group, starting, result, proc, recorded, call>>

MCInit == Init /\ T!Init /\ instance \in {"focus", "clients", "shutdown"}

MCNext ==
  /\ UNCHANGED instance
  /\ \/ instance = "focus" /\ Next /\ OneStream /\ UNCHANGED sessionVars
     \/ instance = "clients" /\ Next /\ OneSession /\ UNCHANGED sessionVars
     \/ instance = "shutdown" /\ T!Next /\ UNCHANGED vars

MCSpec == MCInit /\ [][MCNext]_<<instance, vars, sessionVars>> /\ ReaderFairness /\ T!Fairness

(* Nothing hangs: a delivery to a stream that nobody reads ends, and so    *)
(* does every stream of a removed group if its clients read; a request     *)
(* that waits for another one's launch is answered, however that launch    *)
(* ends; and the exit of a shell reaches the state of its session.         *)
TerminalGoesOn == StreamsGoOn /\ T!SessionsGoOn
=============================================================================
