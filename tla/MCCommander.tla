------------------------------ MODULE MCCommander ------------------------------
(***************************************************************************)
(* The file manager for TLC: a root with one folder and two files, names    *)
(* for one hidden and two new files, and one session per group of commands. *)
(***************************************************************************)
EXTENDS Commander

MCName == 1..5

MCHidden == {4}

MCSize == [n \in MCName |-> IF n = 1 THEN 0 ELSE 7 - n]

MCFresh == <<4, 5>>

MCBinary == {3}

S(commands, n, f) == [commands |-> commands, ops |-> n, fails |-> f]

MCSession == {S({"navigate"}, 4, 1), S({"view"}, 4, 1), S({"view", "navigate"}, 3, 1),
              S({"select"}, 4, 0), S({"search"}, 5, 0), S({"transfer"}, 5, 0), S({"transfer"}, 4, 1),
              S({"clone"}, 5, 0), S({"edit"}, 5, 1), S({"dialog"}, 4, 0), S({"dialog"}, 3, 1),
              S({"edit", "transfer"}, 4, 0), S({"edit", "navigate"}, 4, 0),
              S({"transfer", "navigate"}, 3, 1), S({"transfer", "view"}, 3, 0),
              S({"restart", "navigate"}, 2, 1), S({"restart", "view"}, 2, 0),
              S({"restart", "edit"}, 3, 0)}

\* the session in which a conflict can be resolved, for the short run
MCTransferSession == {S({"transfer"}, 4, 1)}
================================================================================
