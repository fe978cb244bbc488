----------------------------- MODULE MCFilmHost -----------------------------
(* FilmHost on small instances.                                             *)
EXTENDS FilmHostPromise, TLC

CONSTANTS window, agent,   \* connections
          w1, a1,          \* request slots
          film1, film2     \* paths

\* One request at a time on each connection, as the MCP server has it.
OneSlotEach == [a \in {w1, a1} |-> IF a = w1 THEN window ELSE agent]

Both(requests) == [c \in {window, agent} |-> requests]

WriteRequests == Both({"open", "close", "read", "op", "call", "dry"})
LiveRequests  == Both({"open", "close", "call", "reload"})

\* The window moves between films and reloads; the agent reads on.
MoveRequests ==
  [c \in {window, agent} |->
     IF c = window THEN {"open", "create", "saveAs", "call", "reload"}
     ELSE {"open", "close", "read"}]

\* Only the window reloads, as in the code; the agent writes.
ReloadRequests ==
  [c \in {window, agent} |->
     IF c = window THEN {"open", "reload"} ELSE {"open", "call"}]

NoMigration  == {0}
AnyMigration == {0, 1}

=============================================================================
