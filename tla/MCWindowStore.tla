---------------------------- MODULE MCWindowStore ----------------------------
(* WindowStore on small instances.                                          *)
EXTENDS WindowStore, TLC

CONSTANTS a, b, c, d, u, v, home, disk

\* Films a and b are there, c is not; b is a copy of a outside the editor.
SmallUuids == a :> u @@ b :> u @@ c :> v @@ d :> v

\* app.db knows the folder of a.
SmallDb == [p \in Films |->
  IF p = a THEN [root |-> home, uuid |-> u] ELSE [root |-> None, uuid |-> None]]

=============================================================================
