--------------------------- MODULE FilmHostPromise ---------------------------
(***************************************************************************)
(* FilmHost keeps the promise of OptimisticFilm about a film: the film's   *)
(* path is what the promise is about, whatever Film records and sessions   *)
(* stand behind it.                                                        *)
(***************************************************************************)
EXTENDS FilmHost

CONSTANT OnePath   \* the path of the film

ASSUME OnePathAssumption == OnePath \in Paths

\* The rows each writer of that film planned on, until its change begins.
Plans ==
  [a \in Actors |->
     IF /\ req[a].kind \in {"op", "call"} /\ req[a].path = OnePath
        /\ req[a].pc \in {"checking", "snapshot", "queued"}
     THEN req[a].plan ELSE NoCheck - 1]

\* The writers of a path whose change the session has not counted.
Uncounted(p) ==
  {a \in Actors : req[a].pc \in {"ran", "threw"} /\ sess[req[a].sess].path = p}

Promise ==
  INSTANCE OptimisticFilm WITH
    Writers <- Actors, NoPlan <- NoCheck - 1, Unplanned <- NoCheck,
    revision <- PathRevision(OnePath), rows <- disk[OnePath].rows, plan <- Plans,
    writing <- Uncounted(OnePath)

\* The host keeps the promise of OptimisticFilm about a film: a revision stands
\* for its rows, whichever session or film object counted it (core.ts:230-243),
\* and a write that names the revision its client read commits only on the rows
\* that client read, though the film was closed and reopened in between.
KeepsItsPromise == Promise!Spec

=============================================================================
