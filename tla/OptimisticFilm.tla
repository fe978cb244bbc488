--------------------------- MODULE OptimisticFilm ---------------------------
(***************************************************************************)
(* What the host promises about one film, whatever sessions, queues, opens *)
(* and closes it is made of: rows and a revision, changed by one writer at *)
(* a time; every change counted before the next begins; and a writer that  *)
(* planned its change on rows it had read begins only on those rows.       *)
(***************************************************************************)
EXTENDS Integers

CONSTANTS Writers, NoPlan, Unplanned

VARIABLES revision, rows,
          plan,     \* per writer: the rows it planned on, Unplanned or NoPlan
          writing   \* the writers whose change is not counted yet

vars == <<revision, rows, plan, writing>>

Init ==
  /\ revision = 0 /\ rows = 0
  /\ plan = [w \in Writers |-> NoPlan]
  /\ writing = {}

\* A writer asks for a change, planned on rows of now or of earlier.
Plan(w) ==
  /\ plan[w] = NoPlan
  /\ \E p \in {Unplanned} \cup 0..rows : plan' = [plan EXCEPT ![w] = p]
  /\ UNCHANGED <<revision, rows, writing>>

\* It is refused, or only wanted to try.
GiveUp(w) ==
  /\ plan' = [plan EXCEPT ![w] = NoPlan]
  /\ UNCHANGED <<revision, rows, writing>>

Change(w) ==
  /\ writing = {}
  /\ plan[w] \in {Unplanned, rows}
  /\ rows' \in {rows, rows + 1}
  /\ plan' = [plan EXCEPT ![w] = NoPlan]
  /\ writing' = {w}
  /\ UNCHANGED revision

Count(w) ==
  /\ w \in writing
  /\ revision' = revision + 1
  /\ writing' = writing \ {w}
  /\ UNCHANGED <<rows, plan>>

\* An open that migrates, or a reload: new rows under a new revision at once.
Renew ==
  /\ writing = {}
  /\ rows' \in {rows, rows + 1}
  /\ revision' = revision + 1
  /\ UNCHANGED <<plan, writing>>

Next == \/ \E w \in Writers : Plan(w) \/ GiveUp(w) \/ Change(w) \/ Count(w)
        \/ Renew

Spec == Init /\ [][Next]_vars
=============================================================================
