----------------------------- MODULE WindowStore -----------------------------
(***************************************************************************)
(* The life of a film in the editor's window: scf-app/src/state/store.ts   *)
(* (open, demo, new, resume, close, Save As, the asset folder), App.tsx    *)
(* (resuming after a refresh), useQuery.ts (views that read again when the *)
(* revision moves), and app.db, which remembers a film's asset folder      *)
(* (scf-host/src/appStore.ts).                                             *)
(*                                                                         *)
(* Each of the writer's acts is a job that goes on by itself, from await   *)
(* to await, while the writer does the next.  The host is seen through the *)
(* window's one connection (core.ts): a request to open leaves the film    *)
(* the connection has, and the answer attaches it to another.              *)
(***************************************************************************)
EXTENDS Naturals, FiniteSets

CONSTANTS
  Films,        \* paths of films
  Present,      \* those whose file is there at the start
  Roots,        \* asset folders
  Jobs,         \* slots for what the writer has under way
  Demos,        \* paths the demo may be copied to
  Uuids,        \* path -> the uuid in the film made or found there
  FirstDb,      \* app.db at the start: path -> [root, uuid]
  MayFail,      \* paths that the host may fail to open
  None,
  MaxActs,      \* bound: what the writer does, and writes by anyone
  MaxReloads    \* bound: refreshes of the page

ASSUME BoundsAssumption ==
  /\ Present \subseteq Films /\ MayFail \subseteq Films
  /\ Demos \subseteq Films
  /\ None \notin Films /\ None \notin Roots
  /\ FirstDb \in [Films -> [root : Roots \cup {None},
                            uuid : {FirstDb[p].uuid : p \in Films}]]
  /\ MaxActs \in Nat /\ MaxReloads \in Nat

VARIABLES
  phase, path, root, suggested, revision,   \* the store
  last, resumes,                            \* scf:last-session, scf:auto-resume
  tried,                                    \* App's ref: resuming was considered
  job,        \* slot -> what it does, where it stands, what it carries
  shown,      \* what the views read last, and at which revision
  conn,       \* the film the window's connection has
  attached,   \* the films that have the connection among theirs
  film,       \* path -> [there, uuid, rows, rev]
  appDb,      \* path -> [root, uuid]
  acts, reloads,
  left        \* ghost: did the writer close the film last shown

store  == <<phase, path, root, suggested, revision>>
saved  == <<last, resumes>>
host   == <<conn, attached, film>>
bounds == <<acts, reloads>>
vars   == <<store, saved, tried, job, shown, host, appDb, bounds, left>>

Idle    == [kind |-> "none", at |-> "idle", path |-> None, root |-> None,
            uuid |-> None, from |-> None]
Nothing == [film |-> None, rows |-> 0, at |-> None]
Higher(a, b) == IF a > b THEN a ELSE b

Quiet == \A j \in Jobs : job[j] = Idle

Init ==
  /\ phase = "start" /\ path = None /\ root = None /\ suggested = {}
  /\ revision = 0
  /\ last = None /\ resumes = FALSE /\ tried = FALSE
  /\ job = [j \in Jobs |-> Idle]
  /\ shown = Nothing
  /\ conn = None /\ attached = {}
  /\ film = [p \in Films |-> [there |-> p \in Present, uuid |-> Uuids[p],
                              rows |-> 0, rev |-> 0]]
  /\ appDb = FirstDb
  /\ acts = 0 /\ reloads = 0 /\ left = FALSE

-----------------------------------------------------------------------------
(* What the writer does.                                                    *)

Act == acts < MaxActs /\ acts' = acts + 1

Begin(j, kind, at, p, r) ==
  /\ job[j] = Idle
  /\ job' = [job EXCEPT ![j] = [Idle EXCEPT
               !.kind = kind, !.at = at, !.path = p, !.root = r, !.from = conn]]

\* HostCoreImpl.leave, the first thing an open or a create does.
LeaveFilm ==
  /\ conn' = None
  /\ attached' = attached \ {conn}

\* The views unmount with the workbench.
Loading ==
  /\ phase' = "loading"
  /\ shown' = Nothing

\* The start screen's buttons stay enabled while a film is opening.
AskToOpen(j, p) ==
  /\ phase # "open" /\ Act
  /\ film[p].there
  /\ Begin(j, "open", "opening", p, None)
  /\ Loading /\ LeaveFilm
  /\ left' = FALSE
  /\ UNCHANGED <<path, root, suggested, revision, saved, tried, film, appDb,
                 reloads>>

\* newProject and openDemo: a path chosen first, which no file has.
AskToMake(j, p) ==
  /\ phase # "open" /\ Act
  /\ ~film[p].there
  /\ Begin(j, IF p \in Demos THEN "demo" ELSE "new", "opening", p, None)
  /\ Loading /\ LeaveFilm
  /\ left' = FALSE
  /\ UNCHANGED <<path, root, suggested, revision, saved, tried, film, appDb,
                 reloads>>

\* App's effect and resumeLast: once, when the start screen shows and a film
\* was open, unless it was closed.
Resume(j) ==
  /\ phase = "start" /\ ~tried /\ last # None
  /\ tried' = TRUE
  /\ IF resumes
     THEN Begin(j, "resume", "opening", last, None) /\ Loading /\ LeaveFilm
     ELSE UNCHANGED <<job, phase, shown, conn, attached>>
  /\ UNCHANGED <<path, root, suggested, revision, saved, film, appDb, bounds,
                 left>>

\* Slip: auto-resume is disarmed once the host has answered.
DisarmsLate(step) == step = "answered"
Disarms(step)     == step = "asked"

Close(j) ==
  /\ phase = "open" /\ Act
  /\ Begin(j, "close", "closing", None, None)
  /\ phase' = "start" /\ path' = None /\ root' = None /\ suggested' = {}
  /\ shown' = Nothing
  /\ resumes' = (resumes /\ ~Disarms("asked"))
  /\ LeaveFilm
  /\ left' = TRUE
  /\ UNCHANGED <<revision, last, tried, film, appDb, reloads>>

CloseAnswered(j) ==
  /\ job[j].at = "closing"
  /\ job' = [job EXCEPT ![j] = Idle]
  /\ resumes' = (resumes /\ ~Disarms("answered"))
  /\ UNCHANGED <<store, last, tried, shown, host, appDb, bounds, left>>

AskToSaveAs(j, p) ==
  /\ phase = "open" /\ Act
  /\ ~film[p].there /\ conn # None
  /\ Begin(j, "saveAs", "copying", p, root)
  /\ UNCHANGED <<store, saved, tried, shown, host, appDb, reloads, left>>

\* attachFolder, and chooseSuggestion for a folder that was suggested.
AskToAttach(j, r) ==
  /\ phase = "open" /\ path # None /\ Act
  /\ Begin(j, "attach", "storing", path, r)
  /\ suggested' = {}
  /\ UNCHANGED <<phase, path, root, revision, saved, tried, shown, host, appDb,
                 reloads, left>>

DismissSuggestions ==
  /\ suggested # {} /\ suggested' = {}
  /\ UNCHANGED <<phase, path, root, revision, saved, tried, job, shown, host,
                 appDb, bounds, left>>

-----------------------------------------------------------------------------
(* The host answers.                                                        *)

\* Slip: Save As goes on under the old name.
RememberOld(p) == last
Remember(p)    == p

\* The tail every open shares, up to its first await.
FinishOpen(j, p, r) ==
  /\ phase' = "open" /\ path' = p /\ root' = None /\ suggested' = {}
  /\ revision' = r
  /\ last' = p /\ resumes' = TRUE
  /\ left' = FALSE
  /\ job' = [job EXCEPT ![j].at = "reading"]

\* Slip: every open looks at the film before it is shown.
ChecksAll(kind) == TRUE
Checks(kind)    == kind = "demo"

HostOpens(j) ==
  LET p == job[j].path IN
  /\ job[j].at = "opening"
  /\ film[p].there <=> job[j].kind \in {"open", "resume"}
  /\ film' = [film EXCEPT ![p].there = TRUE]
  /\ conn' = p /\ attached' = attached \cup {p}
  /\ IF Checks(job[j].kind)
     THEN /\ job' = [job EXCEPT ![j].at = "checking"]
          /\ UNCHANGED <<store, saved, left>>
     ELSE FinishOpen(j, p, film[p].rev)
  /\ UNCHANGED <<tried, shown, appDb, bounds>>

\* The demo's rows are counted before it is shown, in whatever film the
\* connection has by then.
DemoChecked(j) ==
  /\ job[j].at = "checking" /\ conn # None
  /\ FinishOpen(j, job[j].path, film[job[j].path].rev)
  /\ UNCHANGED <<tried, shown, host, appDb, bounds>>

\* Slip: a new project that cannot be made leaves the screen as it is.
FailedStays(kind) == IF kind = "resume" THEN "start" ELSE phase
FailedTo(kind)    == IF kind = "resume" THEN "start" ELSE "error"

\* An open that fails: a resume forgets the film and offers the start screen.
OpenFails(j) ==
  /\ \/ job[j].at = "opening"
        /\ \/ job[j].path \in MayFail
           \/ film[job[j].path].there <=> job[j].kind \in {"demo", "new"}
     \/ job[j].at = "checking" /\ conn = None
  /\ job' = [job EXCEPT ![j] = Idle]
  /\ phase' = FailedTo(job[j].kind)
  /\ last' = IF job[j].kind = "resume" THEN None ELSE last
  /\ shown' = Nothing
  /\ UNCHANGED <<path, root, suggested, revision, resumes, tried, host, appDb,
                 bounds, left>>

\* saveAs: the copy counts no writes yet, and the window keeps the higher
\* revision.
HostCopies(j) ==
  LET p == job[j].path  f == job[j].from IN
  /\ job[j].at = "copying"
  /\ film' = [film EXCEPT ![p] = [film[f] EXCEPT !.rev = 0],
                          ![f].rev = film[f].rev + 1]
  /\ conn' = p /\ attached' = (attached \ {conn}) \cup {p}
  /\ path' = p /\ last' = Remember(p)
  /\ revision' = Higher(revision, film'[p].rev)
  /\ job' = [job EXCEPT ![j].at = "reading"]
  /\ UNCHANGED <<phase, root, suggested, resumes, tried, shown, appDb, bounds,
                 left>>

-----------------------------------------------------------------------------
(* The bookkeeping with app.db that follows.                                *)

\* The identity is read from the film the connection has now; without one the
\* bookkeeping ends.
ReadIdentity(j) ==
  /\ job[j].at = "reading"
  /\ job' = IF conn = None THEN [job EXCEPT ![j] = Idle]
            ELSE [job EXCEPT ![j] = [job[j] EXCEPT
                    !.uuid = film[conn].uuid,
                    !.at = IF job[j].kind = "saveAs" THEN "touching"
                           ELSE "looking"]]
  /\ UNCHANGED <<store, saved, tried, shown, host, appDb, bounds, left>>

\* suggestionsFor, by uuid: the other films known with a folder.
Kin(j) ==
  {p \in Films \ {job[j].path} :
     appDb[p].uuid = job[j].uuid /\ appDb[p].root # None}

\* The folder on record, else that of a film with the same uuid.
LookUp(j) ==
  /\ job[j].at = "looking"
  /\ \/ /\ appDb[job[j].path].root # None
        /\ job' = [job EXCEPT ![j] = [job[j] EXCEPT
                     !.root = appDb[job[j].path].root, !.at = "applying"]]
     \/ /\ appDb[job[j].path].root = None
        /\ \E p \in Kin(j) :
             job' = [job EXCEPT ![j] = [job[j] EXCEPT
                       !.root = appDb[p].root, !.at = "applying"]]
     \/ /\ appDb[job[j].path].root = None /\ Kin(j) = {}
        /\ job' = [job EXCEPT ![j].at = "suggesting"]
  /\ UNCHANGED <<store, saved, tried, shown, host, appDb, bounds, left>>

\* A film with another uuid and a like name offers its folder.
Suggest(j) ==
  /\ job[j].at = "suggesting"
  /\ suggested' \in SUBSET (Roots \cap {appDb[p].root : p \in Films \ {job[j].path}})
  /\ job' = [job EXCEPT ![j].at = "touching"]
  /\ UNCHANGED <<phase, path, root, revision, saved, tried, shown, host, appDb,
                 bounds, left>>

\* applyAssetRoot, once fs_exists has answered.
ApplyRoot(j) ==
  /\ job[j].at = "applying"
  /\ root' = job[j].root
  /\ job' = IF job[j].kind = "attach" THEN [job EXCEPT ![j] = Idle]
            ELSE [job EXCEPT ![j].at = "touching"]
  /\ UNCHANGED <<phase, path, suggested, revision, saved, tried, shown, host,
                 appDb, bounds, left>>

\* Slip: a folder that was not resolved is written as none.
TouchedAll(p, row)  == [root |-> row.root, uuid |-> row.uuid]
\* touchProject: the columns it is given.  Save As gives the folder also when
\* there is none; an open only when it found one.
Touched(p, row) ==
  [root |-> IF row.root = None /\ row.kind # "saveAs" THEN appDb[p].root
            ELSE row.root,
   uuid |-> row.uuid]

TouchProject(j) ==
  /\ job[j].at = "touching"
  /\ appDb' = [appDb EXCEPT ![job[j].path] = Touched(job[j].path, job[j])]
  /\ job' = [job EXCEPT ![j] = Idle]
  /\ UNCHANGED <<store, saved, tried, shown, host, bounds, left>>

SetAssetRoot(j) ==
  /\ job[j].at = "storing"
  /\ appDb' = [appDb EXCEPT ![job[j].path].root = job[j].root]
  /\ job' = [job EXCEPT ![j].at = "applying"]
  /\ UNCHANGED <<store, saved, tried, shown, host, bounds, left>>

-----------------------------------------------------------------------------
(* Writes, and the views that follow them.                                  *)

\* A write to a film, by the window or an agent: an event to the connections
\* on it, and the window's answer, carry its revision.
WriteTo(f) ==
  /\ film[f].there
  /\ Act
  /\ film' = [film EXCEPT ![f].rows = @ + 1, ![f].rev = @ + 1]
  /\ revision' = IF f \in attached THEN Higher(revision, film[f].rev + 1)
                 ELSE revision
  /\ UNCHANGED <<phase, path, root, suggested, saved, tried, job, shown, conn,
                 attached, appDb, reloads, left>>

\* useQuery's effect.
ReadAgain ==
  /\ phase = "open" /\ shown.at # revision
  /\ shown' = [film |-> conn, at |-> revision,
               rows |-> IF conn = None THEN 0 ELSE film[conn].rows]
  /\ UNCHANGED <<store, saved, tried, job, host, appDb, bounds, left>>

\* A refresh: a new page, with a new host in it.
RefreshPage ==
  /\ reloads < MaxReloads /\ reloads' = reloads + 1
  /\ phase' = "start" /\ path' = None /\ root' = None /\ suggested' = {}
  /\ revision' = 0 /\ tried' = FALSE
  /\ job' = [j \in Jobs |-> Idle] /\ shown' = Nothing
  /\ conn' = None /\ attached' = {}
  /\ film' = [p \in Films |-> [film[p] EXCEPT !.rev = 0]]
  /\ UNCHANGED <<saved, appDb, acts, left>>

-----------------------------------------------------------------------------
Acting(j) ==
  \/ \E p \in Films : AskToOpen(j, p) \/ AskToMake(j, p) \/ AskToSaveAs(j, p)
  \/ \E r \in Roots : AskToAttach(j, r)
  \/ Close(j)

GoingOn(j) ==
  \/ HostOpens(j) \/ OpenFails(j) \/ DemoChecked(j)
  \/ HostCopies(j)
  \/ CloseAnswered(j)
  \/ ReadIdentity(j) \/ LookUp(j) \/ Suggest(j)
  \/ ApplyRoot(j) \/ TouchProject(j) \/ SetAssetRoot(j)

Next ==
  \/ \E j \in Jobs : Acting(j) \/ Resume(j) \/ GoingOn(j)
  \/ \E f \in Films : WriteTo(f)
  \/ ReadAgain
  \/ DismissSuggestions
  \/ RefreshPage

Spec == Init /\ [][Next]_vars

\* The host and app.db answer, in any order.
FairSpec == Spec /\ \A j \in Jobs : WF_vars(GoingOn(j))

-----------------------------------------------------------------------------
(* Properties                                                               *)

\* What the writer or a resume asked the host for and has no answer to yet.
Unanswered(j) == job[j].at \in {"opening", "checking"}

\* Closing a film does not bounce back into it: after a close, over refreshes
\* too, a film opens or begins to only by a new act of the writer, or by the
\* answer to an open that was under way when the film was closed (closeProject:
\* "Disarm auto-resume BEFORE the phase change").
NoBounce ==
  [][left /\ phase' \in {"loading", "open"}
       => acts' # acts \/ \E j \in Jobs : Unanswered(j) /\ job'[j] # job[j]]_vars

\* A refresh comes back to the film on the screen: whatever opens, copies and
\* fails meanwhile, what is remembered is the film that is shown.
RefreshComesBack == phase = "open" => last = path /\ resumes

\* The screen is not left saying "Opening…".
LoadingEnds == (phase = "loading") ~> (phase # "loading")

Opening(j) == job[j].at \in {"opening", "checking", "copying"}

\* The film on the screen is the one the window's reads and writes go to, in
\* whatever order two opens are answered; the demo apart, which is looked at
\* before it is shown.
ShownIsConnected ==
  phase = "open" /\ (\A j \in Jobs : ~Opening(j)) => conn = path \/ path \in Demos

\* The bookkeeping of an open never takes a folder off the record, also when
\* the writer attaches one while it is under way (touchProject updates the
\* columns it is given; Save As gives the folder even when there is none).
RootsAreNotLost ==
  [][\A p \in Films : appDb[p].root # None /\ appDb'[p].root = None
       => \E j \in Jobs : job[j].kind = "saveAs" /\ job'[j] # job[j]]_vars

-----------------------------------------------------------------------------
(* What the comments say and the program does not.                          *)

\* store.ts: "`revision` ... moves after any write by any client, so lists and
\* panels re-query".
ViewsAreCurrent ==
  phase = "open" /\ Quiet /\ shown.at = revision
    => shown.film = conn /\ (conn # None => shown.rows = film[conn].rows)

\* closeProject: "Back to the start screen."  The writer does nothing more, and
\* the start screen goes.
ClosedStaysClosed ==
  [][left /\ phase = "start" /\ phase' # "start" => acts' # acts]_vars

\* finishOpen: a new project must not inherit the old one's folder.
RootIsItsOwn == Quiet /\ phase = "open" => root \in {None, appDb[path].root}

\* A folder on record is replaced by a choice of the writer only.
OnlyChoicesReplaceRoots ==
  [][\A p \in Films :
       appDb[p].root # None /\ appDb'[p].root # appDb[p].root
         => \E j \in Jobs : job[j].at = "storing" /\ job'[j].at = "applying"]_vars

\* core.ts: "A file is held open only while some connection has it."
HeldOnlyWhileHad == Quiet => attached \subseteq {conn}

=============================================================================
