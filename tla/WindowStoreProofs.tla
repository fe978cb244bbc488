-------------------------- MODULE WindowStoreProofs --------------------------
(***************************************************************************)
(* WindowStore, for every set of films, folders and job slots and every    *)
(* bound: a refresh comes back to the film on the screen, a close does not *)
(* bounce, the film on the screen is the connected one once no open is     *)
(* under way, and the bookkeeping keeps the folders on record.             *)
(***************************************************************************)
EXTENDS WindowStore, TLAPS

UuidSet == {Uuids[p] : p \in Films} \cup {FirstDb[p].uuid : p \in Films} \cup {None}

\* What a job at each of these stages is about is a film.
AboutFilm == {"opening", "checking", "copying", "reading", "looking",
              "suggesting", "applying", "touching", "storing"}

JobType ==
  [kind : {"none", "open", "demo", "new", "resume", "close", "saveAs", "attach"},
   at : AboutFilm \cup {"idle", "closing"},
   path : Films \cup {None}, root : Roots \cup {None}, uuid : UuidSet,
   from : Films \cup {None}]

FilmType == [there : BOOLEAN, uuid : UuidSet, rows : Nat, rev : Nat]

TypeOK ==
  /\ phase \in {"start", "loading", "open", "error"}
  /\ path \in Films \cup {None} /\ root \in Roots \cup {None}
  /\ suggested \subseteq Roots /\ revision \in Nat
  /\ last \in Films \cup {None} /\ resumes \in BOOLEAN
  /\ tried \in BOOLEAN /\ left \in BOOLEAN
  /\ job \in [Jobs -> JobType]
  /\ conn \in Films \cup {None}
  /\ film \in [Films -> FilmType]
  /\ appDb \in [Films -> [root : Roots \cup {None}, uuid : UuidSet]]

\* The stages a job passes through, and what it carries there.
Coherent(w) ==
  /\ w.at \in AboutFilm => w.path \in Films
  /\ w.at = "copying" => w.from \in Films
  /\ w.at = "checking" => w.kind = "demo"
  /\ w.kind = "demo" => w.path \in Demos
  /\ w.at = "storing" => w.root \in Roots

JobInv == \A j \in Jobs : Coherent(job[j])

\* After a close nothing resumes by itself, and nothing is being opened for the
\* start screen.
LeftInv == left => ~resumes /\ phase # "loading"

-----------------------------------------------------------------------------
(* Type correctness *)

LEMMA TypeInit == Init => TypeOK /\ JobInv
<1> SUFFICES ASSUME Init PROVE TypeOK /\ JobInv
  OBVIOUS
<1> USE BoundsAssumption DEF Init
<1>1. Idle \in [kind : {"none"}, at : {"idle"}, path : {None}, root : {None},
                uuid : {None}, from : {None}]
  BY DEF Idle
<1>2. \A p \in Films : Uuids[p] \in UuidSet /\ FirstDb[p].uuid \in UuidSet
  BY DEF UuidSet
<1>3. None \in UuidSet
  BY DEF UuidSet
<1>4. film \in [Films -> FilmType]
  BY <1>2 DEF FilmType
<1>5. appDb \in [Films -> [root : Roots \cup {None}, uuid : UuidSet]]
  BY <1>2
<1>6. TypeOK
  BY <1>1, <1>3, <1>4, <1>5 DEF TypeOK, JobType
<1>7. JobInv
  BY <1>1 DEF JobInv, Coherent, AboutFilm
<1> QED
  BY <1>6, <1>7
LEMMA Idles == Idle \in JobType /\ Coherent(Idle)
BY DEF Idle, JobType, Coherent, AboutFilm, UuidSet

\* A step that moves one job on, to a state jobs may be in, keeps the others'.
LEMMA OneJob ==
  ASSUME TypeOK, JobInv, NEW j \in Jobs, NEW w \in JobType, Coherent(w),
         job' = [job EXCEPT ![j] = w]
  PROVE  job' \in [Jobs -> JobType] /\ JobInv'
BY DEF TypeOK, JobInv

\* A job that goes on to another stage with the same film in hand.
LEMMA NextStage ==
  ASSUME TypeOK, JobInv, NEW j \in Jobs, job[j].at \in AboutFilm,
         NEW s \in AboutFilm \ {"copying", "checking", "storing"}
  PROVE  /\ [job[j] EXCEPT !.at = s] \in JobType
         /\ Coherent([job[j] EXCEPT !.at = s])
BY DEF TypeOK, JobInv, JobType, Coherent, AboutFilm

LEMMA ActingType ==
  ASSUME TypeOK, JobInv, NEW j \in Jobs, Acting(j) \/ Resume(j)
  PROVE  TypeOK' /\ JobInv'
<1> DEFINE Begun(kind, at, p, r) ==
      [Idle EXCEPT !.kind = kind, !.at = at, !.path = p, !.root = r, !.from = conn]
<1> USE BoundsAssumption
    DEF store, saved, host, bounds, Nothing, Act, Begin, Loading, LeaveFilm
<1>0. None \in UuidSet
  BY DEF UuidSet
<1>1. ASSUME NEW p \in Films, AskToOpen(j, p) PROVE TypeOK' /\ JobInv'
  <2>1. Begun("open", "opening", p, None) \in JobType
        /\ Coherent(Begun("open", "opening", p, None))
    BY <1>0 DEF TypeOK, JobType, Coherent, AboutFilm, Idle
  <2>2. job' \in [Jobs -> JobType] /\ JobInv'
    BY <1>1, <2>1, OneJob DEF AskToOpen
  <2> QED
    BY <1>1, <2>2 DEF AskToOpen, TypeOK
<1>2. ASSUME NEW p \in Films, AskToMake(j, p) PROVE TypeOK' /\ JobInv'
  <2> DEFINE kind == IF p \in Demos THEN "demo" ELSE "new"
  <2>1. Begun(kind, "opening", p, None) \in JobType
        /\ Coherent(Begun(kind, "opening", p, None))
    BY <1>0 DEF TypeOK, JobType, Coherent, AboutFilm, Idle
  <2>2. job' \in [Jobs -> JobType] /\ JobInv'
    BY <1>2, <2>1, OneJob DEF AskToMake
  <2> QED
    BY <1>2, <2>2 DEF AskToMake, TypeOK
<1>3. ASSUME NEW p \in Films, AskToSaveAs(j, p) PROVE TypeOK' /\ JobInv'
  <2>1. Begun("saveAs", "copying", p, root) \in JobType
        /\ Coherent(Begun("saveAs", "copying", p, root))
    BY <1>0, <1>3 DEF AskToSaveAs, TypeOK, JobType, Coherent, AboutFilm, Idle
  <2>2. job' \in [Jobs -> JobType] /\ JobInv'
    BY <1>3, <2>1, OneJob DEF AskToSaveAs
  <2> QED
    BY <1>3, <2>2 DEF AskToSaveAs, TypeOK
<1>4. ASSUME NEW r \in Roots, AskToAttach(j, r) PROVE TypeOK' /\ JobInv'
  <2>1. Begun("attach", "storing", path, r) \in JobType
        /\ Coherent(Begun("attach", "storing", path, r))
    BY <1>0, <1>4 DEF AskToAttach, TypeOK, JobType, Coherent, AboutFilm, Idle
  <2>2. job' \in [Jobs -> JobType] /\ JobInv'
    BY <1>4, <2>1, OneJob DEF AskToAttach
  <2> QED
    BY <1>4, <2>2 DEF AskToAttach, TypeOK
<1>5. CASE Close(j)
  <2>1. Begun("close", "closing", None, None) \in JobType
        /\ Coherent(Begun("close", "closing", None, None))
    BY <1>0 DEF TypeOK, JobType, Coherent, AboutFilm, Idle
  <2>2. job' \in [Jobs -> JobType] /\ JobInv'
    BY <1>5, <2>1, OneJob DEF Close
  <2> QED
    BY <1>5, <2>2 DEF Close, TypeOK
<1>6. CASE Resume(j)
  <2>1. CASE resumes
    <3>1. Begun("resume", "opening", last, None) \in JobType
          /\ Coherent(Begun("resume", "opening", last, None))
      BY <1>0, <1>6 DEF Resume, TypeOK, JobType, Coherent, AboutFilm, Idle
    <3>2. job' \in [Jobs -> JobType] /\ JobInv'
      BY <1>6, <2>1, <3>1, OneJob DEF Resume
    <3> QED
      BY <1>6, <2>1, <3>2 DEF Resume, TypeOK
  <2>2. CASE ~resumes
    BY <1>6, <2>2 DEF Resume, TypeOK, JobInv
  <2> QED
    BY <2>1, <2>2
<1> QED
  BY <1>1, <1>2, <1>3, <1>4, <1>5, <1>6 DEF Acting

LEMMA GoingOnType ==
  ASSUME TypeOK, JobInv, NEW j \in Jobs, GoingOn(j)
  PROVE  TypeOK' /\ JobInv'
<1> USE BoundsAssumption DEF store, saved, host, bounds, Nothing
<1> DEFINE On(s) == [job[j] EXCEPT !.at = s]
<1>0. job[j] \in JobType /\ Coherent(job[j])
  BY DEF TypeOK, JobInv
<1>1. CASE HostOpens(j)
  <2>1. job[j].at \in AboutFilm /\ job[j].path \in Films
    BY <1>0, <1>1 DEF HostOpens, AboutFilm, Coherent
  <2>2. job' \in [Jobs -> JobType] /\ JobInv'
    <3>1. CASE Checks(job[j].kind)
      <4>1. On("checking") \in JobType /\ Coherent(On("checking"))
        BY <1>0, <2>1, <3>1 DEF Checks, JobType, Coherent, AboutFilm
      <4> QED
        BY <1>1, <3>1, <4>1, OneJob DEF HostOpens
    <3>2. CASE ~Checks(job[j].kind)
      <4>1. On("reading") \in JobType /\ Coherent(On("reading"))
        BY <2>1, NextStage DEF AboutFilm
      <4> QED
        BY <1>1, <3>2, <4>1, OneJob DEF HostOpens, FinishOpen
    <3> QED
      BY <3>1, <3>2
  <2>3. film' \in [Films -> FilmType] /\ film[job[j].path].rev \in Nat
    <3>1. film \in [Films -> FilmType] /\ film[job[j].path] \in FilmType
      BY <2>1 DEF TypeOK
    <3>2. [film[job[j].path] EXCEPT !.there = TRUE] \in FilmType
      BY <3>1 DEF FilmType
    <3>3. film' = [film EXCEPT ![job[j].path].there = TRUE]
      BY <1>1 DEF HostOpens
    <3>4. film[job[j].path].rev \in Nat
      BY <3>1 DEF FilmType
    <3> QED
      BY <2>1, <3>1, <3>2, <3>3, <3>4
  <2> QED
    BY <1>1, <2>1, <2>2, <2>3 DEF HostOpens, FinishOpen, TypeOK
<1>2. CASE OpenFails(j)
  <2>1. job' \in [Jobs -> JobType] /\ JobInv'
    BY <1>2, Idles, OneJob DEF OpenFails
  <2> QED
    BY <1>2, <2>1 DEF OpenFails, FailedTo, TypeOK
<1>3. CASE DemoChecked(j)
  <2>1. job[j].at \in AboutFilm /\ job[j].path \in Films
    BY <1>0, <1>3 DEF DemoChecked, AboutFilm, Coherent
  <2>2. On("reading") \in JobType /\ Coherent(On("reading"))
    BY <2>1, NextStage DEF AboutFilm
  <2>3. job' \in [Jobs -> JobType] /\ JobInv'
    BY <1>3, <2>2, OneJob DEF DemoChecked, FinishOpen
  <2> QED
    BY <1>3, <2>1, <2>3 DEF DemoChecked, FinishOpen, TypeOK, FilmType
<1>4. CASE HostCopies(j)
  <2>1. job[j].at \in AboutFilm /\ job[j].path \in Films /\ job[j].from \in Films
    BY <1>0, <1>4 DEF HostCopies, AboutFilm, Coherent
  <2>2. On("reading") \in JobType /\ Coherent(On("reading"))
    BY <2>1, NextStage DEF AboutFilm
  <2>3. job' \in [Jobs -> JobType] /\ JobInv'
    BY <1>4, <2>2, OneJob DEF HostCopies
  <2>4. film' \in [Films -> FilmType]
    <3> DEFINE p == job[j].path
               f == job[j].from
               made == [film EXCEPT ![p] = [film[f] EXCEPT !.rev = 0]]
    <3>1. film \in [Films -> FilmType] /\ film[f] \in FilmType
      BY <2>1 DEF TypeOK
    <3>2. made \in [Films -> FilmType]
      BY <3>1 DEF FilmType
    <3>3. [made[f] EXCEPT !.rev = film[f].rev + 1] \in FilmType
      <4>1. made[f] \in FilmType
        BY <2>1, <3>2
      <4> HIDE DEF made
      <4> QED
        BY <3>1, <4>1 DEF FilmType
    <3>4. film' = [made EXCEPT ![f].rev = film[f].rev + 1]
      BY <1>4 DEF HostCopies
    <3> HIDE DEF made
    <3> QED
      BY <2>1, <3>2, <3>3, <3>4
  <2>5. revision' \in Nat
    BY <1>4, <2>1, <2>4 DEF HostCopies, Higher, TypeOK, FilmType
  <2> QED
    BY <1>4, <2>1, <2>3, <2>4, <2>5 DEF HostCopies, Remember, TypeOK
<1>5. CASE CloseAnswered(j)
  <2>1. job' \in [Jobs -> JobType] /\ JobInv'
    BY <1>5, Idles, OneJob DEF CloseAnswered
  <2> QED
    BY <1>5, <2>1 DEF CloseAnswered, TypeOK
<1>6. CASE ReadIdentity(j)
  <2>1. job[j].at \in AboutFilm
    BY <1>6 DEF ReadIdentity, AboutFilm
  <2>2. job' \in [Jobs -> JobType] /\ JobInv'
    <3>1. CASE conn = None
      BY <1>6, <3>1, Idles, OneJob DEF ReadIdentity
    <3>2. CASE conn # None
      <4> DEFINE s == IF job[j].kind = "saveAs" THEN "touching" ELSE "looking"
                 w == [job[j] EXCEPT !.uuid = film[conn].uuid, !.at = s]
      <4>1. film[conn].uuid \in UuidSet
        BY <3>2 DEF TypeOK, FilmType
      <4>2. w \in JobType /\ Coherent(w)
        BY <1>0, <2>1, <4>1 DEF JobType, Coherent, AboutFilm
      <4> QED
        BY <1>6, <3>2, <4>2, OneJob DEF ReadIdentity
    <3> QED
      BY <3>1, <3>2
  <2> QED
    BY <1>6, <2>2 DEF ReadIdentity, TypeOK
<1>7. CASE LookUp(j)
  <2>1. job[j].at \in AboutFilm
    BY <1>7 DEF LookUp, AboutFilm
  <2>2. job' \in [Jobs -> JobType] /\ JobInv'
    <3>1. ASSUME NEW q \in Films,
                 job' = [job EXCEPT ![j] = [job[j] EXCEPT
                           !.root = appDb[q].root, !.at = "applying"]]
          PROVE  job' \in [Jobs -> JobType] /\ JobInv'
      <4> DEFINE w == [job[j] EXCEPT !.root = appDb[q].root, !.at = "applying"]
      <4>1. appDb[q].root \in Roots \cup {None}
        BY DEF TypeOK
      <4>2. w \in JobType /\ Coherent(w)
        BY <1>0, <2>1, <4>1 DEF JobType, Coherent, AboutFilm
      <4> QED
        BY <3>1, <4>2, OneJob
    <3>2. CASE job' = [job EXCEPT ![j].at = "suggesting"]
      <4>1. On("suggesting") \in JobType /\ Coherent(On("suggesting"))
        BY <2>1, NextStage DEF AboutFilm
      <4> QED
        BY <3>2, <4>1, OneJob
    <3>3. job[j].path \in Films
      BY <1>0, <2>1 DEF Coherent
    <3> QED
      BY <1>7, <3>1, <3>2, <3>3 DEF LookUp, Kin
  <2> QED
    BY <1>7, <2>2 DEF LookUp, TypeOK
<1>8. CASE Suggest(j)
  <2>1. On("touching") \in JobType /\ Coherent(On("touching"))
    BY <1>8, NextStage DEF Suggest, AboutFilm
  <2>2. job' \in [Jobs -> JobType] /\ JobInv'
    BY <1>8, <2>1, OneJob DEF Suggest
  <2> QED
    BY <1>8, <2>2 DEF Suggest, TypeOK
<1>9. CASE ApplyRoot(j)
  <2>1. On("touching") \in JobType /\ Coherent(On("touching"))
    BY <1>9, NextStage DEF ApplyRoot, AboutFilm
  <2>2. job' \in [Jobs -> JobType] /\ JobInv'
    BY <1>9, <2>1, Idles, OneJob DEF ApplyRoot
  <2>3. job[j].root \in Roots \cup {None}
    BY <1>0 DEF JobType
  <2> QED
    BY <1>9, <2>2, <2>3 DEF ApplyRoot, TypeOK
<1>10. CASE TouchProject(j)
  <2>1. job' \in [Jobs -> JobType] /\ JobInv'
    BY <1>10, Idles, OneJob DEF TouchProject
  <2>2. job[j].path \in Films
    BY <1>0, <1>10 DEF TouchProject, Coherent, AboutFilm
  <2>3. Touched(job[j].path, job[j]) \in [root : Roots \cup {None}, uuid : UuidSet]
    BY <1>0, <2>2 DEF Touched, JobType, TypeOK
  <2> QED
    BY <1>10, <2>1, <2>2, <2>3 DEF TouchProject, TypeOK
<1>11. CASE SetAssetRoot(j)
  <2>1. On("applying") \in JobType /\ Coherent(On("applying"))
    BY <1>11, NextStage DEF SetAssetRoot, AboutFilm
  <2>2. job' \in [Jobs -> JobType] /\ JobInv'
    BY <1>11, <2>1, OneJob DEF SetAssetRoot
  <2>3. job[j].path \in Films /\ job[j].root \in Roots
    BY <1>0, <1>11 DEF SetAssetRoot, Coherent, AboutFilm
  <2> QED
    BY <1>11, <2>2, <2>3 DEF SetAssetRoot, TypeOK
<1> QED
  BY <1>1, <1>2, <1>3, <1>4, <1>5, <1>6, <1>7, <1>8, <1>9, <1>10, <1>11
  DEF GoingOn

LEMMA TypeStep == TypeOK /\ JobInv /\ [Next]_vars => TypeOK' /\ JobInv'
<1> SUFFICES ASSUME TypeOK, JobInv, [Next]_vars PROVE TypeOK' /\ JobInv'
  OBVIOUS
<1> USE DEF store, saved, host, bounds, Nothing
<1>1. ASSUME NEW f \in Films, WriteTo(f) PROVE TypeOK' /\ JobInv'
  <2>1. film' \in [Films -> FilmType] /\ film[f].rev \in Nat
    BY <1>1 DEF WriteTo, TypeOK, FilmType
  <2> QED
    BY <1>1, <2>1 DEF WriteTo, Higher, TypeOK, JobInv
<1>2. CASE ReadAgain \/ DismissSuggestions
  BY <1>2 DEF ReadAgain, DismissSuggestions, TypeOK, JobInv
<1>3. CASE RefreshPage
  <2>1. film' \in [Films -> FilmType]
    BY <1>3 DEF RefreshPage, TypeOK, FilmType
  <2>2. job' \in [Jobs -> JobType] /\ JobInv'
    BY <1>3, Idles DEF RefreshPage, JobInv
  <2> QED
    BY <1>3, <2>1, <2>2 DEF RefreshPage, TypeOK
<1>4. CASE UNCHANGED vars
  BY <1>4 DEF vars, TypeOK, JobInv
<1> QED
  BY <1>1, <1>2, <1>3, <1>4, ActingType, GoingOnType DEF Next

\* The types of the window's state, and the stages of its jobs.
THEOREM TypeCorrect == Spec => [](TypeOK /\ JobInv)
<1>1. Init => TypeOK /\ JobInv
  BY TypeInit
<1>2. (TypeOK /\ JobInv) /\ [Next]_vars => (TypeOK /\ JobInv)'
  BY TypeStep
<1> QED
  BY <1>1, <1>2, PTL DEF Spec

-----------------------------------------------------------------------------
(* The film on the screen                                                   *)

LEMMA RefreshStep ==
  ASSUME TypeOK, RefreshComesBack, LeftInv, [Next]_vars
  PROVE  RefreshComesBack' /\ LeftInv'
<1> USE DEF RefreshComesBack, LeftInv, store, saved, host, bounds
<1>1. ASSUME NEW j \in Jobs, Acting(j) PROVE RefreshComesBack' /\ LeftInv'
  <2>1. ASSUME NEW p \in Films, AskToOpen(j, p) \/ AskToMake(j, p)
        PROVE  RefreshComesBack' /\ LeftInv'
    BY <2>1 DEF AskToOpen, AskToMake, Loading
  <2>2. ASSUME NEW p \in Films, AskToSaveAs(j, p)
        PROVE  RefreshComesBack' /\ LeftInv'
    BY <2>2 DEF AskToSaveAs
  <2>3. ASSUME NEW r \in Roots, AskToAttach(j, r)
        PROVE  RefreshComesBack' /\ LeftInv'
    BY <2>3 DEF AskToAttach
  <2>4. CASE Close(j)
    BY <2>4 DEF Close, Disarms
  <2> QED
    BY <1>1, <2>1, <2>2, <2>3, <2>4 DEF Acting
<1>2. ASSUME NEW j \in Jobs, Resume(j) PROVE RefreshComesBack' /\ LeftInv'
  BY <1>2 DEF Resume, Loading
<1>3. ASSUME NEW j \in Jobs, GoingOn(j) PROVE RefreshComesBack' /\ LeftInv'
  <2>1. CASE HostOpens(j) \/ DemoChecked(j)
    BY <2>1 DEF HostOpens, DemoChecked, FinishOpen
  <2>2. CASE OpenFails(j)
    BY <2>2 DEF OpenFails, FailedTo
  <2>3. CASE HostCopies(j)
    BY <2>3 DEF HostCopies, Remember
  <2>4. CASE CloseAnswered(j)
    BY <2>4 DEF CloseAnswered, Disarms, TypeOK
  <2>5. CASE ReadIdentity(j) \/ LookUp(j)
    <3>1. UNCHANGED <<store, saved, left>>
      BY <2>5 DEF ReadIdentity, LookUp
    <3> QED
      BY <3>1
  <2>7. CASE Suggest(j)
    BY <2>7 DEF Suggest
  <2>6. CASE ApplyRoot(j) \/ TouchProject(j) \/ SetAssetRoot(j)
    BY <2>6 DEF ApplyRoot, TouchProject, SetAssetRoot
  <2> QED
    BY <1>3, <2>1, <2>2, <2>3, <2>4, <2>5, <2>6, <2>7 DEF GoingOn
<1>4. ASSUME NEW f \in Films, WriteTo(f) PROVE RefreshComesBack' /\ LeftInv'
  BY <1>4 DEF WriteTo
<1>5. CASE ReadAgain \/ DismissSuggestions \/ RefreshPage \/ UNCHANGED vars
  BY <1>5 DEF ReadAgain, DismissSuggestions, RefreshPage, vars
<1> QED
  BY <1>1, <1>2, <1>3, <1>4, <1>5 DEF Next

\* A refresh comes back to the film on the screen, whatever opens, copies and
\* fails meanwhile (resumeLast, scf:last-session and scf:auto-resume).
THEOREM RefreshTheorem == Spec => [](RefreshComesBack /\ LeftInv)
<1>1. Init => RefreshComesBack /\ LeftInv
  BY DEF Init, RefreshComesBack, LeftInv
<1>2. TypeOK /\ (RefreshComesBack /\ LeftInv) /\ [Next]_vars
        => (RefreshComesBack /\ LeftInv)'
  BY RefreshStep
<1> QED
  BY <1>1, <1>2, TypeCorrect, PTL DEF Spec

\* Closing does not bounce: of the steps that show a film or begin to, an answer
\* is to an open that was under way, the writer's are his acts, and a resume
\* finds auto-resume disarmed.
THEOREM NoBounceTheorem == Spec => NoBounce
<1> DEFINE Answered == \E j \in Jobs : Unanswered(j) /\ job'[j] # job[j]
           Moves    == left /\ phase' \in {"loading", "open"} => acts' # acts \/ Answered
<1>1. ASSUME TypeOK, RefreshComesBack, LeftInv, [Next]_vars
      PROVE  [Moves]_vars
  <2> SUFFICES ASSUME left, phase' \in {"loading", "open"}, Next
               PROVE  acts' # acts \/ Answered
    BY <1>1
  <2>0. phase \notin {"loading", "open"} /\ ~resumes
    BY <1>1 DEF LeftInv, RefreshComesBack
  <2> USE DEF store, saved, host, bounds
  <2>1. ASSUME NEW j \in Jobs, Acting(j) PROVE acts' # acts
    <3>1. acts' = acts + 1
      BY <2>1 DEF Acting, AskToOpen, AskToMake, AskToSaveAs, AskToAttach, Close, Act
    <3> QED
      BY <3>1, <1>1 DEF TypeOK
  <2>2. ASSUME NEW j \in Jobs, Resume(j) PROVE FALSE
    BY <2>0, <2>2 DEF Resume
  <2>3. ASSUME NEW j \in Jobs, GoingOn(j) PROVE Answered
    <3>1. CASE HostOpens(j) \/ DemoChecked(j)
      <4>1. /\ job[j].at \in {"opening", "checking"}
            /\ job' = [job EXCEPT ![j].at = "reading"]
        BY <2>0, <3>1 DEF HostOpens, DemoChecked, FinishOpen
      <4>2. job'[j].at = "reading"
        BY <4>1, <1>1 DEF TypeOK, JobType
      <4> QED
        BY <4>1, <4>2 DEF Unanswered
    <3>2. CASE OpenFails(j)
      BY <2>0, <3>2 DEF OpenFails, FailedTo
    <3>3. CASE HostCopies(j) \/ CloseAnswered(j) \/ ReadIdentity(j)
      BY <2>0, <3>3 DEF HostCopies, CloseAnswered, ReadIdentity
    <3>4. CASE LookUp(j) \/ Suggest(j) \/ ApplyRoot(j)
      BY <2>0, <3>4 DEF LookUp, Suggest, ApplyRoot
    <3>5. CASE TouchProject(j) \/ SetAssetRoot(j)
      BY <2>0, <3>5 DEF TouchProject, SetAssetRoot
    <3> QED
      BY <2>3, <3>1, <3>2, <3>3, <3>4, <3>5 DEF GoingOn
  <2>4. ASSUME NEW f \in Films, WriteTo(f) PROVE FALSE
    BY <2>0, <2>4 DEF WriteTo
  <2>5. ~ReadAgain /\ ~DismissSuggestions /\ ~RefreshPage
    BY <2>0 DEF ReadAgain, DismissSuggestions, RefreshPage
  <2> QED
    BY <2>1, <2>2, <2>3, <2>4, <2>5 DEF Next
<1>2. []TypeOK /\ []RefreshComesBack /\ []LeftInv /\ [][Next]_vars => [][Moves]_vars
  BY <1>1, PTL
<1>3. Spec => []TypeOK /\ []RefreshComesBack /\ []LeftInv /\ [][Next]_vars
  BY RefreshTheorem, TypeCorrect, PTL DEF Spec
<1> QED
  BY <1>2, <1>3 DEF NoBounce

-----------------------------------------------------------------------------
(* The connection                                                           *)

\* Only the end of an open takes the last opening job away, and it connects
\* what it shows.
LEMMA ConnectedStep ==
  ASSUME TypeOK, JobInv, ShownIsConnected, [Next]_vars
  PROVE  ShownIsConnected'
<1> USE DEF ShownIsConnected, store, saved, host, bounds
<1>0. ASSUME UNCHANGED <<phase, path, conn>>,
             \A i \in Jobs : Opening(i) => Opening(i)'
      PROVE  ShownIsConnected'
  BY <1>0
<1>1. ASSUME NEW j \in Jobs, Acting(j) PROVE ShownIsConnected'
  <2>1. ASSUME NEW p \in Films, AskToOpen(j, p) \/ AskToMake(j, p)
        PROVE  ShownIsConnected'
    BY <2>1 DEF AskToOpen, AskToMake, Loading
  <2>2. ASSUME NEW p \in Films, AskToSaveAs(j, p)
        PROVE  ShownIsConnected'
    <3>1. Opening(j)'
      BY <2>2 DEF AskToSaveAs, Begin, Idle, Opening, TypeOK
    <3> QED
      BY <3>1
  <2>3. ASSUME NEW r \in Roots, AskToAttach(j, r)
        PROVE  ShownIsConnected'
    <3>1. \A i \in Jobs : Opening(i) => Opening(i)'
      BY <2>3 DEF AskToAttach, Begin, Idle, Opening, TypeOK
    <3> QED
      BY <1>0, <2>3, <3>1 DEF AskToAttach
  <2>4. CASE Close(j)
    BY <2>4 DEF Close
  <2> QED
    BY <1>1, <2>1, <2>2, <2>3, <2>4 DEF Acting
<1>2. ASSUME NEW j \in Jobs, Resume(j) PROVE ShownIsConnected'
  BY <1>2 DEF Resume, Loading
<1>3. ASSUME NEW j \in Jobs, GoingOn(j) PROVE ShownIsConnected'
  <2>1. CASE HostOpens(j)
    <3>1. CASE Checks(job[j].kind)
      <4>1. Opening(j)'
        BY <2>1, <3>1 DEF HostOpens, Opening, TypeOK, JobType
      <4> QED
        BY <4>1
    <3>2. CASE ~Checks(job[j].kind)
      BY <2>1, <3>2 DEF HostOpens, FinishOpen
    <3> QED
      BY <3>1, <3>2
  <2>2. CASE OpenFails(j)
    BY <2>2 DEF OpenFails, FailedTo
  <2>3. CASE DemoChecked(j)
    <3>1. job[j].path \in Demos
      BY <2>3 DEF DemoChecked, JobInv, Coherent
    <3> QED
      BY <2>3, <3>1 DEF DemoChecked, FinishOpen
  <2>4. CASE HostCopies(j)
    BY <2>4 DEF HostCopies
  <2>5. ASSUME job[j].at \notin {"opening", "checking", "copying"},
               UNCHANGED <<phase, path, conn>>,
               \A i \in Jobs \ {j} : job'[i] = job[i]
        PROVE  ShownIsConnected'
    BY <1>0, <2>5 DEF Opening
  <2>6. CASE CloseAnswered(j) \/ ReadIdentity(j) \/ LookUp(j)
    <3>1. CASE CloseAnswered(j)
      BY <2>5, <3>1 DEF CloseAnswered, TypeOK
    <3>2. CASE ReadIdentity(j)
      BY <2>5, <3>2 DEF ReadIdentity, TypeOK
    <3>3. CASE LookUp(j)
      BY <2>5, <3>3 DEF LookUp, TypeOK
    <3> QED
      BY <2>6, <3>1, <3>2, <3>3
  <2>7. CASE Suggest(j)
    BY <2>5, <2>7 DEF Suggest, TypeOK
  <2>8. CASE ApplyRoot(j)
    BY <2>5, <2>8 DEF ApplyRoot, TypeOK
  <2>9. CASE TouchProject(j) \/ SetAssetRoot(j)
    BY <2>5, <2>9 DEF TouchProject, SetAssetRoot, TypeOK
  <2> QED
    BY <1>3, <2>1, <2>2, <2>3, <2>4, <2>6, <2>7, <2>8, <2>9 DEF GoingOn
<1>4. ASSUME NEW f \in Films, WriteTo(f) PROVE ShownIsConnected'
  BY <1>0, <1>4 DEF WriteTo, Opening
<1>5. CASE ReadAgain \/ DismissSuggestions \/ UNCHANGED vars
  BY <1>0, <1>5 DEF ReadAgain, DismissSuggestions, vars, Opening
<1>6. CASE RefreshPage
  BY <1>6 DEF RefreshPage
<1> QED
  BY <1>1, <1>2, <1>3, <1>4, <1>5, <1>6 DEF Next

\* The film on the screen is the one that reads and writes go to, the demo
\* apart, in whatever order opens and Save As are answered.
THEOREM ConnectedTheorem == Spec => []ShownIsConnected
<1>1. Init => ShownIsConnected
  BY DEF Init, ShownIsConnected
<1>2. (TypeOK /\ JobInv) /\ ShownIsConnected /\ [Next]_vars => ShownIsConnected'
  BY ConnectedStep
<1> QED
  BY <1>1, <1>2, TypeCorrect, PTL DEF Spec

-----------------------------------------------------------------------------
(* app.db                                                                   *)

\* What the bookkeeping may do to app.db in one step.
LEMMA AppDbSteps ==
  ASSUME Next
  PROVE  \/ appDb' = appDb
         \/ \E j \in Jobs : TouchProject(j) \/ SetAssetRoot(j)
<1> USE DEF host, store, saved, bounds
<1>1. ASSUME NEW j \in Jobs, Acting(j) \/ Resume(j) PROVE appDb' = appDb
  BY <1>1 DEF Acting, AskToOpen, AskToMake, AskToSaveAs, AskToAttach, Close,
              Resume
<1>2. ASSUME NEW j \in Jobs, GoingOn(j)
      PROVE  appDb' = appDb \/ TouchProject(j) \/ SetAssetRoot(j)
  BY <1>2 DEF GoingOn, HostOpens, OpenFails, DemoChecked, HostCopies,
              CloseAnswered, ReadIdentity, LookUp, Suggest, ApplyRoot
<1>3. ASSUME NEW f \in Films, WriteTo(f) PROVE appDb' = appDb
  BY <1>3 DEF WriteTo
<1>4. CASE ReadAgain \/ DismissSuggestions \/ RefreshPage
  BY <1>4 DEF ReadAgain, DismissSuggestions, RefreshPage
<1> QED
  BY <1>1, <1>2, <1>3, <1>4 DEF Next

\* Only a Save As takes a folder off the record (touchProject updates the
\* columns it is given).
THEOREM RootsTheorem == Spec => RootsAreNotLost
<1> DEFINE Kept ==
      \A p \in Films : appDb[p].root # None /\ appDb'[p].root = None
        => \E j \in Jobs : job[j].kind = "saveAs" /\ job'[j] # job[j]
<1>1. ASSUME TypeOK, JobInv, [Next]_vars PROVE [Kept]_vars
  <2> SUFFICES ASSUME Next, NEW p \in Films,
                      appDb[p].root # None, appDb'[p].root = None
               PROVE  \E j \in Jobs : job[j].kind = "saveAs" /\ job'[j] # job[j]
    BY <1>1
  <2>1. ASSUME NEW j \in Jobs, TouchProject(j)
        PROVE  job[j].kind = "saveAs" /\ job'[j] # job[j]
    <3>1. job'[j] # job[j]
      <4>1. job[j].at = "touching" /\ job'[j] = Idle
        BY <1>1, <2>1 DEF TouchProject, TypeOK
      <4> QED
        BY <4>1 DEF Idle
    <3>2. p = job[j].path /\ Touched(p, job[j]).root = None
      BY <2>1 DEF TouchProject, TypeOK
    <3> QED
      BY <3>1, <3>2 DEF Touched
  <2>2. ASSUME NEW j \in Jobs, SetAssetRoot(j) PROVE FALSE
    <3>1. job[j].at = "storing"
      BY <2>2 DEF SetAssetRoot
    <3>2. job[j].root \in Roots /\ job[j].path \in Films
      BY <1>1, <3>1 DEF JobInv, Coherent, AboutFilm
    <3>3. appDb' = [appDb EXCEPT ![job[j].path].root = job[j].root]
      BY <2>2 DEF SetAssetRoot
    <3>4. appDb \in [Films -> [root : Roots \cup {None}, uuid : UuidSet]]
      BY <1>1 DEF TypeOK
    <3> QED
      BY <3>2, <3>3, <3>4, BoundsAssumption
  <2> QED
    BY <2>1, <2>2, AppDbSteps
<1> QED
  BY <1>1, TypeCorrect, PTL DEF Spec, RootsAreNotLost

==============================================================================
