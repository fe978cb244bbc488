------------------------ MODULE FilmHostPromiseProofs ------------------------
(***************************************************************************)
(* What the host keeps for clients that make one request at a time: one    *)
(* queue with work per file, revisions that reach everyone on a film, and  *)
(* the promise of OptimisticFilm.                                          *)
(*                                                                         *)
(* Each step is one of two kinds.  Most leave every write under way where  *)
(* it is (Bystands): a film is opened, joined, built, left, drained or     *)
(* read.  The others move one write and no film (Works).  An invariant is  *)
(* kept once for the bystanding steps, and once for each step of a write.  *)
(***************************************************************************)
EXTENDS FilmHostPromise, FilmHostProofs

\* The instances this is about: clients that make one request at a time, and stay.
\* Otherwise a write is left in the queue of a film that is closed and opened again,
\* and OneQueuePerPath fails (MCFilmHost_drops.cfg).  A copy is counted but told to
\* nobody, and a reload may bring the revision down (MCFilmHost_falls.cfg).
OneAtATime ==
  /\ \A a, b \in Actors : ConnOf[a] = ConnOf[b] => a = b
  /\ Drops = {}
  /\ \A c \in Conns : Requests[c] \cap {"saveAs", "reload"} = {}

\* A write that runs or has run but is still at the head of the queue; and one
\* with a place in it.
Begun    == {"ran", "threw", "refreshing"}
Ticketed == {"queued"} \cup Begun

\* Only plain writes get as far as the gates and the queue.
PlainInv ==
  \A a \in Actors :
    /\ req[a].kind \notin {"saveAs", "reload"}
    /\ req[a].pc \in Working => req[a].kind \in {"op", "call", "dry"}

\* A write goes on with the film its connection is on.
HereInv ==
  \A a \in Actors : req[a].pc \in Working =>
    /\ conn[ConnOf[a]].film = req[a].film
    /\ req[a].sess = film[req[a].film].session
    /\ req[a].path = film[req[a].film].path

\* A film's session is one of its own file.
OpenInv ==
  \A f \in Films :
    film[f].stage \in Built => sess[film[f].session].path = film[f].path

InQueue(s) == {a \in Actors : req[a].pc \in Ticketed /\ req[a].sess = s}

\* The queue of a session: its tickets are those between served and issued, each
\* held by one write, and a write that began holds the first.
TicketInv ==
  \A s \in Films :
    /\ sess[s].served <= sess[s].issued
    /\ \A a \in InQueue(s) :
         /\ sess[s].served <= req[a].ticket /\ req[a].ticket < sess[s].issued
         /\ req[a].pc \in Begun => req[a].ticket = sess[s].served
    /\ \A a, b \in InQueue(s) : req[a].ticket = req[b].ticket => a = b
    /\ \A n \in sess[s].served..(sess[s].issued - 1) :
         \E a \in InQueue(s) : req[a].ticket = n

\* The revisions a write remembers are not ahead of its film's; once it is counted,
\* the one it started from is behind.
BeforeInv ==
  \A a \in Actors :
    /\ req[a].pc \in {"queued", "ran", "threw"} => req[a].before <= RevisionOf(req[a].film)
    /\ req[a].pc = "refreshing" => req[a].before < RevisionOf(req[a].film)
    /\ req[a].pc \in {"refused", "recorded"} => req[a].ticket <= RevisionOf(req[a].film)

\* Request a still has to tell the film's clients of the revision at hand ...
Owes(a, f) ==
  /\ req[a].film = f
  /\ \/ req[a].pc = "refreshing"
     \/ /\ req[a].pc \in {"refused", "recorded"}
        /\ req[a].ticket = RevisionOf(f) /\ req[a].ticket # req[a].before

\* ... and there is one that does, where a client has not heard it.
HeardInv ==
  \A c \in Conns : LET f == conn[c].film IN f # None =>
    /\ conn[c].rev <= RevisionOf(f)
    /\ conn[c].rev = RevisionOf(f) \/ \E a \in Actors : Owes(a, f)

\* A request that opens or closes has left its film; a film's clients are on it.
Away == {"leaving", "making", "joining", "building"}

MembersInv ==
  /\ \A a \in Actors : req[a].pc \in Away => conn[ConnOf[a]].film = None
  /\ \A f \in Films : \A c \in film[f].clients : conn[c].film = f

WInv == PlainInv /\ HereInv /\ OpenInv /\ TicketInv /\ BeforeInv /\ HeardInv

\* Somebody knows the rows n of path p at revision r: if that is still the revision
\* and no change is under way, they are still the rows.
Fresh(p, r, n) ==
  /\ r \in Nat /\ r <= PathRevision(p)
  /\ n <= disk[p].rows
  /\ r = PathRevision(p) /\ Uncounted(p) = {} => n = disk[p].rows

\* So does every client that has read ...
ViewInv ==
  \A c \in Conns : view[c].rev # NoCheck => Fresh(view[c].path, view[c].rev, view[c].rows)

\* ... and every write that is based on a reading: its revision is the film's until
\* it is queued, and then the session's (core.ts:526-531).
Planned(a) ==
  IF req[a].pc = "queued" THEN req[a].expected + film[req[a].film].base ELSE req[a].expected

PlanInv ==
  \A a \in Actors :
    req[a].pc \in {"checking", "snapshot", "queued"} /\ req[a].plan # NoCheck =>
      /\ req[a].expected # NoCheck /\ req[a].plan \in Nat
      /\ req[a].pc = "snapshot" => req[a].expected >= film[req[a].film].base
      /\ Fresh(req[a].path, Planned(a), req[a].plan)

-----------------------------------------------------------------------------
(* Steps that leave every write where it is *)

\* Those of requests that open or close, of films, readers and other programs.
Bystands ==
  /\ \A a \in Actors :
       /\ req'[a].kind \notin {"saveAs", "reload"}
       /\ \/ req'[a] = req[a] /\ conn'[ConnOf[a]].film = conn[ConnOf[a]].film
          \/ req[a].pc \notin Working /\ req'[a].pc \notin Working
  /\ \A f \in Films :
       IF film[f].stage \in Built
       THEN /\ film'[f].stage \in Built /\ film'[f].path = film[f].path
            /\ film'[f].session = film[f].session /\ film'[f].base = film[f].base
       ELSE film'[f].stage \in Built => sess'[film'[f].session].path = film'[f].path
  /\ \A s \in Films :
       \/ /\ sess'[s].path = sess[s].path /\ sess'[s].issued = sess[s].issued
          /\ sess'[s].served = sess[s].served /\ sess'[s].revision = sess[s].revision
       \/ s \notin Used /\ sess'[s].issued = sess'[s].served
  /\ \A c \in Conns :
       \/ conn'[c].film = None
       \/ conn'[c].film = conn[c].film /\ conn'[c].rev = conn[c].rev
       \/ (conn[c].rev = RevisionOf(conn[c].film))'

LEMMA BystandsRevision ==
  ASSUME IInv, Bystands, NEW f \in Films, film[f].stage \in Built
  PROVE  RevisionOf(f)' = RevisionOf(f)
<1>1. film[f].session \in Used /\ film[f].session \in Films
  BY DEF IInv, Shape, FilmInv, Used
<1>2. film'[f].session = film[f].session /\ film'[f].base = film[f].base
  BY DEF Bystands
<1>3. sess'[film[f].session].revision = sess[film[f].session].revision
  BY <1>1 DEF Bystands
<1> QED
  BY <1>2, <1>3 DEF RevisionOf

\* A write that is under way is where it was.
LEMMA BystandsWorking ==
  ASSUME Bystands, NEW a \in Actors, req[a].pc \in Working \/ req'[a].pc \in Working
  PROVE  req'[a] = req[a] /\ conn'[ConnOf[a]].film = conn[ConnOf[a]].film
BY DEF Bystands

LEMMA BystandsQueue ==
  ASSUME IInv, Bystands, NEW s \in Films
  PROVE  /\ InQueue(s)' = InQueue(s) /\ \A a \in InQueue(s) : req'[a] = req[a]
         /\ s \notin Used => InQueue(s) = {}
<1>1. Ticketed \subseteq Working
  BY DEF Ticketed, Begun, Working
<1>2. \A a \in Actors : req[a].pc \in Ticketed \/ req'[a].pc \in Ticketed => req'[a] = req[a]
  BY <1>1, BystandsWorking
<1>3. s \notin Used => InQueue(s) = {}
  BY <1>1 DEF InQueue, IInv, Shape, RequestInv, RequestAt
<1> QED
  BY <1>2, <1>3 DEF InQueue

LEMMA BystandsKeeps ==
  ASSUME IInv, IInv', WInv, Bystands
  PROVE  WInv'
<1> USE DEF WInv
<1>1. PlainInv'
  BY BystandsWorking DEF PlainInv, Bystands
<1>2. HereInv'
  <2> SUFFICES ASSUME NEW a \in Actors, req'[a].pc \in Working
               PROVE  /\ conn'[ConnOf[a]].film = req'[a].film
                      /\ req'[a].sess = film'[req'[a].film].session
                      /\ req'[a].path = film'[req'[a].film].path
    BY DEF HereInv
  <2>1. req'[a] = req[a] /\ conn'[ConnOf[a]].film = conn[ConnOf[a]].film
    BY BystandsWorking
  <2>2. req[a].film \in Films /\ film[req[a].film].stage \in Built
    BY <2>1, WorkingHas
  <2>3. /\ film'[req[a].film].session = film[req[a].film].session
        /\ film'[req[a].film].path = film[req[a].film].path
    BY <2>2 DEF Bystands
  <2> QED
    BY <2>1, <2>3 DEF HereInv
<1>3. OpenInv'
  <2> SUFFICES ASSUME NEW f \in Films, film'[f].stage \in Built
               PROVE  sess'[film'[f].session].path = film'[f].path
    BY DEF OpenInv
  <2>1. CASE film[f].stage \in Built
    <3>1. film[f].session \in Used /\ film[f].session \in Films
      BY <2>1 DEF IInv, Shape, FilmInv, Used
    <3>2. film'[f].path = film[f].path /\ film'[f].session = film[f].session
      BY <2>1 DEF Bystands
    <3>3. sess'[film[f].session].path = sess[film[f].session].path
      BY <3>1 DEF Bystands
    <3> QED
      BY <2>1, <3>2, <3>3 DEF OpenInv
  <2> QED
    BY <2>1 DEF Bystands
<1>4. TicketInv'
  <2> SUFFICES ASSUME NEW s \in Films
               PROVE  /\ sess'[s].served <= sess'[s].issued
                      /\ \A a \in InQueue(s)' :
                           /\ sess'[s].served <= req'[a].ticket
                           /\ req'[a].ticket < sess'[s].issued
                           /\ req'[a].pc \in Begun => req'[a].ticket = sess'[s].served
                      /\ \A a, b \in InQueue(s)' : req'[a].ticket = req'[b].ticket => a = b
                      /\ \A n \in sess'[s].served..(sess'[s].issued - 1) :
                           \E a \in InQueue(s)' : req'[a].ticket = n
    BY DEF TicketInv
  <2>1. /\ InQueue(s)' = InQueue(s) /\ \A a \in InQueue(s) : req'[a] = req[a]
        /\ s \notin Used => InQueue(s) = {}
    BY BystandsQueue
  <2>2. CASE sess'[s].issued = sess[s].issued /\ sess'[s].served = sess[s].served
    BY <2>1, <2>2 DEF TicketInv
  <2>3. CASE s \notin Used /\ sess'[s].issued = sess'[s].served
    <3>1. sess'[s].served \in Int
      BY DEF IInv, TypeOK, SessType
    <3>2. sess'[s].served..(sess'[s].issued - 1) = {}
      BY <2>3, <3>1
    <3> QED
      BY <2>1, <2>3, <3>1, <3>2
  <2> QED
    BY <2>2, <2>3 DEF Bystands
<1>5. BeforeInv'
  <2> SUFFICES ASSUME NEW a \in Actors
               PROVE  (/\ req[a].pc \in {"queued", "ran", "threw"} =>
                            req[a].before <= RevisionOf(req[a].film)
                       /\ req[a].pc = "refreshing" =>
                            req[a].before < RevisionOf(req[a].film)
                       /\ req[a].pc \in {"refused", "recorded"} =>
                            req[a].ticket <= RevisionOf(req[a].film))'
    BY DEF BeforeInv
  <2>1. CASE req'[a].pc \in Working
    <3>1. req'[a] = req[a]
      BY <2>1, BystandsWorking
    <3> DEFINE f == req[a].film
    <3>2. f \in Films /\ film[f].stage \in Built
      BY <2>1, <3>1, WorkingHas
    <3>3. \A h \in Films : h = f => RevisionOf(h)' = RevisionOf(h)
      BY <3>2, BystandsRevision
    <3>4. PICK h \in Films : h = f
      BY <3>2
    <3>5. req[a].film = h /\ req'[a].film = h /\ RevisionOf(h)' = RevisionOf(h)
      BY <3>1, <3>3, <3>4
    <3> QED
      BY <3>1, <3>5 DEF BeforeInv
  <2> QED
    BY <2>1 DEF Working
<1>6. HeardInv'
  <2> SUFFICES ASSUME NEW c \in Conns, NEW f, f = conn'[c].film, f # None
               PROVE  /\ conn'[c].rev <= RevisionOf(f)'
                      /\ \/ conn'[c].rev = RevisionOf(f)'
                         \/ \E a \in Actors : Owes(a, f)'
    BY DEF HeardInv
  <2>1. CASE conn[c].film = f /\ conn'[c].rev = conn[c].rev
    <3>1. f \in Films /\ film[f].stage \in Built
      BY <2>1, ConnHas DEF Built
    <3>2. RevisionOf(f)' = RevisionOf(f)
      BY <3>1, BystandsRevision
    <3>3. \A a \in Actors : Owes(a, f) => Owes(a, f)'
      <4> TAKE a \in Actors
      <4>1. Owes(a, f) => req'[a] = req[a]
        BY BystandsWorking DEF Owes, Working
      <4> QED
        BY <3>2, <4>1 DEF Owes
    <3> QED
      BY <2>1, <3>2, <3>3 DEF HeardInv
  <2>2. CASE (conn[c].rev = RevisionOf(conn[c].film))'
    <3>1. conn'[c].rev \in Int
      BY DEF IInv, TypeOK, ConnType
    <3> QED
      BY <2>2, <3>1
  <2> QED
    BY <2>1, <2>2 DEF Bystands
<1> QED
  BY <1>1, <1>2, <1>3, <1>4, <1>5, <1>6

-----------------------------------------------------------------------------
(* What such a step leaves to be seen of a path *)

\* Its revision and rows; but an open that migrates writes a revision of its own.
Shows(p) ==
  \/ PathRevision(p)' = PathRevision(p) /\ disk'[p].rows = disk[p].rows
  \/ /\ films[p] = None
     /\ PathRevision(p)' = PathRevision(p) + 1 /\ disk'[p].rows = disk[p].rows + 1

LEMMA PathHas ==
  ASSUME IInv, NEW p \in Paths, films[p] # None
  PROVE  /\ films[p] \in Films /\ film[films[p]].stage = "open"
         /\ film[films[p]].stage \in Built /\ film[films[p]].path = p
         /\ film[films[p]].session \in Used /\ film[films[p]].session \in Films
         /\ PathRevision(p) = RevisionOf(films[p])
<1> USE DEF IInv, Shape
<1>1. films[p] \in Films /\ film[films[p]].stage = "open" /\ film[films[p]].path = p
  BY DEF TypeOK, PathInv
<1>2. film[films[p]].session \in Used
  BY <1>1 DEF FilmInv, Built
<1> QED
  BY <1>1, <1>2 DEF PathRevision, Used, Built

LEMMA PathStays ==
  ASSUME IInv, Bystands, NEW p \in Paths, films'[p] = films[p], lastRev'[p] = lastRev[p]
  PROVE  PathRevision(p)' = PathRevision(p)
<1>1. CASE films[p] = None
  BY <1>1 DEF PathRevision
<1>2. CASE films[p] # None
  <2>1. PICK f \in Films : f = films[p] /\ film[f].stage \in Built
    BY <1>2, PathHas
  <2>2. RevisionOf(f)' = RevisionOf(f)
    BY <2>1, BystandsRevision
  <2>3. films[p] = f /\ films'[p] = f /\ f # None
    BY <1>2, <2>1
  <2> QED
    BY <2>2, <2>3 DEF PathRevision
<1> QED
  BY <1>1, <1>2

LEMMA SameShows ==
  ASSUME IInv, Bystands, UNCHANGED <<films, lastRev>>,
         \A p \in Paths : disk'[p].rows = disk[p].rows, NEW p \in Paths
  PROVE  Shows(p)
BY PathStays DEF Shows

\* A connection that leaves, for a request that is not a write.
LEMMA LeaveBystands ==
  ASSUME IInv, IInv', WInv, OneAtATime, NEW a \in Actors, req[a].pc = "idle",
         Leave(ConnOf[a], TRUE), UNCHANGED <<sess, disk>>, NEW w,
         w.pc \notin Working, w.kind \notin {"saveAs", "reload"},
         req' = [req EXCEPT ![a] = w]
  PROVE  Bystands /\ \A p \in Paths : Shows(p)
<1> DEFINE c == ConnOf[a]
           f == conn[c].film
           last == f # None /\ Remaining(f, c) = {}
           g == [film[f] EXCEPT !.clients = Remaining(f, c),
                                !.stage = IF last /\ @ = "open" THEN "draining" ELSE @]
<1> USE DEF IInv, Shape
<1>1. c \in Conns
  BY ActorConn
<1>2. conn'[c].film = None /\ \A d \in Conns \ {c} : conn'[d] = conn[d]
  <2>1. conn' = [conn EXCEPT ![c] = [conn[c] EXCEPT !.film = None, !.live = TRUE]]
    BY DEF Leave
  <2>2. conn[c] \in ConnType
    BY <1>1 DEF TypeOK
  <2> QED
    BY <1>1, <2>1, <2>2 DEF TypeOK, ConnType
<1>3. req'[a] = w /\ \A b \in Actors \ {a} : req'[b] = req[b]
  BY DEF TypeOK
<1>4. \A b \in Actors \ {a} : ConnOf[b] \in Conns \ {c}
  BY ActorConn DEF OneAtATime
<1>5. \A h \in Films :
        /\ film'[h].stage \in Built <=> film[h].stage \in Built
        /\ film'[h].path = film[h].path
        /\ film'[h].session = film[h].session /\ film'[h].base = film[h].base
  <2>1. CASE f = None
    BY <2>1 DEF Leave
  <2>2. CASE f # None
    <3>1. f \in Films /\ film[f].stage = "open" /\ film[f] \in FilmType
      BY <1>1, <2>2, ConnHas DEF TypeOK
    <3>2. film' = [film EXCEPT ![f] = g]
      BY <2>2 DEF Leave
    <3>3. /\ g.stage \in Built /\ g.path = film[f].path
          /\ g.session = film[f].session /\ g.base = film[f].base
      BY <3>1 DEF FilmType, Built
    <3> HIDE DEF g
    <3> QED
      BY <3>1, <3>2, <3>3 DEF TypeOK, Built
  <2> QED
    BY <2>1, <2>2
<1>6. Bystands
  <2>1. \A b \in Actors :
          /\ req'[b].kind \notin {"saveAs", "reload"}
          /\ \/ req'[b] = req[b] /\ conn'[ConnOf[b]].film = conn[ConnOf[b]].film
             \/ req[b].pc \notin Working /\ req'[b].pc \notin Working
    BY <1>2, <1>3, <1>4 DEF WInv, PlainInv, Working
  <2>2. \A h \in Films : film[h].stage \notin Built => film'[h].stage \notin Built
    BY <1>5
  <2> QED
    BY <1>2, <1>5, <2>1, <2>2 DEF Bystands
<1>7. ASSUME NEW p \in Paths
      PROVE  PathRevision(p)' = PathRevision(p)
  <2>1. CASE last /\ p = film[f].path
    <3>1. f \in Films /\ films[p] = f
      BY <1>1, <2>1, ConnHas
    <3>2. films'[p] = None /\ lastRev'[p] = RevisionOf(f)
      BY <2>1 DEF Leave, RevisionToKeep, TypeOK
    <3>3. PathRevision(p) = RevisionOf(f)
      BY <2>1, <3>1 DEF PathRevision
    <3> QED
      BY <3>2, <3>3 DEF PathRevision
  <2>2. CASE ~(last /\ p = film[f].path)
    <3>1. films'[p] = films[p] /\ lastRev'[p] = lastRev[p]
      BY <2>2 DEF Leave, TypeOK
    <3> QED
      BY <1>6, <3>1, PathStays
  <2> QED
    BY <2>1, <2>2
<1> QED
  BY <1>6, <1>7 DEF Shows

LEMMA AskingBystands ==
  ASSUME IInv, IInv', WInv, OneAtATime, NEW a \in Actors,
         \/ \E p \in Paths : Open(a, p) \/ Create(a, p)
         \/ CloseRequest(a)
  PROVE  Bystands /\ \A p \in Paths : Shows(p)
<1>1. PICK w :
        /\ req' = [req EXCEPT ![a] = w] /\ w.pc \notin Working
        /\ w.kind \notin {"saveAs", "reload"}
  <2>1. CASE \E p \in Paths : Open(a, p)
    <3>1. PICK p \in Paths : Open(a, p)
      BY <2>1
    <3> DEFINE w == [Idle EXCEPT !.pc = "leaving", !.kind = "open", !.path = p,
                                 !.film = LeftBehind(ConnOf[a])]
    <3>2. req' = [req EXCEPT ![a] = w]
      BY <3>1 DEF Open, Ask
    <3>3. w.pc = "leaving" /\ w.kind = "open"
      BY DEF Idle
    <3> QED
      BY <3>2, <3>3 DEF Working
  <2>2. CASE \E p \in Paths : Create(a, p)
    <3>1. PICK p \in Paths : Create(a, p)
      BY <2>2
    <3> DEFINE w == [Idle EXCEPT !.pc = "making", !.kind = "create", !.path = p,
                                 !.film = LeftBehind(ConnOf[a])]
    <3>2. req' = [req EXCEPT ![a] = w]
      BY <3>1 DEF Create, Ask
    <3>3. w.pc = "making" /\ w.kind = "create"
      BY DEF Idle
    <3> QED
      BY <3>2, <3>3 DEF Working
  <2>3. CASE CloseRequest(a)
    <3> DEFINE w == [Idle EXCEPT !.pc = "leaving", !.kind = "close",
                                 !.film = LeftBehind(ConnOf[a])]
    <3>2. req' = [req EXCEPT ![a] = w]
      BY <2>3 DEF CloseRequest, Ask
    <3>3. w.pc = "leaving" /\ w.kind = "close"
      BY DEF Idle
    <3> QED
      BY <3>2, <3>3 DEF Working
  <2> QED
    BY <2>1, <2>2, <2>3
<1>2. req[a].pc = "idle" /\ Leave(ConnOf[a], TRUE) /\ UNCHANGED <<sess, disk>>
  BY DEF Open, Create, CloseRequest, CanAsk
<1> QED
  BY <1>1, <1>2, LeaveBystands

\* A step of a request that is not a write, which moves neither film nor connection.
LEMMA QuietBystands ==
  ASSUME IInv, IInv', WInv, NEW a \in Actors, req[a].pc \notin Working, NEW w,
         w.pc \notin Working, w.kind \notin {"saveAs", "reload"},
         req' = [req EXCEPT ![a] = w], UNCHANGED <<conn, film, films, lastRev, sess>>,
         \A p \in Paths : disk'[p].rows = disk[p].rows
  PROVE  Bystands /\ \A p \in Paths : Shows(p)
<1>1. req'[a] = w /\ \A b \in Actors \ {a} : req'[b] = req[b]
  BY DEF IInv, TypeOK
<1>2. Bystands
  BY <1>1 DEF Bystands, WInv, PlainInv
<1> QED
  BY <1>2, SameShows

LEMMA ClosingBystands ==
  ASSUME IInv, IInv', WInv, NEW a \in Actors,
         FinishClose(a) \/ MakeFile(a) \/ JoinOpening(a)
  PROVE  Bystands /\ \A p \in Paths : Shows(p)
<1>0. Idle.pc = "idle" /\ Idle.kind = "none"
  BY DEF Idle
<1>1. CASE FinishClose(a)
  <2>1. req[a].pc = "leaving" /\ req' = [req EXCEPT ![a] = Idle]
    BY <1>1 DEF FinishClose, Done
  <2> QED
    BY <1>0, <1>1, <2>1, QuietBystands DEF FinishClose, Working, hostVars
<1>2. CASE MakeFile(a)
  <2> DEFINE p == req[a].path
             w == [req[a] EXCEPT !.pc = "leaving", !.film = None]
  <2>1. req[a].pc = "making" /\ req[a] \in ReqType /\ p \in Paths
    BY <1>2 DEF MakeFile, IInv, TypeOK, ReqType
  <2>2. w.pc = "leaving" /\ w.kind = req[a].kind
    BY <2>1 DEF ReqType
  <2>3. req' = [req EXCEPT ![a] = Idle] \/ req' = [req EXCEPT ![a] = w]
    BY <1>2 DEF MakeFile, Done
  <2>4. \A q \in Paths : disk'[q].rows = disk[q].rows
    <3>1. UNCHANGED disk \/ disk' = [disk EXCEPT ![p] = [disk[p] EXCEPT !.exists = TRUE]]
      BY <1>2 DEF MakeFile
    <3>2. [disk[p] EXCEPT !.exists = TRUE].rows = disk[p].rows
      BY <2>1 DEF IInv, TypeOK
    <3> QED
      BY <2>1, <3>1, <3>2 DEF IInv, TypeOK
  <2>5. req[a].kind \notin {"saveAs", "reload"}
    BY DEF WInv, PlainInv
  <2> HIDE DEF w
  <2> QED
    BY <1>0, <1>2, <2>1, <2>2, <2>3, <2>4, <2>5, QuietBystands
       DEF MakeFile, Working, hostVars
<1>3. CASE JoinOpening(a)
  <2> DEFINE w == [req[a] EXCEPT !.pc = "joining", !.film = opening[req[a].path]]
  <2>1. req[a].pc = "leaving" /\ req[a] \in ReqType
    BY <1>3 DEF JoinOpening, MayOpen, IInv, TypeOK
  <2>2. w.pc = "joining" /\ w.kind = req[a].kind
    BY <2>1 DEF ReqType
  <2>3. req' = [req EXCEPT ![a] = w]
    BY <1>3 DEF JoinOpening
  <2>5. req[a].kind \notin {"saveAs", "reload"}
    BY DEF WInv, PlainInv
  <2> HIDE DEF w
  <2> QED
    BY <1>3, <2>1, <2>2, <2>3, <2>5, QuietBystands DEF JoinOpening, Working, hostVars
<1> QED
  BY <1>1, <1>2, <1>3

LEMMA OpenExistingBystands ==
  ASSUME IInv, IInv', WInv, OneAtATime, NEW a \in Actors, OpenExisting(a)
  PROVE  Bystands /\ \A p \in Paths : Shows(p)
<1> DEFINE c == ConnOf[a]
           f == films[req[a].path]
           g == [film[f] EXCEPT !.clients = @ \cup {c}]
<1> USE DEF IInv, Shape
<1>1. /\ c \in Conns /\ f \in Films /\ film[f] \in FilmType /\ req[a].pc = "leaving"
      /\ film[f].stage \in Built
  BY ActorConn DEF OpenExisting, MayOpen, TypeOK, ReqType, PathInv, Built
<1>2. /\ Attach({c}, f, RevisionOf(f)) /\ req' = [req EXCEPT ![a] = Idle]
      /\ UNCHANGED <<films, lastRev, sess, disk>> /\ film' = [film EXCEPT ![f] = g]
  BY DEF OpenExisting, Done, hostVars
<1>3. \A h \in Films :
        /\ film'[h].stage = film[h].stage /\ film'[h].path = film[h].path
        /\ film'[h].session = film[h].session /\ film'[h].base = film[h].base
  <2>1. /\ g.stage = film[f].stage /\ g.path = film[f].path
        /\ g.session = film[f].session /\ g.base = film[f].base
    BY <1>1 DEF FilmType
  <2> HIDE DEF g
  <2> QED
    BY <1>1, <1>2, <2>1 DEF TypeOK
<1>4. /\ conn'[c].film = f /\ conn'[c].rev = RevisionOf(f)
      /\ \A d \in Conns \ {c} : conn'[d] = conn[d]
  <2>1. conn'[c] = [conn[c] EXCEPT !.film = f, !.rev = RevisionOf(f)]
    BY <1>1, <1>2 DEF Attach
  <2>2. conn[c] \in ConnType
    BY <1>1 DEF TypeOK
  <2> HIDE DEF f
  <2> QED
    BY <1>2, <2>1, <2>2 DEF Attach, ConnType
<1>5. PICK h \in Films : h = f /\ RevisionOf(h)' = RevisionOf(h)
  BY <1>1, <1>2, <1>3 DEF RevisionOf
<1>6. (conn[c].rev = RevisionOf(conn[c].film))'
  BY <1>4, <1>5
<1>7. req'[a] = Idle /\ \A b \in Actors \ {a} : req'[b] = req[b]
  BY <1>2 DEF TypeOK
<1>8. \A b \in Actors \ {a} : ConnOf[b] \in Conns \ {c}
  BY ActorConn DEF OneAtATime
<1>9. Bystands
  <2>1. \A b \in Actors :
          /\ req'[b].kind \notin {"saveAs", "reload"}
          /\ \/ req'[b] = req[b] /\ conn'[ConnOf[b]].film = conn[ConnOf[b]].film
             \/ req[b].pc \notin Working /\ req'[b].pc \notin Working
    BY <1>1, <1>4, <1>7, <1>8 DEF WInv, PlainInv, Working, Idle
  <2>2. \A d \in Conns :
          \/ conn'[d].film = conn[d].film /\ conn'[d].rev = conn[d].rev
          \/ (conn[d].rev = RevisionOf(conn[d].film))'
    BY <1>4, <1>6
  <2> QED
    BY <1>2, <1>3, <2>1, <2>2 DEF Bystands
<1> QED
  BY <1>2, <1>9, SameShows

LEMMA BuildingBystands ==
  ASSUME IInv, IInv', WInv, NEW a \in Actors, StartBuild(a) \/ BuildFails(a)
  PROVE  Bystands /\ \A p \in Paths : Shows(p)
<1> USE DEF IInv, Shape
<1>1. PICK f, g :
        /\ f \in Films /\ film[f].stage \notin Built /\ film' = [film EXCEPT ![f] = g]
        /\ g.stage \notin Built
  <2>1. CASE StartBuild(a)
    <3>1. a \in Pending /\ req[a].pc # "building"
      BY <2>1 DEF StartBuild, MayOpen, Pending, Openers
    <3>2. NewFilm \in Films /\ film[NewFilm].stage = "none"
      BY <3>1, FreeFilm
    <3> DEFINE n == NewFilm
               g == [NoFilm EXCEPT !.stage = "building", !.path = req[a].path]
    <3>3. film' = [film EXCEPT ![n] = g]
      BY <2>1 DEF StartBuild
    <3>4. g.stage = "building"
      BY DEF NoFilm
    <3> QED
      BY <3>2, <3>3, <3>4 DEF Built
  <2>2. CASE BuildFails(a)
    <3>1. req[a].film \in Films /\ film[req[a].film].stage = "building"
      BY <2>2 DEF BuildFails, RequestInv, RequestAt, TypeOK, ReqType
    <3>2. film' = [film EXCEPT ![req[a].film] = NoFilm] /\ NoFilm.stage = "none"
      BY <2>2 DEF BuildFails, NoFilm
    <3> QED
      BY <3>1, <3>2 DEF Built
  <2> QED
    BY <2>1, <2>2
<1>2. \A b \in Actors :
        /\ req'[b].kind \notin {"saveAs", "reload"}
        /\ req'[b] = req[b] \/ (req[b].pc \notin Working /\ req'[b].pc \notin Working)
  <2>1. CASE StartBuild(a)
    <3> DEFINE w == [req[a] EXCEPT !.pc = "building", !.film = NewFilm]
    <3>1. req[a].pc = "leaving" /\ req[a] \in ReqType
      BY <2>1 DEF StartBuild, MayOpen, TypeOK
    <3>2. w.pc = "building" /\ w.kind = req[a].kind
      BY <3>1 DEF ReqType
    <3>3. req' = [req EXCEPT ![a] = w]
      BY <2>1 DEF StartBuild
    <3>4. \A b \in Actors : req[b].kind \notin {"saveAs", "reload"}
      BY DEF WInv, PlainInv
    <3> HIDE DEF w
    <3>5. req'[a] = w /\ \A b \in Actors \ {a} : req'[b] = req[b]
      BY <3>3 DEF TypeOK
    <3> QED
      BY <3>1, <3>2, <3>4, <3>5 DEF Working
  <2>2. CASE BuildFails(a)
    <3>1. \A b \in Actors : req'[b] = IF b \in Waiting(req[a].film) THEN Idle ELSE req[b]
      BY <2>2 DEF BuildFails
    <3>2. Idle.pc = "idle" /\ Idle.kind = "none"
      BY DEF Idle
    <3>3. \A b \in Actors : req[b].kind \notin {"saveAs", "reload"}
      BY DEF WInv, PlainInv
    <3> QED
      BY <3>1, <3>2, <3>3 DEF Waiting, Working
  <2> QED
    BY <2>1, <2>2
<1>3. UNCHANGED <<conn, films, lastRev, sess>>
  BY DEF StartBuild, BuildFails
<1>4. Bystands
  <2>1. film'[f] = g /\ \A h \in Films \ {f} : film'[h] = film[h]
    BY <1>1 DEF TypeOK
  <2> QED
    BY <1>1, <1>2, <1>3, <2>1 DEF Bystands
<1>5. \A p \in Paths : disk'[p].rows = disk[p].rows
  <2>1. CASE StartBuild(a)
    BY <2>1 DEF StartBuild
  <2>2. CASE BuildFails(a)
    <3>1. req[a].path \in Paths
      BY <2>2 DEF BuildFails, TypeOK, ReqType
    <3>2. PICK e : disk' = [disk EXCEPT ![req[a].path] = [disk[req[a].path] EXCEPT !.exists = e]]
      BY <2>2 DEF BuildFails
    <3>3. [disk[req[a].path] EXCEPT !.exists = e].rows = disk[req[a].path].rows
      BY <3>1 DEF TypeOK
    <3> QED
      BY <3>1, <3>2, <3>3 DEF TypeOK
  <2> QED
    BY <2>1, <2>2
<1> QED
  BY <1>3, <1>4, <1>5, SameShows

LEMMA BuildBystands ==
  ASSUME IInv, IInv', WInv, OneAtATime, NEW a \in Actors, NEW m \in Migrations,
         Build(a, m)
  PROVE  Bystands /\ \A p \in Paths : Shows(p)
<1>0. PICK f, p, s : f = req[a].film /\ p = req[a].path /\ s = NewSession
  OBVIOUS
<1> DEFINE cs == {ConnOf[b] : b \in Waiting(f)}
           g == [film[f] EXCEPT !.stage = "open", !.session = s,
                                !.base = lastRev[p], !.clients = cs]
           t == [OpenedSession(p) EXCEPT !.revision = m, !.known = @ + m]
<1> USE DEF IInv, Shape
<1>1. /\ p \in Paths /\ f \in Films /\ film[f].stage = "building"
      /\ film[f].path = p /\ films[p] = None /\ film[f] \in FilmType
      /\ a \in Pending
  <2>1. req[a] \in ReqType /\ req[a].pc = "building"
    BY DEF Build, TypeOK
  <2>2. /\ p \in Paths /\ f \in Films /\ film[f].stage = "building"
        /\ film[f].path = p /\ req[a].kind \in {"open", "create", "saveAs"}
    BY <1>0, <2>1 DEF RequestInv, RequestAt, ReqType
  <2>3. opening[p] = f /\ f # None
    BY <2>2 DEF FilmInv, Films, None
  <2> QED
    BY <2>2, <2>3 DEF PathInv, TypeOK, Pending, Openers
<1>2. s \in Films /\ sess[s].stage = "none" /\ s \notin Used
  BY <1>0, <1>1, FreeSession DEF Used
<1>3. /\ sess' = [sess EXCEPT ![s] = t] /\ film' = [film EXCEPT ![f] = g]
      /\ films' = [films EXCEPT ![p] = f] /\ lastRev' = lastRev
      /\ disk' = [disk EXCEPT ![p] = [disk[p] EXCEPT !.rows = @ + m]]
      /\ Attach(cs, f, lastRev[p] + m)
      /\ \A b \in Actors : req'[b] = IF b \in Waiting(f) THEN Idle ELSE req[b]
  BY <1>0 DEF Build
<1>4. m \in {0, 1} /\ lastRev[p] \in Nat /\ disk[p].rows \in Nat /\ outside[p] \in Nat
  BY <1>1, FilmHostAssumption DEF TypeOK
<1>5. /\ t.revision = m /\ t.path = p /\ t.issued = 0 /\ t.served = 0
  <2> DEFINE o == OpenedSession(p)
  <2>1. o \in SessType /\ o.path = p /\ o.issued = 0 /\ o.served = 0
    <3>1. NoSession.issued = 0 /\ NoSession.served = 0
      BY DEF NoSession
    <3> QED
      BY <1>1, <1>4, <3>1, RecordTypes DEF OpenedSession, SessType
  <2>2. t = [o EXCEPT !.revision = m, !.known = @ + m]
    OBVIOUS
  <2> HIDE DEF o, t
  <2> QED
    BY <2>1, <2>2 DEF SessType
<1>6. g.session = s /\ g.base = lastRev[p] /\ g.path = p /\ g.stage = "open"
  BY <1>1 DEF FilmType
<1> HIDE DEF g, t
<1>7. /\ film'[f] = g /\ \A h \in Films \ {f} : film'[h] = film[h]
      /\ sess'[s] = t /\ \A x \in Films \ {s} : sess'[x] = sess[x]
      /\ films'[p] = f /\ \A x \in Paths \ {p} : films'[x] = films[x]
  BY <1>1, <1>2, <1>3 DEF TypeOK
<1>8. RevisionOf(f)' = lastRev[p] + m
  BY <1>5, <1>6, <1>7 DEF RevisionOf
<1>9. \A b \in Actors :
        /\ req'[b].kind \notin {"saveAs", "reload"}
        /\ req'[b] = req[b] \/ (req[b].pc \notin Working /\ req'[b].pc \notin Working)
  <2>1. \A b \in Actors : req[b].kind \notin {"saveAs", "reload"}
    BY DEF WInv, PlainInv
  <2>2. Idle.pc = "idle" /\ Idle.kind = "none"
    BY DEF Idle
  <2> QED
    BY <1>3, <2>1, <2>2 DEF Waiting, Working
<1>10. \A c \in Conns :
         IF c \in cs THEN conn'[c].film = f /\ conn'[c].rev = lastRev[p] + m
         ELSE conn'[c] = conn[c]
  <2> TAKE c \in Conns
  <2>1. conn[c] \in ConnType
    BY DEF TypeOK
  <2>2. conn'[c] = IF c \in cs THEN [conn[c] EXCEPT !.film = f, !.rev = lastRev[p] + m]
                   ELSE conn[c]
    BY <1>3 DEF Attach
  <2> HIDE DEF cs
  <2> QED
    BY <2>1, <2>2 DEF ConnType
<1>11. ASSUME NEW b \in Actors, req[b].pc \in Working
       PROVE  ConnOf[b] \notin cs
  <2>1. \A d \in Waiting(f) : d \in Actors /\ d # b
    BY <1>11 DEF Waiting, Working
  <2> QED
    BY <2>1 DEF OneAtATime
<1>12. Bystands
  <2>1. \A b \in Actors :
          \/ req'[b] = req[b] /\ conn'[ConnOf[b]].film = conn[ConnOf[b]].film
          \/ req[b].pc \notin Working /\ req'[b].pc \notin Working
    <3> TAKE b \in Actors
    <3>1. req[b].pc \in Working => conn'[ConnOf[b]] = conn[ConnOf[b]]
      BY <1>10, <1>11, ActorConn
    <3> QED
      BY <1>9, <3>1
  <2>2. \A h \in Films :
          IF film[h].stage \in Built
          THEN /\ film'[h].stage \in Built /\ film'[h].path = film[h].path
               /\ film'[h].session = film[h].session /\ film'[h].base = film[h].base
          ELSE film'[h].stage \in Built => sess'[film'[h].session].path = film'[h].path
    <3> TAKE h \in Films
    <3>1. CASE h = f
      BY <1>1, <1>5, <1>6, <1>7, <3>1 DEF Built
    <3> QED
      BY <1>7, <3>1
  <2>3. \A x \in Films :
          \/ sess'[x] = sess[x]
          \/ x \notin Used /\ sess'[x].issued = sess'[x].served
    BY <1>2, <1>5, <1>7
  <2>4. \A c \in Conns :
          \/ conn'[c] = conn[c]
          \/ (conn[c].rev = RevisionOf(conn[c].film))'
    BY <1>8, <1>10
  <2> QED
    BY <1>9, <2>1, <2>2, <2>3, <2>4 DEF Bystands
<1>13. \A q \in Paths : disk'[q].rows = IF q = p THEN disk[p].rows + m ELSE disk[q].rows
  BY <1>1, <1>3, <1>4 DEF TypeOK
<1>14. ASSUME NEW q \in Paths, q # p
       PROVE  Shows(q)
  <2>1. films'[q] = films[q] /\ lastRev'[q] = lastRev[q]
    BY <1>3, <1>7, <1>14
  <2> QED
    BY <1>12, <1>13, <1>14, <2>1, PathStays DEF Shows
<1>15. Shows(p)
  <2>1. PathRevision(p) = lastRev[p]
    BY <1>1 DEF PathRevision
  <2>2. PathRevision(p)' = lastRev[p] + m
    BY <1>1, <1>7, <1>8, NotNone DEF PathRevision
  <2>3. disk'[p].rows = disk[p].rows + m
    BY <1>1, <1>13
  <2> QED
    BY <1>1, <1>4, <2>1, <2>2, <2>3 DEF Shows
<1> QED
  BY <1>12, <1>14, <1>15

LEMMA DrainBystands ==
  ASSUME IInv, IInv', WInv, NEW f \in Films, DrainFilm(f) \/ CloseFilm(f)
  PROVE  Bystands /\ \A p \in Paths : Shows(p)
<1> DEFINE s == film[f].session
           at == IF sess[s].closeAt = NotClosed \/ sess[s].stage = "closed"
                 THEN sess[s].issued ELSE sess[s].closeAt
<1> USE DEF IInv, Shape
<1>1. /\ film[f] \in FilmType /\ film[f].stage \in {"draining", "closing"}
      /\ s \in Films /\ sess[s] \in SessType
      /\ UNCHANGED <<conn, films, lastRev, disk, req>>
  BY DEF DrainFilm, CloseFilm, hostVars, TypeOK, FilmInv, Built, Used
<1>2. PICK g, t :
        /\ film' = [film EXCEPT ![f] = g] /\ sess' = [sess EXCEPT ![s] = t]
        /\ g.stage \in Built /\ g.path = film[f].path /\ g.session = film[f].session
        /\ g.base = film[f].base
        /\ t.path = sess[s].path /\ t.issued = sess[s].issued
        /\ t.served = sess[s].served /\ t.revision = sess[s].revision
  <2>1. CASE DrainFilm(f)
    <3> DEFINE g == [film[f] EXCEPT !.stage = "closing"]
               t == [sess[s] EXCEPT !.closeAt = at]
    <3>1. film' = [film EXCEPT ![f] = g] /\ sess' = [sess EXCEPT ![s] = t]
      BY <2>1 DEF DrainFilm
    <3>2. /\ g.stage \in Built /\ g.path = film[f].path /\ g.session = film[f].session
          /\ g.base = film[f].base
      BY <1>1 DEF FilmType, Built
    <3> HIDE DEF at
    <3>3. /\ t.path = sess[s].path /\ t.issued = sess[s].issued
          /\ t.served = sess[s].served /\ t.revision = sess[s].revision
      BY <1>1 DEF SessType
    <3> HIDE DEF g, t, s
    <3> QED
      BY <3>1, <3>2, <3>3
  <2>2. CASE CloseFilm(f)
    <3> DEFINE g == [film[f] EXCEPT !.stage = "closed"]
               t == [sess[s] EXCEPT !.stage = "closed"]
    <3>1. film' = [film EXCEPT ![f] = g] /\ sess' = [sess EXCEPT ![s] = t]
      BY <2>2 DEF CloseFilm
    <3>2. /\ g.stage \in Built /\ g.path = film[f].path /\ g.session = film[f].session
          /\ g.base = film[f].base
      BY <1>1 DEF FilmType, Built
    <3>3. /\ t.path = sess[s].path /\ t.issued = sess[s].issued
          /\ t.served = sess[s].served /\ t.revision = sess[s].revision
      BY <1>1 DEF SessType
    <3> HIDE DEF g, t, s
    <3> QED
      BY <3>1, <3>2, <3>3
  <2> QED
    BY <2>1, <2>2
<1>3. /\ film'[f] = g /\ \A h \in Films \ {f} : film'[h] = film[h]
      /\ sess'[s] = t /\ \A x \in Films \ {s} : sess'[x] = sess[x]
  <2> HIDE DEF s
  <2> QED
    BY <1>1, <1>2 DEF TypeOK
<1>4. Bystands
  <2>1. film[f].stage \in Built
    BY <1>1 DEF Built
  <2>2. \A h \in Films :
          IF film[h].stage \in Built
          THEN /\ film'[h].stage \in Built /\ film'[h].path = film[h].path
               /\ film'[h].session = film[h].session /\ film'[h].base = film[h].base
          ELSE film'[h].stage \in Built => sess'[film'[h].session].path = film'[h].path
    BY <1>2, <1>3, <2>1
  <2>3. \A x \in Films :
          /\ sess'[x].path = sess[x].path /\ sess'[x].issued = sess[x].issued
          /\ sess'[x].served = sess[x].served /\ sess'[x].revision = sess[x].revision
    <3> HIDE DEF s
    <3> QED
      BY <1>2, <1>3
  <2> QED
    BY <1>1, <2>2, <2>3 DEF Bystands, WInv, PlainInv
<1> QED
  BY <1>1, <1>4, SameShows

\* What a connection has seen is the path as it is now.
Sees(c) ==
  \E p \in Paths :
    view'[c] = [path |-> p, rev |-> PathRevision(p), rows |-> disk[p].rows]

LEMMA ReadBystands ==
  ASSUME IInv, IInv', WInv, NEW a \in Actors, Read(a)
  PROVE  /\ Bystands /\ \A p \in Paths : Shows(p)
         /\ \A c \in Conns : view'[c] = view[c] \/ Sees(c)
<1> DEFINE c == ConnOf[a]
           f == conn[c].film
           p == film[f].path
           now == [path |-> p, rev |-> RevisionOf(f), rows |-> disk[p].rows]
           w == [conn[c] EXCEPT !.rev = Higher(@, now.rev)]
<1>1. /\ c \in Conns /\ f # None
      /\ view' = [view EXCEPT ![c] = now] /\ conn' = [conn EXCEPT ![c] = w]
      /\ UNCHANGED <<films, lastRev, film, sess, disk, req>>
  BY ActorConn DEF Read, hostVars
<1>2. p \in Paths /\ RevisionOf(f) \in Nat /\ films[p] = f
  BY <1>1, ConnHas
<1>3. w.film = f /\ w.rev = RevisionOf(f)
  <2>1. conn[c] \in ConnType /\ conn[c].rev \in Nat
    BY <1>1 DEF IInv, TypeOK, ConnType
  <2>2. conn[c].rev <= RevisionOf(f)
    BY <1>1 DEF WInv, HeardInv
  <2>3. Higher(conn[c].rev, now.rev) = RevisionOf(f)
    BY <1>2, <2>1, <2>2 DEF Higher
  <2> QED
    BY <2>1, <2>3 DEF ConnType
<1> HIDE DEF w
<1>4. conn'[c] = w /\ \A d \in Conns \ {c} : conn'[d] = conn[d]
  BY <1>1 DEF IInv, TypeOK
<1>5. RevisionOf(f) = RevisionOf(conn[c].film)' /\ conn'[c].film = f
  BY <1>1, <1>3, <1>4 DEF RevisionOf
<1>6. Bystands
  <2>1. (conn[c].rev = RevisionOf(conn[c].film))'
    BY <1>3, <1>4, <1>5
  <2>2. \A d \in Conns : conn'[d].film = conn[d].film
    BY <1>3, <1>4
  <2>3. \A d \in Conns :
          \/ conn'[d].film = conn[d].film /\ conn'[d].rev = conn[d].rev
          \/ (conn[d].rev = RevisionOf(conn[d].film))'
    BY <1>4, <2>1
  <2> HIDE DEF c, f
  <2>4. \A b \in Actors : conn'[ConnOf[b]].film = conn[ConnOf[b]].film
    BY <2>2, ActorConn
  <2> QED
    BY <1>1, <2>3, <2>4 DEF Bystands, WInv, PlainInv
<1>7. \A d \in Conns : view'[d] = view[d] \/ Sees(d)
  <2>1. now = [path |-> p, rev |-> PathRevision(p), rows |-> disk[p].rows]
    BY <1>1, <1>2 DEF PathRevision
  <2>2. view'[c] = now /\ \A d \in Conns \ {c} : view'[d] = view[d]
    BY <1>1 DEF IInv, TypeOK
  <2> QED
    BY <1>2, <2>1, <2>2 DEF Sees
<1> QED
  BY <1>1, <1>6, <1>7, SameShows

\* Nobody's turn: another program edits the file, or nothing happens.
LEMMA NobodyBystands ==
  ASSUME IInv, WInv,
         UNCHANGED <<conn, films, lastRev, film, sess, req>>
  PROVE  Bystands /\ \A p \in Paths : disk'[p].rows = disk[p].rows => Shows(p)
<1>1. Bystands
  BY DEF Bystands, WInv, PlainInv
<1> QED
  BY <1>1, PathStays DEF Shows

-----------------------------------------------------------------------------
(* A step of one write *)

\* Request a goes on as w; films stay, and connections stay on them.
Works(a, w) ==
  /\ req' = [req EXCEPT ![a] = w] /\ UNCHANGED <<films, lastRev, film>>
  /\ \A c \in Conns : conn'[c].film = conn[c].film
  /\ \A s \in Films : sess'[s].path = sess[s].path
  /\ w.kind \notin {"saveAs", "reload"}
  /\ w.pc \in Working =>
       /\ w.kind \in {"op", "call", "dry"} /\ conn[ConnOf[a]].film = w.film
       /\ w.sess = film[w.film].session /\ w.path = film[w.film].path

LEMMA WorksOthers ==
  ASSUME IInv, NEW a \in Actors, NEW w, Works(a, w)
  PROVE  req'[a] = w /\ \A b \in Actors \ {a} : req'[b] = req[b]
BY DEF Works, IInv, TypeOK

LEMMA WorksKeeps ==
  ASSUME IInv, WInv, NEW a \in Actors, NEW w, Works(a, w)
  PROVE  PlainInv' /\ HereInv' /\ OpenInv'
<1> USE DEF WInv
<1>1. req'[a] = w /\ \A b \in Actors \ {a} : req'[b] = req[b]
  BY WorksOthers
<1>2. PlainInv'
  BY <1>1 DEF PlainInv, Works
<1>3. HereInv'
  <2> SUFFICES ASSUME NEW b \in Actors, req'[b].pc \in Working
               PROVE  /\ conn'[ConnOf[b]].film = req'[b].film
                      /\ req'[b].sess = film'[req'[b].film].session
                      /\ req'[b].path = film'[req'[b].film].path
    BY DEF HereInv
  <2>1. film' = film /\ conn'[ConnOf[b]].film = conn[ConnOf[b]].film
    BY ActorConn DEF Works
  <2>2. CASE b = a
    BY <1>1, <2>1, <2>2 DEF Works
  <2>3. CASE b # a
    <3>1. req'[b] = req[b]
      BY <1>1, <2>3
    <3> QED
      BY <2>1, <3>1 DEF HereInv
  <2> QED
    BY <2>2, <2>3
<1>4. OpenInv'
  <2> SUFFICES ASSUME NEW f \in Films, film'[f].stage \in Built
               PROVE  sess'[film'[f].session].path = film'[f].path
    BY DEF OpenInv
  <2>1. film' = film
    BY DEF Works
  <2>2. film[f].session \in Films
    BY <2>1 DEF IInv, Shape, FilmInv, Used
  <2> QED
    BY <2>1, <2>2 DEF OpenInv, Works
<1> QED
  BY <1>2, <1>3, <1>4

\* A write keeps its ticket, or has none before and after.
LEMMA SameTicket ==
  ASSUME IInv, TicketInv, NEW a \in Actors, NEW w, Works(a, w),
         \A s \in Films :
           sess'[s].issued = sess[s].issued /\ sess'[s].served = sess[s].served,
         w.pc \in Ticketed <=> req[a].pc \in Ticketed,
         w.pc \in Ticketed => /\ w.sess = req[a].sess /\ w.ticket = req[a].ticket
                              /\ w.pc \in Begun => w.ticket = sess[w.sess].served
  PROVE  TicketInv'
<1>1. req'[a] = w /\ \A b \in Actors \ {a} : req'[b] = req[b]
  BY WorksOthers
<1> SUFFICES ASSUME NEW s \in Films
             PROVE  /\ sess'[s].served <= sess'[s].issued
                    /\ \A b \in InQueue(s)' :
                         /\ sess'[s].served <= req'[b].ticket
                         /\ req'[b].ticket < sess'[s].issued
                         /\ req'[b].pc \in Begun => req'[b].ticket = sess'[s].served
                    /\ \A b, d \in InQueue(s)' : req'[b].ticket = req'[d].ticket => b = d
                    /\ \A n \in sess'[s].served..(sess'[s].issued - 1) :
                         \E b \in InQueue(s)' : req'[b].ticket = n
  BY DEF TicketInv
<1>2. InQueue(s)' = InQueue(s)
  BY <1>1 DEF InQueue
<1>3. \A b \in InQueue(s) :
        /\ req'[b].ticket = req[b].ticket
        /\ req'[b].pc \in Begun => req[b].pc \in Begun \/ req'[b].ticket = sess[s].served
  BY <1>1 DEF InQueue
<1>4. sess'[s].issued = sess[s].issued /\ sess'[s].served = sess[s].served
  OBVIOUS
<1> QED
  BY <1>2, <1>3, <1>4 DEF TicketInv

\* It takes the next ticket of session s.
LEMMA NewTicket ==
  ASSUME IInv, TicketInv, NEW a \in Actors, NEW w, Works(a, w),
         NEW s \in Films, w.pc = "queued", w.sess = s, w.ticket = sess[s].issued,
         req[a].pc \notin Ticketed,
         \A t \in Films :
           /\ sess'[t].issued = IF t = s THEN sess[s].issued + 1 ELSE sess[t].issued
           /\ sess'[t].served = sess[t].served
  PROVE  TicketInv'
<1>1. req'[a] = w /\ \A b \in Actors \ {a} : req'[b] = req[b]
  BY WorksOthers
<1> SUFFICES ASSUME NEW t \in Films
             PROVE  /\ sess'[t].served <= sess'[t].issued
                    /\ \A b \in InQueue(t)' :
                         /\ sess'[t].served <= req'[b].ticket
                         /\ req'[b].ticket < sess'[t].issued
                         /\ req'[b].pc \in Begun => req'[b].ticket = sess'[t].served
                    /\ \A b, d \in InQueue(t)' : req'[b].ticket = req'[d].ticket => b = d
                    /\ \A n \in sess'[t].served..(sess'[t].issued - 1) :
                         \E b \in InQueue(t)' : req'[b].ticket = n
  BY DEF TicketInv
<1>2. sess[t].served \in Nat /\ sess[t].issued \in Nat
  BY DEF IInv, TypeOK, SessType
<1>3. /\ a \notin InQueue(t)
      /\ InQueue(t)' = IF t = s THEN InQueue(t) \cup {a} ELSE InQueue(t)
      /\ \A b \in InQueue(t) : req'[b] = req[b]
  BY <1>1 DEF InQueue, Ticketed
<1>4. CASE t # s
  <2>1. sess'[t].issued = sess[t].issued /\ sess'[t].served = sess[t].served
    BY <1>4
  <2> QED
    BY <1>3, <1>4, <2>1 DEF TicketInv
<1>5. CASE t = s
  <2>1. sess'[t].issued = sess[t].issued + 1 /\ sess'[t].served = sess[t].served
    BY <1>5
  <2>2. req'[a].ticket = sess[t].issued /\ req'[a].pc \notin Begun
    BY <1>1, <1>5 DEF Begun
  <2>3. \A b \in InQueue(t) :
          /\ req'[b].ticket = req[b].ticket /\ req[b].ticket < sess[t].issued
          /\ sess[t].served <= req[b].ticket /\ req[b].ticket \in Nat
    BY <1>3 DEF TicketInv, InQueue, IInv, TypeOK, ReqType
  <2>4. sess[t].served <= sess[t].issued
    BY DEF TicketInv
  <2>5. ASSUME NEW n \in sess'[t].served..(sess'[t].issued - 1)
        PROVE  \E b \in InQueue(t)' : req'[b].ticket = n
    <3>1. CASE n = sess[t].issued
      BY <1>3, <1>5, <2>2, <3>1
    <3>2. CASE n # sess[t].issued
      <4>1. n \in sess[t].served..(sess[t].issued - 1)
        BY <1>2, <2>1, <3>2
      <4> QED
        BY <1>3, <1>5, <4>1 DEF TicketInv
    <3> QED
      BY <3>1, <3>2
  <2>6. \A b \in InQueue(t)' :
          /\ sess'[t].served <= req'[b].ticket /\ req'[b].ticket < sess'[t].issued
          /\ req'[b].pc \in Begun => req'[b].ticket = sess'[t].served
    <3> TAKE b \in InQueue(t)'
    <3>1. CASE b = a
      BY <1>2, <2>1, <2>2, <2>4, <3>1
    <3>2. CASE b # a
      <4>1. b \in InQueue(t) /\ req'[b] = req[b]
        BY <1>3, <1>5, <3>2
      <4> QED
        BY <1>2, <2>1, <2>3, <4>1 DEF TicketInv
    <3> QED
      BY <3>1, <3>2
  <2>7. \A b, d \in InQueue(t)' : req'[b].ticket = req'[d].ticket => b = d
    <3>1. \A b \in InQueue(t) : req'[b].ticket # req'[a].ticket
      BY <1>2, <2>2, <2>3
    <3>2. \A b, d \in InQueue(t) : req'[b].ticket = req'[d].ticket => b = d
      BY <1>3 DEF TicketInv
    <3> QED
      BY <1>3, <1>5, <3>1, <3>2
  <2>8. sess'[t].served <= sess'[t].issued
    BY <1>2, <2>1, <2>4
  <2> QED
    BY <2>5, <2>6, <2>7, <2>8
<1> QED
  BY <1>4, <1>5

\* The write at the head of session s is done with it.
LEMMA NextTicket ==
  ASSUME IInv, TicketInv, NEW a \in Actors, NEW w, Works(a, w),
         NEW s \in Films, a \in InQueue(s), req[a].ticket = sess[s].served,
         w.pc \notin Ticketed,
         \A t \in Films :
           /\ sess'[t].issued = sess[t].issued
           /\ sess'[t].served = IF t = s THEN sess[s].served + 1 ELSE sess[t].served
  PROVE  TicketInv'
<1>1. req'[a] = w /\ \A b \in Actors \ {a} : req'[b] = req[b]
  BY WorksOthers
<1> SUFFICES ASSUME NEW t \in Films
             PROVE  /\ sess'[t].served <= sess'[t].issued
                    /\ \A b \in InQueue(t)' :
                         /\ sess'[t].served <= req'[b].ticket
                         /\ req'[b].ticket < sess'[t].issued
                         /\ req'[b].pc \in Begun => req'[b].ticket = sess'[t].served
                    /\ \A b, d \in InQueue(t)' : req'[b].ticket = req'[d].ticket => b = d
                    /\ \A n \in sess'[t].served..(sess'[t].issued - 1) :
                         \E b \in InQueue(t)' : req'[b].ticket = n
  BY DEF TicketInv
<1>2. sess[t].served \in Nat /\ sess[t].issued \in Nat
  BY DEF IInv, TypeOK, SessType
<1>3. /\ InQueue(t)' = InQueue(t) \ {a}
      /\ \A b \in InQueue(t) \ {a} : req'[b] = req[b]
  BY <1>1 DEF InQueue
<1>4. CASE t # s
  <2>1. sess'[t].issued = sess[t].issued /\ sess'[t].served = sess[t].served
    BY <1>4
  <2>2. a \notin InQueue(t)
    BY <1>4 DEF InQueue
  <2> QED
    BY <1>3, <2>1, <2>2 DEF TicketInv
<1>5. CASE t = s
  <2>1. sess'[t].issued = sess[t].issued /\ sess'[t].served = sess[t].served + 1
    BY <1>5
  <2>2. sess[t].served < sess[t].issued
    BY <1>5 DEF TicketInv
  <2>3. \A b \in InQueue(t) \ {a} :
          /\ req'[b] = req[b] /\ req[b].ticket \in Nat
          /\ sess[t].served < req[b].ticket /\ req[b].ticket < sess[t].issued
          /\ req[b].pc \notin Begun
    <3> TAKE b \in InQueue(t) \ {a}
    <3>1. req[b].ticket \in Nat
      BY DEF InQueue, IInv, TypeOK, ReqType
    <3>2. sess[t].served <= req[b].ticket /\ req[b].ticket < sess[t].issued
      BY DEF TicketInv
    <3>3. req[b].ticket # sess[t].served
      BY <1>5 DEF TicketInv
    <3>4. req[b].pc \notin Begun
      BY <3>3 DEF TicketInv
    <3> QED
      BY <1>2, <1>3, <3>1, <3>2, <3>3, <3>4
  <2>4. ASSUME NEW n \in sess'[t].served..(sess'[t].issued - 1)
        PROVE  \E b \in InQueue(t)' : req'[b].ticket = n
    <3>1. n \in sess[t].served..(sess[t].issued - 1) /\ n # sess[t].served
      BY <1>2, <2>1
    <3>2. PICK b \in InQueue(t) : req[b].ticket = n
      BY <3>1 DEF TicketInv
    <3>3. b # a
      BY <1>5, <3>1, <3>2
    <3> QED
      BY <1>3, <3>2, <3>3
  <2>5. \A b, d \in InQueue(t)' : req'[b].ticket = req'[d].ticket => b = d
    BY <1>3 DEF TicketInv
  <2>6. /\ sess'[t].served <= sess'[t].issued
        /\ \A b \in InQueue(t)' :
             /\ sess'[t].served <= req'[b].ticket /\ req'[b].ticket < sess'[t].issued
             /\ req'[b].pc \in Begun => req'[b].ticket = sess'[t].served
    BY <1>2, <1>3, <2>1, <2>2, <2>3
  <2> QED
    BY <2>4, <2>5, <2>6
<1> QED
  BY <1>4, <1>5

LEMMA WorkRevision ==
  ASSUME IInv, UNCHANGED film, NEW f \in Films, film[f].stage \in Built,
         \A s \in Films : sess'[s].revision = sess[s].revision
  PROVE  RevisionOf(f)' = RevisionOf(f)
<1>1. film[f].session \in Films
  BY DEF IInv, Shape, FilmInv, Used
<1> QED
  BY <1>1 DEF RevisionOf

LEMMA NextRevisionIsNat ==
  ASSUME IInv', NEW f \in Films, film'[f].stage \in Built
  PROVE  RevisionOf(f)' \in Nat
<1>1. film'[f].session \in Films /\ film'[f].base \in Nat
  BY DEF IInv, Shape, FilmInv, Used, TypeOK, FilmType
<1>2. sess'[film'[f].session].revision \in Nat
  BY <1>1 DEF IInv, TypeOK, SessType
<1> QED
  BY <1>1, <1>2 DEF RevisionOf

\* What the revision a write found says about the film's revision at hand.
BeforeAt(w) ==
  /\ w.pc \in {"queued", "ran", "threw"} => w.before <= RevisionOf(w.film)
  /\ w.pc = "refreshing" => w.before < RevisionOf(w.film)
  /\ w.pc \in {"refused", "recorded"} => w.ticket <= RevisionOf(w.film)

\* It stays true of the others where revisions rise.
LEMMA BeforeKeeps ==
  ASSUME IInv, WInv, IInv', NEW a \in Actors, NEW w, Works(a, w), BeforeAt(w)',
         \A f \in Films : film[f].stage \in Built => RevisionOf(f)' >= RevisionOf(f)
  PROVE  BeforeInv'
<1>1. req'[a] = w /\ \A b \in Actors \ {a} : req'[b] = req[b]
  BY WorksOthers
<1>2. ASSUME NEW b \in Actors
      PROVE  BeforeAt(req[b])'
  <2>1. CASE b = a
    <3>1. PICK u : u = req'[b]
      OBVIOUS
    <3>2. u = w
      BY <1>1, <2>1, <3>1
    <3> QED
      BY <3>1, <3>2 DEF BeforeAt
  <2>2. CASE b # a /\ req[b].pc \in Working
    <3>1. PICK f \in Films : f = req[b].film /\ film[f].stage \in Built
      BY <2>2, WorkingHas
    <3>2. RevisionOf(f) \in Nat /\ RevisionOf(f)' \in Nat /\ RevisionOf(f)' >= RevisionOf(f)
      <4>1. film'[f].stage \in Built
        BY <3>1 DEF Works
      <4>2. RevisionOf(f) \in Nat
        BY <3>1, RevisionIsNat DEF IInv, Shape
      <4>3. RevisionOf(f)' \in Nat
        BY <4>1, NextRevisionIsNat
      <4> QED
        BY <3>1, <4>2, <4>3
    <3>3. req'[b] = req[b] /\ req'[b].film = f /\ req[b] \in ReqType
      BY <1>1, <2>2, <3>1 DEF IInv, TypeOK
    <3>4. req[b].ticket \in Nat /\ req[b].before \in Int
      BY <3>3 DEF ReqType
    <3>5. BeforeAt(req[b])
      BY DEF WInv, BeforeInv, BeforeAt
    <3> QED
      BY <3>1, <3>2, <3>3, <3>4, <3>5 DEF BeforeAt
  <2>3. CASE b # a /\ req[b].pc \notin Working
    BY <1>1, <2>3 DEF BeforeAt, Working
  <2> QED
    BY <2>1, <2>2, <2>3
<1> QED
  BY <1>2 DEF BeforeInv, BeforeAt

\* Who has not heard is still owed the revision.
LEMMA HeardKeeps ==
  ASSUME IInv, WInv, IInv', NEW a \in Actors, NEW w, Works(a, w),
         \A f \in Films : film[f].stage \in Built => RevisionOf(f)' = RevisionOf(f),
         \A f \in Films : Owes(a, f) => Owes(a, f)',
         \A c \in Conns : \/ conn'[c].rev = conn[c].rev
                          \/ (conn[c].rev = RevisionOf(conn[c].film))'
  PROVE  HeardInv'
<1>1. req'[a] = w /\ \A b \in Actors \ {a} : req'[b] = req[b]
  BY WorksOthers
<1> SUFFICES ASSUME NEW c \in Conns, NEW f, f = conn'[c].film, f # None
             PROVE  /\ conn'[c].rev <= RevisionOf(f)'
                    /\ \/ conn'[c].rev = RevisionOf(f)'
                       \/ \E b \in Actors : Owes(b, f)'
  BY DEF HeardInv
<1>2. conn[c].film = f
  BY DEF Works
<1>3. f \in Films /\ film[f].stage \in Built /\ RevisionOf(f)' = RevisionOf(f)
  BY <1>2, ConnHas DEF Built
<1>4. CASE conn'[c].rev = conn[c].rev
  <2>1. \A b \in Actors : Owes(b, f) => Owes(b, f)'
    <3> TAKE b \in Actors
    <3>1. CASE b = a
      BY <1>3, <3>1
    <3>2. CASE b # a
      BY <1>1, <1>3, <3>2 DEF Owes
    <3> QED
      BY <3>1, <3>2
  <2> QED
    BY <1>2, <1>3, <1>4, <2>1 DEF WInv, HeardInv
<1>5. CASE (conn[c].rev = RevisionOf(conn[c].film))'
  <2>1. conn'[c].rev \in Int
    BY DEF IInv, TypeOK, ConnType
  <2> QED
    BY <1>5, <2>1
<1> QED
  BY <1>4, <1>5

\* A step that counts no revision.
LEMMA CalmKeeps ==
  ASSUME IInv, WInv, IInv', NEW a \in Actors, NEW w, Works(a, w), TicketInv',
         \A s \in Films : sess'[s].revision = sess[s].revision,
         BeforeAt(w)', \A f \in Films : Owes(a, f) => Owes(a, f)',
         \A c \in Conns : \/ conn'[c].rev = conn[c].rev
                          \/ (conn[c].rev = RevisionOf(conn[c].film))'
  PROVE  WInv'
<1>1. PlainInv' /\ HereInv' /\ OpenInv'
  BY WorksKeeps
<1>2. \A f \in Films : film[f].stage \in Built => RevisionOf(f)' = RevisionOf(f)
  BY WorkRevision DEF Works
<1>3. \A f \in Films : film[f].stage \in Built => RevisionOf(f)' >= RevisionOf(f)
  <2>1. \A f \in Films : film[f].stage \in Built => RevisionOf(f) \in Nat
    BY RevisionIsNat DEF IInv, Shape
  <2> QED
    BY <1>2, <2>1
<1>4. BeforeInv'
  BY <1>3, BeforeKeeps
<1>5. HeardInv'
  BY <1>2, HeardKeeps
<1> QED
  BY <1>1, <1>4, <1>5 DEF WInv

\* Where a write goes on from: what the invariants say of it.
LEMMA WriteHas ==
  ASSUME IInv, WInv, NEW a \in Actors, req[a].pc \in Working
  PROVE  /\ req[a] \in ReqType /\ req[a].kind \in {"op", "call", "dry"}
         /\ req[a].film \in Films /\ film[req[a].film].stage \in Built
         /\ req[a].path \in Paths /\ req[a].sess \in Films /\ ConnOf[a] \in Conns
         /\ conn[ConnOf[a]].film = req[a].film
         /\ req[a].sess = film[req[a].film].session
         /\ req[a].path = film[req[a].film].path /\ sess[req[a].sess].path = req[a].path
         /\ films[req[a].path] = req[a].film /\ RevisionOf(req[a].film) \in Nat
<1>1. /\ req[a] \in ReqType /\ req[a].film \in Films /\ film[req[a].film].stage \in Built
      /\ req[a].path \in Paths /\ req[a].sess \in Films /\ ConnOf[a] \in Conns
      /\ RevisionOf(req[a].film) \in Nat
  BY WorkingHas, ActorConn
<1>2. /\ req[a].kind \in {"op", "call", "dry"}
      /\ conn[ConnOf[a]].film = req[a].film
      /\ req[a].sess = film[req[a].film].session
      /\ req[a].path = film[req[a].film].path
  BY DEF WInv, PlainInv, HereInv
<1>3. sess[req[a].sess].path = req[a].path
  BY <1>1, <1>2 DEF WInv, OpenInv
<1>4. films[req[a].path] = req[a].film
  BY <1>1, <1>2, ConnHas, NotNone
<1> QED
  BY <1>1, <1>2, <1>3, <1>4

-----------------------------------------------------------------------------
(* The steps of writes, one by one *)

LEMMA AskWriteFields ==
  ASSUME IInv, NEW a \in Actors, NEW k \in {"op", "call", "dry"},
         NEW e \in {NoCheck, view[ConnOf[a]].rev}, AskWrite(a, k, e)
  PROVE  \E w : /\ req' = [req EXCEPT ![a] = w] /\ w.pc = "checking" /\ w.kind = k
                /\ w.film = conn[ConnOf[a]].film /\ w.film \in Films
                /\ w.sess = film[w.film].session /\ w.path = film[w.film].path
                /\ w.expected = e
                /\ w.plan = IF e = NoCheck THEN e ELSE view[ConnOf[a]].rows
<1> DEFINE c == ConnOf[a]
           f == conn[c].film
           at == RefreshedBy(film[f].session)
           on == IF e = NoCheck THEN e ELSE view[c].rows
           w == [Idle EXCEPT !.pc = "checking", !.kind = k, !.expected = e,
                             !.path = film[f].path, !.film = f,
                             !.sess = film[f].session, !.ticket = at, !.plan = on]
<1>1. c \in Conns /\ f # None /\ req' = [req EXCEPT ![a] = w]
  BY ActorConn DEF AskWrite, Ask
<1>2. f \in Films
  BY <1>1, ConnHas
<1> HIDE DEF at, on
<1>3. /\ w.pc = "checking" /\ w.kind = k /\ w.film = f /\ w.sess = film[f].session
      /\ w.path = film[f].path /\ w.expected = e /\ w.plan = on
  BY RecordTypes DEF ReqType
<1> HIDE DEF w
<1> QED
  BY <1>1, <1>2, <1>3 DEF on

LEMMA AskWriteWorks ==
  ASSUME IInv, WInv, IInv', NEW a \in Actors, NEW k \in {"op", "call", "dry"},
         NEW e \in {NoCheck, view[ConnOf[a]].rev}, AskWrite(a, k, e)
  PROVE  WInv'
<1>1. PICK w : /\ req' = [req EXCEPT ![a] = w] /\ w.pc = "checking" /\ w.kind = k
               /\ w.film = conn[ConnOf[a]].film
               /\ w.sess = film[w.film].session /\ w.path = film[w.film].path
  BY AskWriteFields
<1>2. UNCHANGED <<conn, films, lastRev, film, sess>> /\ req[a].pc = "idle"
  BY DEF AskWrite, hostVars, CanAsk
<1>3. Works(a, w)
  BY <1>1, <1>2 DEF Works
<1>4. TicketInv'
  BY <1>1, <1>2, <1>3, SameTicket DEF WInv, Ticketed, Begun
<1>5. BeforeAt(w)' /\ \A f \in Films : ~Owes(a, f)
  BY <1>1, <1>2 DEF BeforeAt, Owes
<1> QED
  BY <1>2, <1>3, <1>4, <1>5, CalmKeeps

\* A write that is given up, or goes on to the snapshot.
LEMMA StopsWorks ==
  ASSUME IInv, WInv, IInv', NEW a \in Actors, req[a].pc \in {"checking", "snapshot"},
         UNCHANGED <<conn, films, lastRev, film, sess>>,
         Done(a) \/ Goto(a, "snapshot")
  PROVE  WInv'
<1>1. /\ req[a] \in ReqType /\ req[a].kind \in {"op", "call", "dry"}
      /\ conn[ConnOf[a]].film = req[a].film
      /\ req[a].sess = film[req[a].film].session /\ req[a].path = film[req[a].film].path
  BY WriteHas DEF Working
<1>2. PICK w : /\ req' = [req EXCEPT ![a] = w]
               /\ \/ w = Idle
                  \/ w = [req[a] EXCEPT !.pc = "snapshot"]
  BY DEF Done, Goto
<1>3. \/ w.pc = "idle" /\ w.kind = "none"
      \/ /\ w.pc = "snapshot" /\ w.kind = req[a].kind /\ w.film = req[a].film
         /\ w.sess = req[a].sess /\ w.path = req[a].path
  BY <1>1, <1>2 DEF ReqType, Idle
<1>4. Works(a, w)
  BY <1>1, <1>2, <1>3 DEF Works, Working
<1>5. w.pc \notin Ticketed /\ req[a].pc \notin Ticketed
  BY <1>3 DEF Ticketed, Begun
<1>6. TicketInv'
  BY <1>4, <1>5, SameTicket DEF WInv
<1>7. BeforeAt(w)' /\ \A f \in Films : ~Owes(a, f)
  BY <1>3 DEF BeforeAt, Owes
<1> QED
  BY <1>4, <1>6, <1>7, CalmKeeps

LEMMA EnqueueFields ==
  ASSUME IInv, WInv, NEW a \in Actors, req[a].pc \in {"checking", "snapshot"}, Enqueue(a)
  PROVE  \E w :
           /\ req' = [req EXCEPT ![a] = w] /\ w.pc = "queued" /\ w.kind = req[a].kind
           /\ w.film = req[a].film /\ w.sess = req[a].sess /\ w.path = req[a].path
           /\ w.ticket = sess[req[a].sess].issued /\ w.before = RevisionOf(req[a].film)
           /\ w.plan = req[a].plan
           /\ w.expected = IF req[a].expected = NoCheck THEN NoCheck
                           ELSE req[a].expected - film[req[a].film].base
<1> DEFINE f == req[a].film
           s == film[f].session
           e == IF req[a].expected = NoCheck THEN req[a].expected
                ELSE req[a].expected - film[f].base
           w == [req[a] EXCEPT !.pc = "queued", !.sess = s, !.ticket = sess[s].issued,
                               !.expected = e, !.before = RevisionOf(f)]
<1>1. req[a] \in ReqType /\ req[a].sess = s
  BY WriteHas DEF Working
<1>2. req' = [req EXCEPT ![a] = w]
  BY DEF Enqueue
<1> HIDE DEF s, e, f
<1>3. /\ w.pc = "queued" /\ w.kind = req[a].kind /\ w.film = req[a].film /\ w.sess = s
      /\ w.path = req[a].path /\ w.ticket = sess[s].issued /\ w.before = RevisionOf(f)
      /\ w.plan = req[a].plan /\ w.expected = e
  BY <1>1 DEF ReqType
<1> HIDE DEF w
<1> QED
  BY <1>1, <1>2, <1>3 DEF s, e, f

LEMMA EnqueueWorks ==
  ASSUME IInv, WInv, IInv', NEW a \in Actors, req[a].pc \in {"checking", "snapshot"},
         UNCHANGED <<conn, films, lastRev, film>>, Enqueue(a)
  PROVE  /\ WInv'
         /\ \A s \in Films : /\ sess'[s].revision = sess[s].revision
                             /\ sess'[s].path = sess[s].path
<1>1. /\ req[a].kind \in {"op", "call", "dry"} /\ req[a].film \in Films
      /\ conn[ConnOf[a]].film = req[a].film /\ req[a].sess \in Films
      /\ req[a].sess = film[req[a].film].session /\ req[a].path = film[req[a].film].path
      /\ film[req[a].film].stage \in Built /\ RevisionOf(req[a].film) \in Nat
  BY WriteHas DEF Working
<1>2. PICK s, f : s = req[a].sess /\ f = req[a].film
  OBVIOUS
<1>3. sess' = [sess EXCEPT ![s] = [sess[s] EXCEPT !.issued = @ + 1]]
  BY <1>1, <1>2 DEF Enqueue
<1>4. \A t \in Films :
        /\ sess'[t].issued = IF t = s THEN sess[s].issued + 1 ELSE sess[t].issued
        /\ sess'[t].served = sess[t].served /\ sess'[t].revision = sess[t].revision
        /\ sess'[t].path = sess[t].path
  <2> DEFINE t == [sess[s] EXCEPT !.issued = @ + 1]
  <2>1. sess[s] \in SessType
    BY <1>1, <1>2 DEF IInv, TypeOK
  <2>2. /\ t.issued = sess[s].issued + 1 /\ t.served = sess[s].served
        /\ t.revision = sess[s].revision /\ t.path = sess[s].path
    BY <2>1 DEF SessType
  <2>3. sess' = [sess EXCEPT ![s] = t]
    BY <1>3
  <2> HIDE DEF t
  <2>4. sess'[s] = t /\ \A x \in Films \ {s} : sess'[x] = sess[x]
    BY <1>1, <1>2, <2>3 DEF IInv, TypeOK
  <2> QED
    BY <2>2, <2>4
<1>5. PICK w :
        /\ req' = [req EXCEPT ![a] = w] /\ w.pc = "queued" /\ w.kind = req[a].kind
        /\ w.film = f /\ w.sess = s /\ w.path = req[a].path
        /\ w.ticket = sess[s].issued /\ w.before = RevisionOf(f)
  BY <1>2, EnqueueFields
<1>6. Works(a, w)
  BY <1>1, <1>2, <1>4, <1>5 DEF Works
<1>7. TicketInv'
  <2>1. req[a].pc \notin Ticketed
    BY DEF Ticketed, Begun
  <2> QED
    BY <1>1, <1>2, <1>4, <1>5, <1>6, <2>1, NewTicket DEF WInv
<1>8. RevisionOf(f)' = RevisionOf(f)
  BY <1>1, <1>2, <1>4, WorkRevision
<1>9. BeforeAt(w)'
  BY <1>1, <1>2, <1>5, <1>8 DEF BeforeAt
<1>10. \A h \in Films : ~Owes(a, h)
  BY DEF Owes
<1>11. WInv'
  BY <1>4, <1>6, <1>7, <1>9, <1>10, CalmKeeps
<1> QED
  BY <1>4, <1>11

LEMMA CheckedWorks ==
  ASSUME IInv, WInv, IInv', NEW a \in Actors,
         Checked(a) \/ Snapshotted(a) \/ SnapshotFails(a)
  PROVE  /\ WInv'
         /\ \A s \in Films : /\ sess'[s].revision = sess[s].revision
                             /\ sess'[s].path = sess[s].path
<1>1. /\ req[a].pc \in {"checking", "snapshot"} /\ UNCHANGED <<conn, films, lastRev, film>>
      /\ \/ UNCHANGED sess /\ (Done(a) \/ Goto(a, "snapshot"))
         \/ Enqueue(a)
  BY DEF Checked, Snapshotted, SnapshotFails, hostVars
<1> QED
  BY <1>1, StopsWorks, EnqueueWorks

\* What happens to a session when the write at its head is done.
LEMMA ServedFields ==
  ASSUME IInv, NEW s \in Films, NEW k \in Nat,
         \/ sess' = [sess EXCEPT ![s].served = @ + 1]
         \/ sess' = [sess EXCEPT ![s] = [sess[s] EXCEPT !.known = k, !.served = @ + 1]]
  PROVE  \A t \in Films :
           /\ sess'[t].issued = sess[t].issued
           /\ sess'[t].served = IF t = s THEN sess[s].served + 1 ELSE sess[t].served
           /\ sess'[t].revision = sess[t].revision /\ sess'[t].path = sess[t].path
<1>1. sess[s] \in SessType
  BY DEF IInv, TypeOK
<1>2. PICK t : /\ sess' = [sess EXCEPT ![s] = t]
               /\ t.issued = sess[s].issued /\ t.served = sess[s].served + 1
               /\ t.revision = sess[s].revision /\ t.path = sess[s].path
  <2> DEFINE u == [sess[s] EXCEPT !.served = @ + 1]
             v == [sess[s] EXCEPT !.known = k, !.served = @ + 1]
  <2>1. sess' = [sess EXCEPT ![s] = u] \/ sess' = [sess EXCEPT ![s] = v]
    OBVIOUS
  <2>2. /\ u.issued = sess[s].issued /\ u.served = sess[s].served + 1
        /\ u.revision = sess[s].revision /\ u.path = sess[s].path
    BY <1>1 DEF SessType
  <2>3. /\ v.issued = sess[s].issued /\ v.served = sess[s].served + 1
        /\ v.revision = sess[s].revision /\ v.path = sess[s].path
    BY <1>1 DEF SessType
  <2> HIDE DEF u, v
  <2> QED
    BY <2>1, <2>2, <2>3
<1>3. sess'[s] = t /\ \A x \in Films \ {s} : sess'[x] = sess[x]
  BY <1>2 DEF IInv, TypeOK
<1> QED
  BY <1>2, <1>3

LEMMA JournalFields ==
  ASSUME NEW a \in Actors, NEW pc, Journal(a, pc), req[a] \in ReqType
  PROVE  \E w : /\ req' = [req EXCEPT ![a] = w] /\ w.pc = pc /\ w.kind = req[a].kind
                /\ w.film = req[a].film /\ w.sess = req[a].sess /\ w.path = req[a].path
                /\ w.ticket = RevisionOf(req[a].film) /\ w.before = req[a].before
<1> DEFINE w == [req[a] EXCEPT !.pc = pc, !.ticket = RevisionOf(req[a].film)]
<1>1. req' = [req EXCEPT ![a] = w]
  BY DEF Journal
<1>2. /\ w.pc = pc /\ w.kind = req[a].kind
      /\ w.film = req[a].film /\ w.sess = req[a].sess /\ w.path = req[a].path
      /\ w.ticket = RevisionOf(req[a].film) /\ w.before = req[a].before
  BY DEF ReqType
<1> HIDE DEF w
<1> QED
  BY <1>1, <1>2

\* A write leaves the queue: refused, tried, or counted before.
LEMMA ServedWorks ==
  ASSUME IInv, WInv, IInv', NEW a \in Actors,
         RefuseInQueue(a) \/ DryRun(a) \/ FinishWrite(a)
  PROVE  /\ WInv'
         /\ \A s \in Films : /\ sess'[s].revision = sess[s].revision
                             /\ sess'[s].path = sess[s].path
<1>0. req[a].pc \in {"queued", "refreshing"}
  BY DEF RefuseInQueue, DryRun, FinishWrite, AtHead
<1>1. /\ req[a] \in ReqType /\ req[a].kind \in {"op", "call", "dry"} /\ req[a].film \in Films
      /\ conn[ConnOf[a]].film = req[a].film /\ req[a].sess \in Films /\ ConnOf[a] \in Conns
      /\ req[a].sess = film[req[a].film].session /\ req[a].path = film[req[a].film].path
      /\ sess[req[a].sess].path = req[a].path /\ req[a].path \in Paths
      /\ film[req[a].film].stage \in Built /\ RevisionOf(req[a].film) \in Nat
  BY <1>0, WriteHas DEF Working
<1>2. PICK s, f : s = req[a].sess /\ f = req[a].film
  OBVIOUS
<1>3. a \in InQueue(s)
  BY <1>0, <1>2 DEF InQueue, Ticketed, Begun
<1>4. req[a].ticket = sess[s].served
  <2>1. CASE FinishWrite(a)
    <3>1. req[a].pc \in Begun
      BY <2>1 DEF FinishWrite, Begun
    <3> QED
      BY <1>1, <1>2, <1>3, <3>1 DEF WInv, TicketInv
  <2> QED
    BY <1>2, <2>1 DEF RefuseInQueue, DryRun, AtHead
<1>5. \A t \in Films :
        /\ sess'[t].issued = sess[t].issued
        /\ sess'[t].served = IF t = s THEN sess[s].served + 1 ELSE sess[t].served
        /\ sess'[t].revision = sess[t].revision /\ sess'[t].path = sess[t].path
  <2>1. PICK k \in Nat : k = disk[sess[s].path].rows
    BY <1>1, <1>2 DEF IInv, TypeOK
  <2>2. \/ sess' = [sess EXCEPT ![s].served = @ + 1]
        \/ sess' = [sess EXCEPT ![s] = [sess[s] EXCEPT !.known = k, !.served = @ + 1]]
    BY <1>2, <2>1 DEF RefuseInQueue, DryRun, FinishWrite, Refreshed
  <2>3. s \in Films
    BY <1>1, <1>2
  <2> QED
    BY <2>2, <2>3, ServedFields
<1>6. UNCHANGED <<films, lastRev, film>>
  BY DEF RefuseInQueue, DryRun, FinishWrite, hostVars
<1>7. /\ \A c \in Conns : conn'[c].film = conn[c].film
      /\ \A c \in Conns : \/ conn'[c].rev = conn[c].rev
                          \/ (conn[c].rev = RevisionOf(conn[c].film))'
  <2>1. CASE RefuseInQueue(a) \/ FinishWrite(a)
    BY <2>1 DEF RefuseInQueue, FinishWrite
  <2>2. CASE DryRun(a)
    <3>1. PICK c, r : c = ConnOf[a] /\ r = RevisionOf(f)
      OBVIOUS
    <3>2. Tell({c}, req[a].path, r)
      BY <1>1, <1>2, <2>2, <3>1 DEF DryRun, RevisionOf
    <3>3. \A d \in Conns : conn'[d].film = conn[d].film
      BY <1>1, <1>2, <3>1, <3>2, TellType DEF IInv
    <3>4. conn'[c].rev = r
      <4>1. conn[c] \in ConnType /\ conn[c].rev \in Nat /\ c \in Conns
        BY <1>1, <3>1 DEF IInv, TypeOK, ConnType
      <4>2. conn[c].rev <= r
        BY <1>1, <1>2, <3>1, <4>1, NotNone DEF WInv, HeardInv
      <4>3. Higher(conn[c].rev, r) = r
        BY <1>1, <1>2, <3>1, <4>1, <4>2 DEF Higher
      <4>4. conn'[c] = [conn[c] EXCEPT !.rev = Higher(@, r)]
        BY <3>2, <4>1 DEF Tell
      <4> QED
        BY <4>1, <4>3, <4>4 DEF ConnType
    <3>5. RevisionOf(f)' = r /\ conn'[c].film = f
      BY <1>1, <1>2, <1>5, <1>6, <3>1, <3>3, WorkRevision
    <3>6. (conn[c].rev = RevisionOf(conn[c].film))'
      BY <3>4, <3>5
    <3>7. \A d \in Conns \ {c} : conn'[d] = conn[d]
      BY <3>2 DEF Tell
    <3> QED
      BY <3>3, <3>6, <3>7
  <2> QED
    BY <2>1, <2>2
<1>8. PICK w :
        /\ req' = [req EXCEPT ![a] = w]
        /\ \/ w.pc = "idle" /\ w.kind = "none" /\ req[a].pc = "queued"
           \/ /\ w.pc \in {"refused", "recorded"} /\ w.kind = req[a].kind
              /\ w.film = f /\ w.sess = s /\ w.path = req[a].path
              /\ w.ticket = RevisionOf(f) /\ w.before = req[a].before
  <2>1. CASE Done(a) /\ req[a].pc = "queued"
    <3>1. Idle.pc = "idle" /\ Idle.kind = "none"
      BY DEF Idle
    <3> QED
      BY <2>1, <3>1 DEF Done
  <2>2. CASE \E pc \in {"refused", "recorded"} : Journal(a, pc)
    BY <1>1, <1>2, <2>2, JournalFields
  <2> QED
    BY <2>1, <2>2 DEF RefuseInQueue, DryRun, FinishWrite, AtHead
<1>9. Works(a, w)
  BY <1>1, <1>2, <1>5, <1>6, <1>7, <1>8 DEF Works, Working
<1>10. TicketInv'
  <2>1. w.pc \notin Ticketed
    BY <1>8 DEF Ticketed, Begun
  <2> QED
    BY <1>1, <1>2, <1>3, <1>4, <1>5, <1>9, <2>1, NextTicket DEF WInv
<1>11. RevisionOf(f)' = RevisionOf(f)
  BY <1>1, <1>2, <1>5, <1>6, WorkRevision
<1>12. BeforeAt(w)'
  BY <1>1, <1>2, <1>8, <1>11 DEF BeforeAt
<1>13. ASSUME NEW h \in Films, Owes(a, h)
       PROVE  Owes(a, h)'
  <2>1. h = f /\ req[a].pc = "refreshing"
    BY <1>0, <1>2, <1>13 DEF Owes
  <2>2. req[a].before < RevisionOf(f) /\ req[a].before \in Int
    BY <1>1, <1>2, <2>1 DEF WInv, BeforeInv, ReqType
  <2>3. req'[a] = w
    BY <1>9, WorksOthers
  <2>4. w.film = f /\ w.pc \in {"refused", "recorded"} /\ w.ticket = RevisionOf(f)
        /\ w.ticket # w.before
    BY <1>1, <1>2, <1>8, <2>1, <2>2
  <2> QED
    BY <1>11, <2>1, <2>3, <2>4 DEF Owes
<1>14. WInv'
  BY <1>5, <1>7, <1>9, <1>10, <1>12, <1>13, CalmKeeps
<1> QED
  BY <1>5, <1>14

LEMMA GotoFields ==
  ASSUME NEW a \in Actors, NEW pc, Goto(a, pc), req[a] \in ReqType
  PROVE  \E w : /\ req' = [req EXCEPT ![a] = w] /\ w.pc = pc /\ w.kind = req[a].kind
                /\ w.film = req[a].film /\ w.sess = req[a].sess /\ w.path = req[a].path
                /\ w.ticket = req[a].ticket /\ w.before = req[a].before
<1> DEFINE w == [req[a] EXCEPT !.pc = pc]
<1>1. req' = [req EXCEPT ![a] = w]
  BY DEF Goto
<1>2. /\ w.pc = pc /\ w.kind = req[a].kind
      /\ w.film = req[a].film /\ w.sess = req[a].sess /\ w.path = req[a].path
      /\ w.ticket = req[a].ticket /\ w.before = req[a].before
  BY DEF ReqType
<1> HIDE DEF w
<1> QED
  BY <1>1, <1>2

LEMMA RunsWorks ==
  ASSUME IInv, WInv, IInv', NEW a \in Actors, Commit(a) \/ RunInVain(a)
  PROVE  WInv'
<1>0. req[a].pc = "queued" /\ req[a].ticket = sess[req[a].sess].served
      /\ UNCHANGED <<conn, films, lastRev, film, sess>>
  BY DEF Commit, RunInVain, AtHead, hostVars
<1>1. /\ req[a] \in ReqType /\ req[a].kind \in {"op", "call", "dry"} /\ req[a].film \in Films
      /\ conn[ConnOf[a]].film = req[a].film /\ req[a].sess \in Films
      /\ req[a].sess = film[req[a].film].session /\ req[a].path = film[req[a].film].path
      /\ film[req[a].film].stage \in Built
  BY <1>0, WriteHas DEF Working
<1>2. PICK f : f = req[a].film
  OBVIOUS
<1>3. PICK w :
        /\ req' = [req EXCEPT ![a] = w] /\ w.pc \in {"ran", "threw"}
        /\ w.kind = req[a].kind /\ w.film = f /\ w.sess = req[a].sess
        /\ w.path = req[a].path /\ w.ticket = req[a].ticket /\ w.before = req[a].before
  <2>1. \E pc \in {"ran", "threw"} : Goto(a, pc)
    BY DEF Commit, RunInVain
  <2> QED
    BY <1>1, <1>2, <2>1, GotoFields
<1>4. Works(a, w)
  BY <1>0, <1>1, <1>2, <1>3 DEF Works
<1>5. TicketInv'
  BY <1>0, <1>3, <1>4, SameTicket DEF WInv, Ticketed, Begun
<1>6. RevisionOf(f)' = RevisionOf(f)
  BY <1>0, <1>1, <1>2, WorkRevision
<1>7. BeforeAt(w)'
  <2>1. req[a].before <= RevisionOf(f)
    BY <1>0, <1>2 DEF WInv, BeforeInv
  <2> QED
    BY <1>3, <1>6, <2>1 DEF BeforeAt
<1>8. \A h \in Films : ~Owes(a, h)
  BY <1>0 DEF Owes
<1> QED
  BY <1>0, <1>4, <1>5, <1>7, <1>8, CalmKeeps

\* The one step that counts a revision: whoever had heard is now owed it by a.
LEMMA SettleSessions ==
  ASSUME IInv, NEW a \in Actors, Settle(a), req[a].sess \in Films
  PROVE  \A t \in Films :
           /\ sess'[t].issued = sess[t].issued /\ sess'[t].served = sess[t].served
           /\ sess'[t].path = sess[t].path
           /\ sess'[t].revision = IF t = req[a].sess THEN sess[t].revision + 1
                                  ELSE sess[t].revision
<1>0. PICK s \in Films : s = req[a].sess
  OBVIOUS
<1> DEFINE u == [sess[s] EXCEPT !.revision = @ + 1]
<1>1. sess' = [sess EXCEPT ![s] = u]
  BY <1>0 DEF Settle
<1>2. sess[s] \in SessType
  BY DEF IInv, TypeOK
<1>3. /\ u.issued = sess[s].issued /\ u.served = sess[s].served
      /\ u.revision = sess[s].revision + 1 /\ u.path = sess[s].path
  BY <1>2 DEF SessType
<1> HIDE DEF u
<1>4. sess'[s] = u /\ \A x \in Films \ {s} : sess'[x] = sess[x]
  BY <1>1 DEF IInv, TypeOK
<1> QED
  BY <1>0, <1>3, <1>4

LEMMA SettleWorks ==
  ASSUME IInv, WInv, IInv', NEW a \in Actors, Settle(a)
  PROVE  WInv'
<1>0. req[a].pc \in {"ran", "threw"} /\ UNCHANGED <<conn, films, lastRev, film>>
  BY DEF Settle, hostVars
<1>1. /\ req[a] \in ReqType /\ req[a].kind \in {"op", "call", "dry"} /\ req[a].film \in Films
      /\ conn[ConnOf[a]].film = req[a].film /\ req[a].sess \in Films
      /\ req[a].sess = film[req[a].film].session /\ req[a].path = film[req[a].film].path
      /\ film[req[a].film].stage \in Built /\ RevisionOf(req[a].film) \in Nat
  BY <1>0, WriteHas DEF Working
<1>2. PICK s, f : s = req[a].sess /\ f = req[a].film
  OBVIOUS
<1>3. \A t \in Films :
        /\ sess'[t].issued = sess[t].issued /\ sess'[t].served = sess[t].served
        /\ sess'[t].path = sess[t].path
        /\ sess'[t].revision = IF t = s THEN sess[t].revision + 1 ELSE sess[t].revision
  BY <1>1, <1>2, SettleSessions
<1>4. PICK w :
        /\ req' = [req EXCEPT ![a] = w] /\ w.pc = "refreshing"
        /\ w.kind = req[a].kind /\ w.film = f /\ w.sess = s /\ w.path = req[a].path
        /\ w.ticket = req[a].ticket /\ w.before \in {req[a].before, Threw}
  <2> DEFINE b == IF req[a].pc = "threw" THEN Threw ELSE req[a].before
             w == [req[a] EXCEPT !.pc = "refreshing", !.before = b]
  <2>1. req' = [req EXCEPT ![a] = w]
    BY DEF Settle
  <2>2. b \in {req[a].before, Threw}
    OBVIOUS
  <2> HIDE DEF b
  <2>3. /\ w.pc = "refreshing"
        /\ w.kind = req[a].kind /\ w.film = f /\ w.sess = s /\ w.path = req[a].path
        /\ w.ticket = req[a].ticket /\ w.before \in {req[a].before, Threw}
    BY <1>1, <1>2, <2>2 DEF ReqType
  <2> HIDE DEF w
  <2> QED
    BY <2>1, <2>3
<1>5. Works(a, w)
  BY <1>0, <1>1, <1>2, <1>3, <1>4 DEF Works
<1>6. TicketInv'
  <2>1. req[a].pc \in Begun /\ a \in InQueue(s)
    BY <1>0, <1>2 DEF InQueue, Ticketed, Begun
  <2>2. req[a].ticket = sess[s].served
    BY <1>1, <1>2, <2>1 DEF WInv, TicketInv
  <2>3. w.pc \in Ticketed /\ req[a].pc \in Ticketed
    BY <1>0, <1>4 DEF Ticketed, Begun
  <2> QED
    BY <1>2, <1>3, <1>4, <1>5, <2>2, <2>3, SameTicket DEF WInv
<1>7. ASSUME NEW h \in Films, film[h].stage \in Built
      PROVE  RevisionOf(h)' = IF h = f THEN RevisionOf(h) + 1 ELSE RevisionOf(h)
  <2>1. film[h].session \in Films /\ film[h].base \in Nat
        /\ sess[film[h].session].revision \in Nat
    BY <1>7, RevisionIsNat DEF IInv, Shape
  <2>2. film[h].session = s <=> h = f
    BY <1>1, <1>2, <1>7 DEF IInv, Shape, SessionInv
  <2> QED
    BY <1>0, <1>3, <2>1, <2>2 DEF RevisionOf
<1>8. \A h \in Films : film[h].stage \in Built => RevisionOf(h)' >= RevisionOf(h)
  <2>1. \A h \in Films : film[h].stage \in Built => RevisionOf(h) \in Nat
    BY RevisionIsNat DEF IInv, Shape
  <2> QED
    BY <1>7, <2>1
<1>9. f \in Films /\ RevisionOf(f) \in Nat /\ RevisionOf(f)' = RevisionOf(f) + 1
  BY <1>1, <1>2, <1>7
<1>10. BeforeAt(w)'
  <2>1. req[a].before <= RevisionOf(f) /\ req[a].before \in Int
    BY <1>0, <1>1, <1>2 DEF WInv, BeforeInv, ReqType
  <2>2. w.before < RevisionOf(f)'
    BY <1>4, <1>9, <2>1 DEF Threw
  <2> QED
    BY <1>4, <2>2 DEF BeforeAt
<1>11. PlainInv' /\ HereInv' /\ OpenInv'
  BY <1>5, WorksKeeps
<1>12. BeforeInv'
  BY <1>5, <1>8, <1>10, BeforeKeeps
<1>13. HeardInv'
  <2> SUFFICES ASSUME NEW c \in Conns, NEW g, g = conn'[c].film, g # None
               PROVE  /\ conn'[c].rev <= RevisionOf(g)'
                      /\ \/ conn'[c].rev = RevisionOf(g)'
                         \/ \E b \in Actors : Owes(b, g)'
    BY DEF HeardInv
  <2>1. /\ conn[c].film = g /\ conn'[c].rev = conn[c].rev /\ conn[c].rev \in Nat
        /\ g \in Films /\ film[g].stage \in Built
        /\ conn[c].rev <= RevisionOf(g) /\ RevisionOf(g) \in Nat
        /\ \/ conn[c].rev = RevisionOf(g)
           \/ \E b \in Actors : Owes(b, g)
    BY <1>0, ConnHas DEF WInv, HeardInv, Built, IInv, TypeOK, ConnType
  <2>2. req'[a] = w /\ \A b \in Actors \ {a} : req'[b] = req[b]
    BY <1>5, WorksOthers
  <2>3. CASE g = f
    <3>1. Owes(a, g)'
      BY <1>4, <2>2, <2>3 DEF Owes
    <3>2. conn'[c].rev <= RevisionOf(g)'
      BY <1>9, <2>1, <2>3
    <3> QED
      BY <3>1, <3>2
  <2>4. CASE g # f
    <3>1. RevisionOf(g)' = RevisionOf(g)
      BY <1>7, <2>1, <2>4
    <3>2. \A b \in Actors : Owes(b, g) => Owes(b, g)'
      <4> TAKE b \in Actors
      <4>1. Owes(b, g) => b # a
        BY <1>2, <2>4 DEF Owes
      <4> QED
        BY <2>2, <3>1, <4>1 DEF Owes
    <3> QED
      BY <2>1, <3>1, <3>2
  <2> QED
    BY <2>3, <2>4
<1> QED
  BY <1>6, <1>11, <1>12, <1>13 DEF WInv

-----------------------------------------------------------------------------
(* Who is on a film *)

\* Nobody comes or goes.
LEMMA SameMembers ==
  ASSUME MembersInv, \A c \in Conns : conn'[c].film = conn[c].film,
         \A f \in Films : film'[f].clients \subseteq film[f].clients,
         \A f \in Films : film[f].clients \subseteq Conns,
         \A b \in Actors : req'[b].pc \in Away => req[b].pc \in Away
  PROVE  MembersInv'
<1>1. \A b \in Actors : conn'[ConnOf[b]].film = conn[ConnOf[b]].film
  BY ActorConn
<1> QED
  BY <1>1 DEF MembersInv

LEMMA ClientsAreConns ==
  ASSUME IInv, NEW f \in Films
  PROVE  film[f].clients \subseteq Conns
BY DEF IInv, TypeOK, FilmType

LEMMA LeaveMembers ==
  ASSUME IInv, MembersInv, OneAtATime, NEW a \in Actors, NEW w,
         Leave(ConnOf[a], TRUE), req' = [req EXCEPT ![a] = w]
  PROVE  MembersInv'
<1> DEFINE c == ConnOf[a]
           f == conn[c].film
           last == f # None /\ Remaining(f, c) = {}
           g == [film[f] EXCEPT !.clients = Remaining(f, c),
                                !.stage = IF last /\ @ = "open" THEN "draining" ELSE @]
<1>1. c \in Conns
  BY ActorConn
<1>2. conn'[c].film = None /\ \A d \in Conns \ {c} : conn'[d] = conn[d]
  <2>1. conn' = [conn EXCEPT ![c] = [conn[c] EXCEPT !.film = None, !.live = TRUE]]
    BY DEF Leave
  <2>2. conn[c] \in ConnType
    BY <1>1 DEF IInv, TypeOK
  <2> QED
    BY <1>1, <2>1, <2>2 DEF IInv, TypeOK, ConnType
<1>3. req'[a] = w /\ \A b \in Actors \ {a} : req'[b] = req[b]
  BY DEF IInv, TypeOK
<1>4. \A b \in Actors \ {a} : ConnOf[b] \in Conns \ {c}
  BY ActorConn DEF OneAtATime
<1>5. \A h \in Films : film'[h].clients \subseteq film[h].clients \ {c}
  <2>1. CASE f = None
    <3>1. \A h \in Films : c \notin film[h].clients
      BY <2>1, NotNone DEF MembersInv
    <3> QED
      BY <2>1, <3>1 DEF Leave
  <2>2. CASE f # None
    <3>1. f \in Films /\ film[f] \in FilmType
      BY <1>1, <2>2, ConnHas DEF IInv, TypeOK
    <3>2. film' = [film EXCEPT ![f] = g]
      BY <2>2 DEF Leave
    <3>3. g.clients = film[f].clients \ {c}
      BY <3>1 DEF FilmType, Remaining
    <3>4. \A h \in Films \ {f} : c \notin film[h].clients
      BY DEF MembersInv
    <3> HIDE DEF g
    <3>5. film'[f] = g /\ \A h \in Films \ {f} : film'[h] = film[h]
      BY <3>1, <3>2 DEF IInv, TypeOK
    <3> QED
      BY <3>3, <3>4, <3>5
  <2> QED
    BY <2>1, <2>2
<1>6. \A b \in Actors : req'[b].pc \in Away => conn'[ConnOf[b]].film = None
  BY <1>2, <1>3, <1>4 DEF MembersInv
<1>7. \A h \in Films : \A d \in film'[h].clients : conn'[d].film = h
  <2> HIDE DEF c
  <2> QED
    BY <1>2, <1>5, ClientsAreConns DEF MembersInv
<1> QED
  BY <1>6, <1>7 DEF MembersInv

\* Those that waited are on film f now.
LEMMA AttachMembers ==
  ASSUME IInv, MembersInv, OneAtATime, NEW f \in Films, NEW cs, NEW who \in SUBSET Actors,
         cs = {ConnOf[b] : b \in who}, \A b \in who : req[b].pc \in Away,
         \A b \in who : req'[b].pc \notin Away,
         \A b \in Actors \ who : req'[b] = req[b],
         \A c \in Conns : conn'[c].film = IF c \in cs THEN f ELSE conn[c].film,
         film'[f].clients \subseteq film[f].clients \cup cs,
         \A h \in Films \ {f} : film'[h].clients = film[h].clients
  PROVE  MembersInv'
<1>1. \A c \in cs : c \in Conns /\ conn[c].film = None
  BY ActorConn DEF MembersInv
<1>2. \A h \in Films : \A d \in film[h].clients : d \in Conns /\ d \notin cs /\ conn[d].film = h
  BY <1>1, NotNone, ClientsAreConns DEF MembersInv
<1>3. \A b \in Actors : req'[b].pc \in Away => conn'[ConnOf[b]].film = None
  <2> SUFFICES ASSUME NEW b \in Actors, req'[b].pc \in Away
               PROVE  conn'[ConnOf[b]].film = None
    OBVIOUS
  <2>1. b \notin who /\ req'[b] = req[b]
    OBVIOUS
  <2>2. ConnOf[b] \notin cs
    BY <2>1 DEF OneAtATime
  <2> QED
    BY <2>1, <2>2, ActorConn DEF MembersInv
<1>4. \A h \in Films : \A d \in film'[h].clients : conn'[d].film = h
  <2> SUFFICES ASSUME NEW h \in Films, NEW d \in film'[h].clients
               PROVE  conn'[d].film = h
    OBVIOUS
  <2>1. CASE d \in cs
    <3>1. h = f
      BY <1>2, <2>1
    <3> QED
      BY <1>1, <2>1, <3>1
  <2>2. CASE d \notin cs
    <3>1. d \in film[h].clients
      BY <2>2
    <3> QED
      BY <1>2, <2>2, <3>1
  <2> QED
    BY <2>1, <2>2
<1> QED
  BY <1>3, <1>4 DEF MembersInv

LEMMA OpeningMembers ==
  ASSUME IInv, WInv, MembersInv, OneAtATime, NEW a \in Actors,
         OpenExisting(a) \/ \E m \in Migrations : Build(a, m)
  PROVE  MembersInv'
<1> USE DEF IInv, Shape
<1>0. Idle.pc \notin Away
  BY DEF Idle, Away
<1>1. CASE OpenExisting(a)
  <2> DEFINE f == films[req[a].path]
             g == [film[f] EXCEPT !.clients = @ \cup {ConnOf[a]}]
  <2>1. f \in Films /\ film[f] \in FilmType /\ req[a].pc \in Away /\ RevisionOf(f) \in Nat
    <3>1. f \in Films /\ film[f] \in FilmType /\ req[a].pc \in Away /\ film[f].stage = "open"
      BY <1>1 DEF OpenExisting, MayOpen, TypeOK, ReqType, Away, PathInv
    <3> QED
      BY <3>1, RevisionIsNat DEF Built
  <2>2. /\ Attach({ConnOf[a]}, f, RevisionOf(f)) /\ req' = [req EXCEPT ![a] = Idle]
        /\ film' = [film EXCEPT ![f] = g]
    BY <1>1 DEF OpenExisting, Done
  <2>3. g.clients = film[f].clients \cup {ConnOf[a]}
    BY <2>1 DEF FilmType
  <2> HIDE DEF g, f
  <2>4. film'[f] = g /\ \A h \in Films \ {f} : film'[h] = film[h]
    BY <2>1, <2>2 DEF TypeOK
  <2>5. req'[a] = Idle /\ \A b \in Actors \ {a} : req'[b] = req[b]
    BY <2>2 DEF TypeOK
  <2>6. \A c \in Conns : conn'[c].film = IF c \in {ConnOf[a]} THEN f ELSE conn[c].film
    BY <2>1, <2>2, AttachType
  <2>7. PICK h, cs, who : h = f /\ cs = {ConnOf[a]} /\ who = {a}
    OBVIOUS
  <2>8. h \in Films /\ who \in SUBSET Actors /\ cs = {ConnOf[b] : b \in who}
    BY <2>1, <2>7
  <2>9. /\ \A b \in who : req[b].pc \in Away /\ req'[b].pc \notin Away
        /\ \A b \in Actors \ who : req'[b] = req[b]
    BY <1>0, <2>1, <2>5, <2>7
  <2>10. \A c \in Conns : conn'[c].film = IF c \in cs THEN h ELSE conn[c].film
    BY <2>6, <2>7
  <2>11. /\ film'[h].clients \subseteq film[h].clients \cup cs
         /\ \A x \in Films \ {h} : film'[x].clients = film[x].clients
    BY <2>3, <2>4, <2>7
  <2>12. (\A b \in who : req[b].pc \in Away) /\ (\A b \in who : req'[b].pc \notin Away)
    BY <2>9
  <2> HIDE DEF IInv, Shape
  <2>13. IInv
    BY DEF IInv, Shape
  <2> QED
    BY <2>8, <2>9, <2>10, <2>11, <2>12, <2>13, AttachMembers
<1>2. CASE \E m \in Migrations : Build(a, m)
  <2>1. PICK m \in Migrations : Build(a, m)
    BY <1>2
  <2>2. PICK f, p, s, cs, who :
          /\ f = req[a].film /\ p = req[a].path /\ s = NewSession
          /\ who = Waiting(f) /\ cs = {ConnOf[b] : b \in who}
    OBVIOUS
  <2>3. f \in Films /\ p \in Paths /\ film[f] \in FilmType
    BY <2>1, <2>2 DEF Build, RequestInv, RequestAt, TypeOK, ReqType
  <2> DEFINE g == [film[f] EXCEPT !.stage = "open", !.session = s,
                                  !.base = lastRev[p], !.clients = cs]
  <2>4. /\ film' = [film EXCEPT ![f] = g] /\ Attach(cs, f, lastRev[p] + m)
        /\ \A b \in Actors : req'[b] = IF b \in Waiting(f) THEN Idle ELSE req[b]
    BY <2>1, <2>2 DEF Build
  <2>5. g.clients = cs
    BY <2>3 DEF FilmType
  <2> HIDE DEF g
  <2>6. film'[f] = g /\ \A h \in Films \ {f} : film'[h] = film[h]
    BY <2>3, <2>4 DEF TypeOK
  <2>7. \A c \in Conns : conn'[c].film = IF c \in cs THEN f ELSE conn[c].film
    <3>1. lastRev[p] + m \in Nat
      BY <2>3, FilmHostAssumption DEF TypeOK
    <3> QED
      BY <2>3, <2>4, <3>1, AttachType
  <2>8. who \in SUBSET Actors
    BY <2>2 DEF Waiting
  <2>9. \A b \in who : req[b].pc \in Away
    BY <2>2 DEF Waiting, Away
  <2>10. \A b \in Actors : req'[b] = IF b \in who THEN Idle ELSE req[b]
    BY <2>2, <2>4
  <2>11. /\ \A b \in who : req[b].pc \in Away /\ req'[b].pc \notin Away
         /\ \A b \in Actors \ who : req'[b] = req[b]
    BY <1>0, <2>8, <2>9, <2>10
  <2>12. /\ film'[f].clients \subseteq film[f].clients \cup cs
         /\ \A x \in Films \ {f} : film'[x].clients = film[x].clients
    BY <2>5, <2>6
  <2> QED
    BY <2>2, <2>3, <2>7, <2>8, <2>11, <2>12, AttachMembers
<1> QED
  BY <1>1, <1>2

LEMMA AnnounceWorks ==
  ASSUME IInv, WInv, IInv', MembersInv, NEW a \in Actors, Announce(a)
  PROVE  WInv'
<1>0. req[a].pc \in {"refused", "recorded"} /\ UNCHANGED <<films, lastRev, film, sess>>
  BY DEF Announce, hostVars
<1>1. /\ req[a] \in ReqType /\ req[a].film \in Films /\ req[a].ticket \in Nat
      /\ conn[ConnOf[a]].film = req[a].film /\ ConnOf[a] \in Conns
      /\ film[req[a].film].stage \in Built /\ RevisionOf(req[a].film) \in Nat
      /\ film[req[a].film].path \in Paths
  BY <1>0, WriteHas DEF Working, ReqType
<1>2. PICK f, now, told : /\ f = req[a].film /\ now = req[a].ticket
                          /\ told = IF now # req[a].before THEN Listeners(f) ELSE {}
  OBVIOUS
<1>3. PICK all : all \in {told, told \cup {ConnOf[a]}} /\ Tell(all, film[f].path, now)
  BY <1>2 DEF Announce
<1>4. /\ f \in Films /\ film[f].stage \in Built /\ RevisionOf(f) \in Nat /\ now \in Nat
      /\ now <= RevisionOf(f) /\ RevisionOf(f)' = RevisionOf(f)
  <2>1. now <= RevisionOf(f)
    BY <1>0, <1>2 DEF WInv, BeforeInv
  <2>2. f \in Films /\ film[f].stage \in Built /\ RevisionOf(f) \in Nat /\ now \in Nat
    BY <1>1, <1>2
  <2>3. RevisionOf(f)' = RevisionOf(f)
    BY <1>0, <2>2, WorkRevision
  <2> QED
    BY <2>1, <2>2, <2>3
<1>5. \A d \in Conns :
        /\ conn'[d].film = conn[d].film /\ conn[d].rev \in Nat
        /\ conn'[d].rev = IF d \in all THEN Higher(conn[d].rev, now) ELSE conn[d].rev
  <2> TAKE d \in Conns
  <2>1. conn[d] \in ConnType
    BY DEF IInv, TypeOK
  <2>2. conn'[d] = IF d \in all THEN [conn[d] EXCEPT !.rev = Higher(@, now)] ELSE conn[d]
    BY <1>3 DEF Tell
  <2> QED
    BY <2>1, <2>2 DEF ConnType
<1>6. PICK w : req' = [req EXCEPT ![a] = w] /\ w.pc = "idle" /\ w.kind = "none"
  <2>1. req' = [req EXCEPT ![a] = Idle]
    BY DEF Announce, Done
  <2>2. Idle.pc = "idle" /\ Idle.kind = "none"
    BY DEF Idle
  <2> QED
    BY <2>1, <2>2
<1>7. Works(a, w)
  BY <1>0, <1>5, <1>6 DEF Works, Working
<1>8. TicketInv'
  <2>1. w.pc \notin Ticketed /\ req[a].pc \notin Ticketed
    BY <1>0, <1>6 DEF Ticketed, Begun
  <2> QED
    BY <1>0, <1>7, <2>1, SameTicket DEF WInv
<1>9. \A h \in Films : film[h].stage \in Built =>
        RevisionOf(h)' = RevisionOf(h) /\ RevisionOf(h)' >= RevisionOf(h)
  <2> TAKE h \in Films
  <2>1. film[h].stage \in Built => RevisionOf(h) \in Nat
    BY RevisionIsNat DEF IInv, Shape
  <2>2. film[h].stage \in Built => RevisionOf(h)' = RevisionOf(h)
    BY <1>0, WorkRevision
  <2> QED
    BY <2>1, <2>2
<1>10. BeforeInv'
  <2>1. BeforeAt(w)'
    BY <1>6 DEF BeforeAt
  <2> QED
    BY <1>7, <1>9, <2>1, BeforeKeeps
<1>11. req'[a] = w /\ \A b \in Actors \ {a} : req'[b] = req[b]
  BY <1>7, WorksOthers
<1>12. all \subseteq Conns /\ \A d \in all : conn[d].film = f
  <2>1. \A d \in film[f].clients : d \in Conns /\ conn[d].film = f
    BY <1>4, ClientsAreConns DEF MembersInv
  <2>2. told \subseteq film[f].clients
    BY <1>2 DEF Listeners
  <2> QED
    BY <1>1, <1>2, <1>3, <2>1, <2>2
<1>13. HeardInv'
  <2> SUFFICES ASSUME NEW d \in Conns, NEW g, g = conn'[d].film, g # None
               PROVE  /\ conn'[d].rev <= RevisionOf(g)'
                      /\ \/ conn'[d].rev = RevisionOf(g)'
                         \/ \E b \in Actors : Owes(b, g)'
    BY DEF HeardInv
  <2>1. /\ conn[d].film = g /\ conn[d].rev \in Nat
        /\ g \in Films /\ film[g].stage \in Built /\ RevisionOf(g)' = RevisionOf(g)
        /\ d \in film[g].clients
        /\ conn[d].rev <= RevisionOf(g) /\ RevisionOf(g) \in Nat
        /\ \/ conn[d].rev = RevisionOf(g)
           \/ \E b \in Actors : Owes(b, g)
    <3>1. conn[d].film = g /\ conn[d].rev \in Nat
      BY <1>5
    <3>2. /\ g \in Films /\ film[g].stage \in Built /\ RevisionOf(g) \in Nat
          /\ d \in film[g].clients
      BY <3>1, ConnHas DEF Built, IInv, Shape, ConnInv
    <3> QED
      BY <1>9, <3>1, <3>2 DEF WInv, HeardInv
  <2>2. \A b \in Actors : b # a /\ Owes(b, g) => Owes(b, g)'
    <3> TAKE b \in Actors
    <3>1. b # a => req'[b] = req[b]
      BY <1>11
    <3> QED
      BY <2>1, <3>1 DEF Owes
  <2>3. CASE ~Owes(a, g)
    <3>1. \/ conn[d].rev = RevisionOf(g)
          \/ \E b \in Actors : Owes(b, g)'
      BY <2>1, <2>2, <2>3
    <3>2. conn'[d].rev <= RevisionOf(g)
          /\ (conn[d].rev = RevisionOf(g) => conn'[d].rev = RevisionOf(g))
      BY <1>4, <1>5, <1>12, <2>1 DEF Higher
    <3> QED
      BY <2>1, <3>1, <3>2
  <2>4. CASE Owes(a, g)
    <3>1. g = f /\ now = RevisionOf(f) /\ now # req[a].before
      BY <1>0, <1>2, <2>4 DEF Owes
    <3>2. d \in all
      BY <1>2, <1>3, <2>1, <3>1 DEF Listeners
    <3>3. conn'[d].rev = RevisionOf(g)
      BY <1>4, <1>5, <2>1, <3>1, <3>2 DEF Higher
    <3> QED
      BY <2>1, <3>3
  <2> QED
    BY <2>3, <2>4
<1>14. PlainInv' /\ HereInv' /\ OpenInv'
  BY <1>7, WorksKeeps
<1> QED
  BY <1>8, <1>10, <1>13, <1>14 DEF WInv

\* The steps that move no connection and take nobody into a film.
LEMMA OthersMembers ==
  ASSUME IInv, WInv, MembersInv, NEW a \in Actors,
         \/ FinishClose(a) \/ MakeFile(a) \/ JoinOpening(a) \/ StartBuild(a)
         \/ BuildFails(a)
  PROVE  MembersInv'
<1>0. Idle.pc = "idle" /\ NoFilm.clients = {} /\ UNCHANGED conn
  BY DEF Idle, NoFilm, FinishClose, MakeFile, JoinOpening, StartBuild, BuildFails
<1>1. \A b \in Actors : req'[b].pc \in Away => req[b].pc \in Away
  <2>1. CASE BuildFails(a)
    <3>1. \A b \in Actors : req'[b] = IF b \in Waiting(req[a].film) THEN Idle ELSE req[b]
      BY <2>1 DEF BuildFails
    <3> QED
      BY <1>0, <3>1 DEF Away
  <2>2. CASE ~BuildFails(a)
    <3>1. req[a].pc \in Away
      BY <2>2 DEF FinishClose, MakeFile, JoinOpening, StartBuild, MayOpen, Away
    <3>2. \A b \in Actors \ {a} : req'[b] = req[b]
      <4>1. \E w : req' = [req EXCEPT ![a] = w]
        BY <2>2 DEF FinishClose, MakeFile, JoinOpening, StartBuild, Done
      <4> QED
        BY <4>1 DEF IInv, TypeOK
    <3> QED
      BY <3>1, <3>2
  <2> QED
    BY <2>1, <2>2
<1>2. \A f \in Films : film'[f].clients \subseteq film[f].clients
  <2>1. UNCHANGED film \/ \E f \in Films : \E g :
                           film' = [film EXCEPT ![f] = g] /\ g.clients = {}
    <3>1. CASE StartBuild(a)
      <4>1. a \in Pending /\ req[a].pc # "building"
        BY <3>1 DEF StartBuild, MayOpen, Pending, Openers
      <4>2. NewFilm \in Films
        BY <4>1, FreeFilm
      <4> DEFINE g == [NoFilm EXCEPT !.stage = "building", !.path = req[a].path]
      <4>3. film' = [film EXCEPT ![NewFilm] = g]
        BY <3>1 DEF StartBuild
      <4>4. g.clients = {}
        BY DEF NoFilm
      <4> HIDE DEF g
      <4> QED
        BY <4>2, <4>3, <4>4
    <3>2. CASE BuildFails(a)
      <4>1. req[a].film \in Films
        BY <3>2 DEF BuildFails, IInv, Shape, RequestInv, RequestAt, TypeOK, ReqType
      <4> QED
        BY <1>0, <3>2, <4>1 DEF BuildFails
    <3> QED
      BY <3>1, <3>2 DEF FinishClose, MakeFile, JoinOpening
  <2> QED
    BY <2>1 DEF IInv, TypeOK
<1> QED
  BY <1>0, <1>1, <1>2, ClientsAreConns, SameMembers

-----------------------------------------------------------------------------
(* Every step keeps them *)

\* The writes, the connections and the films' clients, in one.
HInv == WInv /\ MembersInv

\* What one request at a time rules out.
LEMMA NoCopies ==
  ASSUME OneAtATime, IInv, WInv, NEW a \in Actors
  PROVE  /\ \A p \in Paths : ~SaveAs(a, p)
         /\ ~CopyFile(a) /\ ~FinishCopy(a) /\ ~Reload(a) /\ ~ReloadStep(a)
         /\ \A c \in Conns : ~Drop(c)
<1>1. ConnOf[a] \in Conns
  BY ActorConn
<1>2. ~CanAsk(a, "saveAs") /\ ~CanAsk(a, "reload")
  BY <1>1 DEF CanAsk, OneAtATime
<1>3. req[a].kind \notin {"saveAs", "reload"}
  BY DEF WInv, PlainInv
<1>4. req[a].pc \notin {"reloading", "reopening"}
  <2>1. {"reloading", "reopening"} \subseteq Working
    BY DEF Working
  <2> QED
    BY <1>3, <2>1 DEF IInv, Shape, RequestInv, RequestAt
<1> QED
  BY <1>2, <1>3, <1>4
     DEF SaveAs, CopyFile, FinishCopy, Reload, ReloadStep, ReloadCloses, ReloadOpens,
         ReloadFails, Drop, OneAtATime

\* A step of a connection's own that bystands.
BystandStep ==
  \/ \E a \in Actors :
       \/ \E p \in Paths : Open(a, p) \/ Create(a, p)
       \/ CloseRequest(a) \/ Read(a) \/ OpenStep(a)
  \/ \E f \in Films : DrainFilm(f) \/ CloseFilm(f)
  \/ \E p \in Paths : OutsideEdit(p)
  \/ UNCHANGED vars

PlainWriteStep(a) ==
  \/ Checked(a) \/ Snapshotted(a) \/ SnapshotFails(a)
  \/ RefuseInQueue(a) \/ DryRun(a) \/ Commit(a) \/ RunInVain(a)
  \/ Settle(a) \/ FinishWrite(a) \/ Announce(a)

LEMMA PlainNext ==
  ASSUME OneAtATime, IInv, WInv, [Next]_vars
  PROVE  \/ BystandStep
         \/ \E a \in Actors :
              \/ \E k \in {"op", "call", "dry"}, e \in {NoCheck, view[ConnOf[a]].rev} :
                   AskWrite(a, k, e)
              \/ PlainWriteStep(a)
<1>1. CASE UNCHANGED vars
  BY <1>1 DEF BystandStep
<1>2. ASSUME NEW a \in Actors, Request(a) \/ OpenStep(a) \/ WriteStep(a) \/ ReloadStep(a)
      PROVE  \/ BystandStep
             \/ \E k \in {"op", "call", "dry"}, e \in {NoCheck, view[ConnOf[a]].rev} :
                  AskWrite(a, k, e)
             \/ PlainWriteStep(a)
  BY <1>2, NoCopies DEF Request, WriteStep, PlainWriteStep, BystandStep
<1>3. CASE \E c \in Conns : Drop(c)
  BY <1>3 DEF Drop, OneAtATime
<1>4. CASE Rest
  BY <1>4 DEF Rest, BystandStep
<1>5. CASE (\E f \in Films : DrainFilm(f) \/ CloseFilm(f)) \/ \E p \in Paths : OutsideEdit(p)
  BY <1>5 DEF BystandStep
<1> QED
  BY <1>1, <1>2, <1>3, <1>4, <1>5 DEF Next

\* What every bystanding step does; only another program changes rows unseen.
LEMMA BystandStepDoes ==
  ASSUME IInv, IInv', WInv, MembersInv, OneAtATime, BystandStep
  PROVE  /\ Bystands /\ MembersInv'
         /\ \/ \A p \in Paths : Shows(p)
            \/ \E p \in Paths : OutsideEdit(p)
         /\ \A c \in Conns : view'[c] = view[c] \/ Sees(c)
<1>1. CASE \E a \in Actors :
             (\E p \in Paths : Open(a, p) \/ Create(a, p)) \/ CloseRequest(a)
  <2>1. PICK a \in Actors :
             (\E p \in Paths : Open(a, p) \/ Create(a, p)) \/ CloseRequest(a)
    BY <1>1
  <2>2. UNCHANGED view /\ Leave(ConnOf[a], TRUE) /\ \E w : req' = [req EXCEPT ![a] = w]
    BY <2>1 DEF Open, Create, CloseRequest, Ask
  <2> QED
    BY <2>1, <2>2, AskingBystands, LeaveMembers
<1>2. CASE \E a \in Actors : Read(a)
  <2>1. PICK a \in Actors : Read(a)
    BY <1>2
  <2>2. Bystands /\ (\A p \in Paths : Shows(p)) /\ \A c \in Conns : view'[c] = view[c] \/ Sees(c)
    BY <2>1, ReadBystands
  <2>3. UNCHANGED <<film, req>> /\ \A c \in Conns : conn'[c].film = conn[c].film
    <3>1. UNCHANGED <<film, req>>
          /\ \E r : conn' = [conn EXCEPT ![ConnOf[a]] = [conn[ConnOf[a]] EXCEPT !.rev = r]]
      BY <2>1 DEF Read
    <3>2. conn[ConnOf[a]] \in ConnType
      BY ActorConn DEF IInv, TypeOK
    <3> QED
      BY <3>1, <3>2, ActorConn DEF IInv, TypeOK, ConnType
  <2>4. MembersInv'
    BY <2>3, SameMembers, ClientsAreConns
  <2> QED
    BY <2>2, <2>4
<1>3. CASE \E a \in Actors : OpenStep(a)
  <2>1. PICK a \in Actors : OpenStep(a)
    BY <1>3
  <2>2. UNCHANGED view
    BY <2>1 DEF OpenStep, FinishClose, MakeFile, OpenExisting, JoinOpening, StartBuild,
                BuildFails, Build
  <2>3. CASE FinishClose(a) \/ MakeFile(a) \/ JoinOpening(a)
    BY <2>2, <2>3, ClosingBystands, OthersMembers
  <2>4. CASE StartBuild(a) \/ BuildFails(a)
    BY <2>2, <2>4, BuildingBystands, OthersMembers
  <2>5. CASE OpenExisting(a)
    BY <2>2, <2>5, OpenExistingBystands, OpeningMembers
  <2>6. CASE \E m \in Migrations : Build(a, m)
    BY <2>2, <2>6, BuildBystands, OpeningMembers
  <2> QED
    BY <2>1, <2>3, <2>4, <2>5, <2>6 DEF OpenStep
<1>4. CASE \E f \in Films : DrainFilm(f) \/ CloseFilm(f)
  <2>1. PICK f \in Films : DrainFilm(f) \/ CloseFilm(f)
    BY <1>4
  <2>2. UNCHANGED <<view, conn, req>>
    BY <2>1 DEF DrainFilm, CloseFilm
  <2>3. \A h \in Films : film'[h].clients \subseteq film[h].clients
    <3>1. PICK x : film' = [film EXCEPT ![f] = [film[f] EXCEPT !.stage = x]]
      BY <2>1 DEF DrainFilm, CloseFilm
    <3>2. film[f] \in FilmType
      BY DEF IInv, TypeOK
    <3>3. [film[f] EXCEPT !.stage = x].clients = film[f].clients
      BY <3>2 DEF FilmType
    <3> QED
      BY <3>1, <3>3 DEF IInv, TypeOK
  <2>4. MembersInv'
    BY <2>2, <2>3, SameMembers, ClientsAreConns
  <2> QED
    BY <2>1, <2>2, <2>4, DrainBystands
<1>5. CASE (\E p \in Paths : OutsideEdit(p)) \/ UNCHANGED vars
  <2>1. UNCHANGED <<conn, films, lastRev, film, sess, req, view>>
    BY <1>5 DEF OutsideEdit, vars, hostVars
  <2>2. MembersInv'
    BY <2>1, SameMembers, ClientsAreConns
  <2>3. UNCHANGED disk \/ \E p \in Paths : OutsideEdit(p)
    BY <1>5 DEF vars
  <2> QED
    BY <2>1, <2>2, <2>3, NobodyBystands
<1> QED
  BY <1>1, <1>2, <1>3, <1>4, <1>5 DEF BystandStep

\* What the steps of a write have in common: request a goes on as some w.
LEMMA WriteGoesOn ==
  ASSUME IInv, NEW a \in Actors, req[a] \in ReqType,
         \/ \E k \in {"op", "call", "dry"}, e \in {NoCheck, view[ConnOf[a]].rev} :
              AskWrite(a, k, e)
         \/ PlainWriteStep(a)
  PROVE  /\ UNCHANGED <<films, lastRev, film, outside>>
         /\ \A c \in Conns : conn'[c].film = conn[c].film
         /\ \A b \in Actors \ {a} : req'[b] = req[b]
         /\ req'[a].pc \notin Away
<1>1. UNCHANGED <<films, lastRev, film, outside>>
  BY DEF PlainWriteStep, AskWrite, Checked, Snapshotted, SnapshotFails, RefuseInQueue,
         DryRun, Commit, RunInVain, Settle, FinishWrite, Announce, hostVars
<1>2. \A c \in Conns : conn'[c].film = conn[c].film
  <2>1. UNCHANGED conn \/ DryRun(a) \/ Announce(a)
    BY DEF PlainWriteStep, AskWrite, Checked, Snapshotted, SnapshotFails, RefuseInQueue,
           Commit, RunInVain, Settle, FinishWrite
  <2>2. ASSUME NEW told, NEW p, NEW r, Tell(told, p, r), NEW c \in Conns
        PROVE  conn'[c].film = conn[c].film
    <3>1. conn[c] \in ConnType
      BY DEF IInv, TypeOK
    <3>2. conn'[c] = IF c \in told THEN [conn[c] EXCEPT !.rev = Higher(@, r)] ELSE conn[c]
      BY <2>2 DEF Tell
    <3> QED
      BY <3>1, <3>2 DEF ConnType
  <2>3. UNCHANGED conn \/ \E told, p, r : Tell(told, p, r)
    BY <2>1 DEF DryRun, Announce
  <2> QED
    BY <2>2, <2>3
<1>3. PICK w : req' = [req EXCEPT ![a] = w] /\ w.pc \notin Away
  <2>1. CASE \E k \in {"op", "call", "dry"}, e \in {NoCheck, view[ConnOf[a]].rev} :
               AskWrite(a, k, e)
    BY <2>1, AskWriteFields DEF Away
  <2>2. CASE Done(a)
    <3>1. Idle.pc = "idle"
      BY DEF Idle
    <3> QED
      BY <2>2, <3>1 DEF Done, Away
  <2>3. CASE \E pc \in {"snapshot", "ran", "threw"} : Goto(a, pc)
    BY <2>3, GotoFields DEF Away
  <2>4. CASE \E pc \in {"refused", "recorded"} : Journal(a, pc)
    BY <2>4, JournalFields DEF Away
  <2>5. CASE Enqueue(a)
    <3> DEFINE e == IF req[a].expected = NoCheck THEN req[a].expected
                    ELSE req[a].expected - film[req[a].film].base
               s == film[req[a].film].session
               n == RevisionOf(req[a].film)
               u == [req[a] EXCEPT !.pc = "queued", !.sess = s, !.ticket = sess[s].issued,
                                   !.expected = e, !.before = n]
    <3>1. req' = [req EXCEPT ![a] = u]
      BY <2>5 DEF Enqueue
    <3> HIDE DEF e, n, s
    <3>2. u.pc = "queued"
      BY DEF ReqType
    <3> HIDE DEF u
    <3> QED
      BY <3>1, <3>2 DEF Away
  <2>6. CASE Settle(a)
    <3> DEFINE b == IF req[a].pc = "threw" THEN Threw ELSE req[a].before
               u == [req[a] EXCEPT !.pc = "refreshing", !.before = b]
    <3>1. req' = [req EXCEPT ![a] = u]
      BY <2>6 DEF Settle
    <3> HIDE DEF b
    <3>2. u.pc = "refreshing"
      BY DEF ReqType
    <3> HIDE DEF u
    <3> QED
      BY <3>1, <3>2 DEF Away
  <2>7. \/ \E k \in {"op", "call", "dry"}, e \in {NoCheck, view[ConnOf[a]].rev} :
             AskWrite(a, k, e)
        \/ Done(a) \/ (\E pc \in {"snapshot", "ran", "threw"} : Goto(a, pc))
        \/ (\E pc \in {"refused", "recorded"} : Journal(a, pc))
        \/ Enqueue(a) \/ Settle(a)
    BY DEF PlainWriteStep, Checked, Snapshotted, SnapshotFails, RefuseInQueue,
           DryRun, Commit, RunInVain, FinishWrite, Announce
  <2> QED
    BY <2>1, <2>2, <2>3, <2>4, <2>5, <2>6, <2>7
<1>4. req'[a] = w /\ \A b \in Actors \ {a} : req'[b] = req[b]
  BY <1>3 DEF IInv, TypeOK
<1> QED
  BY <1>1, <1>2, <1>3, <1>4

LEMMA WritesKeep ==
  ASSUME IInv, IInv', HInv, NEW a \in Actors,
         \/ \E k \in {"op", "call", "dry"}, e \in {NoCheck, view[ConnOf[a]].rev} :
              AskWrite(a, k, e)
         \/ PlainWriteStep(a)
  PROVE  HInv'
<1> USE DEF HInv
<1>1. WInv'
  BY AskWriteWorks, CheckedWorks, ServedWorks, RunsWorks, SettleWorks, AnnounceWorks
     DEF PlainWriteStep
<1>2. req[a] \in ReqType
  BY DEF IInv, TypeOK
<1>3. /\ UNCHANGED film /\ req'[a].pc \notin Away
      /\ \A c \in Conns : conn'[c].film = conn[c].film
      /\ \A b \in Actors \ {a} : req'[b] = req[b]
  BY <1>2, WriteGoesOn
<1>4. MembersInv'
  BY <1>3, ClientsAreConns, SameMembers
<1> QED
  BY <1>1, <1>4

LEMMA WritesInit == Init => HInv
<1> SUFFICES ASSUME Init PROVE HInv
  OBVIOUS
<1>1. /\ conn = [c \in Conns |-> [film |-> None, live |-> TRUE, rev |-> 0]]
      /\ film = [f \in Films |-> NoFilm] /\ sess = [s \in Films |-> NoSession]
      /\ req = [a \in Actors |-> Idle]
  BY DEF Init
<1>2. /\ Idle.pc = "idle" /\ Idle.kind = "none" /\ NoFilm.stage = "none"
      /\ NoFilm.clients = {} /\ NoSession.served = 0 /\ NoSession.issued = 0
  BY DEF Idle, NoFilm, NoSession
<1>3. PlainInv /\ HereInv /\ BeforeInv
  BY <1>1, <1>2 DEF PlainInv, HereInv, BeforeInv, Working
<1>4. OpenInv /\ HeardInv /\ MembersInv
  BY <1>1, <1>2, ActorConn DEF OpenInv, HeardInv, MembersInv, Built, Away
<1>5. TicketInv
  <2>1. \A s \in Films : InQueue(s) = {} /\ sess[s].served = 0 /\ sess[s].issued = 0
    BY <1>1, <1>2 DEF InQueue, Ticketed, Begun
  <2> QED
    BY <2>1 DEF TicketInv
<1> QED
  BY <1>3, <1>4, <1>5 DEF HInv, WInv

LEMMA WritesNext ==
  ASSUME OneAtATime, IInv, HInv, [Next]_vars
  PROVE  HInv'
<1>1. IInv'
  BY NextKeeps
<1>2. CASE BystandStep
  <2>1. Bystands /\ MembersInv'
    BY <1>1, <1>2, BystandStepDoes DEF HInv
  <2>2. WInv'
    BY <1>1, <2>1, BystandsKeeps DEF HInv
  <2> QED
    BY <2>1, <2>2 DEF HInv
<1>3. CASE ~BystandStep
  BY <1>1, <1>3, PlainNext, WritesKeep DEF HInv
<1> QED
  BY <1>2, <1>3

-----------------------------------------------------------------------------
(* One writer per file, and everyone hears *)

\* A session with work to do is that of the film its path is on.
LEMMA QueueHas ==
  ASSUME IInv, HInv, NEW s \in Films, sess[s].served < sess[s].issued
  PROVE  films[sess[s].path] \in Films /\ s = film[films[sess[s].path]].session
<1>1. sess[s].served \in Nat /\ sess[s].issued \in Nat
  BY DEF IInv, TypeOK, SessType
<1>2. PICK a \in InQueue(s) : TRUE
  <2>1. sess[s].served \in sess[s].served..(sess[s].issued - 1)
    BY <1>1
  <2> QED
    BY <2>1 DEF HInv, WInv, TicketInv
<1>3. req[a].pc \in Working /\ req[a].sess = s /\ a \in Actors
  BY <1>2 DEF InQueue, Ticketed, Begun, Working
<1> QED
  BY <1>3, WriteHas DEF HInv

\* Where each connection makes one request at a time and none vanishes, no two
\* sessions of a file have writes to run, and no two films stand for it: a write
\* that waits keeps the film it was asked on open (core.ts:5-6, 447-553).
THEOREM OneWriterTheorem == OneAtATime => (Spec => []OneWriterPerFile)
<1> SUFFICES ASSUME OneAtATime PROVE Spec => []OneWriterPerFile
  OBVIOUS
<1>1. Init => IInv /\ HInv
  BY InitHolds, WritesInit
<1>2. IInv /\ HInv /\ [Next]_vars => IInv' /\ HInv'
  BY NextKeeps, WritesNext
<1>3. IInv /\ HInv => OneQueuePerPath
  BY QueueHas DEF OneQueuePerPath
<1> QED
  BY <1>1, <1>2, <1>3, OneFilmTheorem, PTL DEF Spec, OneWriterPerFile

\* Once nothing is under way, every client on a film knows its revision: each
\* write told those who did not make it, whoever came and went (core.ts:526-553).
THEOREM HearsTheorem == OneAtATime => (Spec => []EveryoneHears)
<1> SUFFICES ASSUME OneAtATime PROVE Spec => []EveryoneHears
  OBVIOUS
<1>1. Init => IInv /\ HInv
  BY InitHolds, WritesInit
<1>2. IInv /\ HInv /\ [Next]_vars => IInv' /\ HInv'
  BY NextKeeps, WritesNext
<1>3. HInv => EveryoneHears
  BY DEF HInv, WInv, HeardInv, EveryoneHears, Quiet, Owes
<1> QED
  BY <1>1, <1>2, <1>3, PTL DEF Spec

-----------------------------------------------------------------------------
(* What a client knows of the rows *)

\* A step leaves a path as it is, gives it a new revision, or has a change of it
\* under way.
Moves(p) ==
  \/ /\ PathRevision(p)' = PathRevision(p) /\ disk'[p].rows = disk[p].rows
     /\ Uncounted(p)' = Uncounted(p)
  \/ /\ PathRevision(p)' = PathRevision(p) + 1
     /\ disk'[p].rows \in {disk[p].rows, disk[p].rows + 1}
  \/ /\ PathRevision(p)' = PathRevision(p) /\ Uncounted(p)' # {}
     /\ disk'[p].rows \in {disk[p].rows, disk[p].rows + 1}

LEMMA FreshKeeps ==
  ASSUME IInv, NEW p \in Paths, Moves(p), NEW r, NEW n \in Nat, Fresh(p, r, n)
  PROVE  Fresh(p, r, n)'
<1>1. PathRevision(p) \in Nat /\ disk[p].rows \in Nat
  BY RevisionOfPath DEF IInv, TypeOK
<1> QED
  BY <1>1 DEF Fresh, Moves

\* Whose change is not counted is on the film of the path.
LEMMA UncountedHas ==
  ASSUME IInv, WInv, NEW p \in Paths, NEW a \in Uncounted(p)
  PROVE  /\ a \in Actors /\ req[a].pc \in {"ran", "threw"} /\ req[a].path = p
         /\ films[p] = req[a].film /\ req[a].film \in Films
<1>1. a \in Actors /\ req[a].pc \in {"ran", "threw"} /\ sess[req[a].sess].path = p
  BY DEF Uncounted
<1> QED
  BY <1>1, WriteHas DEF Working

LEMMA BystandsMoves ==
  ASSUME IInv, WInv, Bystands, NEW p \in Paths, Shows(p)
  PROVE  /\ Moves(p) /\ Uncounted(p)' = Uncounted(p)
         /\ films[p] = None => Uncounted(p) = {}
<1>1. \A a \in Actors : req[a].pc \in {"ran", "threw"} \/ req'[a].pc \in {"ran", "threw"} =>
        req'[a] = req[a] /\ sess'[req[a].sess].path = sess[req[a].sess].path
  <2> TAKE a \in Actors
  <2> SUFFICES ASSUME req[a].pc \in {"ran", "threw"} \/ req'[a].pc \in {"ran", "threw"}
               PROVE  req'[a] = req[a] /\ sess'[req[a].sess].path = sess[req[a].sess].path
    OBVIOUS
  <2>1. req'[a] = req[a] /\ req[a].pc \in Working
    BY BystandsWorking DEF Working
  <2>2. req[a].sess \in Used /\ req[a].sess \in Films
    BY <2>1 DEF IInv, Shape, RequestInv, RequestAt, Used
  <2> QED
    BY <2>1, <2>2 DEF Bystands
<1>2. Uncounted(p)' = Uncounted(p)
  BY <1>1 DEF Uncounted
<1>3. films[p] = None => Uncounted(p) = {}
  BY UncountedHas, NotNone
<1> QED
  BY <1>2, <1>3 DEF Moves, Shows

\* The views and the plans.
RInv == ViewInv /\ PlanInv

LEMMA PlanStays ==
  ASSUME IInv, PlanInv, NEW a \in Actors, req'[a] = req[a],
         req[a].pc \in {"checking", "snapshot", "queued"}, req[a].plan # NoCheck,
         \A p \in Paths : Moves(p),
         film'[req[a].film].base = film[req[a].film].base
  PROVE  /\ req'[a].expected # NoCheck /\ req'[a].plan \in Nat
         /\ req'[a].pc = "snapshot" => req'[a].expected >= film'[req'[a].film].base
         /\ Fresh(req[a].path, Planned(a), req[a].plan)'
<1>1. /\ req[a].expected # NoCheck /\ req[a].plan \in Nat
      /\ req[a].pc = "snapshot" => req[a].expected >= film[req[a].film].base
      /\ Fresh(req[a].path, Planned(a), req[a].plan)
  BY DEF PlanInv
<1>2. PICK p, r, n : p = req[a].path /\ r = Planned(a) /\ n = req[a].plan
  OBVIOUS
<1>3. p \in Paths
  BY <1>2 DEF IInv, TypeOK, ReqType
<1>4. Fresh(p, r, n)'
  BY <1>1, <1>2, <1>3, FreshKeeps
<1>5. Planned(a)' = r /\ req'[a].path = p /\ req'[a].plan = n
  BY <1>2 DEF Planned
<1>6. Fresh(req[a].path, Planned(a), req[a].plan)'
  BY <1>4, <1>5 DEF Fresh
<1> QED
  BY <1>1, <1>6

LEMMA ViewStays ==
  ASSUME IInv, ViewInv, \A p \in Paths : Moves(p),
         \A c \in Conns : view'[c] = view[c] \/ Sees(c)
  PROVE  ViewInv'
<1> SUFFICES ASSUME NEW c \in Conns, view'[c].rev # NoCheck
             PROVE  Fresh(view[c].path, view[c].rev, view[c].rows)'
  BY DEF ViewInv
<1>1. \E p \in Paths : \E r, n :
        n \in Nat /\ view'[c].path = p /\ view'[c].rev = r /\ view'[c].rows = n /\ Fresh(p, r, n)
  <2>1. CASE view'[c] = view[c]
    <3>1. view[c].path \in Paths /\ view[c].rows \in Nat
      BY DEF IInv, TypeOK
    <3> QED
      BY <2>1, <3>1 DEF ViewInv
  <2>2. CASE Sees(c)
    <3>1. PICK p \in Paths :
            view'[c] = [path |-> p, rev |-> PathRevision(p), rows |-> disk[p].rows]
      BY <2>2 DEF Sees
    <3>2. PathRevision(p) \in Nat /\ disk[p].rows \in Nat
      BY RevisionOfPath DEF IInv, TypeOK
    <3>3. Fresh(p, PathRevision(p), disk[p].rows)
      BY <3>2 DEF Fresh
    <3> QED
      BY <3>1, <3>2, <3>3
  <2> QED
    BY <2>1, <2>2
<1>2. PICK p \in Paths : \E r, n :
        n \in Nat /\ view'[c].path = p /\ view'[c].rev = r /\ view'[c].rows = n /\ Fresh(p, r, n)
  BY <1>1
<1>3. PICK r, n :
        n \in Nat /\ view'[c].path = p /\ view'[c].rev = r /\ view'[c].rows = n /\ Fresh(p, r, n)
  BY <1>2
<1>4. Fresh(p, r, n)'
  BY <1>3, FreshKeeps
<1> QED
  BY <1>3, <1>4 DEF Fresh
LEMMA BystandsPlans ==
  ASSUME IInv, WInv, RInv, Bystands, \A p \in Paths : Shows(p),
         \A c \in Conns : view'[c] = view[c] \/ Sees(c)
  PROVE  RInv' /\ \A p \in Paths : Moves(p)
<1>1. \A p \in Paths : Moves(p)
  BY BystandsMoves
<1>2. ViewInv'
  BY <1>1, ViewStays DEF RInv
<1>3. PlanInv'
  <2> SUFFICES ASSUME NEW a \in Actors, req'[a].pc \in {"checking", "snapshot", "queued"},
                      req'[a].plan # NoCheck
               PROVE  /\ req'[a].expected # NoCheck /\ req'[a].plan \in Nat
                      /\ req'[a].pc = "snapshot" =>
                           req'[a].expected >= film'[req'[a].film].base
                      /\ Fresh(req[a].path, Planned(a), req[a].plan)'
    BY DEF PlanInv
  <2>1. req'[a] = req[a] /\ req[a].pc \in Working
    BY BystandsWorking DEF Working
  <2>2. film'[req[a].film].base = film[req[a].film].base
    BY <2>1, WriteHas DEF Bystands
  <2> QED
    BY <1>1, <2>1, <2>2, PlanStays DEF RInv
<1> QED
  BY <1>1, <1>2, <1>3 DEF RInv

\* The rows request a, gone on as w, planned on, and what it knows of them.
PlanAt(w) ==
  w.pc \in {"checking", "snapshot", "queued"} /\ w.plan # NoCheck =>
    LET e == IF w.pc = "queued" THEN w.expected + film[w.film].base ELSE w.expected
    IN  /\ w.expected # NoCheck /\ w.plan \in Nat
        /\ w.pc = "snapshot" => w.expected >= film[w.film].base
        /\ w.path \in Paths /\ Fresh(w.path, e, w.plan)

\* Every step of a write keeps them, given that of the write itself.
LEMMA PlansKeep ==
  ASSUME IInv, WInv, RInv, NEW a \in Actors, NEW w, Works(a, w), UNCHANGED view,
         \A p \in Paths : Moves(p), PlanAt(w)
  PROVE  RInv'
<1>1. req'[a] = w /\ \A b \in Actors \ {a} : req'[b] = req[b]
  BY WorksOthers
<1>2. ViewInv'
  BY ViewStays DEF RInv
<1>3. PlanInv'
  <2> SUFFICES ASSUME NEW b \in Actors, req'[b].pc \in {"checking", "snapshot", "queued"},
                      req'[b].plan # NoCheck
               PROVE  /\ req'[b].expected # NoCheck /\ req'[b].plan \in Nat
                      /\ req'[b].pc = "snapshot" =>
                           req'[b].expected >= film'[req'[b].film].base
                      /\ Fresh(req[b].path, Planned(b), req[b].plan)'
    BY DEF PlanInv
  <2>0. UNCHANGED film
    BY DEF Works
  <2>1. CASE b # a
    BY <1>1, <2>0, <2>1, PlanStays DEF RInv
  <2>2. CASE b = a
    <3>1. PICK p, e, n :
            /\ p = w.path /\ n = w.plan
            /\ e = IF w.pc = "queued" THEN w.expected + film[w.film].base ELSE w.expected
      OBVIOUS
    <3>2. /\ w.expected # NoCheck /\ n \in Nat /\ p \in Paths /\ Fresh(p, e, n)
          /\ w.pc = "snapshot" => w.expected >= film[w.film].base
      BY <1>1, <2>2, <3>1 DEF PlanAt
    <3>3. Fresh(p, e, n)'
      BY <3>2, FreshKeeps
    <3>4. req'[b] = w
      BY <1>1, <2>2
    <3>5. Planned(b)' = e /\ req'[b].path = p /\ req'[b].plan = n
      BY <2>0, <3>1, <3>4 DEF Planned
    <3>6. Fresh(req[b].path, Planned(b), req[b].plan)'
      BY <3>3, <3>5 DEF Fresh
    <3> QED
      BY <2>0, <3>1, <3>2, <3>4, <3>6
  <2> QED
    BY <2>1, <2>2
<1> QED
  BY <1>2, <1>3 DEF RInv

\* Where films stay and no session counts, no path has a new revision.
LEMMA CalmPaths ==
  ASSUME IInv, UNCHANGED <<films, lastRev, film>>,
         \A s \in Films : sess'[s].revision = sess[s].revision, NEW p \in Paths
  PROVE  PathRevision(p)' = PathRevision(p)
<1>1. CASE films[p] = None
  BY <1>1 DEF PathRevision
<1>2. CASE films[p] # None
  <2>1. PICK f \in Films : f = films[p] /\ film[f].stage \in Built
    BY <1>2, PathHas
  <2>2. RevisionOf(f)' = RevisionOf(f)
    BY <2>1, WorkRevision
  <2> QED
    BY <1>2, <2>1, <2>2 DEF PathRevision
<1> QED
  BY <1>1, <1>2

\* Whose change is not counted, when request a goes on as w.
LEMMA UncountedBy ==
  ASSUME IInv, NEW a \in Actors, NEW w, Works(a, w), NEW p \in Paths,
         w.pc \in {"ran", "threw"} \/ req[a].pc \in {"ran", "threw"} =>
           w.sess = req[a].sess /\ w.sess \in Films
  PROVE  Uncounted(p)' =
           IF w.pc \in {"ran", "threw"} /\ sess[w.sess].path = p
           THEN Uncounted(p) \cup {a} ELSE Uncounted(p) \ {a}
<1>1. req'[a] = w /\ \A b \in Actors \ {a} : req'[b] = req[b]
  BY WorksOthers
<1>2. \A b \in Actors : req[b].pc \in {"ran", "threw"} => req[b].sess \in Films
  BY DEF IInv, Shape, RequestInv, RequestAt, Working, Used
<1>3. \A s \in Films : sess'[s].path = sess[s].path
  BY DEF Works
<1> QED
  BY <1>1, <1>2, <1>3 DEF Uncounted
\* A step of request a's write.
WriteOf(a) ==
  \/ \E k \in {"op", "call", "dry"}, e \in {NoCheck, view[ConnOf[a]].rev} :
       AskWrite(a, k, e)
  \/ PlainWriteStep(a)

LEMMA WriteSessions ==
  ASSUME IInv, IInv', HInv, NEW a \in Actors, WriteOf(a)
  PROVE  \A s \in Films : /\ sess'[s].path = sess[s].path
                          /\ Settle(a) \/ sess'[s].revision = sess[s].revision
<1>1. CASE Checked(a) \/ Snapshotted(a) \/ SnapshotFails(a)
  BY <1>1, CheckedWorks DEF HInv
<1>2. CASE RefuseInQueue(a) \/ DryRun(a) \/ FinishWrite(a)
  BY <1>2, ServedWorks DEF HInv
<1>3. CASE Settle(a)
  <2>1. req[a].sess \in Films
    BY <1>3, WriteHas DEF HInv, Settle, Working
  <2> QED
    BY <1>3, <2>1, SettleSessions
<1>4. CASE UNCHANGED sess
  BY <1>4
<1> QED
  BY <1>1, <1>2, <1>3, <1>4 DEF WriteOf, PlainWriteStep, AskWrite, Commit, RunInVain, Announce

LEMMA WriteWorks ==
  ASSUME IInv, IInv', HInv, NEW a \in Actors, WriteOf(a)
  PROVE  /\ \E w : w = req'[a] /\ Works(a, w)
         /\ UNCHANGED <<films, lastRev, film, view>>
<1>1. req[a] \in ReqType /\ UNCHANGED view
  BY DEF IInv, TypeOK, WriteOf, PlainWriteStep, AskWrite, Checked, Snapshotted,
         SnapshotFails, RefuseInQueue, DryRun, Commit, RunInVain, Settle, FinishWrite, Announce
<1>2. /\ UNCHANGED <<films, lastRev, film>>
      /\ \A c \in Conns : conn'[c].film = conn[c].film
      /\ \A b \in Actors \ {a} : req'[b] = req[b]
  BY <1>1, WriteGoesOn DEF WriteOf
<1>3. HInv'
  BY WritesKeep DEF WriteOf
<1>4. PICK w : w = req'[a]
  OBVIOUS
<1>5. req' = [req EXCEPT ![a] = w]
  BY <1>2, <1>4 DEF IInv, TypeOK
<1>6. \A s \in Films : sess'[s].path = sess[s].path
  BY WriteSessions
<1>7. w.kind \notin {"saveAs", "reload"} /\ (w.pc \in Working => w.kind \in {"op", "call", "dry"})
  BY <1>3, <1>4 DEF HInv, WInv, PlainInv
<1>8. w.pc \in Working =>
        /\ conn'[ConnOf[a]].film = w.film
        /\ w.sess = film'[w.film].session /\ w.path = film'[w.film].path
  BY <1>3, <1>4 DEF HInv, WInv, HereInv
<1>9. Works(a, w)
  BY <1>2, <1>5, <1>6, <1>7, <1>8, ActorConn DEF Works
<1> QED
  BY <1>1, <1>2, <1>4, <1>9

-----------------------------------------------------------------------------
(* Each step keeps the promise *)

Simulated == [Promise!Next]_(Promise!vars)

PlanOf(w) ==
  IF /\ w.kind \in {"op", "call"} /\ w.path = OnePath
     /\ w.pc \in {"checking", "snapshot", "queued"}
  THEN w.plan ELSE NoCheck - 1

LEMMA PlansBy ==
  ASSUME IInv, NEW a \in Actors, NEW w, Works(a, w)
  PROVE  Plans' = [Plans EXCEPT ![a] = PlanOf(w)] /\ Plans[a] = PlanOf(req[a])
<1>1. req'[a] = w /\ \A b \in Actors \ {a} : req'[b] = req[b]
  BY WorksOthers
<1>2. Plans = [b \in Actors |-> PlanOf(req[b])]
  BY DEF Plans, PlanOf
<1>3. Plans' = [b \in Actors |-> PlanOf(req'[b])]
  BY DEF Plans, PlanOf
<1> HIDE DEF Plans, PlanOf
<1> QED
  BY <1>1, <1>2, <1>3

\* A step that leaves the path, and whose change is not counted, as it was.
LEMMA StillSimulated ==
  ASSUME PathRevision(OnePath)' = PathRevision(OnePath),
         disk'[OnePath].rows = disk[OnePath].rows,
         Uncounted(OnePath)' = Uncounted(OnePath), UNCHANGED Plans
  PROVE  Simulated
BY DEF Simulated, Promise!vars

LEMMA BystandsSimulated ==
  ASSUME IInv, WInv, Bystands, Shows(OnePath)
  PROVE  Simulated
<1>1. UNCHANGED Plans
  <2>1. \A a \in Actors : PlanOf(req[a])' = PlanOf(req[a])
    <3> TAKE a \in Actors
    <3>1. CASE req[a].pc \in Working \/ req'[a].pc \in Working
      BY <3>1, BystandsWorking DEF PlanOf
    <3>2. CASE req[a].pc \notin Working /\ req'[a].pc \notin Working
      BY <3>2 DEF PlanOf, Working
    <3> QED
      BY <3>1, <3>2
  <2> QED
    BY <2>1 DEF Plans, PlanOf
<1>2. /\ Uncounted(OnePath)' = Uncounted(OnePath)
      /\ films[OnePath] = None => Uncounted(OnePath) = {}
  BY BystandsMoves, OnePathAssumption
<1>3. CASE /\ films[OnePath] = None
           /\ PathRevision(OnePath)' = PathRevision(OnePath) + 1
           /\ disk'[OnePath].rows = disk[OnePath].rows + 1
  <2>1. Promise!Renew
    BY <1>1, <1>2, <1>3 DEF Promise!Renew
  <2> QED
    BY <2>1 DEF Simulated, Promise!Next
<1> QED
  BY <1>1, <1>2, <1>3, StillSimulated DEF Shows
\* A new write planned on the rows its client last read, if on any.
LEMMA AskWritePlans ==
  ASSUME IInv, IInv', HInv, RInv, NEW a \in Actors, NEW k \in {"op", "call", "dry"},
         NEW e \in {NoCheck, view[ConnOf[a]].rev}, AskWrite(a, k, e)
  PROVE  RInv' /\ Simulated
<1>1. PICK w : /\ req' = [req EXCEPT ![a] = w] /\ w.pc = "checking" /\ w.kind = k
               /\ w.film = conn[ConnOf[a]].film /\ w.path = film[w.film].path
               /\ w.expected = e /\ w.film \in Films
               /\ w.plan = IF e = NoCheck THEN e ELSE view[ConnOf[a]].rows
  BY AskWriteFields
<1>2. /\ UNCHANGED <<films, lastRev, film, sess, disk, view>> /\ req[a].pc = "idle"
      /\ e = NoCheck \/ (e = view[ConnOf[a]].rev /\ view[ConnOf[a]].path = film[w.film].path)
  BY <1>1 DEF AskWrite, hostVars, CanAsk
<1>3. Works(a, w)
  <2>1. req'[a] = w
    BY <1>1 DEF IInv, TypeOK
  <2> QED
    BY <2>1, WriteWorks DEF WriteOf
<1>4. \A p \in Paths : /\ PathRevision(p)' = PathRevision(p)
                       /\ Uncounted(p)' = Uncounted(p) /\ disk'[p].rows = disk[p].rows
  <2> TAKE p \in Paths
  <2>1. Uncounted(p)' = Uncounted(p)
    <3>1. a \notin Uncounted(p)
      BY <1>2 DEF Uncounted
    <3> QED
      BY <1>1, <1>2, <1>3, <3>1, UncountedBy
  <2> QED
    BY <1>2, <2>1, CalmPaths
<1>5. /\ view[ConnOf[a]].rows \in Nat /\ view[ConnOf[a]].path \in Paths
      /\ NoCheck \notin Nat
  BY ActorConn DEF IInv, TypeOK, NoCheck
<1>6. w.plan # NoCheck => /\ e # NoCheck /\ w.plan \in Nat /\ w.path \in Paths
                          /\ Fresh(w.path, e, w.plan)
  BY <1>1, <1>2, <1>5, ActorConn DEF RInv, ViewInv
<1>7. RInv'
  <2>1. PlanAt(w)
    BY <1>1, <1>6 DEF PlanAt
  <2>2. \A p \in Paths : Moves(p)
    BY <1>4 DEF Moves
  <2> QED
    BY <1>2, <1>3, <2>1, <2>2, PlansKeep DEF HInv
<1>8. Simulated
  <2>1. Plans' = [Plans EXCEPT ![a] = PlanOf(w)] /\ Plans[a] = NoCheck - 1
    BY <1>2, <1>3, PlansBy DEF PlanOf
  <2>2. CASE PlanOf(w) = NoCheck - 1
    <3>1. Promise!GiveUp(a)
      BY <1>4, <2>1, <2>2, OnePathAssumption DEF Promise!GiveUp
    <3> QED
      BY <3>1 DEF Simulated, Promise!Next
  <2>3. CASE PlanOf(w) # NoCheck - 1
    <3>1. PlanOf(w) = w.plan /\ w.path = OnePath
      BY <2>3 DEF PlanOf
    <3>2. w.plan \in {NoCheck} \cup 0..disk[OnePath].rows
      <4>1. disk[OnePath].rows \in Nat
        BY OnePathAssumption DEF IInv, TypeOK
      <4> QED
        BY <1>6, <3>1, <4>1 DEF Fresh
    <3>3. Promise!Plan(a)
      BY <1>4, <2>1, <3>1, <3>2, OnePathAssumption DEF Promise!Plan
    <3> QED
      BY <3>3 DEF Simulated, Promise!Next
  <2> QED
    BY <2>2, <2>3
<1> QED
  BY <1>7, <1>8

\* What stays where no session counts and no write begins or ends.
LEMMA QuietPaths ==
  ASSUME IInv, IInv', HInv, NEW a \in Actors, WriteOf(a), ~Settle(a), UNCHANGED disk,
         NEW w, Works(a, w), w.pc \notin {"ran", "threw"}, req[a].pc \notin {"ran", "threw"}
  PROVE  \A p \in Paths : /\ PathRevision(p)' = PathRevision(p) /\ Moves(p)
                          /\ Uncounted(p)' = Uncounted(p)
<1> TAKE p \in Paths
<1>1. PathRevision(p)' = PathRevision(p)
  <2>1. \A s \in Films : sess'[s].revision = sess[s].revision
    BY WriteSessions
  <2> QED
    BY <2>1, CalmPaths DEF Works
<1>2. Uncounted(p)' = Uncounted(p)
  <2>1. a \notin Uncounted(p)
    BY DEF Uncounted
  <2> QED
    BY <2>1, UncountedBy
<1> QED
  BY <1>1, <1>2 DEF Moves

\* A write that is given up, tried or answered no longer plans on anything.
LEMMA EndingPlans ==
  ASSUME IInv, IInv', HInv, RInv, NEW a \in Actors, PlainWriteStep(a), UNCHANGED disk,
         req[a].pc \notin {"ran", "threw"},
         Done(a) \/ Journal(a, "refused") \/ Journal(a, "recorded")
  PROVE  RInv' /\ Simulated
<1>1. req[a] \in ReqType
  BY DEF IInv, TypeOK
<1>2. PICK w : req' = [req EXCEPT ![a] = w] /\ w.pc \in {"idle", "refused", "recorded"}
  <2>1. Idle.pc = "idle"
    BY DEF Idle
  <2> QED
    BY <1>1, <2>1, JournalFields DEF Done
<1>3. Works(a, w) /\ UNCHANGED view
  <2>1. req'[a] = w
    BY <1>2 DEF IInv, TypeOK
  <2> QED
    BY <2>1, WriteWorks DEF WriteOf
<1>4. \A p \in Paths : /\ PathRevision(p)' = PathRevision(p) /\ Moves(p)
                       /\ Uncounted(p)' = Uncounted(p)
  BY <1>2, <1>3, QuietPaths DEF WriteOf, Settle
<1>5. RInv'
  <2>1. PlanAt(w)
    BY <1>2 DEF PlanAt
  <2> QED
    BY <1>3, <1>4, <2>1, PlansKeep DEF HInv
<1>6. Promise!GiveUp(a)
  <2>1. Plans' = [Plans EXCEPT ![a] = NoCheck - 1]
    BY <1>2, <1>3, PlansBy DEF PlanOf
  <2> QED
    BY <1>4, <2>1, OnePathAssumption DEF Promise!GiveUp
<1>7. Simulated
  BY <1>6 DEF Simulated, Promise!Next
<1> QED
  BY <1>5, <1>7

\* A write that goes on to its snapshot or into the queue takes its plan along.
LEMMA GoingPlans ==
  ASSUME IInv, IInv', HInv, RInv, NEW a \in Actors, Checked(a) \/ Snapshotted(a),
         (Goto(a, "snapshot") /\ ~Stale(a)) \/ (Enqueue(a) /\ (Snapshotted(a) \/ ~Stale(a)))
  PROVE  RInv' /\ Simulated
<1>1. req[a].pc \in {"checking", "snapshot"} /\ UNCHANGED disk
      /\ (Snapshotted(a) => req[a].pc = "snapshot")
  BY DEF Checked, Snapshotted
<1>2. /\ req[a] \in ReqType /\ req[a].film \in Films /\ film[req[a].film].stage \in Built
      /\ req[a].path \in Paths
  BY <1>1, WriteHas DEF HInv, Working
<1>3. /\ film[req[a].film].base \in Nat /\ req[a].expected \in Int
      /\ RevisionOf(req[a].film) \in Nat
      /\ RevisionOf(req[a].film) >= film[req[a].film].base
  <2>1. film[req[a].film] \in FilmType /\ film[req[a].film].session \in Films
    BY <1>2 DEF IInv, Shape, FilmInv, TypeOK, Used
  <2>2. film[req[a].film].base \in Nat /\ sess[film[req[a].film].session].revision \in Nat
    BY <2>1 DEF IInv, TypeOK, FilmType, SessType
  <2> QED
    BY <1>2, <2>2 DEF RevisionOf, ReqType
<1>4. PICK f, g : /\ f = req[a].film /\ g = film[f].base
  OBVIOUS
<1>5. PICK w : /\ req' = [req EXCEPT ![a] = w] /\ w.kind = req[a].kind
               /\ w.path = req[a].path /\ w.plan = req[a].plan /\ w.film = f
               /\ \/ w.pc = "snapshot" /\ w.expected = req[a].expected /\ ~Stale(a)
                  \/ /\ w.pc = "queued" /\ (Snapshotted(a) \/ ~Stale(a))
                     /\ w.expected = IF req[a].expected = NoCheck THEN NoCheck
                                     ELSE req[a].expected - g
  <2>1. CASE Goto(a, "snapshot") /\ ~Stale(a)
    <3> DEFINE u == [req[a] EXCEPT !.pc = "snapshot"]
    <3>1. req' = [req EXCEPT ![a] = u]
      BY <2>1 DEF Goto
    <3>2. /\ u.pc = "snapshot" /\ u.kind = req[a].kind /\ u.path = req[a].path
          /\ u.plan = req[a].plan /\ u.film = f /\ u.expected = req[a].expected
      BY <1>2, <1>4 DEF ReqType
    <3> HIDE DEF u
    <3> QED
      BY <2>1, <3>1, <3>2
  <2>2. CASE Enqueue(a) /\ (Snapshotted(a) \/ ~Stale(a))
    BY <1>1, <1>4, <2>2, EnqueueFields DEF HInv
  <2> QED
    BY <2>1, <2>2
<1>6. Works(a, w) /\ UNCHANGED view
  <2>1. req'[a] = w
    BY <1>5 DEF IInv, TypeOK
  <2> QED
    BY <2>1, WriteWorks DEF WriteOf, PlainWriteStep
<1>7. \A p \in Paths : /\ PathRevision(p)' = PathRevision(p) /\ Moves(p)
                       /\ Uncounted(p)' = Uncounted(p)
  BY <1>1, <1>5, <1>6, QuietPaths DEF WriteOf, PlainWriteStep, Settle
<1>8. PlanAt(w)
  <2> SUFFICES ASSUME w.plan # NoCheck PROVE PlanAt(w)
    BY DEF PlanAt
  <2>1. /\ req[a].expected # NoCheck /\ req[a].plan \in Nat
        /\ req[a].pc = "snapshot" => req[a].expected >= film[req[a].film].base
        /\ Fresh(req[a].path, Planned(a), req[a].plan)
    BY <1>1, <1>5 DEF RInv, PlanInv
  <2>2. Planned(a) = req[a].expected
    BY <1>1 DEF Planned
  <2>3. req[a].expected >= g /\ g \in Nat
    BY <1>1, <1>3, <1>4, <1>5, <2>1 DEF Stale
  <2>4. CASE w.pc = "snapshot"
    BY <1>2, <1>4, <1>5, <2>1, <2>2, <2>3, <2>4 DEF PlanAt
  <2>5. CASE w.pc = "queued"
    <3>1. w.expected = req[a].expected - g
      BY <1>5, <2>1, <2>5
    <3>2. w.expected # NoCheck /\ w.expected + g = req[a].expected
      BY <1>3, <2>3, <3>1 DEF NoCheck
    <3> QED
      BY <1>2, <1>4, <1>5, <2>1, <2>2, <2>5, <3>2 DEF PlanAt
  <2> QED
    BY <1>5, <2>4, <2>5
<1>9. RInv'
  BY <1>6, <1>7, <1>8, PlansKeep DEF HInv
<1>10. UNCHANGED Plans
  <2>1. PlanOf(w) = PlanOf(req[a])
    BY <1>1, <1>5 DEF PlanOf
  <2>2. Plans' = [Plans EXCEPT ![a] = PlanOf(w)] /\ Plans[a] = PlanOf(req[a])
    BY <1>6, PlansBy
  <2> QED
    BY <2>1, <2>2 DEF Plans
<1>11. Simulated
  BY <1>1, <1>7, <1>10, OnePathAssumption, StillSimulated
<1> QED
  BY <1>9, <1>11
\* A write at the head of the queue of its film's session is alone with the rows.
LEMMA NobodyElse ==
  ASSUME IInv, HInv, NEW a \in Actors, AtHead(a)
  PROVE  Uncounted(req[a].path) = {}
<1>1. req[a].pc = "queued" /\ req[a].ticket = sess[req[a].sess].served
  BY DEF AtHead
<1>2. /\ req[a].sess \in Films /\ req[a].path \in Paths
      /\ req[a].sess = film[req[a].film].session /\ films[req[a].path] = req[a].film
  BY <1>1, WriteHas DEF HInv, Working
<1> SUFFICES ASSUME NEW b \in Uncounted(req[a].path) PROVE FALSE
  OBVIOUS
<1>3. /\ b \in Actors /\ req[b].pc \in {"ran", "threw"} /\ req[b].film = req[a].film
  BY <1>2, UncountedHas DEF HInv
<1>4. req[b].sess = req[a].sess
  BY <1>2, <1>3, WriteHas DEF HInv, Working
<1>5. a \in InQueue(req[a].sess) /\ b \in InQueue(req[a].sess)
  BY <1>1, <1>3, <1>4 DEF InQueue, Ticketed, Begun
<1>6. req[b].ticket = req[a].ticket
  BY <1>1, <1>2, <1>3, <1>5 DEF HInv, WInv, TicketInv, Begun
<1> QED
  BY <1>1, <1>2, <1>3, <1>5, <1>6 DEF HInv, WInv, TicketInv

\* A write begins on the rows it was planned on, whatever closed and reopened since.
LEMMA RunPlans ==
  ASSUME IInv, IInv', HInv, RInv, NEW a \in Actors, Commit(a) \/ RunInVain(a)
  PROVE  RInv' /\ Simulated
<1>1. /\ AtHead(a) /\ req[a].pc = "queued" /\ ~StaleInQueue(a)
      /\ req[a].kind \in {"op", "call", "saveAs"}
      /\ UNCHANGED <<films, lastRev, film, sess>>
      /\ \E pc \in {"ran", "threw"} : Goto(a, pc)
  BY DEF Commit, RunInVain, AtHead, hostVars
<1>2. /\ req[a] \in ReqType /\ req[a].kind \in {"op", "call"} /\ req[a].film \in Films
      /\ req[a].sess \in Films /\ req[a].sess = film[req[a].film].session
      /\ req[a].path \in Paths /\ sess[req[a].sess].path = req[a].path
      /\ films[req[a].path] = req[a].film /\ req[a].film # None
  BY <1>1, WriteHas, NotNone DEF HInv, Working
<1>3. PICK p : p = req[a].path
  OBVIOUS
<1>4. PICK w : /\ req' = [req EXCEPT ![a] = w] /\ w.pc \in {"ran", "threw"}
               /\ w.sess = req[a].sess
  BY <1>1, <1>2, GotoFields
<1>5. Works(a, w) /\ UNCHANGED view
  <2>1. req'[a] = w
    BY <1>4 DEF IInv, TypeOK
  <2> QED
    BY <2>1, WriteWorks DEF WriteOf, PlainWriteStep
<1>6. /\ disk'[p].rows \in {disk[p].rows, disk[p].rows + 1}
      /\ \A q \in Paths \ {p} : disk'[q].rows = disk[q].rows
  <2>1. CASE Commit(a)
    <3> DEFINE d == [disk[p] EXCEPT !.rows = @ + 1]
    <3>1. disk' = [disk EXCEPT ![p] = d]
      BY <1>3, <2>1 DEF Commit
    <3>2. d.rows = disk[p].rows + 1
      BY <1>2, <1>3 DEF IInv, TypeOK
    <3> HIDE DEF d
    <3> QED
      BY <1>2, <1>3, <3>1, <3>2 DEF IInv, TypeOK
  <2>2. CASE RunInVain(a)
    BY <2>2 DEF RunInVain
  <2> QED
    BY <2>1, <2>2
<1>7. \A q \in Paths : PathRevision(q)' = PathRevision(q)
  BY <1>1, CalmPaths
<1>8. Uncounted(p) = {} /\ Uncounted(p)' = {a}
      /\ \A q \in Paths \ {p} : Uncounted(q)' = Uncounted(q)
  <2>1. Uncounted(p) = {}
    BY <1>1, <1>3, NobodyElse
  <2>2. ASSUME NEW q \in Paths
        PROVE  Uncounted(q)' = IF q = p THEN Uncounted(q) \cup {a} ELSE Uncounted(q) \ {a}
    <3>1. w.sess = req[a].sess /\ w.sess \in Films /\ sess[w.sess].path = p
      BY <1>2, <1>3, <1>4
    <3> QED
      BY <1>4, <1>5, <3>1, UncountedBy
  <2>3. \A q \in Paths : a \notin Uncounted(q)
    BY <1>1 DEF Uncounted
  <2>4. Uncounted(p)' = Uncounted(p) \cup {a}
    BY <1>2, <1>3, <2>2
  <2>5. ASSUME NEW q \in Paths \ {p}
        PROVE  Uncounted(q)' = Uncounted(q)
    BY <2>2, <2>3
  <2> QED
    BY <2>1, <2>4, <2>5
<1>9. RInv'
  <2>1. PlanAt(w)
    BY <1>4 DEF PlanAt
  <2>2. \A q \in Paths : Moves(q)
    <3> TAKE q \in Paths
    <3>1. CASE q = p
      BY <1>6, <1>7, <1>8, <3>1 DEF Moves
    <3>2. CASE q # p
      BY <1>6, <1>7, <1>8, <3>2 DEF Moves
    <3> QED
      BY <3>1, <3>2
  <2> QED
    BY <1>5, <2>1, <2>2, PlansKeep DEF HInv
<1>10. Plans' = [Plans EXCEPT ![a] = NoCheck - 1] /\ Plans[a] = PlanOf(req[a])
  <2>1. PlanOf(w) = NoCheck - 1
    BY <1>4 DEF PlanOf
  <2> QED
    BY <1>5, <2>1, PlansBy
<1>11. CASE p # OnePath
  <2>1. Promise!GiveUp(a)
    BY <1>6, <1>7, <1>8, <1>10, <1>11, OnePathAssumption DEF Promise!GiveUp
  <2> QED
    BY <1>9, <2>1 DEF Simulated, Promise!Next
<1>12. CASE p = OnePath
  <2>1. Plans[a] = req[a].plan
    BY <1>1, <1>2, <1>3, <1>10, <1>12 DEF PlanOf
  <2>2. req[a].plan # NoCheck => req[a].plan = disk[p].rows
    <3> SUFFICES ASSUME req[a].plan # NoCheck PROVE req[a].plan = disk[p].rows
      OBVIOUS
    <3>1. req[a].expected # NoCheck /\ Fresh(p, Planned(a), req[a].plan)
      BY <1>1, <1>3 DEF RInv, PlanInv
    <3>2. Planned(a) = sess[req[a].sess].revision + film[req[a].film].base
      BY <1>1, <3>1 DEF Planned, StaleInQueue
    <3>3. PathRevision(p) = film[req[a].film].base + sess[req[a].sess].revision
      BY <1>2, <1>3 DEF PathRevision, RevisionOf
    <3>4. film[req[a].film].base \in Nat /\ sess[req[a].sess].revision \in Nat
      BY <1>2 DEF IInv, TypeOK, FilmType, SessType
    <3>5. Planned(a) = PathRevision(p)
      BY <3>2, <3>3, <3>4
    <3> QED
      BY <1>8, <3>1, <3>5 DEF Fresh
  <2>3. Promise!Change(a)
    BY <1>6, <1>7, <1>8, <1>10, <1>12, <2>1, <2>2, OnePathAssumption DEF Promise!Change
  <2> QED
    BY <1>9, <2>3 DEF Simulated, Promise!Next
<1> QED
  BY <1>11, <1>12

\* The session counts the change under the film's path, and under no other.
LEMMA SettlePaths ==
  ASSUME IInv, HInv, NEW a \in Actors, Settle(a), NEW p, p = req[a].path
  PROVE  /\ PathRevision(p)' = PathRevision(p) + 1
         /\ \A q \in Paths \ {p} : PathRevision(q)' = PathRevision(q)
<1>1. req[a].pc \in {"ran", "threw"} /\ UNCHANGED <<films, lastRev, film>>
  BY DEF Settle, hostVars
<1>2. /\ req[a].film \in Films /\ req[a].sess \in Films /\ req[a].film # None
      /\ req[a].sess = film[req[a].film].session /\ sess[req[a].sess].path = req[a].path
      /\ films[req[a].path] = req[a].film
  BY <1>1, WriteHas, NotNone DEF HInv, Working
<1>3. \A t \in Films : sess'[t].revision = IF t = req[a].sess THEN sess[t].revision + 1
                                           ELSE sess[t].revision
  BY <1>2, SettleSessions
<1>4. PathRevision(p)' = PathRevision(p) + 1
  <2>1. PICK f, s, b, r : /\ f = req[a].film /\ s = req[a].sess
                          /\ b = film[f].base /\ r = sess[s].revision
    OBVIOUS
  <2>2. PathRevision(p) = b + r
    BY <1>2, <2>1 DEF PathRevision, RevisionOf
  <2>3. PathRevision(p)' = b + (r + 1)
    BY <1>1, <1>2, <1>3, <2>1 DEF PathRevision, RevisionOf
  <2>4. b \in Nat /\ r \in Nat
    BY <1>2, <2>1 DEF IInv, TypeOK, FilmType, SessType
  <2> QED
    BY <2>2, <2>3, <2>4
<1>5. ASSUME NEW q \in Paths \ {p}
      PROVE  PathRevision(q)' = PathRevision(q)
  <2>1. CASE films[q] = None
    BY <1>1, <2>1 DEF PathRevision
  <2>2. CASE films[q] # None
    <3>1. PICK f : /\ f = films[q] /\ f \in Films /\ film[f].stage \in Built
                   /\ film[f].path = q /\ film[f].session \in Films
      BY <2>2, PathHas
    <3>2. film[f].session # req[a].sess
      BY <1>2, <3>1 DEF HInv, WInv, OpenInv
    <3> QED
      BY <1>1, <1>3, <2>2, <3>1, <3>2 DEF PathRevision, RevisionOf
  <2> QED
    BY <2>1, <2>2
<1> QED
  BY <1>4, <1>5
\* A change that is counted: a new revision for the path, and nobody's plan moves.
LEMMA SettlePlans ==
  ASSUME IInv, IInv', HInv, RInv, NEW a \in Actors, Settle(a)
  PROVE  RInv' /\ Simulated
<1>1. req[a].pc \in {"ran", "threw"} /\ UNCHANGED <<films, lastRev, film, disk>>
  BY DEF Settle, hostVars
<1>2. /\ req[a] \in ReqType /\ req[a].sess \in Films /\ req[a].path \in Paths
      /\ sess[req[a].sess].path = req[a].path
  BY <1>1, WriteHas DEF HInv, Working
<1>3. PICK p : p = req[a].path
  OBVIOUS
<1>4. PICK w : req' = [req EXCEPT ![a] = w] /\ w.pc = "refreshing"
  <2> DEFINE b == IF req[a].pc = "threw" THEN Threw ELSE req[a].before
             u == [req[a] EXCEPT !.pc = "refreshing", !.before = b]
  <2>1. req' = [req EXCEPT ![a] = u]
    BY DEF Settle
  <2> HIDE DEF b
  <2>2. u.pc = "refreshing"
    BY <1>2 DEF ReqType
  <2> HIDE DEF u
  <2> QED
    BY <2>1, <2>2
<1>5. PICK v : v = req'[a] /\ Works(a, v) /\ v.pc = "refreshing" /\ v.sess = req[a].sess
  <2>1. req'[a] = w
    BY <1>4 DEF IInv, TypeOK
  <2>2. PICK v : v = req'[a] /\ Works(a, v)
    BY WriteWorks DEF WriteOf, PlainWriteStep
  <2>3. v.sess = req[a].sess
    <3> DEFINE b == IF req[a].pc = "threw" THEN Threw ELSE req[a].before
               u == [req[a] EXCEPT !.pc = "refreshing", !.before = b]
    <3>1. req' = [req EXCEPT ![a] = u]
      BY DEF Settle
    <3> HIDE DEF b
    <3>2. u.sess = req[a].sess
      BY <1>2 DEF ReqType
    <3> HIDE DEF u
    <3> QED
      BY <2>2, <3>1, <3>2 DEF IInv, TypeOK
  <2> QED
    BY <1>4, <2>1, <2>2, <2>3
<1>6. /\ PathRevision(p)' = PathRevision(p) + 1
      /\ \A q \in Paths \ {p} : PathRevision(q)' = PathRevision(q)
  BY <1>3, SettlePaths
<1>7. a \in Uncounted(p) /\ \A q \in Paths : Uncounted(q)' = Uncounted(q) \ {a}
  <2>1. a \in Uncounted(p)
    BY <1>1, <1>2, <1>3 DEF Uncounted
  <2> QED
    BY <1>2, <1>5, <2>1, UncountedBy
<1>8. \A q \in Paths \ {p} : Uncounted(q)' = Uncounted(q)
  <2>1. \A q \in Paths \ {p} : a \notin Uncounted(q)
    BY <1>2, <1>3 DEF Uncounted
  <2> QED
    BY <1>7, <2>1
<1>9. RInv'
  <2>1. PlanAt(v)
    BY <1>5 DEF PlanAt
  <2>2. \A q \in Paths : Moves(q)
    BY <1>1, <1>6, <1>8 DEF Moves
  <2>3. UNCHANGED view
    BY DEF Settle
  <2> QED
    BY <1>5, <2>1, <2>2, <2>3, PlansKeep DEF HInv
<1>10. UNCHANGED Plans
  <2>1. PlanOf(v) = PlanOf(req[a])
    BY <1>1, <1>5 DEF PlanOf
  <2>2. Plans' = [Plans EXCEPT ![a] = PlanOf(v)] /\ Plans[a] = PlanOf(req[a])
    BY <1>5, PlansBy
  <2> QED
    BY <2>1, <2>2 DEF Plans
<1>11. CASE p = OnePath
  <2>1. Promise!Count(a)
    BY <1>1, <1>6, <1>7, <1>10, <1>11, OnePathAssumption DEF Promise!Count
  <2> QED
    BY <1>9, <2>1 DEF Simulated, Promise!Next
<1>12. CASE p # OnePath
  BY <1>1, <1>6, <1>8, <1>9, <1>10, <1>12, OnePathAssumption, StillSimulated
<1> QED
  BY <1>11, <1>12

\* Where nobody else edits the files, every step keeps what clients know of the
\* rows, and is a step of the promise.
LEMMA StepKeepsPromise ==
  ASSUME OneAtATime, MaxOutside = 0, IInv, IInv', HInv, RInv, [Next]_vars
  PROVE  RInv' /\ Simulated
<1>1. CASE BystandStep
  <2>1. \A p \in Paths : ~OutsideEdit(p)
    BY DEF OutsideEdit, IInv, TypeOK
  <2>2. /\ Bystands /\ \A p \in Paths : Shows(p)
        /\ \A c \in Conns : view'[c] = view[c] \/ Sees(c)
    BY <1>1, <2>1, BystandStepDoes DEF HInv
  <2> QED
    BY <2>2, BystandsPlans, BystandsSimulated, OnePathAssumption DEF HInv
<1>2. ASSUME NEW a \in Actors, PlainWriteStep(a)
      PROVE  RInv' /\ Simulated
  <2>1. CASE Commit(a) \/ RunInVain(a)
    BY <2>1, RunPlans
  <2>2. CASE Settle(a)
    BY <2>2, SettlePlans
  <2>3. CASE (Checked(a) \/ Snapshotted(a)) /\ ~Done(a)
    <3>1. (Goto(a, "snapshot") /\ ~Stale(a)) \/ (Enqueue(a) /\ (Snapshotted(a) \/ ~Stale(a)))
      BY <2>3 DEF Checked, Snapshotted
    <3> QED
      BY <2>3, <3>1, GoingPlans
  <2>4. CASE \/ (Checked(a) /\ Done(a)) \/ SnapshotFails(a) \/ RefuseInQueue(a)
             \/ DryRun(a) \/ FinishWrite(a) \/ Announce(a)
    <3>1. /\ UNCHANGED disk /\ req[a].pc \notin {"ran", "threw"}
          /\ Done(a) \/ Journal(a, "refused") \/ Journal(a, "recorded")
      BY <2>4 DEF Checked, SnapshotFails, RefuseInQueue, DryRun, FinishWrite, Announce, AtHead
    <3> QED
      BY <1>2, <3>1, EndingPlans
  <2>5. CASE Snapshotted(a) /\ Done(a)
    <3>1. req[a].pc = "snapshot" /\ UNCHANGED disk
      BY <2>5 DEF Snapshotted
    <3> QED
      BY <1>2, <2>5, <3>1, EndingPlans
  <2> QED
    BY <1>2, <2>1, <2>2, <2>3, <2>4, <2>5 DEF PlainWriteStep
<1>3. CASE ~BystandStep
  BY <1>2, <1>3, PlainNext, AskWritePlans DEF HInv
<1> QED
  BY <1>1, <1>3

LEMMA PromiseInit == Init => RInv /\ Promise!Init
<1> SUFFICES ASSUME Init PROVE RInv /\ Promise!Init
  OBVIOUS
<1>1. /\ films = [p \in Paths |-> None] /\ lastRev = [p \in Paths |-> 0]
      /\ disk = [p \in Paths |-> [exists |-> p \in Present, rows |-> 0]]
      /\ req = [a \in Actors |-> Idle]
      /\ view = [c \in Conns |-> [path |-> CHOOSE p \in Paths : TRUE,
                                  rev |-> NoCheck, rows |-> 0]]
  BY DEF Init
<1>2. Idle.pc = "idle"
  BY DEF Idle
<1>3. RInv
  BY <1>1, <1>2 DEF RInv, ViewInv, PlanInv
<1>4. PathRevision(OnePath) = 0 /\ disk[OnePath].rows = 0
  BY <1>1, OnePathAssumption DEF PathRevision
<1>5. Plans = [a \in Actors |-> NoCheck - 1] /\ Uncounted(OnePath) = {}
  BY <1>1, <1>2 DEF Plans, Uncounted
<1> QED
  BY <1>3, <1>4, <1>5 DEF Promise!Init

\* The host keeps the promise of OptimisticFilm where each connection makes one
\* request at a time and nobody else edits the files: every change of a film is
\* counted before the next begins, and a write that names the revision its client
\* read begins only on the rows that client read, though the film was closed,
\* reopened and migrated in between (core.ts:230-243, 483-553).
THEOREM PromiseTheorem == OneAtATime /\ MaxOutside = 0 => (Spec => KeepsItsPromise)
<1> SUFFICES ASSUME OneAtATime, MaxOutside = 0 PROVE Spec => KeepsItsPromise
  OBVIOUS
<1>1. Init => IInv /\ HInv /\ RInv /\ Promise!Init
  BY InitHolds, WritesInit, PromiseInit
<1>2. IInv /\ HInv /\ RInv /\ [Next]_vars => IInv' /\ HInv' /\ RInv'
  BY NextKeeps, WritesNext, StepKeepsPromise
<1>3. IInv /\ HInv /\ RInv /\ [Next]_vars => [Promise!Next]_(Promise!vars)
  BY NextKeeps, StepKeepsPromise DEF Simulated
<1> QED
  BY <1>1, <1>2, <1>3, PTL DEF Spec, KeepsItsPromise, Promise!Spec

=============================================================================
