--------------------------- MODULE FilmHostProofs ---------------------------
(***************************************************************************)
(* FilmHost, for every set of connections, requests and paths and every    *)
(* bound: a file has one film, whatever opens and closes overlap, and only *)
(* a reload brings the revision of a path down.                            *)
(***************************************************************************)
EXTENDS FilmHost, FiniteSetTheorems, TLAPS

Built   == {"open", "draining", "closing", "closed"}
Openers == {"open", "create", "saveAs", "reload"}

\* The requests that go on with a film and a session they have found.
Working == {"checking", "snapshot", "queued", "ran", "threw", "refreshing",
            "refused", "recorded", "reloading", "reopening"}

Used    == {s \in Films : sess[s].stage # "none"}
Pending == {a \in Actors : req[a].kind \in Openers}

\* A film is in the map while it is open, and among the openings while it is
\* built, which some request does; once built it has a session of its own.
FilmInv ==
  \A f \in Films :
    /\ film[f].stage \in Built => film[f].session \in Used
    /\ film[f].stage = "open" => films[film[f].path] = f
    /\ film[f].stage = "building" =>
         /\ opening[film[f].path] = f
         /\ \E a \in Actors : req[a].pc = "building" /\ req[a].film = f

SessionInv ==
  \A f, g \in Films :
    /\ film[f].stage \in Built /\ film[g].stage \in Built
    /\ film[f].session = film[g].session
    => f = g

PathInv ==
  \A p \in Paths :
    /\ films[p] # None => film[films[p]].stage = "open" /\ film[films[p]].path = p
    /\ opening[p] # None =>
         /\ film[opening[p]].stage = "building" /\ film[opening[p]].path = p
         /\ films[p] = None

\* A connection is counted by the film it is on.
ConnInv ==
  \A c \in Conns : conn[c].film # None =>
    film[conn[c].film].stage = "open" /\ c \in film[conn[c].film].clients

RequestAt(w) ==
  /\ w.pc \in {"building", "joining"} =>
       /\ w.kind \in {"open", "create", "saveAs"}
       /\ w.film # None /\ film[w.film].stage = "building"
       /\ film[w.film].path = w.path
  /\ w.pc \in Working =>
       /\ w.film # None /\ film[w.film].stage \in Built
       /\ w.sess \in Used
  /\ w.pc \in {"reloading", "reopening"} =>
       w.kind = "reload" /\ film[w.film].path = w.path /\ w.before \in Nat

RequestInv == \A a \in Actors : RequestAt(req[a])

\* Room is left for a session to every request that will open one.
RoomInv == Cardinality(Used) + Cardinality(Pending) <= MaxFilms

Shape == FilmInv /\ SessionInv /\ PathInv /\ ConnInv /\ RequestInv

IInv == TypeOK /\ Shape /\ RoomInv

-----------------------------------------------------------------------------
(* Records and revisions *)

LEMMA RecordTypes ==
  /\ Idle \in ReqType /\ NoFilm \in FilmType /\ NoSession \in SessType
  /\ (CHOOSE p \in Paths : TRUE) \in Paths
<1>1. (CHOOSE p \in Paths : TRUE) \in Paths
  BY FilmHostAssumption
<1>2. Idle \in ReqType
  BY <1>1 DEF Idle, ReqType, None, NoCheck
<1>3. NoFilm \in FilmType
  BY <1>1 DEF NoFilm, FilmType, None
<1>4. NoSession \in SessType
  BY <1>1 DEF NoSession, SessType, NotClosed
<1> QED
  BY <1>1, <1>2, <1>3, <1>4

LEMMA RevisionIsNat ==
  ASSUME TypeOK, FilmInv, NEW f \in Films, film[f].stage \in Built
  PROVE  /\ film[f].session \in Films
         /\ film[f].base \in Nat /\ sess[film[f].session].revision \in Nat
         /\ RevisionOf(f) \in Nat
<1>1. film[f].session \in Films /\ film[f].base \in Nat
  BY DEF FilmInv, Used, TypeOK, FilmType
<1>2. sess[film[f].session].revision \in Nat
  BY <1>1 DEF TypeOK, SessType
<1> QED
  BY <1>1, <1>2 DEF RevisionOf

LEMMA NotNone ==
  ASSUME NEW f \in Films
  PROVE  f # None
BY DEF Films, None

LEMMA HigherIsNat ==
  ASSUME NEW m \in Nat, NEW n \in Nat
  PROVE  Higher(m, n) \in Nat
BY DEF Higher

-----------------------------------------------------------------------------
(* There is room *)

LEMMA UsedPending ==
  ASSUME NEW n \in Nat, MaxFilms = n
  PROVE  /\ IsFiniteSet(Films) /\ Cardinality(Films) = MaxFilms
         /\ IsFiniteSet(Used) /\ IsFiniteSet(Pending)
         /\ Cardinality(Used) \in Nat /\ Cardinality(Pending) \in Nat
<1>1. IsFiniteSet(Films) /\ Cardinality(Films) = MaxFilms
  BY FS_Interval DEF Films
<1>2. IsFiniteSet(Used)
  BY <1>1, FS_Subset DEF Used
<1>3. IsFiniteSet(Pending)
  BY FilmHostAssumption, FS_Subset DEF Pending
<1> QED
  BY <1>1, <1>2, <1>3, FS_CardinalityType

\* A request that is to open a session finds one free ...
LEMMA FreeSession ==
  ASSUME TypeOK, RoomInv, NEW a \in Pending
  PROVE  NewSession \in Films /\ sess[NewSession].stage = "none"
<1>0. MaxFilms \in Nat
  BY FilmHostAssumption
<1>1. Cardinality(Pending) # 0
  BY <1>0, UsedPending, FS_EmptySet
<1>2. Cardinality(Used) < MaxFilms
  BY <1>0, <1>1, UsedPending DEF RoomInv
<1>3. Used # Films
  BY <1>0, <1>2, UsedPending
<1> QED
  BY <1>3 DEF Used, NewSession

\* ... and a request that is to build a film finds one free: each built film has
\* a session of its own, and each that is being built a request of its own.
LEMMA FreeFilm ==
  ASSUME IInv, NEW a \in Pending, req[a].pc # "building"
  PROVE  NewFilm \in Films /\ film[NewFilm].stage = "none"
<1> DEFINE Standing == {f \in Films : film[f].stage \in Built}
           Rising   == {f \in Films : film[f].stage = "building"}
           builder  == [f \in Rising |->
                          CHOOSE b \in Actors : req[b].pc = "building" /\ req[b].film = f]
           session  == [f \in Standing |-> film[f].session]
           Others   == Pending \ {a}
<1>0. MaxFilms \in Nat
  BY FilmHostAssumption
<1>1. IsFiniteSet(Standing) /\ Cardinality(Standing) <= Cardinality(Used)
  <2>1. session \in Injection(Standing, Used)
    BY Zenon DEF IInv, Shape, FilmInv, SessionInv, Injection, IsInjective
  <2> QED
    BY <1>0, <2>1, UsedPending, FS_Injection
<1>2. /\ IsFiniteSet(Others) /\ Cardinality(Others) = Cardinality(Pending) - 1
      /\ Cardinality(Others) \in Nat
  BY <1>0, UsedPending, FS_RemoveElement, FS_CardinalityType
<1>3. IsFiniteSet(Rising) /\ Cardinality(Rising) <= Cardinality(Others)
  <2>1. \A f \in Rising : /\ builder[f] \in Actors /\ req[builder[f]].pc = "building"
                          /\ req[builder[f]].film = f
    BY DEF IInv, Shape, FilmInv
  <2>2. \A f \in Rising : builder[f] \in Others
    BY <2>1 DEF IInv, Shape, RequestInv, RequestAt, Pending, Openers
  <2>3. builder \in Injection(Rising, Others)
    <3>1. builder \in [Rising -> Others]
      BY <2>2
    <3> HIDE DEF Others, builder, Rising
    <3>2. \A f, g \in Rising : builder[f] = builder[g] => f = g
      BY <2>1
    <3> QED
      BY <3>1, <3>2, Zenon DEF Injection, IsInjective
  <2> QED
    BY <1>2, <2>3, FS_Injection
<1>4. Cardinality(Standing \cup Rising) < MaxFilms
  <2>1. /\ Cardinality(Standing \cup Rising)
             = Cardinality(Standing) + Cardinality(Rising) - Cardinality(Standing \cap Rising)
        /\ IsFiniteSet(Standing \cap Rising)
    BY <1>1, <1>3, FS_Union, FS_Intersection
  <2>2. /\ Cardinality(Standing) \in Nat /\ Cardinality(Rising) \in Nat
        /\ Cardinality(Standing \cap Rising) \in Nat
    BY <1>1, <1>3, <2>1, FS_CardinalityType
  <2> QED
    BY <1>0, <1>1, <1>2, <1>3, <2>1, <2>2, UsedPending DEF IInv, RoomInv
<1>5. PICK f \in Films : f \notin Standing \cup Rising
  BY <1>0, <1>4, UsedPending
<1>6. film[f].stage = "none"
  BY <1>5 DEF IInv, TypeOK, FilmType, Built
<1> QED
  BY <1>6 DEF NewFilm

-----------------------------------------------------------------------------
(* What most steps leave alone *)

\* Films are where they were, as far as a request can tell.
Steady ==
  \A f \in Films :
    /\ film'[f].path = film[f].path
    /\ film'[f].stage \in Built <=> film[f].stage \in Built
    /\ film'[f].stage = "building" <=> film[f].stage = "building"

LEMMA KeepsRequests ==
  ASSUME TypeOK, RequestInv, Steady, Used \subseteq Used',
         NEW a \in Actors, NEW w \in ReqType, RequestAt(w),
         req' = [req EXCEPT ![a] = w]
  PROVE  /\ req' \in [Actors -> ReqType] /\ RequestInv'
         /\ req'[a] = w /\ \A b \in Actors \ {a} : req'[b] = req[b]
<1>1. /\ req' \in [Actors -> ReqType]
      /\ req'[a] = w /\ \A b \in Actors \ {a} : req'[b] = req[b]
  BY DEF TypeOK
<1>2. \A b \in Actors : req'[b] \in ReqType /\ RequestAt(req'[b])
  BY <1>1 DEF RequestInv
<1>3. ASSUME NEW b \in Actors
      PROVE  RequestAt(req[b])'
  <2>1. /\ RequestAt(req'[b])
        /\ req'[b].film # None => req'[b].film \in Films
    BY <1>2 DEF ReqType
  <2>2. req'[b].pc \in {"reloading", "reopening"} => req'[b].pc \in Working
    BY DEF Working
  <2> QED
    BY <2>1, <2>2 DEF RequestAt, Steady
<1> QED
  BY <1>1, <1>3 DEF RequestInv

LEMMA KeepsRoom ==
  ASSUME TypeOK, RoomInv, Used' = Used, NEW a \in Actors, NEW w \in ReqType,
         req' = [req EXCEPT ![a] = w],
         w.kind \in Openers => req[a].kind \in Openers \/ Room
  PROVE  RoomInv'
<1>0. MaxFilms \in Nat
  BY FilmHostAssumption
<1>1. Pending' \subseteq Pending \cup {a}
  BY DEF TypeOK, Pending
<1>2. IsFiniteSet(Pending') /\ Cardinality(Pending') \in Nat
  BY <1>0, <1>1, UsedPending, FS_AddElement, FS_Subset, FS_CardinalityType
<1>3. CASE Pending' \subseteq Pending
  <2>1. Cardinality(Pending') <= Cardinality(Pending)
    BY <1>0, <1>3, UsedPending, FS_Subset
  <2> QED
    BY <1>0, <1>2, <2>1, UsedPending DEF RoomInv
<1>4. CASE ~(Pending' \subseteq Pending)
  <2>1. Room
    BY <1>1, <1>4 DEF TypeOK, Pending
  <2>2. Cardinality(Used) + Cardinality(Pending) < MaxFilms
    BY <2>1 DEF Room, Used, Pending, Openers
  <2>3. Cardinality(Pending \cup {a}) <= Cardinality(Pending) + 1
    <3>1. Cardinality(Pending \cup {a}) =
            IF a \in Pending THEN Cardinality(Pending) ELSE Cardinality(Pending) + 1
      BY <1>0, UsedPending, FS_AddElement
    <3> QED
      BY <1>0, <3>1, UsedPending
  <2>4. Cardinality(Pending') <= Cardinality(Pending \cup {a})
    BY <1>0, <1>1, UsedPending, FS_AddElement, FS_Subset
  <2>5. Cardinality(Pending \cup {a}) \in Nat
    BY <1>0, UsedPending, FS_AddElement, FS_CardinalityType
  <2> QED
    BY <1>0, <1>2, <2>2, <2>3, <2>4, <2>5, UsedPending DEF RoomInv
<1> QED
  BY <1>3, <1>4

\* A step of one request that moves no film and no connection.
LEMMA OneRequest ==
  ASSUME IInv, UNCHANGED <<films, opening, film>>, Used' = Used,
         \A c \in Conns : conn'[c].film = conn[c].film,
         NEW a \in Actors, NEW w \in ReqType, RequestAt(w),
         req[a].pc # "building", req' = [req EXCEPT ![a] = w],
         w.kind \in Openers => req[a].kind \in Openers \/ Room
  PROVE  req' \in [Actors -> ReqType] /\ Shape' /\ RoomInv'
<1> USE DEF IInv, Shape
<1>1. Steady
  BY DEF Steady
<1>2. /\ req' \in [Actors -> ReqType] /\ RequestInv'
      /\ \A b \in Actors \ {a} : req'[b] = req[b]
  BY <1>1, KeepsRequests
<1>3. RoomInv'
  BY KeepsRoom
<1>4. FilmInv'
  BY <1>2 DEF FilmInv
<1>5. SessionInv' /\ PathInv'
  BY DEF SessionInv, PathInv
<1>6. ConnInv'
  BY DEF ConnInv
<1> QED
  BY <1>2, <1>3, <1>4, <1>5, <1>6

\* A step of one session that neither makes it nor takes it away.
LEMMA OneSession ==
  ASSUME TypeOK, NEW s \in Films, NEW t \in SessType,
         sess' = [sess EXCEPT ![s] = t],
         t.stage = "none" <=> sess[s].stage = "none"
  PROVE  Used' = Used /\ sess' \in [Films -> SessType]
BY DEF TypeOK, Used

LEMMA SameSessions == UNCHANGED sess => Used' = Used
BY DEF Used

-----------------------------------------------------------------------------
(* Leaving, attaching, telling *)

LEMMA TellType ==
  ASSUME TypeOK, NEW told, NEW p \in Paths, NEW r \in Nat, Tell(told, p, r)
  PROVE  /\ conn' \in [Conns -> ConnType] /\ given' \in [Paths -> Nat]
         /\ \A c \in Conns : conn'[c].film = conn[c].film /\ conn'[c].live = conn[c].live
<1>1. given' \in [Paths -> Nat]
  BY HigherIsNat DEF Tell, TypeOK
<1>2. ASSUME NEW c \in Conns
      PROVE  /\ conn'[c] \in ConnType
             /\ conn'[c].film = conn[c].film /\ conn'[c].live = conn[c].live
  BY HigherIsNat DEF Tell, TypeOK, ConnType
<1>3. conn' = [c \in Conns |-> conn'[c]]
  BY DEF Tell
<1> QED
  BY <1>1, <1>2, <1>3

LEMMA LeaveType ==
  ASSUME TypeOK, FilmInv, ConnInv, NEW c \in Conns, NEW live \in BOOLEAN, Leave(c, live)
  PROVE  /\ conn' \in [Conns -> ConnType] /\ film' \in [Films -> FilmType]
         /\ films' \in [Paths -> Films \cup {None}] /\ lastRev' \in [Paths -> Nat]
         /\ LeftBehind(c) \in Films \cup {None}
         /\ Steady
<1> DEFINE f == conn[c].film
           last == f # None /\ Remaining(f, c) = {}
<1>1. conn' \in [Conns -> ConnType] /\ f \in Films \cup {None}
  <2> DEFINE w == [conn[c] EXCEPT !.film = None, !.live = live]
  <2>1. conn' = [conn EXCEPT ![c] = w]
    BY DEF Leave
  <2>2. conn[c] \in ConnType
    BY DEF TypeOK
  <2>3. w \in ConnType /\ f \in Films \cup {None}
    BY <2>2 DEF ConnType
  <2> HIDE DEF w
  <2> QED
    BY <2>1, <2>3 DEF TypeOK
<1>2. LeftBehind(c) \in Films \cup {None}
  BY <1>1 DEF LeftBehind
<1>3. CASE f = None
  BY <1>1, <1>2, <1>3 DEF Leave, TypeOK, Steady
<1>4. CASE f # None
  <2>1. f \in Films /\ film[f].stage = "open"
    BY <1>1, <1>4 DEF ConnInv
  <2>2. film[f] \in FilmType /\ film[f].path \in Paths
    BY <2>1 DEF TypeOK, FilmType
  <2> DEFINE g == [film[f] EXCEPT !.clients = Remaining(f, c),
                                  !.stage = IF last /\ @ = "open" THEN "draining" ELSE @]
  <2>3. film' = [film EXCEPT ![f] = g]
    BY <1>4 DEF Leave
  <2>4. /\ g \in FilmType /\ g.path = film[f].path
        /\ g.stage \in Built /\ g.stage # "building"
    BY <2>1, <2>2 DEF FilmType, Remaining, Built
  <2>5. film' \in [Films -> FilmType] /\ Steady
    <3> HIDE DEF g
    <3> QED
      BY <2>1, <2>3, <2>4 DEF TypeOK, Steady, Built
  <2>6. films' \in [Paths -> Films \cup {None}]
    BY <1>4, <2>2 DEF Leave, TypeOK
  <2>7. RevisionToKeep(f) \in Nat
    BY <2>1, RevisionIsNat DEF RevisionToKeep, Built
  <2>8. lastRev' \in [Paths -> Nat]
    BY <1>4, <2>2, <2>7 DEF Leave, TypeOK
  <2> QED
    BY <1>1, <1>2, <2>5, <2>6, <2>8
<1> QED
  BY <1>3, <1>4

\* The last one out takes the film out of the map, and nobody else was on it.
LEMMA LeaveShape ==
  ASSUME TypeOK, Shape, NEW c \in Conns, NEW live \in BOOLEAN, Leave(c, live),
         opening' = opening, Used' = Used,
         \A b \in Actors : req[b].pc = "building" =>
            req'[b].pc = "building" /\ req'[b].film = req[b].film
  PROVE  FilmInv' /\ SessionInv' /\ PathInv' /\ ConnInv'
<1> USE DEF Shape
<1> DEFINE f == conn[c].film
           last == f # None /\ Remaining(f, c) = {}
<1>0. /\ \A d \in Conns \ {c} : conn'[d] = conn[d]
      /\ conn'[c].film = None
      /\ \A d \in Conns : conn[d].film \in Films \cup {None}
  <2>1. conn' = [conn EXCEPT ![c] = [conn[c] EXCEPT !.film = None, !.live = live]]
    BY DEF Leave
  <2>2. \A d \in Conns : conn[d] \in ConnType
    BY DEF TypeOK
  <2>3. \A d \in Conns \ {c} : conn'[d] = conn[d]
    BY <2>1 DEF TypeOK
  <2>4. conn'[c] = [conn[c] EXCEPT !.film = None, !.live = live]
    BY <2>1 DEF TypeOK
  <2>5. conn'[c].film = None
    BY <2>2, <2>4 DEF ConnType
  <2> QED
    BY <2>2, <2>3, <2>5 DEF ConnType
<1>1. CASE f = None
  <2>1. UNCHANGED <<film, films>>
    BY <1>1 DEF Leave
  <2>2. FilmInv' /\ SessionInv' /\ PathInv'
    BY <2>1 DEF FilmInv, SessionInv, PathInv
  <2>3. ConnInv'
    BY <1>0, <2>1 DEF ConnInv
  <2> QED
    BY <2>2, <2>3
<1>2. CASE f # None
  <2>1. /\ f \in Films /\ film[f].stage = "open" /\ c \in film[f].clients
        /\ films[film[f].path] = f /\ film[f].path \in Paths
    BY <1>0, <1>2 DEF ConnInv, FilmInv, TypeOK, FilmType
  <2>2. /\ \A g \in Films \ {f} : film'[g] = film[g]
        /\ film'[f].path = film[f].path /\ film'[f].session = film[f].session
        /\ film'[f].clients = film[f].clients \ {c}
        /\ film'[f].stage = IF last THEN "draining" ELSE "open"
    <3> DEFINE g == [film[f] EXCEPT !.clients = Remaining(f, c),
                       !.stage = IF last /\ @ = "open" THEN "draining" ELSE @]
    <3>1. film' = [film EXCEPT ![f] = g]
      BY <1>2 DEF Leave
    <3>2. film[f] \in FilmType
      BY <2>1 DEF TypeOK
    <3>3. /\ g.path = film[f].path /\ g.session = film[f].session
          /\ g.clients = film[f].clients \ {c}
          /\ g.stage = IF last THEN "draining" ELSE "open"
      BY <2>1, <3>2 DEF FilmType, Remaining
    <3> HIDE DEF g
    <3> QED
      BY <2>1, <3>1, <3>3 DEF TypeOK
  <2>3. /\ films'[film[f].path] = IF last THEN None ELSE f
        /\ \A p \in Paths \ {film[f].path} : films'[p] = films[p]
    BY <1>2, <2>1 DEF Leave, TypeOK
  <2>4. \A g \in Films : film[g] \in FilmType
    BY DEF TypeOK
  <2>5. FilmInv'
    <3>1. ASSUME NEW g \in Films, film'[g].stage \in Built
          PROVE  film'[g].session \in Used'
      BY <2>1, <2>2, <3>1 DEF FilmInv, Built
    <3>2. ASSUME NEW g \in Films, film'[g].stage = "open"
          PROVE  films'[film'[g].path] = g
      BY <2>1, <2>2, <2>3, <2>4, <3>2 DEF FilmInv, FilmType
    <3>3. ASSUME NEW g \in Films, film'[g].stage = "building"
          PROVE  /\ opening'[film'[g].path] = g
                 /\ \E b \in Actors : req'[b].pc = "building" /\ req'[b].film = g
      BY <2>1, <2>2, <3>3 DEF FilmInv
    <3> QED
      BY <3>1, <3>2, <3>3 DEF FilmInv
  <2>6. SessionInv'
    BY <2>1, <2>2 DEF SessionInv, Built
  <2>7. PathInv'
    <3>1. ASSUME NEW p \in Paths, films'[p] # None
          PROVE  film'[films'[p]].stage = "open" /\ film'[films'[p]].path = p
      <4>1. CASE p = film[f].path
        BY <2>1, <2>2, <2>3, <3>1, <4>1
      <4>2. CASE p # film[f].path
        <5>1. films'[p] = films[p] /\ films[p] \in Films
          BY <2>3, <3>1, <4>2 DEF TypeOK
        <5>2. film[films[p]].stage = "open" /\ film[films[p]].path = p
          BY <3>1, <5>1 DEF PathInv
        <5> QED
          BY <2>2, <4>2, <5>1, <5>2
      <4> QED
        BY <4>1, <4>2
    <3>2. ASSUME NEW p \in Paths, opening'[p] # None
          PROVE  /\ film'[opening'[p]].stage = "building"
                 /\ film'[opening'[p]].path = p /\ films'[p] = None
      BY <2>1, <2>2, <2>3, <3>2 DEF PathInv, TypeOK
    <3> QED
      BY <3>1, <3>2 DEF PathInv
  <2>8. ConnInv'
    <3>1. ASSUME NEW d \in Conns, conn'[d].film # None
          PROVE  film'[conn'[d].film].stage = "open" /\ d \in film'[conn'[d].film].clients
      <4>1. /\ d # c /\ conn'[d].film = conn[d].film /\ conn[d].film \in Films
            /\ film[conn[d].film].stage = "open" /\ d \in film[conn[d].film].clients
        BY <1>0, <3>1 DEF ConnInv
      <4>2. CASE conn[d].film = f
        BY <2>2, <4>1, <4>2 DEF Remaining
      <4>3. CASE conn[d].film # f
        BY <2>2, <4>1, <4>3
      <4> QED
        BY <4>2, <4>3
    <3> QED
      BY <3>1 DEF ConnInv
  <2> QED
    BY <2>5, <2>6, <2>7, <2>8
<1> QED
  BY <1>1, <1>2

\* The steps below all change one request, to w.
LEMMA LeaveStep ==
  ASSUME IInv, NEW c \in Conns, NEW live \in BOOLEAN, Leave(c, live),
         UNCHANGED opening, Used' = Used,
         NEW a \in Actors, NEW w \in ReqType, w.pc = "leaving" \/ w.pc = "making",
         req[a].pc # "building", req' = [req EXCEPT ![a] = w],
         w.kind \in Openers => req[a].kind \in Openers \/ Room
  PROVE  req' \in [Actors -> ReqType] /\ Shape' /\ RoomInv'
<1> USE DEF IInv, Shape
<1>1. Steady
  BY LeaveType
<1>2. RequestAt(w)
  BY DEF RequestAt, Working
<1>3. /\ req' \in [Actors -> ReqType] /\ RequestInv'
      /\ \A b \in Actors \ {a} : req'[b] = req[b]
  BY <1>1, <1>2, KeepsRequests
<1>4. \A b \in Actors : req[b].pc = "building" =>
        req'[b].pc = "building" /\ req'[b].film = req[b].film
  BY <1>3
<1>5. FilmInv' /\ SessionInv' /\ PathInv' /\ ConnInv'
  BY <1>4, LeaveShape
<1>6. RoomInv'
  BY KeepsRoom
<1> QED
  BY <1>3, <1>5, <1>6

LEMMA AttachType ==
  ASSUME TypeOK, NEW cs, NEW f \in Films, NEW r \in Nat, Attach(cs, f, r)
  PROVE  /\ conn' \in [Conns -> ConnType] /\ given' \in [Paths -> Nat]
         /\ \A c \in Conns : conn'[c].film = IF c \in cs THEN f ELSE conn[c].film
<1>1. film[f].path \in Paths
  BY DEF TypeOK, FilmType
<1>2. given' \in [Paths -> Nat]
  BY <1>1, HigherIsNat DEF Attach, TypeOK
<1>3. ASSUME NEW c \in Conns
      PROVE  /\ conn'[c] \in ConnType
             /\ conn'[c].film = IF c \in cs THEN f ELSE conn[c].film
  <2>1. conn[c] \in ConnType
    BY DEF TypeOK
  <2>2. conn'[c] = IF c \in cs THEN [conn[c] EXCEPT !.film = f, !.rev = r] ELSE conn[c]
    BY DEF Attach
  <2> QED
    BY <2>1, <2>2 DEF ConnType
<1>4. conn' = [c \in Conns |-> conn'[c]]
  BY DEF Attach
<1> QED
  BY <1>2, <1>3, <1>4

-----------------------------------------------------------------------------
(* open, create, close *)

LEMMA ActorConn ==
  ASSUME NEW a \in Actors
  PROVE  ConnOf[a] \in Conns
BY FilmHostAssumption

LEMMA OpenKeeps ==
  ASSUME IInv, NEW a \in Actors, NEW p \in Paths, Open(a, p)
  PROVE  IInv'
<1> DEFINE c == ConnOf[a]
           w == [Idle EXCEPT !.pc = "leaving", !.kind = "open", !.path = p,
                             !.film = LeftBehind(c)]
<1> USE DEF IInv, Shape
<1>1. c \in Conns /\ Leave(c, TRUE) /\ UNCHANGED <<opening, sess>>
  BY ActorConn DEF Open
<1>2. w \in ReqType /\ w.pc = "leaving"
  BY <1>1, RecordTypes, LeaveType DEF Idle, ReqType, RequestNames
<1>3. req' = [req EXCEPT ![a] = w] /\ req[a].pc = "idle" /\ Room /\ asked' \in Nat
  BY DEF Open, CanAsk, Ask, TypeOK
<1>4. req' \in [Actors -> ReqType] /\ Shape' /\ RoomInv'
  BY <1>1, <1>2, <1>3, SameSessions, LeaveStep
<1>5. TypeOK'
  BY <1>1, <1>3, <1>4, LeaveType DEF Open, TypeOK, ghosts, flags
<1> QED
  BY <1>4, <1>5

LEMMA CreateKeeps ==
  ASSUME IInv, NEW a \in Actors, NEW p \in Paths, Create(a, p)
  PROVE  IInv'
<1> DEFINE c == ConnOf[a]
           w == [Idle EXCEPT !.pc = "making", !.kind = "create", !.path = p,
                             !.film = LeftBehind(c)]
<1> USE DEF IInv, Shape
<1>1. c \in Conns /\ Leave(c, TRUE) /\ UNCHANGED <<opening, sess>>
  BY ActorConn DEF Create
<1>2. w \in ReqType /\ w.pc = "making"
  BY <1>1, RecordTypes, LeaveType DEF Idle, ReqType, RequestNames
<1>3. req' = [req EXCEPT ![a] = w] /\ req[a].pc = "idle" /\ Room /\ asked' \in Nat
  BY DEF Create, CanAsk, Ask, TypeOK
<1>4. req' \in [Actors -> ReqType] /\ Shape' /\ RoomInv'
  BY <1>1, <1>2, <1>3, SameSessions, LeaveStep
<1>5. TypeOK'
  BY <1>1, <1>3, <1>4, LeaveType DEF Create, TypeOK, ghosts, flags
<1> QED
  BY <1>4, <1>5

LEMMA CloseRequestKeeps ==
  ASSUME IInv, NEW a \in Actors, CloseRequest(a)
  PROVE  IInv'
<1> DEFINE c == ConnOf[a]
           w == [Idle EXCEPT !.pc = "leaving", !.kind = "close", !.film = LeftBehind(c)]
<1> USE DEF IInv, Shape
<1>1. c \in Conns /\ Leave(c, TRUE) /\ UNCHANGED <<opening, sess>>
  BY ActorConn DEF CloseRequest
<1>2. w \in ReqType /\ w.pc = "leaving" /\ w.kind \notin Openers
  BY <1>1, RecordTypes, LeaveType DEF Idle, ReqType, RequestNames, Openers
<1>3. req' = [req EXCEPT ![a] = w] /\ req[a].pc = "idle" /\ asked' \in Nat
  BY DEF CloseRequest, CanAsk, Ask, TypeOK
<1>4. req' \in [Actors -> ReqType] /\ Shape' /\ RoomInv'
  BY <1>1, <1>2, <1>3, SameSessions, LeaveStep
<1>5. TypeOK'
  BY <1>1, <1>3, <1>4, LeaveType DEF CloseRequest, TypeOK, ghosts, flags
<1> QED
  BY <1>4, <1>5

LEMMA DropKeeps ==
  ASSUME IInv, NEW c \in Conns, Drop(c)
  PROVE  IInv'
<1> USE DEF IInv, Shape
<1>1. Leave(c, FALSE) /\ UNCHANGED <<opening, sess, req>>
  BY DEF Drop
<1>2. Used' = Used /\ Pending' = Pending
  BY <1>1 DEF Used, Pending
<1>3. FilmInv' /\ SessionInv' /\ PathInv' /\ ConnInv'
  BY <1>1, <1>2, LeaveShape
<1>4. RequestInv'
  <2>1. Steady
    BY <1>1, LeaveType
  <2>2. ASSUME NEW b \in Actors PROVE RequestAt(req[b])'
    <3>1. /\ RequestAt(req[b]) /\ req'[b] = req[b]
          /\ req[b].film # None => req[b].film \in Films
      BY <1>1 DEF RequestInv, TypeOK, ReqType
    <3>2. req[b].pc \in {"reloading", "reopening"} => req[b].pc \in Working
      BY DEF Working
    <3> QED
      BY <1>2, <2>1, <3>1, <3>2 DEF RequestAt, Steady
  <2> QED
    BY <2>2 DEF RequestInv
<1>5. TypeOK'
  BY <1>1, LeaveType DEF Drop, TypeOK, ghosts, flags
<1>6. RoomInv'
  BY <1>2 DEF RoomInv
<1> QED
  BY <1>3, <1>4, <1>5, <1>6

LEMMA Answered ==
  /\ Idle \in ReqType /\ RequestAt(Idle) /\ Idle.kind \notin Openers
  /\ Idle.pc = "idle"
BY RecordTypes DEF Idle, RequestAt, Working, Openers

LEMMA FinishCloseKeeps ==
  ASSUME IInv, NEW a \in Actors, FinishClose(a)
  PROVE  IInv'
<1>1. /\ req' = [req EXCEPT ![a] = Idle] /\ req[a].pc # "building"
      /\ UNCHANGED <<conn, hostVars, film, sess, disk, outside, asked, view, ghosts>>
  BY DEF FinishClose, Done
<1>2. req' \in [Actors -> ReqType] /\ Shape' /\ RoomInv'
  BY <1>1, Answered, SameSessions, OneRequest DEF hostVars
<1>3. TypeOK'
  BY <1>1, <1>2 DEF IInv, TypeOK, hostVars, ghosts, flags
<1> QED
  BY <1>2, <1>3 DEF IInv

LEMMA MakeFileKeeps ==
  ASSUME IInv, NEW a \in Actors, MakeFile(a)
  PROVE  IInv'
<1> DEFINE w == [req[a] EXCEPT !.pc = "leaving", !.film = None]
<1>1. /\ req[a] \in ReqType /\ req[a].pc = "making" /\ req[a].path \in Paths
      /\ UNCHANGED <<conn, hostVars, film, sess, outside, asked, view, ghosts>>
  BY DEF MakeFile, IInv, TypeOK, ReqType
<1>2. w \in ReqType /\ RequestAt(w) /\ w.kind = req[a].kind
  BY <1>1 DEF ReqType, RequestAt, Working
<1>3. /\ \/ req' = [req EXCEPT ![a] = Idle]
         \/ req' = [req EXCEPT ![a] = w]
      /\ disk' \in [Paths -> [exists : BOOLEAN, rows : Nat]]
  <2>1. \/ req' = [req EXCEPT ![a] = Idle] /\ UNCHANGED disk
        \/ /\ req' = [req EXCEPT ![a] = w]
           /\ disk' = [disk EXCEPT ![req[a].path].exists = TRUE]
    BY DEF MakeFile, Done
  <2>2. disk \in [Paths -> [exists : BOOLEAN, rows : Nat]]
    BY DEF IInv, TypeOK
  <2>3. [disk[req[a].path] EXCEPT !.exists = TRUE] \in [exists : BOOLEAN, rows : Nat]
    BY <1>1, <2>2
  <2> QED
    BY <1>1, <2>1, <2>2, <2>3
<1>4. req' \in [Actors -> ReqType] /\ Shape' /\ RoomInv'
  <2> HIDE DEF w
  <2>1. CASE req' = [req EXCEPT ![a] = Idle]
    BY <1>1, <2>1, Answered, SameSessions, OneRequest DEF hostVars
  <2>2. CASE req' = [req EXCEPT ![a] = w]
    BY <1>1, <1>2, <2>2, SameSessions, OneRequest DEF hostVars
  <2> QED
    BY <1>3, <2>1, <2>2
<1>5. TypeOK'
  BY <1>1, <1>3, <1>4 DEF IInv, TypeOK, hostVars, ghosts, flags
<1> QED
  BY <1>4, <1>5 DEF IInv

LEMMA OpenExistingKeeps ==
  ASSUME IInv, NEW a \in Actors, OpenExisting(a)
  PROVE  IInv'
<1> DEFINE c == ConnOf[a]
           f == films[req[a].path]
           g == [film[f] EXCEPT !.clients = @ \cup {c}]
<1> USE DEF IInv, Shape
<1>1. /\ c \in Conns /\ f \in Films /\ film[f].stage = "open"
      /\ req[a].pc = "leaving"
  BY ActorConn DEF OpenExisting, MayOpen, TypeOK, ReqType, PathInv
<1>2. /\ Attach({c}, f, RevisionOf(f)) /\ req' = [req EXCEPT ![a] = Idle]
      /\ UNCHANGED <<hostVars, sess, disk, outside, asked, view, flags>>
      /\ film' = [film EXCEPT ![f] = g]
  BY DEF OpenExisting, Done
<1>3. RevisionOf(f) \in Nat
  BY <1>1, RevisionIsNat DEF Built
<1>4. /\ conn' \in [Conns -> ConnType] /\ given' \in [Paths -> Nat]
      /\ \A d \in Conns : conn'[d].film = IF d = c THEN f ELSE conn[d].film
  <2>1. /\ conn' \in [Conns -> ConnType] /\ given' \in [Paths -> Nat]
        /\ \A d \in Conns : conn'[d].film = IF d \in {c} THEN f ELSE conn[d].film
    <3> HIDE DEF c, f
    <3> QED
      BY <1>1, <1>2, <1>3, AttachType
  <2> QED
    BY <2>1
<1>5. /\ g \in FilmType /\ g.stage = film[f].stage /\ g.path = film[f].path
      /\ g.session = film[f].session /\ g.clients = film[f].clients \cup {c}
  <2>1. film[f] \in FilmType
    BY <1>1 DEF TypeOK
  <2> QED
    BY <1>1, <2>1 DEF FilmType
<1> HIDE DEF g
<1>6. /\ film' \in [Films -> FilmType]
      /\ \A h \in Films :
           /\ film'[h].stage = film[h].stage /\ film'[h].path = film[h].path
           /\ film'[h].session = film[h].session
           /\ film[h].clients \subseteq film'[h].clients
      /\ c \in film'[f].clients
  BY <1>1, <1>2, <1>5 DEF TypeOK
<1>7. Used' = Used /\ Steady
  BY <1>2, <1>6, SameSessions DEF Steady
<1>8. /\ req' \in [Actors -> ReqType] /\ RequestInv'
      /\ \A b \in Actors \ {a} : req'[b] = req[b]
  BY <1>2, <1>7, Answered, KeepsRequests
<1>9. RoomInv'
  BY <1>2, <1>7, Answered, KeepsRoom
<1>10. FilmInv'
  BY <1>1, <1>2, <1>6, <1>7, <1>8 DEF FilmInv, hostVars
<1>11. SessionInv' /\ PathInv'
  <2>1. SessionInv'
    BY <1>6 DEF SessionInv
  <2>2. \A p \in Paths : films[p] \in Films \cup {None} /\ opening[p] \in Films \cup {None}
    BY DEF TypeOK
  <2>3. PathInv'
    BY <1>2, <1>6, <2>2 DEF PathInv, hostVars
  <2> QED
    BY <2>1, <2>3
<1>12. ConnInv'
  <2>1. \A d \in Conns : conn[d].film \in Films \cup {None}
    BY DEF TypeOK, ConnType
  <2> QED
    BY <1>1, <1>4, <1>6, <2>1 DEF ConnInv
<1>13. TypeOK'
  BY <1>2, <1>4, <1>6, <1>8 DEF TypeOK, hostVars, flags
<1> QED
  BY <1>8, <1>9, <1>10, <1>11, <1>12, <1>13

LEMMA JoinOpeningKeeps ==
  ASSUME IInv, NEW a \in Actors, JoinOpening(a)
  PROVE  IInv'
<1> DEFINE w == [req[a] EXCEPT !.pc = "joining", !.film = opening[req[a].path]]
<1>1. /\ req[a] \in ReqType /\ req[a].pc = "leaving" /\ req[a].path \in Paths
      /\ req[a].kind \in {"open", "create", "saveAs"}
      /\ opening[req[a].path] \in Films
      /\ req' = [req EXCEPT ![a] = w]
      /\ UNCHANGED <<conn, hostVars, film, sess, disk, outside, asked, view, ghosts>>
  BY DEF JoinOpening, MayOpen, IInv, TypeOK, ReqType
<1>2. w \in ReqType /\ w.kind = req[a].kind /\ w.pc = "joining"
      /\ w.film = opening[req[a].path] /\ w.path = req[a].path
  BY <1>1 DEF ReqType
<1>3. RequestAt(w)
  BY <1>1, <1>2 DEF RequestAt, Working, IInv, Shape, PathInv, None, Films
<1> HIDE DEF w
<1>4. req' \in [Actors -> ReqType] /\ Shape' /\ RoomInv'
  BY <1>1, <1>2, <1>3, SameSessions, OneRequest DEF hostVars
<1>5. TypeOK'
  BY <1>1, <1>4 DEF IInv, TypeOK, hostVars, ghosts, flags
<1> QED
  BY <1>4, <1>5 DEF IInv

-----------------------------------------------------------------------------
(* Building a film *)

LEMMA StartBuildKeeps ==
  ASSUME IInv, NEW a \in Actors, StartBuild(a)
  PROVE  IInv'
<1> DEFINE p == req[a].path
           n == NewFilm
           g == [NoFilm EXCEPT !.stage = "building", !.path = p]
           w == [req[a] EXCEPT !.pc = "building", !.film = n]
<1> USE DEF IInv, Shape
<1>1. /\ req[a] \in ReqType /\ p \in Paths /\ req[a].pc = "leaving"
      /\ req[a].kind \in {"open", "create", "saveAs"}
      /\ films[p] = None /\ opening[p] = None
  BY DEF StartBuild, MayOpen, Unopened, TypeOK, ReqType
<1>2. n \in Films /\ film[n].stage = "none"
  <2>1. a \in Pending /\ req[a].pc # "building"
    BY <1>1 DEF Pending, Openers
  <2> QED
    BY <2>1, FreeFilm
<1>3. /\ opening' = [opening EXCEPT ![p] = n] /\ film' = [film EXCEPT ![n] = g]
      /\ req' = [req EXCEPT ![a] = w]
      /\ UNCHANGED <<conn, films, lastRev, sess, disk, outside, asked, view, ghosts>>
  BY DEF StartBuild
<1>4. g \in FilmType /\ g.stage = "building" /\ g.path = p
  BY <1>1, RecordTypes DEF FilmType
<1>5. /\ w \in ReqType /\ w.pc = "building" /\ w.film = n /\ w.path = p
      /\ w.kind = req[a].kind
  BY <1>1, <1>2 DEF ReqType
<1> HIDE DEF g, w, n
<1>6. /\ film' \in [Films -> FilmType] /\ film'[n] = g
      /\ \A h \in Films \ {n} : film'[h] = film[h]
  BY <1>2, <1>3, <1>4 DEF TypeOK
<1>7. /\ req' \in [Actors -> ReqType] /\ req'[a] = w
      /\ \A b \in Actors \ {a} : req'[b] = req[b]
  BY <1>3, <1>5 DEF TypeOK
<1>8. /\ opening' \in [Paths -> Films \cup {None}] /\ opening'[p] = n
      /\ \A q \in Paths \ {p} : opening'[q] = opening[q]
  BY <1>1, <1>2, <1>3 DEF TypeOK
<1>9. n # None
  BY <1>2 DEF Films, None
<1>10. Used' = Used
  BY <1>3, SameSessions
<1>11. FilmInv'
  <2>1. ASSUME NEW h \in Films, film'[h].stage \in Built
        PROVE  film'[h].session \in Used'
    BY <1>4, <1>6, <1>10, <2>1 DEF FilmInv, Built
  <2>2. ASSUME NEW h \in Films, film'[h].stage = "open"
        PROVE  films'[film'[h].path] = h
    BY <1>3, <1>4, <1>6, <2>2 DEF FilmInv
  <2>3. ASSUME NEW h \in Films, film'[h].stage = "building"
        PROVE  /\ opening'[film'[h].path] = h
               /\ \E b \in Actors : req'[b].pc = "building" /\ req'[b].film = h
    <3>1. CASE h = n
      BY <1>4, <1>5, <1>6, <1>7, <1>8, <3>1
    <3>2. CASE h # n
      <4>1. film'[h] = film[h] /\ film[h].path \in Paths /\ h # None
        <5>1. film'[h] = film[h] /\ film[h] \in FilmType
          BY <1>6, <3>2 DEF TypeOK
        <5>2. film[h].path \in Paths
          BY <5>1 DEF FilmType
        <5>3. h # None
          BY DEF Films, None
        <5> QED
          BY <5>1, <5>2, <5>3
      <4>2. opening[film[h].path] = h
        BY <2>3, <4>1 DEF FilmInv
      <4>3. opening'[film[h].path] = h
        BY <1>1, <1>8, <4>1, <4>2
      <4>4. PICK b \in Actors : req[b].pc = "building" /\ req[b].film = h
        BY <2>3, <4>1 DEF FilmInv
      <4> QED
        BY <1>1, <1>7, <4>1, <4>3, <4>4
    <3> QED
      BY <3>1, <3>2
  <2> QED
    BY <2>1, <2>2, <2>3 DEF FilmInv
<1>12. SessionInv'
  BY <1>4, <1>6 DEF SessionInv, Built
<1>13. PathInv'
  <2>1. ASSUME NEW q \in Paths, films'[q] # None
        PROVE  film'[films'[q]].stage = "open" /\ film'[films'[q]].path = q
    BY <1>2, <1>3, <1>6, <2>1 DEF PathInv, TypeOK
  <2>2. ASSUME NEW q \in Paths, opening'[q] # None
        PROVE  /\ film'[opening'[q]].stage = "building"
               /\ film'[opening'[q]].path = q /\ films'[q] = None
    <3>1. CASE q = p
      BY <1>1, <1>3, <1>4, <1>6, <1>8, <3>1
    <3>2. CASE q # p
      BY <1>2, <1>3, <1>6, <1>8, <2>2, <3>2 DEF PathInv, TypeOK
    <3> QED
      BY <3>1, <3>2
  <2> QED
    BY <2>1, <2>2 DEF PathInv
<1>14. ConnInv'
  BY <1>2, <1>3, <1>6 DEF ConnInv, TypeOK, ConnType
<1>15. RequestInv'
  <2>1. RequestAt(req[a])'
    BY <1>2, <1>1, <1>4, <1>5, <1>6, <1>7, <1>9 DEF RequestAt, Working
  <2>2. ASSUME NEW b \in Actors \ {a} PROVE RequestAt(req[b])'
    <3>1. RequestAt(req[b]) /\ req'[b] = req[b] /\ req[b] \in ReqType
      BY <1>7 DEF RequestInv, TypeOK
    <3>2. ASSUME req[b].pc \in {"building", "joining"} \cup Working
          PROVE  film'[req[b].film] = film[req[b].film]
      BY <1>2, <1>6, <3>1, <3>2 DEF RequestAt, ReqType, Built
    <3>3. {"reloading", "reopening"} \subseteq Working
      BY DEF Working
    <3> QED
      BY <1>10, <3>1, <3>2, <3>3 DEF RequestAt
  <2> QED
    BY <2>1, <2>2 DEF RequestInv
<1>16. RoomInv'
  <2>1. w.kind \in Openers => req[a].kind \in Openers
    BY <1>5
  <2> QED
    BY <1>3, <1>5, <1>10, <2>1, KeepsRoom
<1>17. TypeOK'
  BY <1>3, <1>6, <1>7, <1>8 DEF TypeOK, ghosts, flags
<1> QED
  BY <1>11, <1>12, <1>13, <1>14, <1>15, <1>16, <1>17

\* Every waiting request is answered at once.
LEMMA AllAnswered ==
  ASSUME TypeOK, NEW f,
         req' = [b \in Actors |-> IF b \in Waiting(f) THEN Idle ELSE req[b]]
  PROVE  /\ req' \in [Actors -> ReqType]
         /\ \A b \in Actors : req'[b] = IF b \in Waiting(f) THEN Idle ELSE req[b]
         /\ \A b \in Actors : req'[b].pc \in {"building", "joining"} => req'[b].film # f
         /\ Pending' \subseteq Pending \ Waiting(f)
<1>1. \A b \in Actors : /\ req'[b] = IF b \in Waiting(f) THEN Idle ELSE req[b]
                        /\ req[b] \in ReqType
  BY DEF TypeOK
<1>2. req' \in [Actors -> ReqType]
  BY <1>1, Answered
<1>3. \A b \in Actors : req'[b].pc \in {"building", "joining"} => req'[b].film # f
  BY <1>1, Answered DEF Waiting
<1>4. Pending' \subseteq Pending \ Waiting(f)
  BY <1>1, Answered DEF Pending
<1> QED
  BY <1>1, <1>2, <1>3, <1>4

\* Of the films, only f has changed; nobody works on it yet.
LEMMA OthersWork ==
  ASSUME TypeOK, RequestInv, NEW f \in Films, film[f].stage = "building",
         \A h \in Films \ {f} : film'[h] = film[h], Used \subseteq Used',
         req' = [b \in Actors |-> IF b \in Waiting(f) THEN Idle ELSE req[b]]
  PROVE  RequestInv'
<1>1. ASSUME NEW b \in Actors PROVE RequestAt(req[b])'
  <2>1. CASE b \in Waiting(f)
    BY <2>1, Answered DEF RequestAt, Idle, Working
  <2>2. CASE b \notin Waiting(f)
    <3>1. RequestAt(req[b]) /\ req'[b] = req[b] /\ req[b] \in ReqType
      BY <2>2 DEF RequestInv, TypeOK
    <3>2. ASSUME req[b].pc \in {"building", "joining"} \cup Working
          PROVE  film'[req[b].film] = film[req[b].film]
      BY <2>2, <3>1, <3>2 DEF RequestAt, ReqType, Built, Waiting
    <3>3. {"reloading", "reopening"} \subseteq Working
      BY DEF Working
    <3> QED
      BY <3>1, <3>2, <3>3 DEF RequestAt
  <2> QED
    BY <2>1, <2>2
<1> QED
  BY <1>1 DEF RequestInv

LEMMA MigratedType ==
  ASSUME NEW o \in SessType, NEW m \in Nat
  PROVE  /\ [o EXCEPT !.revision = m, !.known = @ + m] \in SessType
         /\ [o EXCEPT !.revision = m, !.known = @ + m].stage = o.stage
<1>1. o.known + m \in Nat
  BY DEF SessType
<1> QED
  BY <1>1 DEF SessType

LEMMA BuildKeeps ==
  ASSUME IInv, NEW a \in Actors, NEW m \in Migrations, Build(a, m)
  PROVE  IInv'
<1> DEFINE f == req[a].film
           p == req[a].path
           s == NewSession
           cs == {ConnOf[b] : b \in Waiting(f)}
           g == [film[f] EXCEPT !.stage = "open", !.session = s,
                                !.base = lastRev[p], !.clients = cs]
           t == [OpenedSession(p) EXCEPT !.revision = m, !.known = @ + m]
<1> USE DEF IInv, Shape
<1>1. /\ req[a] \in ReqType /\ p \in Paths /\ req[a].pc = "building"
      /\ f \in Films /\ film[f].stage = "building" /\ film[f].path = p
      /\ opening[p] = f /\ films[p] = None /\ film[f] \in FilmType
      /\ req[a].kind \in {"open", "create", "saveAs"} /\ a \in Waiting(f)
  <2>1. req[a] \in ReqType /\ req[a].pc = "building"
    BY DEF Build, TypeOK
  <2>2. /\ p \in Paths /\ f \in Films /\ film[f].stage = "building"
        /\ film[f].path = p /\ req[a].kind \in {"open", "create", "saveAs"}
    BY <2>1 DEF RequestInv, RequestAt, ReqType
  <2>3. opening[p] = f /\ f # None
    BY <2>2 DEF FilmInv, Films, None
  <2> QED
    BY <2>1, <2>2, <2>3 DEF PathInv, TypeOK, Waiting
<1>2. a \in Pending
  BY <1>1 DEF Pending, Openers
<1>3. s \in Films /\ sess[s].stage = "none"
  BY <1>2, FreeSession
<1>4. /\ disk' = [disk EXCEPT ![p].rows = @ + m]
      /\ sess' = [sess EXCEPT ![s] = t] /\ film' = [film EXCEPT ![f] = g]
      /\ films' = [films EXCEPT ![p] = f] /\ opening' = [opening EXCEPT ![p] = None]
      /\ Attach(cs, f, lastRev[p] + m)
      /\ req' = [b \in Actors |-> IF b \in Waiting(f) THEN Idle ELSE req[b]]
      /\ UNCHANGED <<lastRev, outside, asked, view, flags>>
  BY DEF Build
<1>5. m \in Nat /\ lastRev[p] \in Nat /\ disk[p].rows \in Nat /\ outside[p] \in Nat
  BY <1>1, FilmHostAssumption DEF TypeOK
<1>6. t \in SessType /\ t.stage = "open"
  <2>1. OpenedSession(p) \in SessType /\ OpenedSession(p).known \in Nat
        /\ OpenedSession(p).stage = "open"
    BY <1>1, <1>5, RecordTypes DEF OpenedSession, SessType
  <2> QED
    BY <1>5, <2>1, MigratedType
<1>7. /\ g \in FilmType /\ g.stage = "open" /\ g.path = p /\ g.session = s
      /\ g.clients = cs
  <2>1. cs \in SUBSET Conns
    BY ActorConn DEF Waiting
  <2> HIDE DEF cs
  <2> QED
    BY <1>1, <1>3, <1>5, <2>1 DEF FilmType
<1> HIDE DEF g, t, cs, s
<1>8. /\ film' \in [Films -> FilmType] /\ film'[f] = g
      /\ \A h \in Films \ {f} : film'[h] = film[h]
  BY <1>1, <1>4, <1>7 DEF TypeOK
<1>9. sess' \in [Films -> SessType] /\ Used' = Used \cup {s} /\ s \notin Used
  BY <1>3, <1>4, <1>6 DEF TypeOK, Used
<1>10. /\ films' \in [Paths -> Films \cup {None}] /\ films'[p] = f
       /\ opening' \in [Paths -> Films \cup {None}] /\ opening'[p] = None
       /\ \A q \in Paths \ {p} : films'[q] = films[q] /\ opening'[q] = opening[q]
  BY <1>1, <1>4 DEF TypeOK
<1>11. /\ conn' \in [Conns -> ConnType] /\ given' \in [Paths -> Nat]
       /\ \A c \in Conns : conn'[c].film = IF c \in cs THEN f ELSE conn[c].film
  <2>1. lastRev[p] + m \in Nat
    BY <1>5
  <2> QED
    BY <1>1, <1>4, <2>1, AttachType
<1>12. /\ req' \in [Actors -> ReqType]
       /\ \A b \in Actors : req'[b] = IF b \in Waiting(f) THEN Idle ELSE req[b]
       /\ Pending' \subseteq Pending \ {a}
  BY <1>1, <1>4, AllAnswered
<1>13. FilmInv'
  <2>1. ASSUME NEW h \in Films, film'[h].stage \in Built
        PROVE  film'[h].session \in Used'
    BY <1>7, <1>8, <1>9, <2>1 DEF FilmInv
  <2>2. ASSUME NEW h \in Films, film'[h].stage = "open"
        PROVE  films'[film'[h].path] = h
    <3>1. CASE h = f
      BY <1>7, <1>8, <1>10, <3>1
    <3>2. CASE h # f
      <4>1. film'[h] = film[h] /\ film[h] \in FilmType /\ h # None
        BY <1>8, <3>2, NotNone DEF TypeOK
      <4>2. film[h].path \in Paths /\ films[film[h].path] = h
        BY <2>2, <4>1 DEF FilmInv, FilmType
      <4> QED
        BY <1>1, <1>10, <4>1, <4>2
    <3> QED
      BY <3>1, <3>2
  <2>3. ASSUME NEW h \in Films, film'[h].stage = "building"
        PROVE  /\ opening'[film'[h].path] = h
               /\ \E b \in Actors : req'[b].pc = "building" /\ req'[b].film = h
    <3>1. h # f /\ film'[h] = film[h] /\ film[h] \in FilmType
      BY <1>7, <1>8, <2>3 DEF TypeOK
    <3>2. film[h].path \in Paths /\ opening[film[h].path] = h
      BY <2>3, <3>1 DEF FilmInv, FilmType
    <3>3. PICK b \in Actors : req[b].pc = "building" /\ req[b].film = h
      BY <2>3, <3>1 DEF FilmInv
    <3>4. req'[b] = req[b]
      BY <1>12, <3>1, <3>3 DEF Waiting
    <3> QED
      BY <1>1, <1>10, <3>1, <3>2, <3>3, <3>4
  <2> QED
    BY <2>1, <2>2, <2>3 DEF FilmInv
<1>14. SessionInv'
  <2>1. ASSUME NEW h \in Films, h # f, film'[h].stage \in Built
        PROVE  film'[h].session # s
    BY <1>8, <1>9, <2>1 DEF FilmInv
  <2> QED
    BY <1>7, <1>8, <2>1 DEF SessionInv
<1>15. PathInv'
  <2>1. ASSUME NEW q \in Paths, films'[q] # None
        PROVE  film'[films'[q]].stage = "open" /\ film'[films'[q]].path = q
    <3>1. CASE q = p
      BY <1>7, <1>8, <1>10, <3>1
    <3>2. CASE q # p
      BY <1>1, <1>8, <1>10, <2>1, <3>2 DEF PathInv, TypeOK
    <3> QED
      BY <3>1, <3>2
  <2>2. ASSUME NEW q \in Paths, opening'[q] # None
        PROVE  /\ film'[opening'[q]].stage = "building"
               /\ film'[opening'[q]].path = q /\ films'[q] = None
    <3>1. q # p /\ opening'[q] = opening[q] /\ films'[q] = films[q]
      BY <1>10, <2>2
    <3>2. /\ film[opening[q]].stage = "building" /\ film[opening[q]].path = q
          /\ films[q] = None /\ opening[q] \in Films
      BY <2>2, <3>1 DEF PathInv, TypeOK
    <3> QED
      BY <1>1, <1>8, <3>1, <3>2
  <2> QED
    BY <2>1, <2>2 DEF PathInv
<1>16. ConnInv'
  <2>1. ASSUME NEW c \in Conns, conn'[c].film # None
        PROVE  film'[conn'[c].film].stage = "open" /\ c \in film'[conn'[c].film].clients
    <3>1. CASE c \in cs
      BY <1>7, <1>8, <1>11, <3>1
    <3>2. CASE c \notin cs
      <4>1. conn'[c].film = conn[c].film /\ conn[c].film \in Films
        BY <1>11, <2>1, <3>2 DEF TypeOK, ConnType
      <4> QED
        BY <1>1, <1>8, <2>1, <4>1 DEF ConnInv
    <3> QED
      BY <3>1, <3>2
  <2> QED
    BY <2>1 DEF ConnInv
<1>17. RequestInv'
  BY <1>1, <1>4, <1>8, <1>9, OthersWork
<1>18. RoomInv'
  <2>0. MaxFilms \in Nat
    BY FilmHostAssumption
  <2>1. Cardinality(Used') = Cardinality(Used) + 1
    BY <1>9, <2>0, UsedPending, FS_AddElement
  <2>2. /\ IsFiniteSet(Pending \ {a})
        /\ Cardinality(Pending \ {a}) = Cardinality(Pending) - 1
    BY <1>2, <2>0, UsedPending, FS_RemoveElement
  <2>3. Cardinality(Pending') <= Cardinality(Pending \ {a}) /\ IsFiniteSet(Pending')
    BY <1>12, <2>2, FS_Subset
  <2>4. Cardinality(Pending') \in Nat
    BY <2>3, FS_CardinalityType
  <2> QED
    BY <2>0, <2>1, <2>2, <2>3, <2>4, UsedPending DEF RoomInv
<1>19. disk' \in [Paths -> [exists : BOOLEAN, rows : Nat]]
  <2>1. disk[p] \in [exists : BOOLEAN, rows : Nat]
    BY <1>1 DEF TypeOK
  <2>2. [disk[p] EXCEPT !.rows = @ + m] \in [exists : BOOLEAN, rows : Nat]
    BY <1>5, <2>1
  <2> QED
    BY <1>1, <1>4, <2>2 DEF TypeOK
<1>20. TypeOK'
  BY <1>4, <1>8, <1>9, <1>10, <1>11, <1>12, <1>19 DEF TypeOK, flags
<1> QED
  BY <1>13, <1>14, <1>15, <1>16, <1>17, <1>18, <1>20

LEMMA BuildFailsKeeps ==
  ASSUME IInv, NEW a \in Actors, BuildFails(a)
  PROVE  IInv'
<1> DEFINE f == req[a].film
           p == req[a].path
           made == \E b \in Waiting(f) : req[b].kind = "create"
<1> USE DEF IInv, Shape
<1>1. /\ p \in Paths /\ f \in Films /\ film[f].stage = "building"
      /\ film[f].path = p /\ opening[p] = f /\ films[p] = None
  <2>1. req[a] \in ReqType /\ req[a].pc = "building"
    BY DEF BuildFails, TypeOK
  <2>2. /\ p \in Paths /\ f \in Films /\ film[f].stage = "building" /\ film[f].path = p
    BY <2>1 DEF RequestInv, RequestAt, ReqType
  <2>3. opening[p] = f
    BY <2>2 DEF FilmInv
  <2> QED
    BY <2>2, <2>3, NotNone DEF PathInv
<1>2. /\ film' = [film EXCEPT ![f] = NoFilm] /\ opening' = [opening EXCEPT ![p] = None]
      /\ disk' = [disk EXCEPT ![p].exists = @ /\ ~made]
      /\ req' = [b \in Actors |-> IF b \in Waiting(f) THEN Idle ELSE req[b]]
      /\ UNCHANGED <<conn, films, lastRev, sess, outside, asked, view, ghosts>>
  BY DEF BuildFails
<1>3. /\ film' \in [Films -> FilmType] /\ film'[f] = NoFilm /\ NoFilm.stage = "none"
      /\ \A h \in Films \ {f} : film'[h] = film[h]
  BY <1>1, <1>2, RecordTypes DEF TypeOK, NoFilm
<1>4. /\ opening' \in [Paths -> Films \cup {None}] /\ opening'[p] = None
      /\ \A q \in Paths \ {p} : opening'[q] = opening[q]
  BY <1>1, <1>2 DEF TypeOK
<1>5. /\ req' \in [Actors -> ReqType]
      /\ \A b \in Actors : req'[b] = IF b \in Waiting(f) THEN Idle ELSE req[b]
      /\ Pending' \subseteq Pending
  BY <1>2, AllAnswered
<1>6. Used' = Used
  BY <1>2, SameSessions
<1>7. FilmInv'
  <2>1. ASSUME NEW h \in Films, film'[h].stage \in Built
        PROVE  film'[h].session \in Used'
    BY <1>3, <1>6, <2>1 DEF FilmInv, Built
  <2>2. ASSUME NEW h \in Films, film'[h].stage = "open"
        PROVE  films'[film'[h].path] = h
    BY <1>2, <1>3, <2>2 DEF FilmInv
  <2>3. ASSUME NEW h \in Films, film'[h].stage = "building"
        PROVE  /\ opening'[film'[h].path] = h
               /\ \E b \in Actors : req'[b].pc = "building" /\ req'[b].film = h
    <3>1. h # f /\ film'[h] = film[h] /\ film[h] \in FilmType
      BY <1>3, <2>3 DEF TypeOK
    <3>2. film[h].path \in Paths /\ opening[film[h].path] = h
      BY <2>3, <3>1 DEF FilmInv, FilmType
    <3>3. PICK b \in Actors : req[b].pc = "building" /\ req[b].film = h
      BY <2>3, <3>1 DEF FilmInv
    <3>4. req'[b] = req[b]
      BY <1>5, <3>1, <3>3 DEF Waiting
    <3> QED
      BY <1>1, <1>4, <3>1, <3>2, <3>3, <3>4
  <2> QED
    BY <2>1, <2>2, <2>3 DEF FilmInv
<1>8. SessionInv'
  BY <1>3 DEF SessionInv, Built
<1>9. PathInv'
  <2>1. ASSUME NEW q \in Paths, films'[q] # None
        PROVE  film'[films'[q]].stage = "open" /\ film'[films'[q]].path = q
    BY <1>1, <1>2, <1>3, <2>1 DEF PathInv, TypeOK
  <2>2. ASSUME NEW q \in Paths, opening'[q] # None
        PROVE  /\ film'[opening'[q]].stage = "building"
               /\ film'[opening'[q]].path = q /\ films'[q] = None
    <3>1. q # p /\ opening'[q] = opening[q]
      BY <1>4, <2>2
    <3>2. /\ film[opening[q]].stage = "building" /\ film[opening[q]].path = q
          /\ films[q] = None /\ opening[q] \in Films
      BY <2>2, <3>1 DEF PathInv, TypeOK
    <3> QED
      BY <1>1, <1>2, <1>3, <3>1, <3>2
  <2> QED
    BY <2>1, <2>2 DEF PathInv
<1>10. ConnInv'
  <2>1. \A c \in Conns : conn[c].film \in Films \cup {None}
    BY DEF TypeOK, ConnType
  <2> QED
    BY <1>1, <1>2, <1>3, <2>1 DEF ConnInv
<1>11. RequestInv'
  BY <1>1, <1>2, <1>3, <1>6, OthersWork
<1>12. RoomInv'
  <2>0. MaxFilms \in Nat
    BY FilmHostAssumption
  <2>1. Cardinality(Pending') <= Cardinality(Pending) /\ IsFiniteSet(Pending')
    BY <1>5, <2>0, UsedPending, FS_Subset
  <2>2. Cardinality(Pending') \in Nat
    BY <2>1, FS_CardinalityType
  <2> QED
    BY <1>6, <2>0, <2>1, <2>2, UsedPending DEF RoomInv
<1>13. disk' \in [Paths -> [exists : BOOLEAN, rows : Nat]]
  <2>1. disk[p] \in [exists : BOOLEAN, rows : Nat]
    BY <1>1 DEF TypeOK
  <2>2. PICK b \in BOOLEAN : b = (disk[p].exists /\ ~made)
    OBVIOUS
  <2>3. disk' = [disk EXCEPT ![p] = [disk[p] EXCEPT !.exists = b]]
    BY <1>2, <2>2, Zenon
  <2>4. [disk[p] EXCEPT !.exists = b] \in [exists : BOOLEAN, rows : Nat]
    BY <2>1
  <2> QED
    BY <1>1, <2>3, <2>4 DEF TypeOK
<1>14. TypeOK'
  BY <1>2, <1>3, <1>4, <1>5, <1>13 DEF TypeOK, ghosts, flags
<1> QED
  BY <1>7, <1>8, <1>9, <1>10, <1>11, <1>12, <1>14

-----------------------------------------------------------------------------
(* Closing a film, and reloading one *)

\* A film that is out of the map goes on closing.
LEMMA ClosingKeeps ==
  ASSUME IInv, NEW f \in Films, film[f].stage \in {"draining", "closing"},
         NEW at \in {"closing", "closed"}, film' = [film EXCEPT ![f].stage = at],
         UNCHANGED <<conn, hostVars, req>>, Used' = Used
  PROVE  film' \in [Films -> FilmType] /\ Shape' /\ RoomInv'
<1> DEFINE g == [film[f] EXCEPT !.stage = at]
<1> USE DEF IInv, Shape
<1>1. film[f] \in FilmType /\ film' = [film EXCEPT ![f] = g]
  BY DEF TypeOK
<1>2. /\ g \in FilmType /\ g.stage = at /\ g.path = film[f].path
      /\ g.session = film[f].session
  BY <1>1 DEF FilmType
<1> HIDE DEF g
<1>3. /\ film' \in [Films -> FilmType] /\ film'[f] = g
      /\ \A h \in Films \ {f} : film'[h] = film[h]
  BY <1>1, <1>2 DEF TypeOK
<1>4. FilmInv'
  BY <1>2, <1>3 DEF FilmInv, Built, hostVars
<1>5. SessionInv'
  BY <1>2, <1>3 DEF SessionInv, Built
<1>6. PathInv'
  BY <1>3 DEF PathInv, TypeOK, hostVars
<1>7. ConnInv'
  BY <1>3 DEF ConnInv, TypeOK, ConnType
<1>8. RequestInv'
  <2>1. ASSUME NEW b \in Actors PROVE RequestAt(req[b])'
    <3>1. RequestAt(req[b]) /\ req'[b] = req[b] /\ req[b] \in ReqType
      BY DEF RequestInv, TypeOK
    <3>2. /\ \A h \in Films : film'[h].path = film[h].path
          /\ \A h \in Films : film[h].stage \in Built => film'[h].stage \in Built
          /\ \A h \in Films : film[h].stage = "building" => film'[h].stage = "building"
      BY <1>2, <1>3 DEF Built
    <3>3. req[b].film # None => req[b].film \in Films
      BY <3>1 DEF ReqType
    <3>4. {"reloading", "reopening"} \subseteq Working
      BY DEF Working
    <3> QED
      BY <3>1, <3>2, <3>3, <3>4 DEF RequestAt
  <2> QED
    BY <2>1 DEF RequestInv
<1>9. RoomInv'
  BY DEF RoomInv, Pending
<1> QED
  BY <1>3, <1>4, <1>5, <1>6, <1>7, <1>8, <1>9

LEMMA DrainFilmKeeps ==
  ASSUME IInv, NEW f \in Films, DrainFilm(f)
  PROVE  IInv'
<1> DEFINE s == film[f].session
           at == IF sess[s].closeAt = NotClosed \/ sess[s].stage = "closed"
                 THEN sess[s].issued ELSE sess[s].closeAt
           t == [sess[s] EXCEPT !.closeAt = at]
<1>1. /\ film[f].stage = "draining" /\ film' = [film EXCEPT ![f].stage = "closing"]
      /\ sess' = [sess EXCEPT ![s] = t]
      /\ UNCHANGED <<conn, hostVars, disk, outside, asked, req, view, ghosts>>
  BY DEF DrainFilm
<1>2. s \in Films
  BY <1>1, RevisionIsNat DEF IInv, Shape, Built
<1>3. sess[s] \in SessType
  BY <1>2 DEF IInv, TypeOK
<1>4. t \in SessType /\ t.stage = sess[s].stage
  <2>1. at \in Nat \cup {NotClosed}
    BY <1>3 DEF SessType
  <2> HIDE DEF at
  <2> QED
    BY <1>3, <2>1 DEF SessType
<1> HIDE DEF t
<1>5. Used' = Used /\ sess' \in [Films -> SessType]
  BY <1>1, <1>2, <1>4, OneSession DEF IInv
<1>6. film' \in [Films -> FilmType] /\ Shape' /\ RoomInv'
  BY <1>1, <1>5, ClosingKeeps
<1>7. TypeOK'
  BY <1>1, <1>5, <1>6 DEF IInv, TypeOK, hostVars, ghosts, flags
<1> QED
  BY <1>6, <1>7 DEF IInv

LEMMA CloseFilmKeeps ==
  ASSUME IInv, NEW f \in Films, CloseFilm(f)
  PROVE  IInv'
<1> DEFINE s == film[f].session
           t == [sess[s] EXCEPT !.stage = "closed"]
<1>1. /\ film[f].stage = "closing" /\ film' = [film EXCEPT ![f].stage = "closed"]
      /\ sess' = [sess EXCEPT ![s] = t]
      /\ UNCHANGED <<conn, hostVars, disk, outside, asked, req, view, ghosts>>
  BY DEF CloseFilm
<1>2. s \in Films /\ sess[s].stage # "none"
  BY <1>1 DEF IInv, Shape, FilmInv, Built, Used
<1>3. sess[s] \in SessType
  BY <1>2 DEF IInv, TypeOK
<1>4. t \in SessType /\ t.stage = "closed"
  BY <1>3 DEF SessType
<1> HIDE DEF t
<1>5. Used' = Used /\ sess' \in [Films -> SessType]
  BY <1>1, <1>2, <1>4, OneSession DEF IInv
<1>6. film' \in [Films -> FilmType] /\ Shape' /\ RoomInv'
  BY <1>1, <1>5, ClosingKeeps
<1>7. TypeOK'
  BY <1>1, <1>5, <1>6 DEF IInv, TypeOK, hostVars, ghosts, flags
<1> QED
  BY <1>6, <1>7 DEF IInv

LEMMA ReloadOpensKeeps ==
  ASSUME IInv, NEW a \in Actors, ReloadOpens(a)
  PROVE  IInv'
<1> DEFINE f == req[a].film
           p == req[a].path
           s == NewSession
           t == OpenedSession(p)
           g == [film[f] EXCEPT !.session = s, !.base = ReloadBase(a)]
<1> USE DEF IInv, Shape
<1>1. /\ req[a] \in ReqType /\ req[a].pc = "reopening" /\ req[a].kind = "reload"
      /\ f \in Films /\ film[f].stage \in Built /\ film[f] \in FilmType
      /\ p \in Paths /\ req[a].before \in Nat
  <2>1. req[a] \in ReqType /\ req[a].pc = "reopening"
    BY DEF ReloadOpens, TypeOK
  <2>2. req[a].pc \in Working
    BY <2>1 DEF Working
  <2> QED
    BY <2>1, <2>2 DEF RequestInv, RequestAt, ReqType, TypeOK
<1>2. a \in Pending
  BY <1>1 DEF Pending, Openers
<1>3. s \in Films /\ sess[s].stage = "none"
  BY <1>2, FreeSession
<1>4. /\ sess' = [sess EXCEPT ![s] = t] /\ film' = [film EXCEPT ![f] = g]
      /\ repeated' = (repeated \/ req[a].before <= given[p])
      /\ Tell(Listeners(f) \cup {ConnOf[a]}, p, req[a].before)
      /\ req' = [req EXCEPT ![a] = Idle]
      /\ UNCHANGED <<hostVars, disk, outside, asked, view, blind>>
  BY DEF ReloadOpens, Done
<1>5. t \in SessType /\ t.stage = "open"
  <2>1. disk[p].rows \in Nat /\ outside[p] \in Nat
    BY <1>1 DEF TypeOK
  <2> QED
    BY <1>1, <2>1, RecordTypes DEF OpenedSession, SessType
<1>6. /\ g \in FilmType /\ g.session = s /\ g.stage = film[f].stage
      /\ g.path = film[f].path /\ g.clients = film[f].clients
  BY <1>1, <1>3 DEF FilmType, ReloadBase
<1> HIDE DEF g, t, s
<1>7. /\ film' \in [Films -> FilmType] /\ film'[f] = g
      /\ \A h \in Films \ {f} : film'[h] = film[h]
  BY <1>1, <1>4, <1>6 DEF TypeOK
<1>8. sess' \in [Films -> SessType] /\ Used' = Used \cup {s} /\ s \notin Used
  BY <1>3, <1>4, <1>5 DEF TypeOK, Used
<1>9. /\ conn' \in [Conns -> ConnType] /\ given' \in [Paths -> Nat]
      /\ \A c \in Conns : conn'[c].film = conn[c].film
  BY <1>1, <1>4, TellType
<1>10. \A h \in Films : /\ film'[h].stage = film[h].stage /\ film'[h].path = film[h].path
                        /\ film'[h].clients = film[h].clients
  BY <1>6, <1>7
<1>11. Steady
  BY <1>10 DEF Steady
<1>12. /\ req' \in [Actors -> ReqType] /\ RequestInv' /\ req'[a] = Idle
       /\ \A b \in Actors \ {a} : req'[b] = req[b]
  BY <1>4, <1>8, <1>11, Answered, KeepsRequests
<1>13. FilmInv'
  <2>1. ASSUME NEW h \in Films, film'[h].stage \in Built
        PROVE  film'[h].session \in Used'
    BY <1>6, <1>7, <1>8, <2>1 DEF FilmInv
  <2>2. ASSUME NEW h \in Films, film'[h].stage = "open"
        PROVE  films'[film'[h].path] = h
    BY <1>4, <1>10, <2>2 DEF FilmInv, hostVars
  <2>3. ASSUME NEW h \in Films, film'[h].stage = "building"
        PROVE  /\ opening'[film'[h].path] = h
               /\ \E b \in Actors : req'[b].pc = "building" /\ req'[b].film = h
    BY <1>1, <1>4, <1>10, <1>12, <2>3 DEF FilmInv, hostVars
  <2> QED
    BY <2>1, <2>2, <2>3 DEF FilmInv
<1>14. SessionInv'
  <2>1. ASSUME NEW h \in Films, h # f, film'[h].stage \in Built
        PROVE  film'[h].session # s
    BY <1>7, <1>8, <2>1 DEF FilmInv
  <2> QED
    BY <1>6, <1>7, <2>1 DEF SessionInv
<1>15. PathInv'
  <2>1. \A q \in Paths : films[q] \in Films \cup {None} /\ opening[q] \in Films \cup {None}
    BY DEF TypeOK
  <2> QED
    BY <1>4, <1>10, <2>1 DEF PathInv, hostVars
<1>16. ConnInv'
  <2>1. \A c \in Conns : conn[c].film \in Films \cup {None}
    BY DEF TypeOK, ConnType
  <2> QED
    BY <1>9, <1>10, <2>1 DEF ConnInv
<1>17. RoomInv'
  <2>0. MaxFilms \in Nat
    BY FilmHostAssumption
  <2>1. Cardinality(Used') = Cardinality(Used) + 1
    BY <1>8, <2>0, UsedPending, FS_AddElement
  <2>2. Pending' \subseteq Pending \ {a}
    BY <1>12, Answered DEF Pending
  <2>3. /\ IsFiniteSet(Pending \ {a})
        /\ Cardinality(Pending \ {a}) = Cardinality(Pending) - 1
    BY <1>2, <2>0, UsedPending, FS_RemoveElement
  <2>4. Cardinality(Pending') <= Cardinality(Pending \ {a}) /\ IsFiniteSet(Pending')
    BY <2>2, <2>3, FS_Subset
  <2>5. Cardinality(Pending') \in Nat
    BY <2>4, FS_CardinalityType
  <2> QED
    BY <2>0, <2>1, <2>3, <2>4, <2>5, UsedPending DEF RoomInv
<1>18. TypeOK'
  <2>1. {blind', repeated'} \subseteq BOOLEAN
    BY <1>4 DEF TypeOK
  <2> QED
    BY <1>4, <1>7, <1>8, <1>9, <1>12, <2>1 DEF TypeOK, hostVars
<1> QED
  BY <1>12, <1>13, <1>14, <1>15, <1>16, <1>17, <1>18

-----------------------------------------------------------------------------
(* Reading and writing *)

LEMMA WorkingHas ==
  ASSUME IInv, NEW a \in Actors, req[a].pc \in Working
  PROVE  /\ req[a] \in ReqType /\ req[a].path \in Paths
         /\ req[a].film \in Films /\ film[req[a].film].stage \in Built
         /\ film[req[a].film].session \in Used /\ film[req[a].film].session \in Films
         /\ film[req[a].film].path \in Paths
         /\ req[a].sess \in Films /\ req[a].sess \in Used
         /\ RevisionOf(req[a].film) \in Nat /\ film[req[a].film].base \in Nat
<1> USE DEF IInv, Shape
<1>1. req[a] \in ReqType /\ req[a].path \in Paths
  BY DEF TypeOK, ReqType
<1>2. /\ req[a].film \in Films /\ film[req[a].film].stage \in Built
      /\ req[a].sess \in Films /\ req[a].sess \in Used
  BY <1>1 DEF RequestInv, RequestAt, ReqType, Used
<1>3. film[req[a].film].session \in Used /\ film[req[a].film].path \in Paths
  BY <1>2 DEF FilmInv, TypeOK, FilmType
<1>4. RevisionOf(req[a].film) \in Nat /\ film[req[a].film].base \in Nat
  BY <1>2, RevisionIsNat
<1> QED
  BY <1>1, <1>2, <1>3, <1>4 DEF Used

LEMMA ConnHas ==
  ASSUME IInv, NEW c \in Conns, conn[c].film # None
  PROVE  /\ conn[c].film \in Films /\ film[conn[c].film].stage = "open"
         /\ film[conn[c].film].session \in Used /\ film[conn[c].film].session \in Films
         /\ film[conn[c].film].path \in Paths /\ RevisionOf(conn[c].film) \in Nat
         /\ films[film[conn[c].film].path] = conn[c].film
<1> USE DEF IInv, Shape
<1>1. conn[c].film \in Films /\ film[conn[c].film].stage = "open"
  BY DEF TypeOK, ConnType, ConnInv
<1>2. /\ film[conn[c].film].session \in Used /\ film[conn[c].film].path \in Paths
      /\ films[film[conn[c].film].path] = conn[c].film
  BY <1>1 DEF FilmInv, TypeOK, FilmType, Built
<1>3. RevisionOf(conn[c].film) \in Nat
  BY <1>1, RevisionIsNat DEF Built
<1> QED
  BY <1>1, <1>2, <1>3 DEF Used

LEMMA Untouched ==
  ASSUME IInv, UNCHANGED <<films, opening, film, sess, req>>,
         \A c \in Conns : conn'[c].film = conn[c].film
  PROVE  Shape' /\ RoomInv'
<1> USE DEF IInv, Shape
<1>1. Used' = Used /\ Pending' = Pending
  BY DEF Used, Pending
<1>2. FilmInv' /\ SessionInv' /\ PathInv' /\ ConnInv'
  BY <1>1 DEF FilmInv, SessionInv, PathInv, ConnInv
<1>3. RequestInv'
  BY <1>1 DEF RequestInv, RequestAt
<1> QED
  BY <1>1, <1>2, <1>3 DEF RoomInv

LEMMA ReadKeeps ==
  ASSUME IInv, NEW a \in Actors, Read(a)
  PROVE  IInv'
<1> DEFINE c == ConnOf[a]
           f == conn[c].film
           now == [path |-> film[f].path, rev |-> RevisionOf(f),
                   rows |-> disk[film[f].path].rows]
           w == [conn[c] EXCEPT !.rev = Higher(@, now.rev)]
<1>1. /\ c \in Conns /\ f # None
      /\ view' = [view EXCEPT ![c] = now] /\ conn' = [conn EXCEPT ![c] = w]
      /\ given' = [given EXCEPT ![now.path] = Higher(@, now.rev)]
      /\ UNCHANGED <<hostVars, film, sess, disk, outside, asked, req, flags>>
  BY ActorConn DEF Read
<1>2. film[f].path \in Paths /\ RevisionOf(f) \in Nat
  BY <1>1, ConnHas
<1>3. now \in [path : Paths, rev : Int, rows : Nat] /\ now.path \in Paths /\ now.rev \in Nat
  BY <1>2 DEF IInv, TypeOK
<1> HIDE DEF now
<1>4. w \in ConnType /\ w.film = f
  <2>1. conn[c] \in ConnType
    BY <1>1 DEF IInv, TypeOK
  <2>2. Higher(conn[c].rev, now.rev) \in Nat
    BY <1>3, <2>1, HigherIsNat DEF ConnType
  <2> QED
    BY <2>1, <2>2 DEF ConnType
<1> HIDE DEF w
<1>5. /\ conn' \in [Conns -> ConnType]
      /\ \A d \in Conns : conn'[d].film = conn[d].film
  BY <1>1, <1>4 DEF IInv, TypeOK
<1>6. given' \in [Paths -> Nat] /\ view' \in [Conns -> [path : Paths, rev : Int, rows : Nat]]
  BY <1>1, <1>3, HigherIsNat DEF IInv, TypeOK
<1>7. Shape' /\ RoomInv'
  BY <1>1, <1>5, Untouched DEF hostVars
<1>8. TypeOK'
  BY <1>1, <1>5, <1>6 DEF IInv, TypeOK, hostVars, flags
<1> QED
  BY <1>7, <1>8 DEF IInv

LEMMA OutsideEditKeeps ==
  ASSUME IInv, NEW p \in Paths, OutsideEdit(p)
  PROVE  IInv'
<1>1. /\ outside' = [outside EXCEPT ![p] = @ + 1]
      /\ disk' = [disk EXCEPT ![p] = [disk[p] EXCEPT !.rows = @ + 1]]
      /\ UNCHANGED <<conn, hostVars, film, sess, asked, req, view, ghosts>>
  BY DEF OutsideEdit
<1>2. disk' \in [Paths -> [exists : BOOLEAN, rows : Nat]]
  <2>1. [disk[p] EXCEPT !.rows = @ + 1] \in [exists : BOOLEAN, rows : Nat]
    BY DEF IInv, TypeOK
  <2> QED
    BY <1>1, <2>1 DEF IInv, TypeOK
<1>3. Shape' /\ RoomInv'
  BY <1>1, Untouched DEF hostVars
<1>4. TypeOK'
  BY <1>1, <1>2 DEF IInv, TypeOK, hostVars, ghosts, flags
<1> QED
  BY <1>3, <1>4 DEF IInv

LEMMA AskWriteKeeps ==
  ASSUME IInv, NEW a \in Actors, NEW k \in {"op", "call", "dry"},
         NEW e \in {NoCheck, view[ConnOf[a]].rev}, AskWrite(a, k, e)
  PROVE  IInv'
<1> DEFINE c == ConnOf[a]
           f == conn[c].film
           at == RefreshedBy(film[f].session)
           on == IF e = NoCheck THEN e ELSE view[c].rows
           w == [Idle EXCEPT !.pc = "checking", !.kind = k, !.expected = e,
                             !.path = film[f].path, !.film = f,
                             !.sess = film[f].session, !.ticket = at, !.plan = on]
<1>1. /\ c \in Conns /\ f # None /\ req[a].pc # "building"
      /\ req' = [req EXCEPT ![a] = w] /\ asked' = asked + 1
      /\ UNCHANGED <<conn, hostVars, film, sess, disk, outside, view, ghosts>>
  BY ActorConn DEF AskWrite, Ask, CanAsk
<1>2. /\ f \in Films /\ film[f].stage = "open" /\ film[f].session \in Used
      /\ film[f].session \in Films /\ film[f].path \in Paths
  BY <1>1, ConnHas
<1>3. at \in Nat
  <2>1. sess[film[f].session].served \in Nat
    BY <1>2 DEF IInv, TypeOK, SessType
  <2> QED
    BY <2>1 DEF RefreshedBy
<1>4. view[c] \in [path : Paths, rev : Int, rows : Nat] /\ NoCheck \in Int
  BY <1>1 DEF IInv, TypeOK, NoCheck
<1>5. /\ w \in ReqType /\ w.pc = "checking" /\ w.kind = k /\ w.film = f
      /\ w.sess = film[f].session
  <2>1. e \in Int /\ on \in Int
    BY <1>4
  <2>2. k \in RequestNames
    BY DEF RequestNames
  <2> HIDE DEF at, on
  <2> QED
    BY <1>1, <1>2, <1>3, <2>1, <2>2, RecordTypes DEF ReqType
<1> HIDE DEF w
<1>6. RequestAt(w) /\ w.kind \notin Openers
  BY <1>2, <1>1, <1>5 DEF RequestAt, Working, Openers, Built
<1>7. req' \in [Actors -> ReqType] /\ Shape' /\ RoomInv'
  BY <1>1, <1>5, <1>6, SameSessions, OneRequest DEF hostVars
<1>8. TypeOK'
  BY <1>1, <1>7 DEF IInv, TypeOK, hostVars, ghosts, flags
<1> QED
  BY <1>7, <1>8 DEF IInv

\* A request takes its place in the queue of its film's session.
LEMMA EnqueueKeeps ==
  ASSUME IInv, NEW a \in Actors, req[a].pc \in {"checking", "snapshot"}, Enqueue(a),
         UNCHANGED <<conn, hostVars, film>>
  PROVE  /\ req' \in [Actors -> ReqType] /\ sess' \in [Films -> SessType]
         /\ Shape' /\ RoomInv'
<1> DEFINE f == req[a].film
           s == film[f].session
           t == [sess[s] EXCEPT !.issued = @ + 1]
           e == IF req[a].expected = NoCheck THEN req[a].expected
                ELSE req[a].expected - film[f].base
           w == [req[a] EXCEPT !.pc = "queued", !.sess = s, !.ticket = sess[s].issued,
                               !.expected = e, !.before = RevisionOf(f)]
<1>1. /\ req[a] \in ReqType /\ f \in Films /\ film[f].stage \in Built
      /\ s \in Used /\ s \in Films /\ RevisionOf(f) \in Nat /\ film[f].base \in Nat
      /\ req[a].pc # "building"
  BY WorkingHas DEF Working
<1>2. req' = [req EXCEPT ![a] = w] /\ sess' = [sess EXCEPT ![s] = t]
  BY DEF Enqueue
<1>3. sess[s] \in SessType /\ sess[s].issued \in Nat
  BY <1>1 DEF IInv, TypeOK, SessType
<1>4. t \in SessType /\ t.stage = sess[s].stage
  BY <1>3 DEF SessType
<1>5. /\ w \in ReqType /\ w.pc = "queued" /\ w.film = f /\ w.sess = s
      /\ w.kind = req[a].kind
  <2>1. e \in Int
    BY <1>1 DEF ReqType
  <2>2. RevisionOf(f) \in Int
    BY <1>1
  <2>3. PICK n \in Nat, b \in Int : n = sess[s].issued /\ b = RevisionOf(f)
    BY <1>3, <2>2
  <2>4. w = [req[a] EXCEPT !.pc = "queued", !.sess = s, !.ticket = n, !.expected = e,
                           !.before = b]
    BY <2>3
  <2> HIDE DEF e, s, w
  <2> QED
    BY <1>1, <2>1, <2>3, <2>4 DEF ReqType
<1> HIDE DEF t, w
<1>6. Used' = Used /\ sess' \in [Films -> SessType]
  BY <1>1, <1>2, <1>4, OneSession DEF IInv
<1>7. RequestAt(w)
  BY <1>1, <1>5, NotNone DEF RequestAt, Working
<1> QED
  BY <1>1, <1>2, <1>5, <1>6, <1>7, OneRequest DEF hostVars

\* A working request moves on, or is answered, and its session stays as it is
\* but for its numbers.
LEMMA WorksOn ==
  ASSUME IInv, NEW a \in Actors, req[a].pc \in Working,
         UNCHANGED <<hostVars, film>>, \A c \in Conns : conn'[c].film = conn[c].film,
         Used' = Used, NEW w \in ReqType, req' = [req EXCEPT ![a] = w],
         \/ w = Idle
         \/ /\ w.film = req[a].film /\ w.sess = req[a].sess /\ w.kind = req[a].kind
            /\ w.path = req[a].path
            /\ w.pc \in Working \ {"reloading", "reopening"}
         \/ w = [req[a] EXCEPT !.pc = "reopening"] /\ req[a].pc = "reloading"
  PROVE  req' \in [Actors -> ReqType] /\ Shape' /\ RoomInv'
<1>1. RequestAt(w)
  <2>1. CASE w = Idle
    BY <2>1, Answered
  <2>2. CASE /\ w.film = req[a].film /\ w.sess = req[a].sess
             /\ w.pc \in Working \ {"reloading", "reopening"}
    BY <2>2, WorkingHas, NotNone DEF RequestAt, Working
  <2>3. CASE w = [req[a] EXCEPT !.pc = "reopening"] /\ req[a].pc = "reloading"
    <3>1. /\ w.pc = "reopening" /\ w.film = req[a].film /\ w.sess = req[a].sess
          /\ w.kind = req[a].kind /\ w.path = req[a].path /\ w.before = req[a].before
      BY <2>3, WorkingHas DEF ReqType
    <3>2. req[a].kind = "reload" /\ film[req[a].film].path = req[a].path /\ req[a].before \in Nat
      BY <2>3 DEF IInv, Shape, RequestInv, RequestAt
    <3> QED
      BY <3>1, <3>2, WorkingHas, NotNone DEF RequestAt, Working
  <2> QED
    BY <2>1, <2>2, <2>3
<1>2. w.kind \in Openers => req[a].kind \in Openers
  <2>1. req[a] \in ReqType
    BY WorkingHas
  <2> QED
    BY <2>1, Answered DEF ReqType
<1>3. req[a].pc # "building"
  BY DEF Working
<1> QED
  BY <1>1, <1>2, <1>3, OneRequest DEF hostVars

LEMMA MovesOn ==
  ASSUME IInv, NEW a \in Actors, req[a].pc \in Working,
         UNCHANGED <<hostVars, film>>, \A c \in Conns : conn'[c].film = conn[c].film,
         Used' = Used,
         \/ Done(a)
         \/ \E at \in Working \ {"reloading", "reopening"} : Goto(a, at)
         \/ \E at \in Working \ {"reloading", "reopening"} : Journal(a, at)
  PROVE  req' \in [Actors -> ReqType] /\ Shape' /\ RoomInv'
<1>1. req[a] \in ReqType /\ RevisionOf(req[a].film) \in Nat
  BY WorkingHas
<1>2. CASE Done(a)
  BY <1>2, Answered, WorksOn DEF Done
<1>3. ASSUME NEW at \in Working \ {"reloading", "reopening"}, Goto(a, at)
      PROVE  req' \in [Actors -> ReqType] /\ Shape' /\ RoomInv'
  <2> DEFINE w == [req[a] EXCEPT !.pc = at]
  <2>1. req' = [req EXCEPT ![a] = w]
    BY <1>3 DEF Goto
  <2>2. /\ w \in ReqType /\ w.pc = at /\ w.film = req[a].film /\ w.sess = req[a].sess
        /\ w.kind = req[a].kind /\ w.path = req[a].path
    BY <1>1 DEF ReqType, Working
  <2> HIDE DEF w
  <2> QED
    BY <2>1, <2>2, WorksOn
<1>4. ASSUME NEW at \in Working \ {"reloading", "reopening"}, Journal(a, at)
      PROVE  req' \in [Actors -> ReqType] /\ Shape' /\ RoomInv'
  <2> DEFINE w == [req[a] EXCEPT !.pc = at, !.ticket = RevisionOf(req[a].film)]
  <2>1. req' = [req EXCEPT ![a] = w]
    BY <1>4 DEF Journal
  <2>2. /\ w \in ReqType /\ w.pc = at /\ w.film = req[a].film /\ w.sess = req[a].sess
        /\ w.kind = req[a].kind /\ w.path = req[a].path
    BY <1>1 DEF ReqType, Working
  <2> HIDE DEF w
  <2> QED
    BY <2>1, <2>2, WorksOn
<1> QED
  BY <1>2, <1>3, <1>4

\* The numbers of a session go up.
LEMMA CountsUp ==
  ASSUME TypeOK, NEW s \in Films, NEW k \in Nat,
         sess' \in { [sess EXCEPT ![s].issued = @ + 1], [sess EXCEPT ![s].served = @ + 1],
                     [sess EXCEPT ![s].revision = @ + 1],
                     [sess EXCEPT ![s] = [sess[s] EXCEPT !.known = k, !.served = @ + 1]] }
  PROVE  Used' = Used /\ sess' \in [Films -> SessType]
<1>1. /\ sess[s] \in SessType /\ sess[s].issued + 1 \in Nat
      /\ sess[s].served + 1 \in Nat /\ sess[s].revision + 1 \in Nat
  BY DEF TypeOK, SessType
<1>2. /\ [sess[s] EXCEPT !.issued = @ + 1] \in SessType
      /\ [sess[s] EXCEPT !.issued = @ + 1].stage = sess[s].stage
  BY <1>1 DEF SessType
<1>3. /\ [sess[s] EXCEPT !.served = @ + 1] \in SessType
      /\ [sess[s] EXCEPT !.served = @ + 1].stage = sess[s].stage
  BY <1>1 DEF SessType
<1>4. /\ [sess[s] EXCEPT !.revision = @ + 1] \in SessType
      /\ [sess[s] EXCEPT !.revision = @ + 1].stage = sess[s].stage
  BY <1>1 DEF SessType
<1>5. /\ [sess[s] EXCEPT !.known = k, !.served = @ + 1] \in SessType
      /\ [sess[s] EXCEPT !.known = k, !.served = @ + 1].stage = sess[s].stage
  BY <1>1 DEF SessType
<1>6. CASE sess' = [sess EXCEPT ![s].issued = @ + 1]
  BY <1>2, <1>6, OneSession
<1>7. CASE sess' = [sess EXCEPT ![s].served = @ + 1]
  BY <1>3, <1>7, OneSession
<1>8. CASE sess' = [sess EXCEPT ![s].revision = @ + 1]
  BY <1>4, <1>8, OneSession
<1>9. CASE sess' = [sess EXCEPT ![s] = [sess[s] EXCEPT !.known = k, !.served = @ + 1]]
  BY <1>5, <1>9, OneSession
<1> QED
  BY <1>6, <1>7, <1>8, <1>9

LEMMA CheckedKeeps ==
  ASSUME IInv, NEW a \in Actors, Checked(a)
  PROVE  IInv'
<1>1. /\ req[a].pc = "checking" /\ req[a].pc \in Working
      /\ UNCHANGED <<conn, hostVars, film, disk, outside, asked, view, ghosts>>
      /\ \/ Done(a) /\ UNCHANGED sess
         \/ Goto(a, "snapshot") /\ UNCHANGED sess
         \/ Enqueue(a)
  BY DEF Checked, Working
<1>2. /\ req' \in [Actors -> ReqType] /\ sess' \in [Films -> SessType]
      /\ Shape' /\ RoomInv'
  <2>1. CASE Enqueue(a)
    BY <1>1, <2>1, EnqueueKeeps
  <2>2. CASE (Done(a) \/ Goto(a, "snapshot")) /\ UNCHANGED sess
    <3>1. "snapshot" \in Working \ {"reloading", "reopening"}
      BY DEF Working
    <3>2. sess' \in [Films -> SessType] /\ Used' = Used
      BY <2>2, SameSessions DEF IInv, TypeOK
    <3> QED
      BY <1>1, <2>2, <3>1, <3>2, MovesOn
  <2> QED
    BY <1>1, <2>1, <2>2
<1>3. TypeOK'
  BY <1>1, <1>2 DEF IInv, TypeOK, hostVars, ghosts, flags
<1> QED
  BY <1>2, <1>3 DEF IInv

LEMMA SnapshotKeeps ==
  ASSUME IInv, NEW a \in Actors, Snapshotted(a) \/ SnapshotFails(a)
  PROVE  IInv'
<1>1. /\ req[a].pc = "snapshot" /\ req[a].pc \in Working
      /\ UNCHANGED <<conn, hostVars, film, disk, outside, asked, view, ghosts>>
      /\ Enqueue(a) \/ (Done(a) /\ UNCHANGED sess)
  BY DEF Snapshotted, SnapshotFails, Working
<1>2. /\ req' \in [Actors -> ReqType] /\ sess' \in [Films -> SessType]
      /\ Shape' /\ RoomInv'
  <2>1. CASE Enqueue(a)
    BY <1>1, <2>1, EnqueueKeeps
  <2>2. CASE Done(a) /\ UNCHANGED sess
    <3>1. sess' \in [Films -> SessType] /\ Used' = Used
      BY <2>2, SameSessions DEF IInv, TypeOK
    <3> QED
      BY <1>1, <2>2, <3>1, MovesOn
  <2> QED
    BY <1>1, <2>1, <2>2
<1>3. TypeOK'
  BY <1>1, <1>2 DEF IInv, TypeOK, hostVars, ghosts, flags
<1> QED
  BY <1>2, <1>3 DEF IInv

LEMMA SaveAsKeeps ==
  ASSUME IInv, NEW a \in Actors, NEW p \in Paths, SaveAs(a, p)
  PROVE  IInv'
<1> DEFINE c == ConnOf[a]
           f == conn[c].film
           s == film[f].session
           w == [Idle EXCEPT !.pc = "queued", !.kind = "saveAs", !.path = p,
                             !.film = f, !.sess = s, !.ticket = sess[s].issued]
<1>1. /\ c \in Conns /\ f # None /\ req[a].pc # "building" /\ Room
      /\ req' = [req EXCEPT ![a] = w] /\ asked' = asked + 1
      /\ sess' = [sess EXCEPT ![s].issued = @ + 1]
      /\ UNCHANGED <<conn, hostVars, film, disk, outside, view, ghosts>>
  BY ActorConn DEF SaveAs, Ask, CanAsk
<1>2. f \in Films /\ film[f].stage = "open" /\ s \in Used /\ s \in Films
  BY <1>1, ConnHas
<1>3. sess[s].issued \in Nat
  BY <1>2 DEF IInv, TypeOK, SessType
<1>4. /\ w \in ReqType /\ w.pc = "queued" /\ w.film = f /\ w.sess = s
  BY <1>2, <1>3, RecordTypes DEF ReqType, RequestNames
<1> HIDE DEF w
<1>5. RequestAt(w)
  BY <1>1, <1>2, <1>4 DEF RequestAt, Working, Built
<1>6. Used' = Used /\ sess' \in [Films -> SessType]
  BY <1>1, <1>2, CountsUp DEF IInv
<1>7. req' \in [Actors -> ReqType] /\ Shape' /\ RoomInv'
  BY <1>1, <1>4, <1>5, <1>6, OneRequest DEF hostVars
<1>8. TypeOK'
  <2>0. asked \in Nat
    BY DEF IInv, TypeOK
  <2>1. asked' = asked + 1
    BY DEF SaveAs, Ask
  <2>2. asked' \in Nat
    BY <2>0, <2>1
  <2> QED
    BY <1>1, <1>6, <1>7, <2>2 DEF IInv, TypeOK, hostVars, ghosts, flags
<1> QED
  BY <1>7, <1>8 DEF IInv

\* The steps of a queued write that change only its session's numbers.
LEMMA QueueKeeps ==
  ASSUME IInv, NEW a \in Actors, RefuseInQueue(a) \/ Settle(a) \/ FinishWrite(a)
  PROVE  IInv'
<1> DEFINE s == req[a].sess
           k == disk[sess[s].path].rows
           w == [req[a] EXCEPT !.pc = "refreshing",
                               !.before = IF req[a].pc = "threw" THEN Threw ELSE @]
<1>1. req[a].pc \in Working
  BY DEF RefuseInQueue, AtHead, Settle, FinishWrite, Working
<1>2. UNCHANGED <<conn, hostVars, film, disk, outside, asked, view, ghosts>>
  BY DEF RefuseInQueue, Settle, FinishWrite
<1>3. s \in Films /\ req[a] \in ReqType
  BY <1>1, WorkingHas
<1>4. k \in Nat
  BY <1>3 DEF IInv, TypeOK, SessType
<1>5. sess' \in { [sess EXCEPT ![s].served = @ + 1], [sess EXCEPT ![s].revision = @ + 1],
                 [sess EXCEPT ![s] = [sess[s] EXCEPT !.known = k, !.served = @ + 1]] }
  BY DEF RefuseInQueue, Settle, FinishWrite, Refreshed
<1>6. Used' = Used /\ sess' \in [Films -> SessType]
  <2> HIDE DEF s, k
  <2> QED
    BY <1>3, <1>4, <1>5, CountsUp DEF IInv
<1>7. req' \in [Actors -> ReqType] /\ Shape' /\ RoomInv'
  <2>1. {"refused", "recorded", "refreshing"} \subseteq Working \ {"reloading", "reopening"}
    BY DEF Working
  <2>2. CASE RefuseInQueue(a) \/ FinishWrite(a)
    <3>1. Done(a) \/ Journal(a, "refused") \/ Journal(a, "recorded")
      BY <2>2 DEF RefuseInQueue, FinishWrite
    <3> QED
      BY <1>1, <1>2, <1>6, <2>1, <3>1, MovesOn
  <2>3. CASE Settle(a)
    <3>1. req' = [req EXCEPT ![a] = w]
      BY <2>3 DEF Settle
    <3>2. /\ w \in ReqType /\ w.pc = "refreshing" /\ w.film = req[a].film
          /\ w.sess = req[a].sess /\ w.kind = req[a].kind /\ w.path = req[a].path
      <4>1. PICK b \in Int : b = IF req[a].pc = "threw" THEN Threw ELSE req[a].before
        BY <1>3 DEF ReqType, Threw
      <4>2. w = [req[a] EXCEPT !.pc = "refreshing", !.before = b]
        BY <4>1
      <4> HIDE DEF w
      <4> QED
        BY <1>3, <4>2 DEF ReqType
    <3> HIDE DEF w
    <3> QED
      BY <1>1, <1>2, <1>6, <2>1, <3>1, <3>2, WorksOn
  <2> QED
    BY <2>2, <2>3
<1>8. TypeOK'
  BY <1>2, <1>6, <1>7 DEF IInv, TypeOK, hostVars, ghosts, flags
<1> QED
  BY <1>7, <1>8 DEF IInv

\* A run in vain, and one that commits rows or copies the file.
LEMMA RunKeeps ==
  ASSUME IInv, NEW a \in Actors, RunInVain(a) \/ Commit(a) \/ CopyFile(a)
  PROVE  IInv'
<1> DEFINE p == req[a].path
           q == film[req[a].film].path
<1>1. req[a].pc \in Working
  BY DEF RunInVain, Commit, CopyFile, AtHead, Working
<1>2. /\ UNCHANGED <<conn, hostVars, film, sess, outside, asked, view, given, repeated>>
      /\ Goto(a, "threw") \/ Goto(a, "ran")
  BY DEF RunInVain, Commit, CopyFile, ghosts, flags
<1>3. p \in Paths /\ q \in Paths
  BY <1>1, WorkingHas
<1>4. disk' \in [Paths -> [exists : BOOLEAN, rows : Nat]]
  <2>1. /\ disk \in [Paths -> [exists : BOOLEAN, rows : Nat]]
        /\ [disk[p] EXCEPT !.rows = @ + 1] \in [exists : BOOLEAN, rows : Nat]
    BY <1>3 DEF IInv, TypeOK
  <2>2. \/ disk' = disk
        \/ disk' = [disk EXCEPT ![p] = [disk[p] EXCEPT !.rows = @ + 1]]
        \/ disk' = [disk EXCEPT ![p] = disk[q]]
    BY DEF RunInVain, Commit, CopyFile
  <2> QED
    BY <1>3, <2>1, <2>2
<1>5. blind' \in BOOLEAN
  BY DEF RunInVain, Commit, CopyFile, ghosts, flags, IInv, TypeOK
<1>6. req' \in [Actors -> ReqType] /\ Shape' /\ RoomInv'
  <2>1. {"threw", "ran"} \subseteq Working \ {"reloading", "reopening"}
    BY DEF Working
  <2> QED
    BY <1>1, <1>2, <2>1, SameSessions, MovesOn
<1>7. TypeOK'
  BY <1>2, <1>4, <1>5, <1>6 DEF IInv, TypeOK, hostVars
<1> QED
  BY <1>6, <1>7 DEF IInv

\* A dry run, and the end of a write: somebody may be told.
LEMMA TellingKeeps ==
  ASSUME IInv, NEW a \in Actors, DryRun(a) \/ Announce(a)
  PROVE  IInv'
<1> DEFINE s == req[a].sess
           f == req[a].film
<1>1. req[a].pc \in Working /\ Done(a)
      /\ UNCHANGED <<hostVars, film, disk, outside, asked, view, flags>>
  BY DEF DryRun, Announce, AtHead, Working
<1>2. /\ s \in Films /\ f \in Films /\ req[a] \in ReqType
      /\ req[a].path \in Paths /\ film[f].path \in Paths /\ film[f].base \in Nat
  BY <1>1, WorkingHas
<1>3. \E told : \E p \in Paths, r \in Nat : Tell(told, p, r)
  <2>1. CASE DryRun(a)
    <3>1. film[f].base + sess[s].revision \in Nat
      BY <1>2 DEF IInv, TypeOK, SessType
    <3> QED
      <4>1. Tell({ConnOf[a]}, req[a].path, film[f].base + sess[s].revision)
        BY <2>1 DEF DryRun
      <4> QED
        BY <1>2, <3>1, <4>1, Zenon
  <2>2. CASE Announce(a)
    <3>1. req[a].ticket \in Nat
      BY <1>2 DEF ReqType
    <3> QED
      <4> DEFINE told == IF req[a].ticket # req[a].before THEN Listeners(f) ELSE {}
                 all == IF req[a].pc = "recorded" /\ req[a].before # Threw
                        THEN told \cup {ConnOf[a]} ELSE told
      <4>1. Tell(all, film[f].path, req[a].ticket)
        BY <2>2, Zenon DEF Announce
      <4> QED
        BY <1>2, <3>1, <4>1, Zenon
  <2> QED
    BY <2>1, <2>2
<1>4. /\ conn' \in [Conns -> ConnType] /\ given' \in [Paths -> Nat]
      /\ \A c \in Conns : conn'[c].film = conn[c].film
  BY <1>3, TellType DEF IInv
<1>5. Used' = Used /\ sess' \in [Films -> SessType]
  <2>1. UNCHANGED sess \/ sess' = [sess EXCEPT ![s].served = @ + 1]
    BY DEF DryRun, Announce
  <2> QED
    BY <1>2, <2>1, SameSessions, CountsUp DEF IInv, TypeOK
<1>6. req' \in [Actors -> ReqType] /\ Shape' /\ RoomInv'
  BY <1>1, <1>4, <1>5, MovesOn
<1>7. TypeOK'
  BY <1>1, <1>4, <1>5, <1>6 DEF IInv, TypeOK, hostVars, flags
<1> QED
  BY <1>6, <1>7 DEF IInv

LEMMA FinishCopyKeeps ==
  ASSUME IInv, NEW a \in Actors, FinishCopy(a)
  PROVE  IInv'
<1> DEFINE c == ConnOf[a]
           s == req[a].sess
           k == disk[sess[s].path].rows
           w == [req[a] EXCEPT !.pc = "leaving", !.film = LeftBehind(c)]
<1>1. /\ req[a].pc = "refreshing" /\ req[a].pc \in Working /\ req[a].kind = "saveAs"
      /\ sess' = [sess EXCEPT ![s] = [sess[s] EXCEPT !.known = k, !.served = @ + 1]]
      /\ UNCHANGED <<opening, disk, outside, asked, view, ghosts>>
      /\ \/ Done(a) /\ UNCHANGED <<conn, film, films, lastRev>>
         \/ req' = [req EXCEPT ![a] = w] /\ Leave(c, conn[c].live)
  BY DEF FinishCopy, Refreshed, Working
<1>2. s \in Films /\ req[a] \in ReqType /\ c \in Conns
  BY <1>1, WorkingHas, ActorConn
<1>3. k \in Nat
  BY <1>2 DEF IInv, TypeOK, SessType
<1>4. Used' = Used /\ sess' \in [Films -> SessType]
  <2> HIDE DEF s, k
  <2> QED
    BY <1>1, <1>2, <1>3, CountsUp DEF IInv
<1>5. CASE Done(a) /\ UNCHANGED <<conn, film, films, lastRev>>
  <2>1. req' \in [Actors -> ReqType] /\ Shape' /\ RoomInv'
    BY <1>1, <1>4, <1>5, MovesOn DEF hostVars
  <2>2. TypeOK'
    BY <1>1, <1>4, <1>5, <2>1 DEF IInv, TypeOK, ghosts, flags
  <2> QED
    BY <2>1, <2>2 DEF IInv
<1>6. CASE req' = [req EXCEPT ![a] = w] /\ Leave(c, conn[c].live)
  <2>1. conn[c].live \in BOOLEAN
    BY <1>2 DEF IInv, TypeOK, ConnType
  <2>2. /\ conn' \in [Conns -> ConnType] /\ film' \in [Films -> FilmType]
        /\ films' \in [Paths -> Films \cup {None}] /\ lastRev' \in [Paths -> Nat]
        /\ LeftBehind(c) \in Films \cup {None} /\ Steady
    BY <1>2, <1>6, <2>1, LeaveType DEF IInv, Shape
  <2>3. w \in ReqType /\ w.pc = "leaving" /\ w.kind = req[a].kind
    BY <1>2, <2>2 DEF ReqType
  <2> HIDE DEF w
  <2>4. req' \in [Actors -> ReqType] /\ Shape' /\ RoomInv'
    BY <1>1, <1>2, <1>4, <1>6, <2>1, <2>3, LeaveStep
  <2>5. TypeOK'
    BY <1>1, <1>4, <2>2, <2>4 DEF IInv, TypeOK, ghosts, flags
  <2> QED
    BY <2>4, <2>5 DEF IInv
<1> QED
  BY <1>1, <1>5, <1>6

-----------------------------------------------------------------------------
(* The steps of a reload, and every step *)

LEMMA ReloadKeeps ==
  ASSUME IInv, NEW a \in Actors, Reload(a)
  PROVE  IInv'
<1> DEFINE c == ConnOf[a]
           f == conn[c].film
           s == film[f].session
           w == [Idle EXCEPT !.pc = "reloading", !.kind = "reload",
                             !.path = film[f].path, !.film = f, !.sess = s,
                             !.ticket = sess[s].issued, !.before = RevisionOf(f) + 1]
           at == IF sess[s].closeAt = NotClosed THEN sess[s].issued ELSE sess[s].closeAt
           t == [sess[s] EXCEPT !.closeAt = at]
<1>1. /\ c \in Conns /\ f # None /\ req[a].pc # "building" /\ Room
      /\ req' = [req EXCEPT ![a] = w] /\ asked' = asked + 1
      /\ sess' = [sess EXCEPT ![s] = t]
      /\ UNCHANGED <<conn, hostVars, film, disk, outside, view, ghosts>>
  BY ActorConn DEF Reload, Ask, CanAsk
<1>2. /\ f \in Films /\ film[f].stage = "open" /\ s \in Used /\ s \in Films
      /\ film[f].path \in Paths /\ RevisionOf(f) \in Nat
  BY <1>1, ConnHas
<1>3. sess[s] \in SessType /\ sess[s].issued \in Nat
  BY <1>2 DEF IInv, TypeOK, SessType
<1>4. t \in SessType /\ t.stage = sess[s].stage
  <2>1. at \in Nat \cup {NotClosed}
    BY <1>3 DEF SessType
  <2> HIDE DEF at
  <2> QED
    BY <1>3, <2>1 DEF SessType
<1>5. /\ w \in ReqType /\ w.pc = "reloading" /\ w.film = f /\ w.sess = s
      /\ w.kind = "reload" /\ w.path = film[f].path /\ w.before \in Nat
  <2>1. PICK n \in Nat, b \in Nat : n = sess[s].issued /\ b = RevisionOf(f) + 1
    BY <1>2, <1>3
  <2>2. w = [Idle EXCEPT !.pc = "reloading", !.kind = "reload", !.path = film[f].path,
                         !.film = f, !.sess = s, !.ticket = n, !.before = b]
    BY <2>1
  <2>3. "reload" \in RequestNames /\ b \in Int /\ Idle \in ReqType
    BY <2>1, RecordTypes DEF RequestNames
  <2> HIDE DEF w
  <2>4. w \in ReqType
    <3> HIDE DEF s, f
    <3> QED
      BY <1>2, <2>1, <2>2, <2>3 DEF ReqType
  <2>5. w.film = f /\ w.sess = s /\ w.path = film[f].path
    BY <2>2, <2>3 DEF ReqType
  <2>6. w.pc = "reloading" /\ w.kind = "reload" /\ w.before = b
    BY <2>2, <2>3 DEF ReqType
  <2> QED
    BY <2>1, <2>4, <2>5, <2>6
<1> HIDE DEF w, t
<1>6. RequestAt(w)
  BY <1>1, <1>2, <1>5 DEF RequestAt, Working, Built
<1>7. Used' = Used /\ sess' \in [Films -> SessType]
  BY <1>1, <1>2, <1>4, OneSession DEF IInv
<1>8. req' \in [Actors -> ReqType] /\ Shape' /\ RoomInv'
  BY <1>1, <1>5, <1>6, <1>7, OneRequest DEF hostVars
<1>9. TypeOK'
  <2>0. asked \in Nat
    BY DEF IInv, TypeOK
  <2>1. asked' = asked + 1
    BY DEF Reload, Ask
  <2>2. asked' \in Nat
    BY <2>0, <2>1
  <2> QED
    BY <1>1, <1>7, <1>8, <2>2 DEF IInv, TypeOK, hostVars, ghosts, flags
<1> QED
  BY <1>8, <1>9 DEF IInv

LEMMA ReloadEndsKeeps ==
  ASSUME IInv, NEW a \in Actors, ReloadCloses(a) \/ ReloadFails(a)
  PROVE  IInv'
<1> DEFINE s == req[a].sess
           t == [sess[s] EXCEPT !.stage = "closed"]
           w == [req[a] EXCEPT !.pc = "reopening"]
<1>1. /\ req[a].pc \in Working
      /\ UNCHANGED <<conn, hostVars, film, disk, outside, asked, view, ghosts>>
      /\ \/ Done(a) /\ UNCHANGED sess
         \/ /\ req[a].pc = "reloading" /\ req' = [req EXCEPT ![a] = w]
            /\ sess' = [sess EXCEPT ![s] = t]
  BY DEF ReloadCloses, ReloadFails, Working, Goto
<1>2. s \in Films /\ sess[s].stage # "none" /\ req[a] \in ReqType
  BY <1>1, WorkingHas DEF Used
<1>3. sess[s] \in SessType
  BY <1>2 DEF IInv, TypeOK
<1>4. t \in SessType /\ t.stage = "closed"
  BY <1>3 DEF SessType
<1>5. Used' = Used /\ sess' \in [Films -> SessType]
  <2> HIDE DEF t
  <2> QED
    BY <1>1, <1>2, <1>4, OneSession, SameSessions DEF IInv, TypeOK
<1>6. w \in ReqType
  BY <1>2 DEF ReqType
<1>7. req' \in [Actors -> ReqType] /\ Shape' /\ RoomInv'
  BY <1>1, <1>5, <1>6, MovesOn, WorksOn
<1>8. TypeOK'
  BY <1>1, <1>5, <1>7 DEF IInv, TypeOK, hostVars, ghosts, flags
<1> QED
  BY <1>7, <1>8 DEF IInv

LEMMA InitHolds == Init => IInv
<1> SUFFICES ASSUME Init PROVE IInv
  OBVIOUS
<1>0. MaxFilms \in Nat
  BY FilmHostAssumption
<1>1. /\ conn = [c \in Conns |-> [film |-> None, live |-> TRUE, rev |-> 0]]
      /\ films = [p \in Paths |-> None] /\ opening = [p \in Paths |-> None]
      /\ lastRev = [p \in Paths |-> 0] /\ given = [p \in Paths |-> 0]
      /\ film = [f \in Films |-> NoFilm] /\ sess = [s \in Films |-> NoSession]
      /\ disk = [p \in Paths |-> [exists |-> p \in Present, rows |-> 0]]
      /\ outside = [p \in Paths |-> 0] /\ asked = 0
      /\ req = [a \in Actors |-> Idle]
      /\ view = [c \in Conns |-> [path |-> CHOOSE p \in Paths : TRUE,
                                  rev |-> NoCheck, rows |-> 0]]
      /\ blind = FALSE /\ repeated = FALSE
  BY DEF Init
<1>2. NoFilm.stage = "none" /\ NoSession.stage = "none"
  BY DEF NoFilm, NoSession
<1>3. Used = {} /\ Pending = {}
  BY <1>1, <1>2, Answered DEF Used, Pending
<1>4. TypeOK
  <2>1. conn \in [Conns -> ConnType]
    BY <1>1 DEF ConnType
  <2>2. disk \in [Paths -> [exists : BOOLEAN, rows : Nat]]
    BY <1>1
  <2>3. view \in [Conns -> [path : Paths, rev : Int, rows : Nat]]
    BY <1>1, RecordTypes DEF NoCheck
  <2> QED
    BY <1>1, <2>1, <2>2, <2>3, RecordTypes DEF TypeOK
<1>5. FilmInv /\ SessionInv /\ PathInv /\ ConnInv
  BY <1>1, <1>2 DEF FilmInv, SessionInv, PathInv, ConnInv, Built
<1>6. RequestInv
  BY <1>1, Answered DEF RequestInv
<1>7. RoomInv
  BY <1>0, <1>3, FS_EmptySet DEF RoomInv
<1> QED
  BY <1>4, <1>5, <1>6, <1>7 DEF IInv, Shape

LEMMA NextKeeps == IInv /\ [Next]_vars => IInv'
<1> SUFFICES ASSUME IInv, [Next]_vars PROVE IInv'
  OBVIOUS
<1>1. ASSUME NEW a \in Actors, Request(a)
      PROVE  IInv'
  <2>1. ASSUME NEW p \in Paths, Open(a, p) \/ Create(a, p) \/ SaveAs(a, p)
        PROVE  IInv'
    BY <2>1, OpenKeeps, CreateKeeps, SaveAsKeeps
  <2>2. ASSUME NEW k \in {"op", "call", "dry"}, NEW e \in {NoCheck, view[ConnOf[a]].rev},
               AskWrite(a, k, e)
        PROVE  IInv'
    BY <2>2, AskWriteKeeps
  <2> QED
    BY <1>1, <2>1, <2>2, CloseRequestKeeps, ReloadKeeps, ReadKeeps DEF Request
<1>2. ASSUME NEW a \in Actors, OpenStep(a)
      PROVE  IInv'
  BY <1>2, FinishCloseKeeps, MakeFileKeeps, OpenExistingKeeps, JoinOpeningKeeps,
     StartBuildKeeps, BuildFailsKeeps, BuildKeeps DEF OpenStep
<1>3. ASSUME NEW a \in Actors, WriteStep(a)
      PROVE  IInv'
  BY <1>3, CheckedKeeps, SnapshotKeeps, QueueKeeps, RunKeeps, TellingKeeps, FinishCopyKeeps
     DEF WriteStep
<1>4. ASSUME NEW a \in Actors, ReloadStep(a)
      PROVE  IInv'
  BY <1>4, ReloadEndsKeeps, ReloadOpensKeeps DEF ReloadStep
<1>5. CASE UNCHANGED vars
  <2>1. UNCHANGED <<conn, hostVars, film, sess, disk, outside, asked, req, view, ghosts>>
    BY <1>5 DEF vars
  <2>2. Shape' /\ RoomInv'
    BY <2>1, Untouched DEF hostVars
  <2>3. TypeOK'
    BY <2>1 DEF IInv, TypeOK, hostVars, ghosts, flags
  <2> QED
    BY <2>2, <2>3 DEF IInv
<1> QED
  BY <1>1, <1>2, <1>3, <1>4, <1>5, DrainFilmKeeps, CloseFilmKeeps, DropKeeps, OutsideEditKeeps
     DEF Next, Rest

\* Every reachable state is well typed: no step finds itself without a film or a
\* session to go on with, and the bounds on films and sessions stop none of them.
THEOREM TypeCorrect == Spec => []TypeOK
<1>1. IInv => TypeOK
  BY DEF IInv
<1> QED
  BY <1>1, InitHolds, NextKeeps, PTL DEF Spec

\* A file never has two films, however opens, closes and failures of it overlap
\* (core.ts:405-418 with the map left before the drain in 388-393).
THEOREM OneFilmTheorem == Spec => []OneFilmPerPath
<1>1. IInv => OneFilmPerPath
  <2> SUFFICES ASSUME IInv, NEW f \in Films, NEW g \in Films,
                      film[f].stage \in {"building", "open"},
                      film[g].stage \in {"building", "open"},
                      film[f].path = film[g].path
               PROVE  f = g
    BY DEF OneFilmPerPath
  <2> USE DEF IInv, Shape
  <2>1. film[f].path \in Paths /\ f # None /\ g # None
    BY NotNone DEF TypeOK, FilmType
  <2>2. films[film[f].path] = None \/ opening[film[f].path] = None
    BY <2>1 DEF PathInv
  <2>3. /\ IF film[f].stage = "open" THEN films[film[f].path] = f
           ELSE opening[film[f].path] = f
        /\ IF film[g].stage = "open" THEN films[film[f].path] = g
           ELSE opening[film[f].path] = g
    BY DEF FilmInv
  <2> QED
    BY <2>1, <2>2, <2>3
<1> QED
  BY <1>1, InitHolds, NextKeeps, PTL DEF Spec

-----------------------------------------------------------------------------
(* Revisions *)

\* What a step leaves of one path's revision: the same or more.
Rises(p) == PathRevision(p)' >= PathRevision(p)

LEMMA SameRevisions ==
  ASSUME IInv, UNCHANGED sess, NEW s \in Films
  PROVE  sess'[s].revision >= sess[s].revision
BY DEF IInv, TypeOK, SessType

LEMMA RevisionOfPath ==
  ASSUME IInv, NEW p \in Paths
  PROVE  PathRevision(p) \in Nat
<1> USE DEF IInv, Shape
<1>1. films[p] # None => films[p] \in Films /\ film[films[p]].stage \in Built
  BY DEF TypeOK, PathInv, Built
<1> QED
  BY <1>1, RevisionIsNat DEF PathRevision, TypeOK

\* A step that leaves alone which film a path has, and that film's session and base,
\* brings the path's revision down only if it brings the session's down.
LEMMA PathRises ==
  ASSUME IInv, TypeOK', NEW p \in Paths,
         films'[p] = films[p], lastRev'[p] = lastRev[p],
         \A f \in Films : film[f].stage = "open" /\ film[f].path = p =>
            film'[f].session = film[f].session /\ film'[f].base = film[f].base,
         \A s \in Used : sess'[s].revision >= sess[s].revision
  PROVE  Rises(p)
<1> USE DEF IInv, Shape
<1>1. CASE films[p] = None
  <2>1. lastRev[p] \in Nat
    BY DEF TypeOK
  <2> QED
    BY <1>1, <2>1 DEF Rises, PathRevision
<1>2. CASE films[p] # None
  <2> DEFINE f == films[p]
             s == film[f].session
  <2>1. f \in Films /\ film[f].stage = "open" /\ film[f].path = p
    BY <1>2 DEF TypeOK, PathInv
  <2>2. s \in Used /\ s \in Films /\ film[f].base \in Nat /\ sess[s].revision \in Nat
    BY <2>1, RevisionIsNat DEF FilmInv, Built
  <2>3. film'[f].session = s /\ film'[f].base = film[f].base /\ films'[p] = f
    BY <2>1
  <2>4. sess'[s].revision >= sess[s].revision /\ sess'[s].revision \in Int
    BY <2>2 DEF TypeOK, SessType
  <2>5. PathRevision(p) = film[f].base + sess[s].revision
    BY <1>2 DEF PathRevision, RevisionOf
  <2>6. PathRevision(p)' = film[f].base + sess'[s].revision
    BY <1>2, <2>3 DEF PathRevision, RevisionOf
  <2> QED
    BY <2>2, <2>4, <2>5, <2>6 DEF Rises
<1> QED
  BY <1>1, <1>2

\* The steps that count a session's numbers or close it, and leave its film be.
LEMMA CountingRises ==
  ASSUME IInv, NEW a \in Actors, NEW s \in Films,
         \/ Checked(a) \/ Snapshotted(a) \/ RefuseInQueue(a) \/ DryRun(a) \/ Settle(a)
         \/ FinishWrite(a) \/ Reload(a) \/ ReloadCloses(a) \/ FinishCopy(a)
         \/ \E p \in Paths : SaveAs(a, p)
  PROVE  sess'[s].revision >= sess[s].revision
<1>0. sess[s] \in SessType /\ sess[s].revision \in Nat /\ DOMAIN sess = Films
  BY DEF IInv, TypeOK, SessType
<1>1. CASE Checked(a) \/ Snapshotted(a)
  <2>1. UNCHANGED sess \/ \E h \in Films : sess' = [sess EXCEPT ![h].issued = @ + 1]
    <3>1. UNCHANGED sess \/ Enqueue(a)
      BY <1>1 DEF Checked, Snapshotted
    <3>2. req[a].pc \in Working
      BY <1>1 DEF Checked, Snapshotted, Working
    <3> QED
      BY <3>1, <3>2, WorkingHas DEF Enqueue
  <2> QED
    BY <1>0, <2>1 DEF SessType
<1>2. CASE RefuseInQueue(a) \/ DryRun(a)
  <2>1. sess' = [sess EXCEPT ![req[a].sess].served = @ + 1]
    BY <1>2 DEF RefuseInQueue, DryRun
  <2> QED
    BY <1>0, <2>1 DEF SessType
<1>3. CASE Settle(a)
  <2>1. sess' = [sess EXCEPT ![req[a].sess].revision = @ + 1]
    BY <1>3 DEF Settle
  <2> QED
    BY <1>0, <2>1 DEF SessType
<1>4. CASE FinishWrite(a) \/ FinishCopy(a)
  <2>1. Refreshed(a)
    BY <1>4 DEF FinishWrite, FinishCopy
  <2> DEFINE h == req[a].sess
             k == disk[sess[h].path].rows
  <2>2. sess' = [sess EXCEPT ![h] = [sess[h] EXCEPT !.known = k, !.served = @ + 1]]
    BY <2>1 DEF Refreshed
  <2>3. CASE s = h
    <3>1. sess'[s].revision = sess[s].revision
      BY <1>0, <2>2, <2>3 DEF SessType
    <3> QED
      BY <1>0, <3>1
  <2>4. CASE s # h
    <3>1. sess'[s] = sess[s]
      BY <1>0, <2>2, <2>4
    <3> QED
      BY <1>0, <3>1
  <2> QED
    BY <2>3, <2>4
<1>5. CASE Reload(a)
  <2> DEFINE h == film[conn[ConnOf[a]].film].session
             at == IF sess[h].closeAt = NotClosed THEN sess[h].issued ELSE sess[h].closeAt
  <2>1. sess' = [sess EXCEPT ![h].closeAt = at]
    BY <1>5 DEF Reload
  <2> HIDE DEF h, at
  <2> QED
    BY <1>0, <2>1 DEF SessType
<1>6. CASE ReloadCloses(a)
  <2>1. sess' = [sess EXCEPT ![req[a].sess].stage = "closed"]
    BY <1>6 DEF ReloadCloses
  <2> QED
    BY <1>0, <2>1 DEF SessType
<1>7. CASE \E p \in Paths : SaveAs(a, p)
  <2> DEFINE h == film[conn[ConnOf[a]].film].session
  <2>1. sess' = [sess EXCEPT ![h].issued = @ + 1]
    BY <1>7 DEF SaveAs
  <2> HIDE DEF h
  <2> QED
    BY <1>0, <2>1 DEF SessType
<1> QED
  BY <1>1, <1>2, <1>3, <1>4, <1>5, <1>6, <1>7

LEMMA ClosingRises ==
  ASSUME IInv, NEW f \in Films, NEW s \in Films, DrainFilm(f) \/ CloseFilm(f)
  PROVE  sess'[s].revision >= sess[s].revision
<1>0. sess[s] \in SessType /\ sess[s].revision \in Nat /\ DOMAIN sess = Films
  BY DEF IInv, TypeOK, SessType
<1> DEFINE h == film[f].session
           at == IF sess[h].closeAt = NotClosed \/ sess[h].stage = "closed"
                 THEN sess[h].issued ELSE sess[h].closeAt
<1>1. \/ sess' = [sess EXCEPT ![h].closeAt = at]
      \/ sess' = [sess EXCEPT ![h].stage = "closed"]
  BY DEF DrainFilm, CloseFilm
<1> HIDE DEF h, at
<1> QED
  BY <1>0, <1>1 DEF SessType

\* A connection that leaves takes the revision along into lastRevisions.
LEMMA LeavingRises ==
  ASSUME IInv, TypeOK', NEW p \in Paths, NEW c \in Conns, NEW live, Leave(c, live),
         \A s \in Films : sess'[s].revision >= sess[s].revision
  PROVE  Rises(p)
<1> DEFINE f == conn[c].film
           q == film[f].path
           last == f # None /\ Remaining(f, c) = {}
<1>1. CASE f = None
  BY <1>1, PathRises DEF Leave, Used
<1>2. CASE f # None
  <2>1. /\ f \in Films /\ film[f].stage = "open" /\ q \in Paths /\ films[q] = f
        /\ RevisionOf(f) \in Nat
    BY <1>2, ConnHas
  <2> DEFINE g == [film[f] EXCEPT !.clients = Remaining(f, c),
                                  !.stage = IF last /\ @ = "open" THEN "draining" ELSE @]
  <2>2. film' = [film EXCEPT ![f] = g]
    BY <1>2 DEF Leave
  <2>3. film[f] \in FilmType
    BY <2>1 DEF IInv, TypeOK
  <2>4. g.session = film[f].session /\ g.base = film[f].base
    BY <2>3 DEF FilmType
  <2>5. \A h \in Films : film'[h].session = film[h].session /\ film'[h].base = film[h].base
    <3> HIDE DEF g
    <3> QED
      BY <2>1, <2>2, <2>4 DEF IInv, TypeOK
  <2>6. CASE last /\ p = q
    <3>1. films'[p] = None /\ lastRev'[p] = RevisionOf(f)
      BY <2>1, <2>6 DEF Leave, RevisionToKeep, IInv, TypeOK
    <3>2. PathRevision(p) = RevisionOf(f)
      BY <1>2, <2>1, <2>6 DEF PathRevision
    <3>3. PathRevision(p)' = RevisionOf(f)
      BY <3>1 DEF PathRevision
    <3> QED
      BY <2>1, <3>2, <3>3 DEF Rises
  <2>7. CASE ~(last /\ p = q)
    <3>1. films'[p] = films[p] /\ lastRev'[p] = lastRev[p]
      BY <1>2, <2>1, <2>7 DEF Leave, IInv, TypeOK
    <3> QED
      BY <2>5, <3>1, PathRises DEF Used
  <2> QED
    BY <2>6, <2>7
<1> QED
  BY <1>1, <1>2

LEMMA OpenExistingRises ==
  ASSUME IInv, TypeOK', NEW p \in Paths, NEW a \in Actors, OpenExisting(a)
  PROVE  Rises(p)
<1> DEFINE f == films[req[a].path]
           g == [film[f] EXCEPT !.clients = @ \cup {ConnOf[a]}]
<1>1. film' = [film EXCEPT ![f] = g] /\ UNCHANGED <<films, lastRev, sess>>
  BY DEF OpenExisting, hostVars
<1>2. g.session = film[f].session /\ g.base = film[f].base
  <2>1. f \in Films /\ film[f] \in FilmType
    BY DEF OpenExisting, MayOpen, IInv, TypeOK, ReqType
  <2> QED
    BY <2>1 DEF FilmType
<1> HIDE DEF g, f
<1>3. \A h \in Films : film'[h].session = film[h].session /\ film'[h].base = film[h].base
  BY <1>1, <1>2 DEF IInv, TypeOK
<1>4. \A s \in Used : sess'[s].revision >= sess[s].revision
  BY <1>1, SameRevisions DEF Used
<1> QED
  BY <1>1, <1>3, <1>4, PathRises

\* An opening takes a film nobody has, and gives back one nobody got to have.
LEMMA OpeningRises ==
  ASSUME IInv, TypeOK', NEW p \in Paths, NEW a \in Actors, StartBuild(a) \/ BuildFails(a)
  PROVE  Rises(p)
<1>1. PICK f \in Films : /\ film[f].stage # "open"
                         /\ \A h \in Films \ {f} : film'[h] = film[h]
  <2>1. CASE StartBuild(a)
    <3>1. req[a].pc = "leaving" /\ req[a].kind \in {"open", "create", "saveAs"}
      BY <2>1 DEF StartBuild, MayOpen
    <3>2. NewFilm \in Films /\ film[NewFilm].stage = "none"
      <4>1. a \in Pending /\ req[a].pc # "building"
        BY <3>1 DEF Pending, Openers
      <4> QED
        BY <4>1, FreeFilm
    <3> DEFINE n == NewFilm
               g == [NoFilm EXCEPT !.stage = "building", !.path = req[a].path]
    <3>3. film' = [film EXCEPT ![n] = g]
      BY <2>1 DEF StartBuild
    <3> HIDE DEF n, g
    <3>4. \A h \in Films \ {n} : film'[h] = film[h]
      BY <3>3 DEF IInv, TypeOK
    <3> QED
      BY <3>2, <3>4 DEF n
  <2>2. CASE BuildFails(a)
    <3>1. req[a].film \in Films /\ film[req[a].film].stage = "building"
      BY <2>2 DEF BuildFails, IInv, Shape, RequestInv, RequestAt, TypeOK, ReqType
    <3>2. film' = [film EXCEPT ![req[a].film] = NoFilm]
      BY <2>2 DEF BuildFails
    <3>3. \A h \in Films \ {req[a].film} : film'[h] = film[h]
      BY <3>2 DEF IInv, TypeOK
    <3> QED
      BY <3>1, <3>3
  <2> QED
    BY <2>1, <2>2
<1>2. UNCHANGED <<films, lastRev, sess>>
  BY DEF StartBuild, BuildFails
<1>3. \A s \in Used : sess'[s].revision >= sess[s].revision
  BY <1>2, SameRevisions DEF Used
<1> QED
  BY <1>1, <1>2, <1>3, PathRises

\* A film that is built begins where the last one of its path was closed.
LEMMA BuildRises ==
  ASSUME IInv, TypeOK', NEW q \in Paths, NEW a \in Actors, NEW m \in Migrations, Build(a, m)
  PROVE  Rises(q)
<1> DEFINE f == req[a].film
           p == req[a].path
           s == NewSession
           cs == {ConnOf[b] : b \in Waiting(f)}
           g == [film[f] EXCEPT !.stage = "open", !.session = s,
                                !.base = lastRev[p], !.clients = cs]
           t == [OpenedSession(p) EXCEPT !.revision = m, !.known = @ + m]
<1> USE DEF IInv, Shape
<1>1. /\ p \in Paths /\ f \in Films /\ film[f].stage = "building"
      /\ film[f].path = p /\ opening[p] = f /\ films[p] = None /\ film[f] \in FilmType
      /\ a \in Pending
  <2>1. req[a] \in ReqType /\ req[a].pc = "building"
    BY DEF Build, TypeOK
  <2>2. /\ p \in Paths /\ f \in Films /\ film[f].stage = "building"
        /\ film[f].path = p /\ req[a].kind \in {"open", "create", "saveAs"}
    BY <2>1 DEF RequestInv, RequestAt, ReqType
  <2>3. opening[p] = f /\ f # None
    BY <2>2 DEF FilmInv, Films, None
  <2> QED
    BY <2>2, <2>3 DEF PathInv, TypeOK, Pending, Openers
<1>2. s \in Films /\ sess[s].stage = "none"
  BY <1>1, FreeSession
<1>3. /\ sess' = [sess EXCEPT ![s] = t] /\ film' = [film EXCEPT ![f] = g]
      /\ films' = [films EXCEPT ![p] = f] /\ lastRev' = lastRev
  BY DEF Build
<1>4. m \in Nat /\ lastRev[p] \in Nat
  BY <1>1, FilmHostAssumption DEF TypeOK
<1>5. t.revision = m
  <2>1. OpenedSession(p) \in SessType
    <3>1. disk[p].rows \in Nat /\ outside[p] \in Nat
      BY <1>1 DEF TypeOK
    <3> QED
      BY <1>1, <3>1, RecordTypes DEF OpenedSession, SessType
  <2> HIDE DEF p, s, f
  <2> QED
    BY <1>4, <2>1 DEF SessType
<1>6. g.session = s /\ g.base = lastRev[p]
  BY <1>1 DEF FilmType
<1> HIDE DEF g, t, cs, s
<1>7. /\ film'[f] = g /\ \A h \in Films \ {f} : film'[h] = film[h]
      /\ sess'[s] = t /\ \A x \in Films \ {s} : sess'[x] = sess[x]
      /\ films'[p] = f /\ \A x \in Paths \ {p} : films'[x] = films[x]
  BY <1>1, <1>2, <1>3 DEF TypeOK
<1>8. CASE q = p
  <2>1. PathRevision(q) = lastRev[q]
    BY <1>1, <1>8 DEF PathRevision
  <2>2. PathRevision(q)' = lastRev[q] + m
    BY <1>1, <1>8, <1>5, <1>6, <1>7, NotNone DEF PathRevision, RevisionOf
  <2> QED
    BY <1>4, <1>8, <2>1, <2>2 DEF Rises
<1>9. CASE q # p
  <2>1. \A x \in Used : sess'[x].revision >= sess[x].revision
    <3>1. \A x \in Used : x \in Films /\ sess'[x] = sess[x] /\ sess[x].revision \in Nat
      BY <1>2, <1>7 DEF Used, TypeOK, SessType
    <3> QED
      BY <3>1
  <2> QED
    BY <1>1, <1>3, <1>7, <1>9, <2>1, PathRises
<1> QED
  BY <1>8, <1>9

\* A film that is opened again has the revision its reload worked out.
LEMMA ReloadSets ==
  ASSUME IInv, TypeOK', NEW q \in Paths, NEW a \in Actors, ReloadOpens(a)
  PROVE  \/ Rises(q)
         \/ req[a].pc = "reopening" /\ req[a].path = q /\ PathRevision(q)' = req[a].before
<1> DEFINE f == req[a].film
           p == req[a].path
           s == NewSession
           t == OpenedSession(p)
           g == [film[f] EXCEPT !.session = s, !.base = ReloadBase(a)]
<1> USE DEF IInv, Shape
<1>1. /\ req[a].pc = "reopening" /\ f \in Films /\ film[f].stage \in Built
      /\ film[f] \in FilmType /\ film[f].path = p /\ p \in Paths
      /\ req[a].before \in Nat /\ a \in Pending
  <2>1. req[a] \in ReqType /\ req[a].pc = "reopening"
    BY DEF ReloadOpens, TypeOK
  <2>2. req[a].pc \in Working
    BY <2>1 DEF Working
  <2> QED
    BY <2>1, <2>2 DEF RequestInv, RequestAt, ReqType, TypeOK, Pending, Openers
<1>2. s \in Films /\ sess[s].stage = "none"
  BY <1>1, FreeSession
<1>3. /\ sess' = [sess EXCEPT ![s] = t] /\ film' = [film EXCEPT ![f] = g]
      /\ films' = films /\ lastRev' = lastRev
  BY DEF ReloadOpens, hostVars
<1>4. t.revision = 0
  BY RecordTypes DEF OpenedSession, NoSession
<1>5. g.session = s /\ g.base = req[a].before
  BY <1>1 DEF FilmType, ReloadBase
<1> HIDE DEF g, t, s
<1>6. /\ film'[f] = g /\ \A h \in Films \ {f} : film'[h] = film[h]
      /\ sess'[s] = t /\ \A x \in Films \ {s} : sess'[x] = sess[x]
  BY <1>1, <1>2, <1>3 DEF TypeOK
<1>7. CASE q = p /\ film[f].stage = "open"
  <2>1. films[p] = f
    BY <1>1, <1>7 DEF FilmInv
  <2>2. PathRevision(q)' = req[a].before + 0
    BY <1>1, <1>7, <1>3, <1>4, <1>5, <1>6, <2>1, NotNone DEF PathRevision, RevisionOf
  <2> QED
    BY <1>1, <1>7, <2>2
<1>8. CASE ~(q = p /\ film[f].stage = "open")
  <2>1. \A x \in Used : sess'[x].revision >= sess[x].revision
    <3>1. \A x \in Used : x \in Films /\ sess'[x] = sess[x] /\ sess[x].revision \in Nat
      BY <1>2, <1>6 DEF Used, TypeOK, SessType
    <3> QED
      BY <3>1
  <2>2. \A h \in Films : film[h].stage = "open" /\ film[h].path = q => film'[h] = film[h]
    BY <1>1, <1>6, <1>8
  <2>3. Rises(q)
    BY <1>3, <2>1, <2>2, PathRises
  <2> QED
    BY <2>3
<1> QED
  BY <1>7, <1>8

LEMMA RevisionStep ==
  ASSUME IInv, TypeOK', Next, NEW p \in Paths
  PROVE  \/ Rises(p)
         \/ \E a \in Actors : /\ req[a].pc = "reopening" /\ req[a].path = p
                              /\ PathRevision(p)' = req[a].before
<1>1. CASE UNCHANGED <<films, lastRev, film, sess>>
  <2>1. \A s \in Used : sess'[s].revision >= sess[s].revision
    BY <1>1, SameRevisions DEF Used
  <2> QED
    BY <1>1, <2>1, PathRises
<1>2. ASSUME NEW a \in Actors, Request(a)
      PROVE  Rises(p)
  <2>1. CASE \E q \in Paths : Open(a, q) \/ Create(a, q)
    <3>1. Leave(ConnOf[a], TRUE) /\ UNCHANGED sess
      BY <2>1 DEF Open, Create
    <3> QED
      BY <3>1, ActorConn, SameRevisions, LeavingRises
  <2>2. CASE CloseRequest(a)
    <3>1. Leave(ConnOf[a], TRUE) /\ UNCHANGED sess
      BY <2>2 DEF CloseRequest
    <3> QED
      BY <3>1, ActorConn, SameRevisions, LeavingRises
  <2>3. CASE Reload(a) \/ \E q \in Paths : SaveAs(a, q)
    <3>1. \A s \in Used : sess'[s].revision >= sess[s].revision
      BY <2>3, CountingRises DEF Used
    <3>2. UNCHANGED <<films, lastRev, film>>
      BY <2>3 DEF Reload, SaveAs, hostVars
    <3> QED
      BY <3>1, <3>2, PathRises
  <2>4. CASE Read(a) \/ \E k \in {"op", "call", "dry"}, e \in {NoCheck, view[ConnOf[a]].rev} :
                          AskWrite(a, k, e)
    <3>1. UNCHANGED <<films, lastRev, film, sess>>
      BY <2>4 DEF Read, AskWrite, hostVars
    <3>2. \A s \in Used : sess'[s].revision >= sess[s].revision
      BY <3>1, SameRevisions DEF Used
    <3> QED
      BY <3>1, <3>2, PathRises
  <2> QED
    BY <1>2, <2>1, <2>2, <2>3, <2>4 DEF Request
<1>3. ASSUME NEW a \in Actors, OpenStep(a)
      PROVE  Rises(p)
  <2>1. CASE FinishClose(a) \/ MakeFile(a) \/ JoinOpening(a)
    <3>1. UNCHANGED <<films, lastRev, film, sess>>
      BY <2>1 DEF FinishClose, MakeFile, JoinOpening, hostVars
    <3>2. \A s \in Used : sess'[s].revision >= sess[s].revision
      BY <3>1, SameRevisions DEF Used
    <3> QED
      BY <3>1, <3>2, PathRises
  <2> QED
    BY <1>3, <2>1, OpenExistingRises, OpeningRises, BuildRises DEF OpenStep
<1>4. ASSUME NEW a \in Actors, WriteStep(a)
      PROVE  Rises(p)
  <2>1. CASE Checked(a) \/ Snapshotted(a) \/ RefuseInQueue(a) \/ DryRun(a) \/ Settle(a)
             \/ FinishWrite(a)
    <3>1. \A s \in Used : sess'[s].revision >= sess[s].revision
      BY <2>1, CountingRises DEF Used
    <3>2. UNCHANGED <<films, lastRev, film>>
      BY <2>1 DEF Checked, Snapshotted, RefuseInQueue, DryRun, Settle, FinishWrite, hostVars
    <3> QED
      BY <3>1, <3>2, PathRises
  <2>2. CASE SnapshotFails(a) \/ Commit(a) \/ RunInVain(a) \/ CopyFile(a) \/ Announce(a)
    <3>1. UNCHANGED <<films, lastRev, film, sess>>
      BY <2>2 DEF SnapshotFails, Commit, RunInVain, CopyFile, Announce, hostVars
    <3>2. \A s \in Used : sess'[s].revision >= sess[s].revision
      BY <3>1, SameRevisions DEF Used
    <3> QED
      BY <3>1, <3>2, PathRises
  <2>3. CASE FinishCopy(a)
    <3>1. \A s \in Films : sess'[s].revision >= sess[s].revision
      BY <2>3, CountingRises
    <3>2. CASE UNCHANGED <<film, films, lastRev>>
      BY <3>1, <3>2, PathRises DEF Used
    <3>3. CASE Leave(ConnOf[a], conn[ConnOf[a]].live)
      BY <3>1, <3>3, ActorConn, LeavingRises
    <3> QED
      BY <2>3, <3>2, <3>3 DEF FinishCopy
  <2> QED
    BY <1>4, <2>1, <2>2, <2>3 DEF WriteStep
<1>5. ASSUME NEW a \in Actors, ReloadCloses(a) \/ ReloadFails(a)
      PROVE  Rises(p)
  <2>1. \A s \in Used : sess'[s].revision >= sess[s].revision
    <3>1. CASE ReloadCloses(a)
      BY <3>1, CountingRises DEF Used
    <3>2. CASE ReloadFails(a)
      BY <3>2, SameRevisions DEF ReloadFails, Used
    <3> QED
      BY <1>5, <3>1, <3>2
  <2>2. UNCHANGED <<films, lastRev, film>>
    BY <1>5 DEF ReloadCloses, ReloadFails, hostVars
  <2> QED
    BY <2>1, <2>2, PathRises
<1>6. ASSUME NEW f \in Films, DrainFilm(f) \/ CloseFilm(f)
      PROVE  Rises(p)
  <2>1. \A s \in Used : sess'[s].revision >= sess[s].revision
    BY <1>6, ClosingRises DEF Used
  <2>2. UNCHANGED <<films, lastRev>> /\ \A h \in Films : film[h].stage = "open" => film'[h] = film[h]
    BY <1>6 DEF DrainFilm, CloseFilm, hostVars, IInv, TypeOK
  <2> QED
    BY <2>1, <2>2, PathRises
<1>7. ASSUME NEW c \in Conns, Drop(c)
      PROVE  Rises(p)
  <2>1. Leave(c, FALSE) /\ UNCHANGED sess
    BY <1>7 DEF Drop
  <2> QED
    BY <2>1, SameRevisions, LeavingRises
<1>8. CASE \E q \in Paths : OutsideEdit(q)
  BY <1>1, <1>8 DEF OutsideEdit, hostVars
<1>9. CASE Rest
  BY <1>1, <1>9 DEF Rest, vars, hostVars
<1> QED
  BY <1>2, <1>3, <1>4, <1>5, <1>6, <1>7, <1>8, <1>9, ReloadSets DEF Next, ReloadStep

\* Whatever closes, reopens, migrates, copies or writes, and however many at once,
\* a path's revision only falls when a reload reopens the film at the revision it
\* worked out before it waited (core.ts:600-626).
THEOREM OnlyReloadsTheorem == Spec => OnlyReloadsLower
<1> DEFINE Lowered ==
      \A p \in Paths :
        PathRevision(p)' < PathRevision(p) =>
          \E a \in Actors :
            /\ req[a].pc = "reopening" /\ req[a].path = p
            /\ PathRevision(p)' = req[a].before
       Natural == \A p \in Paths : PathRevision(p) \in Nat
<1>0. IInv => Natural
  BY RevisionOfPath
<1>1. ASSUME IInv, IInv', Natural, Natural', [Next]_vars PROVE [Lowered]_vars
  <2> SUFFICES ASSUME Next, NEW p \in Paths, PathRevision(p)' < PathRevision(p)
               PROVE  \E a \in Actors :
                        /\ req[a].pc = "reopening" /\ req[a].path = p
                        /\ PathRevision(p)' = req[a].before
    BY <1>1
  <2>1. PathRevision(p) \in Nat /\ PathRevision(p)' \in Nat
    BY <1>1
  <2>2. ~Rises(p)
    BY <2>1 DEF Rises
  <2> QED
    BY <1>1, <2>2, RevisionStep DEF IInv
<1> QED
  BY <1>0, <1>1, InitHolds, NextKeeps, PTL DEF Spec, OnlyReloadsLower
=============================================================================
