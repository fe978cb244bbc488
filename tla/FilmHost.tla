------------------------------ MODULE FilmHost ------------------------------
(***************************************************************************)
(* The host that owns every open film: scf-host/src/core.ts, with the      *)
(* revision a HostClient keeps (scf-host/src/client.ts).                   *)
(*                                                                         *)
(* Connections send requests; the host runs the handlers concurrently, and *)
(* they interleave wherever one really waits: for a session's queue, for   *)
(* SQLite, for a file.  An actor is one request slot of a connection.  A   *)
(* film is a `Film` record, a session one `Session` (module Session has it *)
(* in detail; here its queue is the tickets issued and served, and its     *)
(* fingerprint is taken in one step).  Rows are a version number.          *)
(***************************************************************************)
EXTENDS Integers, FiniteSets

CONSTANTS
  Conns,        \* connections: the window, the MCP tools
  Actors,       \* request slots
  ConnOf,       \* the connection of each actor
  Paths,        \* real paths of films
  Present,      \* those that exist at the start
  Requests,     \* the methods each connection uses in this instance
  Watchers,     \* connections that open read-only
  Drops,        \* connections whose client may vanish
  Migrations,   \* {0}, {1} or {0, 1}: writes made by a migrating open
  MaxRequests,  \* bound: requests ever made
  MaxFilms,     \* bound: Film records, and sessions, ever made
  MaxOutside    \* bound: edits by other programs

RequestNames ==
  {"open", "create", "close", "saveAs", "reload", "read", "op", "call", "dry"}

ASSUME FilmHostAssumption ==
  /\ ConnOf \in [Actors -> Conns]
  /\ IsFiniteSet(Actors) /\ Paths # {} /\ Present \subseteq Paths
  /\ Requests \in [Conns -> SUBSET RequestNames]
  /\ Watchers \subseteq Conns /\ Drops \subseteq Conns
  /\ Migrations \subseteq {0, 1} /\ Migrations # {}
  /\ {MaxRequests, MaxFilms, MaxOutside} \subseteq Nat

None      == 0    \* no film, no session
NoCheck   == -999 \* no expectedRevision: below anything `expected - base` is
NotClosed == -1   \* session.close() has not been called

VARIABLES
  conn,      \* ConnectionImpl: its film; whether it is in `connections`; and
             \* `rev`, the client's own idea of the revision
  films,     \* HostCoreImpl.films: path -> film
  opening,   \* HostCoreImpl.opening: path -> film being built
  lastRev,   \* HostCoreImpl.lastRevisions
  film,      \* the Film records, and how far each has been closed
  sess,      \* the sessions
  disk,      \* the files: whether there is one, and its rows; its fingerprint
             \* moves exactly when its rows do
  outside,   \* edits by other programs so far
  asked,     \* requests so far
  req,       \* per actor: the request it is handling
  view,      \* per connection: what its client last read, and when
  given,     \* history: the highest revision any client was told, per path
  blind,     \* history: a write landed on an outside edit no client knew of
  repeated   \* history: a reload announced a revision already given out

hostVars == <<films, opening, lastRev>>
flags    == <<blind, repeated>>
ghosts   == <<given, flags>>
vars == <<conn, hostVars, film, sess, disk, outside, asked, req, view, ghosts>>

Films == 1..MaxFilms

Idle == [pc |-> "idle", kind |-> "none", path |-> CHOOSE p \in Paths : TRUE,
         film |-> None, sess |-> None, ticket |-> 0, expected |-> NoCheck,
         before |-> 0, plan |-> NoCheck]

NoFilm == [stage |-> "none", path |-> CHOOSE p \in Paths : TRUE,
           session |-> None, base |-> 0, clients |-> {}]

NoSession == [stage |-> "none", path |-> CHOOSE p \in Paths : TRUE,
              revision |-> 0, issued |-> 0, served |-> 0, known |-> 0,
              closeAt |-> NotClosed, edits |-> 0]

Init ==
  /\ conn = [c \in Conns |-> [film |-> None, live |-> TRUE, rev |-> 0]]
  /\ films = [p \in Paths |-> None]
  /\ opening = [p \in Paths |-> None]
  /\ lastRev = [p \in Paths |-> 0]
  /\ film = [f \in Films |-> NoFilm]
  /\ sess = [s \in Films |-> NoSession]
  /\ disk = [p \in Paths |-> [exists |-> p \in Present, rows |-> 0]]
  /\ outside = [p \in Paths |-> 0]
  /\ asked = 0
  /\ req = [a \in Actors |-> Idle]
  /\ view = [c \in Conns |-> [path |-> CHOOSE p \in Paths : TRUE,
                              rev |-> NoCheck, rows |-> 0]]
  /\ given = [p \in Paths |-> 0]
  /\ blind = FALSE /\ repeated = FALSE
-----------------------------------------------------------------------------
(* Helpers *)

RevisionOf(f) == film[f].base + sess[film[f].session].revision

Higher(m, n) == IF m > n THEN m ELSE n

NewFilm    == CHOOSE f \in Films : film[f].stage = "none"
NewSession == CHOOSE s \in Films : sess[s].stage = "none"

\* openSession: its first fingerprint is the file as it is now.
OpenedSession(p) ==
  [NoSession EXCEPT !.stage = "open", !.path = p, !.known = disk[p].rows,
                    !.edits = outside[p]]

\* The clients of `told` learn that the path is at revision r.
Tell(told, p, r) ==
  /\ conn' = [c \in Conns |->
       IF c \in told THEN [conn[c] EXCEPT !.rev = Higher(@, r)] ELSE conn[c]]
  /\ given' = [given EXCEPT ![p] = IF told = {} THEN @ ELSE Higher(@, r)]

\* broadcast: everyone on the film.  Slip: nobody.
NoListeners(f) == {}
Listeners(f)   == film[f].clients

\* film.connections.delete(c), in leave ...
Remaining(f, c) == film[f].clients \ {c}

\* ... and what closeFilm keeps in lastRevisions.
RevisionToKeep(f) == RevisionOf(f)

\* leave(c) and the synchronous part of closeFilm: the last client out takes
\* the film out of the map and records its revision, before anything drains.
Leave(c, live) ==
  LET f == conn[c].film
      last == f # None /\ Remaining(f, c) = {}
  IN /\ conn' = [conn EXCEPT ![c] = [conn[c] EXCEPT !.film = None, !.live = live]]
     /\ IF f = None THEN UNCHANGED <<film, films, lastRev>>
        ELSE /\ film' = [film EXCEPT ![f] = [film[f] EXCEPT
                  !.clients = Remaining(f, c),
                  !.stage = IF last /\ @ = "open" THEN "draining" ELSE @]]
             /\ films' = [films EXCEPT ![film[f].path] = IF last THEN None ELSE @]
             /\ lastRev' = [lastRev EXCEPT ![film[f].path] =
                              IF last THEN RevisionToKeep(f) ELSE @]

\* What the leaving request has to wait for.
LeftBehind(c) ==
  LET f == conn[c].film
  IN IF f # None /\ Remaining(f, c) = {} THEN f ELSE None

\* attach: these connections have film f, which is at revision r.
Attach(cs, f, r) ==
  /\ conn' = [c \in Conns |->
       IF c \in cs THEN [conn[c] EXCEPT !.film = f, !.rev = r] ELSE conn[c]]
  /\ given' = [given EXCEPT ![film[f].path] = Higher(@, r)]

\* Room for one more session and film, counting the requests that will need one.
Room ==
  Cardinality({s \in Films : sess[s].stage # "none"}) +
  Cardinality({a \in Actors :
    req[a].kind \in {"open", "create", "saveAs", "reload"}}) < MaxFilms

\* A connection whose client is there sends a request.
CanAsk(a, k) ==
  /\ k \in Requests[ConnOf[a]] /\ req[a].pc = "idle" /\ conn[ConnOf[a]].live
  /\ asked < MaxRequests

Ask(a, r) ==
  /\ asked' = asked + 1
  /\ req' = [req EXCEPT ![a] = r]

Done(a) == req' = [req EXCEPT ![a] = Idle]
Goto(a, pc) == req' = [req EXCEPT ![a].pc = pc]

-----------------------------------------------------------------------------
(* open, create, close *)

Open(a, p) ==
  LET c == ConnOf[a] IN
  /\ CanAsk(a, "open") /\ Room
  /\ Ask(a, [Idle EXCEPT !.pc = "leaving", !.kind = "open", !.path = p,
                         !.film = LeftBehind(c)])
  /\ Leave(c, TRUE)
  /\ UNCHANGED <<opening, sess, disk, outside, view, ghosts>>

\* Refused without a change where the file already exists.
Create(a, p) ==
  LET c == ConnOf[a] IN
  /\ CanAsk(a, "create") /\ Room /\ ~disk[p].exists
  /\ Ask(a, [Idle EXCEPT !.pc = "making", !.kind = "create", !.path = p,
                         !.film = LeftBehind(c)])
  /\ Leave(c, TRUE)
  /\ UNCHANGED <<opening, sess, disk, outside, view, ghosts>>

\* A close with no film open changes nothing.
CloseRequest(a) ==
  LET c == ConnOf[a] IN
  /\ CanAsk(a, "close") /\ conn[c].film # None
  /\ Ask(a, [Idle EXCEPT !.pc = "leaving", !.kind = "close",
                         !.film = LeftBehind(c)])
  /\ Leave(c, TRUE)
  /\ UNCHANGED <<opening, sess, disk, outside, view, ghosts>>

HasLeft(a) ==
  req[a].film \in {None} \cup {f \in Films : film[f].stage = "closed"}

FinishClose(a) ==
  /\ req[a].pc = "leaving" /\ req[a].kind = "close" /\ HasLeft(a)
  /\ Done(a)
  /\ UNCHANGED <<conn, hostVars, film, sess, disk, outside, asked, view, ghosts>>

\* createFile never replaces a file.
MakeFile(a) ==
  LET p == req[a].path IN
  /\ req[a].pc = "making" /\ HasLeft(a)
  /\ IF disk[p].exists THEN Done(a) /\ UNCHANGED disk
     ELSE /\ req' = [req EXCEPT ![a] = [req[a] EXCEPT !.pc = "leaving",
                                                     !.film = None]]
          /\ disk' = [disk EXCEPT ![p].exists = TRUE]
  /\ UNCHANGED <<conn, hostVars, film, sess, outside, asked, view, ghosts>>

MayOpen(a) ==
  req[a].pc = "leaving" /\ req[a].kind \in {"open", "create", "saveAs"}
  /\ HasLeft(a)

\* openFilm: the film is open already ...
OpenExisting(a) ==
  LET f == films[req[a].path] IN
  /\ MayOpen(a) /\ f # None
  /\ Attach({ConnOf[a]}, f, RevisionOf(f))
  /\ film' = [film EXCEPT ![f].clients = @ \cup {ConnOf[a]}]
  /\ Done(a)
  /\ UNCHANGED <<hostVars, sess, disk, outside, asked, view, flags>>

\* Slip: nobody looks whether the file is being opened already.
NotOpenedYet(p) == films[p] = None
Unopened(p)     == films[p] = None /\ opening[p] = None

\* ... or someone is opening it ...
JoinOpening(a) ==
  LET p == req[a].path IN
  /\ MayOpen(a) /\ films[p] = None /\ opening[p] # None
  /\ req' = [req EXCEPT ![a] = [req[a] EXCEPT !.pc = "joining",
                                               !.film = opening[p]]]
  /\ UNCHANGED <<conn, hostVars, film, sess, disk, outside, asked, view, ghosts>>

\* ... or it has to be built.
StartBuild(a) ==
  LET p == req[a].path IN
  /\ MayOpen(a) /\ Unopened(p)
  /\ opening' = [opening EXCEPT ![p] = NewFilm]
  /\ film' = [film EXCEPT ![NewFilm] = [NoFilm EXCEPT !.stage = "building",
                                                      !.path = p]]
  /\ req' = [req EXCEPT ![a] = [req[a] EXCEPT !.pc = "building",
                                               !.film = NewFilm]]
  /\ UNCHANGED <<conn, films, lastRev, sess, disk, outside, asked, view, ghosts>>

\* The requests an opening answers.  Slip: only the one that began it.
WaitingFirst(f) ==
  {a \in Actors : req[a].pc = "building" /\ req[a].film = f}
Waiting(f) ==
  {a \in Actors : req[a].pc \in {"building", "joining"} /\ req[a].film = f}

\* The session is open and the film published.  m is the migration, a counted
\* write of the new session.  Everyone who waited attaches, whether or not its
\* connection is still there.
Build(a, m) ==
  LET f == req[a].film
      p == req[a].path
      s == NewSession
      cs == {ConnOf[b] : b \in Waiting(f)}
  IN
  /\ req[a].pc = "building" /\ disk[p].exists
  /\ disk' = [disk EXCEPT ![p].rows = @ + m]
  /\ sess' = [sess EXCEPT ![s] = [OpenedSession(p) EXCEPT !.revision = m,
                                                          !.known = @ + m]]
  /\ film' = [film EXCEPT ![f] = [film[f] EXCEPT !.stage = "open", !.session = s,
                                  !.base = lastRev[p], !.clients = cs]]
  /\ films' = [films EXCEPT ![p] = f]
  /\ opening' = [opening EXCEPT ![p] = None]
  /\ Attach(cs, f, lastRev[p] + m)
  /\ req' = [b \in Actors |-> IF b \in Waiting(f) THEN Idle ELSE req[b]]
  /\ UNCHANGED <<lastRev, outside, asked, view, flags>>

\* No such file, or not a film: every waiting request fails, and a file that
\* create had just made is removed.
BuildFails(a) ==
  LET f == req[a].film
      p == req[a].path
      made == \E b \in Waiting(f) : req[b].kind = "create"
  IN
  /\ req[a].pc = "building"
  /\ film' = [film EXCEPT ![f] = NoFilm]
  /\ opening' = [opening EXCEPT ![p] = None]
  /\ disk' = [disk EXCEPT ![p].exists = @ /\ ~made]
  /\ req' = [b \in Actors |-> IF b \in Waiting(f) THEN Idle ELSE req[b]]
  /\ UNCHANGED <<conn, films, lastRev, sess, outside, asked, view, ghosts>>

\* The rest of closeFilm: the reader closes, then the session is told to ...
DrainFilm(f) ==
  LET s == film[f].session IN
  /\ film[f].stage = "draining"
  /\ film' = [film EXCEPT ![f].stage = "closing"]
  /\ sess' = [sess EXCEPT ![s].closeAt =
                IF @ = NotClosed \/ sess[s].stage = "closed" THEN sess[s].issued
                ELSE @]
  /\ UNCHANGED <<conn, hostVars, disk, outside, asked, req, view, ghosts>>

\* Slip: closing waits for one write more than were queued.
DrainedTooLate(s) == sess[s].served > sess[s].closeAt
Drained(s)        == sess[s].served >= sess[s].closeAt

\* ... and closes once the writes queued by then have settled.
CloseFilm(f) ==
  LET s == film[f].session IN
  /\ film[f].stage = "closing" /\ Drained(s)
  /\ film' = [film EXCEPT ![f].stage = "closed"]
  /\ sess' = [sess EXCEPT ![s].stage = "closed"]
  /\ UNCHANGED <<conn, hostVars, disk, outside, asked, req, view, ghosts>>

\* The client goes away: detach.  Its requests are still handled.
Drop(c) ==
  /\ c \in Drops /\ conn[c].live
  /\ Leave(c, FALSE)
  /\ UNCHANGED <<opening, sess, disk, outside, asked, req, view, ghosts>>

-----------------------------------------------------------------------------
(* op, call, a dry run, saveAs *)

\* A client looks at its film: the revision it would plan against, the rows.  A
\* reload closes the reader along with the session.
Read(a) ==
  LET c == ConnOf[a]
      f == conn[c].film
      now == [path |-> film[f].path, rev |-> RevisionOf(f),
              rows |-> disk[film[f].path].rows]
  IN
  /\ "read" \in Requests[c] /\ req[a].pc = "idle" /\ conn[c].live
  /\ f # None /\ sess[film[f].session].stage = "open" /\ view[c] # now
  /\ view' = [view EXCEPT ![c] = now]
  /\ conn' = [conn EXCEPT ![c].rev = Higher(@, now.rev)]
  /\ given' = [given EXCEPT ![now.path] = Higher(@, now.rev)]
  /\ UNCHANGED <<hostVars, film, sess, disk, outside, asked, req, flags>>

\* `await fingerprinted`: a refresh that is on its way now will have arrived
\* when so many writes have been served.
RefreshedBy(s) ==
  IF \E a \in Actors : req[a].pc = "refreshing" /\ req[a].sess = s
  THEN sess[s].served + 1 ELSE sess[s].served

\* write(): a film is open, this connection may write, and hasExternalChange
\* has been asked.
AskWrite(a, k, e) ==
  LET c == ConnOf[a]
      f == conn[c].film
  IN
  /\ CanAsk(a, k) /\ k \in {"op", "call", "dry"}
  /\ f # None /\ c \notin Watchers
  /\ e = NoCheck \/ (e = view[c].rev /\ view[c].path = film[f].path)
  /\ Ask(a, [Idle EXCEPT !.pc = "checking", !.kind = k, !.expected = e,
                         !.path = film[f].path, !.film = f,
                         !.sess = film[f].session,
                         !.ticket = RefreshedBy(film[f].session),
                         !.plan = IF e = NoCheck THEN e ELSE view[c].rows])
  /\ UNCHANGED <<conn, hostVars, film, sess, disk, outside, view, ghosts>>

\* session.write: take a place in the queue of the film's session as it is now.
Enqueue(a) ==
  LET f == req[a].film
      s == film[f].session
  IN /\ req' = [req EXCEPT ![a] = [req[a] EXCEPT
                  !.pc = "queued", !.sess = s, !.ticket = sess[s].issued,
                  !.expected = IF @ = NoCheck THEN @ ELSE @ - film[f].base,
                  !.before = RevisionOf(f)]]
     /\ sess' = [sess EXCEPT ![s].issued = @ + 1]

Stale(a) == req[a].expected # NoCheck /\ req[a].expected # RevisionOf(req[a].film)

\* The answers of the gates, in the order the code asks them: external_change,
\* stale_revision; then an op goes for its snapshot.
Checked(a) ==
  LET s == req[a].sess IN
  /\ req[a].pc = "checking" /\ sess[s].served >= req[a].ticket
  /\ IF sess[s].known # disk[req[a].path].rows \/ Stale(a)
     THEN Done(a) /\ UNCHANGED sess
     ELSE IF req[a].kind = "op" THEN Goto(a, "snapshot") /\ UNCHANGED sess
     ELSE Enqueue(a)
  /\ UNCHANGED <<conn, hostVars, film, disk, outside, asked, view, ghosts>>

\* The snapshot was taken or was not due; a write never goes without.
Snapshotted(a) ==
  /\ req[a].pc = "snapshot"
  /\ Enqueue(a)
  /\ UNCHANGED <<conn, hostVars, film, disk, outside, asked, view, ghosts>>

SnapshotFails(a) ==
  /\ req[a].pc = "snapshot"
  /\ Done(a)
  /\ UNCHANGED <<conn, hostVars, film, sess, disk, outside, asked, view, ghosts>>

\* saveAs copies the file through the queue, without the gates of write().
SaveAs(a, p) ==
  LET f == conn[ConnOf[a]].film
      s == film[f].session
  IN
  /\ CanAsk(a, "saveAs") /\ Room /\ f # None /\ ~disk[p].exists
  /\ Ask(a, [Idle EXCEPT !.pc = "queued", !.kind = "saveAs", !.path = p,
                         !.film = f, !.sess = s, !.ticket = sess[s].issued])
  /\ sess' = [sess EXCEPT ![s].issued = @ + 1]
  /\ UNCHANGED <<conn, hostVars, film, disk, outside, view, ghosts>>

AtHead(a) ==
  LET s == sess[req[a].sess] IN
  /\ req[a].pc = "queued" /\ req[a].ticket = s.served
  /\ ~(s.closeAt # NotClosed /\ s.stage = "open" /\ req[a].ticket >= s.closeAt)

\* Slip: the revision is only checked before the write is queued.
StaleNever(a) == FALSE

\* The session's own check, made in the queue.
StaleInQueue(a) ==
  req[a].expected # NoCheck /\ req[a].expected # sess[req[a].sess].revision

\* The `finally` of write() takes the film's revision, whoever moved it, into
\* `ticket`, and waits for the journal; the session's next write does not.
Journal(a, pc) ==
  req' = [req EXCEPT ![a] = [req[a] EXCEPT !.pc = pc,
                                           !.ticket = RevisionOf(req[a].film)]]

RefuseInQueue(a) ==
  LET s == req[a].sess IN
  /\ AtHead(a) /\ StaleInQueue(a)
  /\ sess' = [sess EXCEPT ![s].served = @ + 1]
  /\ IF req[a].kind = "dry" THEN Done(a) ELSE Journal(a, "refused")
  /\ UNCHANGED <<conn, hostVars, film, disk, outside, asked, view, ghosts>>

DryRun(a) ==
  LET s == req[a].sess
      p == req[a].path
  IN
  /\ AtHead(a) /\ req[a].kind = "dry" /\ ~StaleInQueue(a)
  /\ sess' = [sess EXCEPT ![s].served = @ + 1]
  /\ Tell({ConnOf[a]}, p, film[req[a].film].base + sess[s].revision)
  /\ Done(a)
  /\ UNCHANGED <<hostVars, film, disk, outside, asked, view, flags>>

\* fn commits its rows in one transaction, which no other program gets into.
Commit(a) ==
  LET s == req[a].sess
      p == req[a].path
  IN
  /\ AtHead(a) /\ req[a].kind \in {"op", "call"} /\ ~StaleInQueue(a)
  /\ sess[s].stage = "open"
  /\ disk' = [disk EXCEPT ![p].rows = @ + 1]
  /\ blind' = (blind \/ outside[p] > sess[s].edits)
  /\ Goto(a, "ran")
  /\ UNCHANGED <<conn, hostVars, film, sess, outside, asked, view, given,
                 repeated>>

\* fn changed nothing, which saveAs cannot, or threw; on a closed session it
\* always throws.
RunInVain(a) ==
  /\ AtHead(a) /\ req[a].kind \in {"op", "call", "saveAs"} /\ ~StaleInQueue(a)
  /\ \/ Goto(a, "threw")
     \/ /\ req[a].kind # "saveAs" /\ sess[req[a].sess].stage = "open"
        /\ Goto(a, "ran")
  /\ UNCHANGED <<conn, hostVars, film, sess, disk, outside, asked, view, ghosts>>

\* saveAs: VACUUM INTO, which throws when the target appeared meanwhile.
CopyFile(a) ==
  LET s == req[a].sess
      p == req[a].path
  IN
  /\ AtHead(a) /\ req[a].kind = "saveAs" /\ sess[s].stage = "open"
  /\ ~disk[p].exists
  /\ disk' = [disk EXCEPT ![p] = disk[film[req[a].film].path]]
  /\ Goto(a, "ran")
  /\ UNCHANGED <<conn, hostVars, film, sess, outside, asked, view, ghosts>>

Threw == -1   \* `before`, once it is known that there is only an error to answer

\* The session counts the write, whatever became of it, and starts to refresh
\* its fingerprint.
Settle(a) ==
  LET s == req[a].sess IN
  /\ req[a].pc \in {"ran", "threw"}
  /\ sess' = [sess EXCEPT ![s].revision = @ + 1]
  /\ req' = [req EXCEPT ![a] = [req[a] EXCEPT !.pc = "refreshing",
                                               !.before = IF req[a].pc = "threw"
                                                          THEN Threw ELSE @]]
  /\ UNCHANGED <<conn, hostVars, film, disk, outside, asked, view, ghosts>>

Refreshed(a) ==
  LET s == req[a].sess IN
  sess' = [sess EXCEPT ![s] = [sess[s] EXCEPT
                            !.known = disk[sess[s].path].rows, !.served = @ + 1]]

\* The next write may run, and this one goes to the journal ...
FinishWrite(a) ==
  /\ req[a].pc = "refreshing" /\ req[a].kind \in {"op", "call"}
  /\ Refreshed(a) /\ Journal(a, "recorded")
  /\ UNCHANGED <<conn, hostVars, film, disk, outside, asked, view, ghosts>>

\* ... or could not be written there, no matter.  The revision taken before is
\* announced if this write did not start from it, and answered if nothing threw.
Announce(a) ==
  LET f == req[a].film
      now == req[a].ticket
      told == IF now # req[a].before THEN Listeners(f) ELSE {}
      answered == req[a].pc = "recorded" /\ req[a].before # Threw
  IN
  /\ req[a].pc \in {"refused", "recorded"}
  /\ Tell(IF answered THEN told \cup {ConnOf[a]} ELSE told, film[f].path, now)
  /\ Done(a)
  /\ UNCHANGED <<hostVars, film, sess, disk, outside, asked, view, flags>>

\* saveAs goes on to leave the film and open the copy; nothing is announced.
FinishCopy(a) ==
  LET c == ConnOf[a] IN
  /\ req[a].pc = "refreshing" /\ req[a].kind = "saveAs"
  /\ Refreshed(a)
  /\ IF req[a].before = Threw
     THEN Done(a) /\ UNCHANGED <<conn, film, films, lastRev>>
     ELSE /\ req' = [req EXCEPT ![a] = [req[a] EXCEPT !.pc = "leaving",
                                                     !.film = LeftBehind(c)]]
          /\ Leave(c, conn[c].live)
  /\ UNCHANGED <<opening, disk, outside, asked, view, ghosts>>

-----------------------------------------------------------------------------
(* reload *)

\* The new revision is computed first; then the session is told to close.
Reload(a) ==
  LET f == conn[ConnOf[a]].film
      s == film[f].session
  IN
  /\ CanAsk(a, "reload") /\ Room /\ f # None
  /\ Ask(a, [Idle EXCEPT !.pc = "reloading", !.kind = "reload",
                         !.path = film[f].path, !.film = f, !.sess = s,
                         !.ticket = sess[s].issued,
                         !.before = RevisionOf(f) + 1])
  /\ sess' = [sess EXCEPT ![s].closeAt =
                IF @ = NotClosed THEN sess[s].issued ELSE @]
  /\ UNCHANGED <<conn, hostVars, film, disk, outside, view, ghosts>>

\* The queue has drained.  Closing a database twice is no error.
ReloadCloses(a) ==
  LET s == req[a].sess IN
  /\ req[a].pc = "reloading" /\ sess[s].served >= req[a].ticket
  /\ sess' = [sess EXCEPT ![s].stage = "closed"]
  /\ Goto(a, "reopening")
  /\ UNCHANGED <<conn, hostVars, film, disk, outside, asked, view, ghosts>>

\* Slip: the base starts again with the session.
ReloadBaseZero(a) == 0
ReloadBase(a)     == req[a].before

\* The film goes on with a fresh session, and everyone on it is told.
ReloadOpens(a) ==
  LET f == req[a].film
      p == req[a].path
      s == NewSession
  IN
  /\ req[a].pc = "reopening"
  /\ sess' = [sess EXCEPT ![s] = OpenedSession(p)]
  /\ film' = [film EXCEPT ![f] = [film[f] EXCEPT !.session = s,
                                                 !.base = ReloadBase(a)]]
  /\ repeated' = (repeated \/ req[a].before <= given[p])
  /\ Tell(Listeners(f) \cup {ConnOf[a]}, p, req[a].before)
  /\ Done(a)
  /\ UNCHANGED <<hostVars, disk, outside, asked, view, blind>>

\* The file cannot be opened again: the film stays, with a closed session, until
\* a later reload succeeds.
ReloadFails(a) ==
  /\ req[a].pc = "reopening"
  /\ Done(a)
  /\ UNCHANGED <<conn, hostVars, film, sess, disk, outside, asked, view, ghosts>>

-----------------------------------------------------------------------------
OutsideEdit(p) ==
  /\ disk[p].exists /\ outside[p] < MaxOutside
  /\ outside' = [outside EXCEPT ![p] = @ + 1]
  /\ disk' = [disk EXCEPT ![p].rows = @ + 1]
  /\ UNCHANGED <<conn, hostVars, film, sess, asked, req, view, ghosts>>

Request(a) ==
  \/ \E p \in Paths : Open(a, p) \/ Create(a, p) \/ SaveAs(a, p)
  \/ \E k \in {"op", "call", "dry"}, e \in {NoCheck, view[ConnOf[a]].rev} :
       AskWrite(a, k, e)
  \/ CloseRequest(a) \/ Reload(a) \/ Read(a)

OpenStep(a) ==
  \/ FinishClose(a) \/ MakeFile(a) \/ OpenExisting(a) \/ JoinOpening(a)
  \/ StartBuild(a) \/ BuildFails(a) \/ \E m \in Migrations : Build(a, m)

WriteStep(a) ==
  \/ Checked(a) \/ Snapshotted(a) \/ SnapshotFails(a)
  \/ RefuseInQueue(a) \/ DryRun(a) \/ Commit(a) \/ RunInVain(a) \/ CopyFile(a)
  \/ Settle(a) \/ FinishWrite(a) \/ Announce(a) \/ FinishCopy(a)

ReloadStep(a) == ReloadCloses(a) \/ ReloadOpens(a) \/ ReloadFails(a)

\* A host nobody asks for anything rests; anything else that stops is stuck.
Rest ==
  /\ (asked = MaxRequests \/ ~Room) /\ \A a \in Actors : req[a].pc = "idle"
  /\ \A f \in Films : film[f].stage \notin {"draining", "closing"}
  /\ UNCHANGED vars

Next ==
  \/ \E a \in Actors : Request(a) \/ OpenStep(a) \/ WriteStep(a) \/ ReloadStep(a)
  \/ \E f \in Films : DrainFilm(f) \/ CloseFilm(f)
  \/ \E c \in Conns : Drop(c)
  \/ \E p \in Paths : OutsideEdit(p)
  \/ Rest

Spec == Init /\ [][Next]_vars

\* Files, SQLite and settled promises answer; requests, clients that vanish and
\* other programs are up to nobody.
Fairness ==
  /\ \A a \in Actors :
       WF_vars(OpenStep(a)) /\ WF_vars(WriteStep(a)) /\ WF_vars(ReloadStep(a))
  /\ \A f \in Films : WF_vars(DrainFilm(f)) /\ WF_vars(CloseFilm(f))

FairSpec == Spec /\ Fairness

-----------------------------------------------------------------------------
(* Properties *)

ConnType == [film : Films \cup {None}, live : BOOLEAN, rev : Nat]

FilmType ==
  [stage : {"none", "building", "open", "draining", "closing", "closed"},
   path : Paths, session : Films \cup {None}, base : Nat, clients : SUBSET Conns]

SessType ==
  [stage : {"none", "open", "closed"}, path : Paths, revision : Nat, issued : Nat,
   served : Nat, known : Nat, closeAt : Nat \cup {NotClosed}, edits : Nat]

ReqType ==
  [pc : {"idle", "leaving", "making", "joining", "building", "checking",
         "snapshot", "queued", "ran", "threw", "refreshing", "refused",
         "recorded", "reloading", "reopening"},
   kind : RequestNames \cup {"none"}, path : Paths, film : Films \cup {None},
   sess : Films \cup {None}, ticket : Nat, expected : Int, before : Int, plan : Int]

\* Type invariant of the host's state.
TypeOK ==
  /\ conn \in [Conns -> ConnType]
  /\ films \in [Paths -> Films \cup {None}]
  /\ opening \in [Paths -> Films \cup {None}]
  /\ lastRev \in [Paths -> Nat]
  /\ film \in [Films -> FilmType]
  /\ sess \in [Films -> SessType]
  /\ disk \in [Paths -> [exists : BOOLEAN, rows : Nat]]
  /\ outside \in [Paths -> Nat] /\ asked \in Nat
  /\ req \in [Actors -> ReqType]
  /\ view \in [Conns -> [path : Paths, rev : Int, rows : Nat]]
  /\ given \in [Paths -> Nat]
  /\ {blind, repeated} \subseteq BOOLEAN

Quiet == \A a \in Actors : req[a].pc = "idle"

\* One film per file (core.ts:5-6), however openings and closings of it overlap.
OneFilmPerPath ==
  \A f, g \in Films :
    /\ film[f].stage \in {"building", "open"}
    /\ film[g].stage \in {"building", "open"}
    /\ film[f].path = film[g].path
    => f = g

\* One session with work to do per file, where each connection makes one request
\* at a time and none vanishes.
OneQueuePerPath ==
  \A s, t \in Films :
    /\ sess[s].stage = "open" /\ sess[s].served < sess[s].issued
    /\ sess[t].stage = "open" /\ sess[t].served < sess[t].issued
    /\ sess[s].path = sess[t].path
    => s = t

\* "One write session and one read-only connection per file" (core.ts:5-6).
OneWriterPerFile == OneFilmPerPath /\ OneQueuePerPath

\* The revision of a path, between openings too.
PathRevision(p) ==
  IF films[p] # None THEN RevisionOf(films[p]) ELSE lastRev[p]

\* Only a reload brings a revision down, and only to the one it worked out before
\* it waited for the session to close: closing, reopening (however many close and
\* open at once), migrating, copying and writing keep or raise it.
OnlyReloadsLower ==
  [][\A p \in Paths :
       PathRevision(p)' < PathRevision(p) =>
         \E a \in Actors :
           /\ req[a].pc = "reopening" /\ req[a].path = p
           /\ PathRevision(p)' = req[a].before]_vars

\* Every client on a film knows its revision once nothing is under way: each
\* write reached those who did not make it, whoever came and went meanwhile.
EveryoneHears ==
  Quiet => \A c \in Conns :
    conn[c].film # None /\ conn[c].live =>
      conn[c].rev = RevisionOf(conn[c].film)

\* Every request is answered.
RequestsAreAnswered == \A a \in Actors : req[a].pc # "idle" ~> req[a].pc = "idle"

\* A film the last client has left is closed, whatever was queued on it.
LeftFilmsClose == \A f \in Films : film[f].stage = "draining" ~> film[f].stage = "closed"

\* scf-write-ownership.md:160-162: a write never lands on an outside edit that
\* no client has been told of.
NeverOverwrites == ~blind

\* core.ts:91: a reload never repeats a revision.
ReloadIsNew == ~repeated

\* core.ts:243: a film's revision "rises for the life of the host".
RevisionNeverFalls ==
  [][\A p \in Paths : PathRevision(p)' >= PathRevision(p)]_vars

\* core.ts:15-16: a file is held open only while some connection has it.
HeldOnlyForClients ==
  Quiet => \A f \in Films :
    film[f].stage = "open" => \E c \in film[f].clients : conn[c].live

=============================================================================
