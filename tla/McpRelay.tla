------------------------------- MODULE McpRelay -------------------------------
(***************************************************************************)
(* The way an agent's stdio pipe reaches the MCP server in the window:     *)
(* `scf-editor mcp` (pipe.rs), the shell's relay (mcp_relay.rs) and the    *)
(* page (windowMcp.ts), with as much of the server (mcpServer.ts,          *)
(* projectCache.ts) as says which film a session has open, and its roots.  *)
(*                                                                         *)
(* A line is known by its place in said[p], what the agent has said.  The  *)
(* sockets and the shell's channel each keep their order; a line between   *)
(* pipe and relay is not a state of its own.  The channel is the events of *)
(* each pipe in their order: the page's handler of one pipe's event reads  *)
(* nothing of another's.  The page may be reloaded at any time: it loses   *)
(* its servers and whatever its channel still held, and the relay learns   *)
(* of it only from mcp_listen.                                             *)
(***************************************************************************)
EXTENDS Naturals, Sequences, SequencesExt, FiniteSets

CONSTANTS Pipes,       \* the agents' pipes
          Films,       \* the films an agent opens
          Roots,       \* the directories an agent names as a film's project root
          Args,        \* the films of --scf, and None for a pipe without one
          Lines,       \* what agents say, see Line
          None,        \* absent: no film, no root, no session, no server
          StateKept,   \* STATE_KEPT, the stateful calls kept for a replay
          MaxLines,    \* bound: lines an agent says
          MaxReloads   \* bound: reloads of the page

ASSUME RelayAssumption ==
  /\ StateKept \in Nat \ {0} /\ MaxLines \in Nat /\ MaxReloads \in Nat
  /\ None \notin Films /\ None \notin Roots
  /\ Args \subseteq Films \cup {None}

VARIABLES
  page,      \* the page in the window now: 1, then one more for each reload
  announcing,\* has mcp_listen yet to announce what is held?
  listener,  \* the page whose channel the relay has (Inner.listener), 0 for none
  channel,   \* the events of each pipe the current page has not yet handled
  sessions,  \* Inner.sessions
  serving,   \* where serve() is, for each pipe
  args,      \* the film of the pipe's --scf argument, None without one
  said,      \* the lines of each agent
  answered,  \* how often each line was answered
  pipe,      \* what the pipe process has heard
  asked,     \* the listener when the agent said its last line
  servers    \* the page's pipes and their MCP servers

vars == <<page, announcing, listener, channel, sessions, serving, args, said,
          answered, pipe, asked, servers>>
agentVars == <<args, said, pipe, asked>>

(***************************************************************************)
(* `initialize`; `open`, which looks the film's project root up in app.db  *)
(* unless it names one; `set_root`; any call that only reads.              *)
(***************************************************************************)
Line == [op : {"init", "read"}, film : {None}, root : {None}]
        \cup [op : {"open"}, film : Films, root : Roots \cup {None}]
        \cup [op : {"set_root"}, film : {None}, root : Roots]
ASSUME LinesAssumption == Lines \subseteq Line

STATEFUL == {"open", "set_root"}
Stateful(l) == l.op \in STATEFUL
Ids == 1..MaxLines
IdSeqs == Seq(Ids)

Event == [kind : {"open"}, resumed : BOOLEAN, replay : IdSeqs]
         \cup [kind : {"message"}, id : Ids]
         \cup [kind : {"closed"}]
Session == [announced : BOOLEAN, held : Seq(Event), handshake : IdSeqs,
            state : IdSeqs]
(* A line given to a server: as a message, or a second time in a replay. *)
Request == [id : Ids, again : BOOLEAN]
Server == [phase : {"starting", "answering", "on"}, resumed : BOOLEAN,
           replay : IdSeqs, waiting : Seq(Request), swallow : SUBSET Ids,
           looking : SUBSET Request, replying : SUBSET Request,
           film : Films \cup {None}, roots : [Films -> Roots \cup {None}],
           got : 0..MaxLines]

ASSUME NoneAssumption == None \notin Session /\ None \notin Server

TypeOK ==
  /\ page \in 1..(MaxReloads + 1) /\ announcing \in BOOLEAN
  /\ listener \in 0..page /\ channel \in [Pipes -> Seq(Event)]
  /\ sessions \in [Pipes -> Session \cup {None}]
  /\ serving \in [Pipes -> {"off", "added", "reading", "emitting", "over", "gone"}]
  /\ args \in [Pipes -> Films \cup {None}]
  /\ said \in [Pipes -> Seq(Line)] /\ answered \in [Pipes -> [Ids -> Nat]]
  /\ pipe \in [Pipes -> {"off", "hello", "open", "failed", "ended"}]
  /\ asked \in [Pipes -> 0..page]
  /\ servers \in [Pipes -> Server \cup {None}]

Init ==
  /\ page = 1 /\ announcing = FALSE /\ listener = 0
  /\ channel = [p \in Pipes |-> <<>>]
  /\ sessions = [p \in Pipes |-> None] /\ serving = [p \in Pipes |-> "off"]
  /\ args \in [Pipes -> Args]
  /\ said = [p \in Pipes |-> <<>>]
  /\ answered = [p \in Pipes |-> [i \in Ids |-> 0]]
  /\ pipe = [p \in Pipes |-> "off"]
  /\ asked = [p \in Pipes |-> 0]
  /\ servers = [p \in Pipes |-> None]

-----------------------------------------------------------------------------
(* The relay.  Each of its steps holds the lock of `inner` once.           *)

OpenEvent(resumed, s) ==
  [kind |-> "open", resumed |-> resumed,
   replay |-> IF resumed THEN s.handshake \o s.state ELSE <<>>]

(* channel.send: what goes to a page that is gone is lost. *)
Sent(p, e) ==
  channel' = IF listener = page THEN [channel EXCEPT ![p] = Append(@, e)] ELSE channel

(* Slip: a pipe the window has not been told of is spoken for all the same. *)
EmitNowUnannounced(p) == listener # 0
EmitNow(p) == listener # 0 /\ sessions[p].announced

(* emit: tell the window, or hold the event for when there is one. *)
Emitted(p, e) ==
  IF EmitNow(p)
  THEN Sent(p, e) /\ UNCHANGED sessions
  ELSE /\ sessions' = [sessions EXCEPT ![p].held = Append(@, e)]
       /\ UNCHANGED channel

(* announce_held *)
Unannounced == {p \in Pipes : sessions[p] # None /\ ~sessions[p].announced}
AnnounceHeld ==
  IF listener = 0 THEN UNCHANGED <<sessions, channel>>
  ELSE /\ sessions' = [p \in Pipes |-> IF p \in Unannounced
                         THEN [sessions[p] EXCEPT !.announced = TRUE, !.held = <<>>]
                         ELSE sessions[p]]
       /\ channel' = IF listener # page THEN channel
                      ELSE [p \in Pipes |-> IF p \in Unannounced
                              THEN channel[p] \o sessions[p].held ELSE channel[p]]

(* serve: the pipe connects, says hello and is added; then it is announced. *)
Connect(p) ==
  /\ pipe[p] = "off"
  /\ pipe' = [pipe EXCEPT ![p] = "hello"]
  /\ serving' = [serving EXCEPT ![p] = "added"]
  /\ sessions' = [sessions EXCEPT ![p] =
       [announced |-> FALSE, handshake |-> <<>>, state |-> <<>>,
        held |-> <<OpenEvent(FALSE, None)>>]]
  /\ UNCHANGED <<page, announcing, listener, channel, args, said, answered,
                 asked, servers>>

ServeAnnounces(p) ==
  /\ serving[p] = "added"
  /\ serving' = [serving EXCEPT ![p] = "reading"]
  /\ AnnounceHeld
  /\ UNCHANGED <<page, announcing, listener, args, said, answered, pipe, asked,
                 servers>>

(* received, up to its unlock: the handshake and the latest stateful calls. *)
(* Slip: the earliest stateful calls are kept. *)
LatestFirst(ids) == IF Len(ids) > StateKept THEN Front(ids) ELSE ids
Latest(ids) == IF Len(ids) > StateKept THEN Tail(ids) ELSE ids
Kept(s, id, l) ==
  IF l.op = "init" /\ Len(s.handshake) < 2
  THEN [s EXCEPT !.handshake = Append(@, id)]
  ELSE IF Stateful(l)
  THEN [s EXCEPT !.state = Latest(Append(@, id))]
  ELSE s

(***************************************************************************)
(* The agent says its next line when the last was answered, or was asked   *)
(* of a page that another has replaced.  The handshake comes first.        *)
(***************************************************************************)
MaySay(p) ==
  /\ pipe[p] = "open" /\ serving[p] = "reading" /\ Len(said[p]) < MaxLines
  /\ \A i \in DOMAIN said[p] : i = Len(said[p]) => answered[p][i] > 0 \/ asked[p] < listener

Say(p, l) ==
  /\ MaySay(p)
  /\ (l.op = "init") <=> (said[p] = <<>>)
  /\ said' = [said EXCEPT ![p] = Append(@, l)]
  /\ asked' = [asked EXCEPT ![p] = listener]
  /\ LET id == Len(said[p]) + 1 IN
       /\ serving' = [serving EXCEPT ![p] = "emitting"]
       /\ sessions' = IF sessions[p] = None THEN sessions
                      ELSE [sessions EXCEPT ![p] = Kept(@, id, l)]
  /\ UNCHANGED <<page, announcing, listener, channel, args, answered, pipe,
                 servers>>

(* received, after it: emit takes the lock anew. *)
Emit(p) ==
  /\ serving[p] = "emitting"
  /\ IF sessions[p] = None THEN UNCHANGED <<sessions, channel>>
     ELSE Emitted(p, [kind |-> "message", id |-> Len(said[p])])
  /\ serving' = [serving EXCEPT ![p] = "reading"]
  /\ UNCHANGED <<page, announcing, listener, args, said, answered, pipe, asked,
                 servers>>

(* The agent ends its pipe; serve reads the end of its input. *)
Hangup(p) ==
  /\ pipe[p] \in {"hello", "open"} /\ serving[p] \in {"added", "reading"}
  /\ pipe' = [pipe EXCEPT ![p] = "ended"]
  /\ UNCHANGED <<page, announcing, listener, channel, sessions, serving, args,
                 said, answered, asked, servers>>

(* closed: forget the session, then tell the window if it knew. *)
Knew(s) == s # None /\ s.announced
Forget(p) ==
  /\ pipe[p] \in {"ended", "failed"} /\ serving[p] = "reading"
  /\ serving' = [serving EXCEPT ![p] = IF Knew(sessions[p]) THEN "over" ELSE "gone"]
  /\ sessions' = [sessions EXCEPT ![p] = None]
  /\ UNCHANGED <<page, announcing, listener, channel, agentVars, answered,
                 servers>>

TellClosed(p) ==
  /\ serving[p] = "over"
  /\ serving' = [serving EXCEPT ![p] = "gone"]
  /\ Sent(p, [kind |-> "closed"])
  /\ UNCHANGED <<page, announcing, listener, sessions, agentVars, answered,
                 servers>>

(***************************************************************************)
(* mcp_listen: the new page's channel; each announced session is to be     *)
(* announced again, resumed, and all that are held are announced.          *)
(***************************************************************************)
(* Slip: those that no page was told of are resumed as well. *)
ReannouncedAll(s) ==
  IF s = None THEN s
  ELSE [s EXCEPT !.announced = FALSE, !.held = <<OpenEvent(TRUE, s)>>]
Reannounced(s) ==
  IF s = None \/ ~s.announced THEN s
  ELSE [s EXCEPT !.announced = FALSE, !.held = <<OpenEvent(TRUE, s)>>]

Listen ==
  /\ listener # page
  /\ listener' = page /\ announcing' = TRUE
  /\ sessions' = [p \in Pipes |-> Reannounced(sessions[p])]
  /\ UNCHANGED <<page, channel, serving, agentVars, answered, servers>>

ListenAnnounces ==
  /\ announcing
  /\ announcing' = FALSE
  /\ AnnounceHeld
  /\ UNCHANGED <<page, listener, serving, agentVars, answered, servers>>

(* The page is reloaded: F5, or Vite. *)
Reload ==
  /\ page <= MaxReloads
  /\ page' = page + 1
  /\ channel' = [p \in Pipes |-> <<>>]
  /\ servers' = [p \in Pipes |-> None]
  /\ UNCHANGED <<announcing, listener, sessions, serving, agentVars, answered>>

-----------------------------------------------------------------------------
(* The page: a server for each pipe (windowMcp.ts, mcpServer.ts).          *)

NewServer(e) ==
  [phase |-> "starting", resumed |-> e.resumed, replay |-> e.replay,
   waiting |-> <<>>, swallow |-> {}, looking |-> {}, replying |-> {},
   film |-> None, roots |-> [f \in Films |-> None], got |-> 0]

(***************************************************************************)
(* The server is given requests, in their order.  `open` without a root    *)
(* first looks app.db up; with one it sets the current film and its root   *)
(* at once.  `set_root` sets the root of the current film, if there is     *)
(* one.  The answers come later.                                           *)
(***************************************************************************)
LooksUp(l) == l.op = "open" /\ l.root = None
OpensAtOnce(l) == l.op = "open" /\ l.root # None
AllHandled(p, s, rs) ==
  LET line(i) == said[p][rs[i].id]
      opens(i) == {j \in 1..i : OpensAtOnce(line(j))}
      filmBy(i) == IF opens(i) = {} THEN s.film ELSE line(Max(opens(i))).film
      rooted(f) == {i \in DOMAIN rs : line(i).root # None /\ filmBy(i) = f}
  IN [s EXCEPT
       !.looking = @ \cup {rs[i] : i \in {j \in DOMAIN rs : LooksUp(line(j))}},
       !.replying = @ \cup {rs[i] : i \in {j \in DOMAIN rs : ~LooksUp(line(j))}},
       !.film = filmBy(Len(rs)),
       !.roots = [f \in Films |-> IF rooted(f) = {} THEN @[f]
                                  ELSE line(Max(rooted(f))).root]]

(* PipeTransport.receive *)
Received(p, s, id) ==
  LET t == [s EXCEPT !.got = id]
      r == [id |-> id, again |-> FALSE]
  IN IF s.phase = "on" THEN AllHandled(p, t, <<r>>)
     ELSE [t EXCEPT !.waiting = Append(@, r)]

(* events.onmessage *)
Deliver(p) ==
  /\ channel[p] # <<>>
  /\ channel' = [channel EXCEPT ![p] = Tail(@)]
  /\ LET e == Head(channel[p]) IN
       servers' = [servers EXCEPT ![p] =
            IF e.kind = "open" THEN NewServer(e)
            ELSE IF e.kind = "closed" \/ @ = None THEN None
            ELSE Received(p, @, e.id)]
  /\ UNCHANGED <<page, announcing, listener, sessions, serving, agentVars, answered>>

(***************************************************************************)
(* createScfMcpServer came back; it awaits only when --scf names a film to *)
(* open.  The replayed lines go behind the messages that came meanwhile,   *)
(* and the answers to them stay here.                                      *)
(***************************************************************************)
AtOnce(p) == servers[p] # None /\ servers[p].phase = "starting" /\ args[p] = None
NothingAtOnce == \A q \in Pipes : ~AtOnce(q)

(* openProject: the film is the current one, and keeps the roots it had. *)
OpenProject(s, film, root) ==
  [s EXCEPT !.film = film,
            !.roots = IF root = None THEN @ ELSE [@ EXCEPT ![film] = root]]

Again(ids) == [i \in DOMAIN ids |-> [id |-> ids[i], again |-> TRUE]]
Replayed(s) == [s EXCEPT !.phase = "answering", !.waiting = @ \o Again(s.replay),
                         !.swallow = ToSet(s.replay)]
Ready(p) ==
  /\ servers[p] # None /\ servers[p].phase = "starting"
  /\ \E root \in Roots \cup {None} :
       servers' = [servers EXCEPT ![p] =
         IF args[p] = None THEN Replayed(@)
         ELSE OpenProject(Replayed(@), args[p], root)]
  /\ UNCHANGED <<page, announcing, listener, channel, sessions, serving,
                 agentVars, answered>>

(* It failed: the pipe is told why, and ended. *)
CreateFails(p) ==
  /\ servers[p] # None /\ servers[p].phase = "starting" /\ args[p] # None
  /\ servers' = [servers EXCEPT ![p] = None]
  /\ sessions' = [sessions EXCEPT ![p] = None]
  /\ pipe' = IF pipe[p] \in {"hello", "open"} /\ sessions[p] # None
             THEN [pipe EXCEPT ![p] = "failed"] ELSE pipe
  /\ UNCHANGED <<page, announcing, listener, channel, serving, args, said,
                 answered, asked>>

(* A new pipe is told ok; a resumed one was.  Then the server is connected. *)
TellsOk(s) == ~s.resumed
ConnectServer(p) ==
  /\ servers[p] # None /\ servers[p].phase = "answering"
  /\ pipe' = IF TellsOk(servers[p]) /\ pipe[p] = "hello" /\ sessions[p] # None
             THEN [pipe EXCEPT ![p] = "open"] ELSE pipe
  /\ servers' = [servers EXCEPT ![p] =
       AllHandled(p, [@ EXCEPT !.phase = "on", !.waiting = <<>>], @.waiting)]
  /\ UNCHANGED <<page, announcing, listener, channel, sessions, serving, args,
                 said, answered, asked>>

(* openAndRemember, after getProject: app.db has a root for the film or not. *)
Replies(s, r) == [s EXCEPT !.looking = @ \ {r}, !.replying = @ \cup {r}]
LookedUp(p, r) ==
  /\ servers[p] # None /\ r \in servers[p].looking
  /\ \E root \in Roots \cup {None} :
       servers' = [servers EXCEPT ![p] =
         OpenProject(Replies(@, r), said[p][r.id].film, root)]
  /\ UNCHANGED <<page, announcing, listener, channel, sessions, serving,
                 agentVars, answered>>

(* PipeTransport.send: the answer to a replayed request goes no further. *)
(* Slip: every answer goes out. *)
SwallowsNot(s, id) == FALSE
(* Slip: a resumed pipe gets no answers. *)
SwallowsAll(s, id) == s.resumed
Swallows(s, id) == id \in s.swallow
Answer(p, r) ==
  /\ servers[p] # None /\ r \in servers[p].replying
  /\ servers' = [servers EXCEPT ![p].replying = @ \ {r},
                                ![p].swallow = @ \ {r.id}]
  /\ IF Swallows(servers[p], r.id) \/ sessions[p] = None \/ pipe[p] # "open"
     THEN UNCHANGED answered
     ELSE answered' = [answered EXCEPT ![p][r.id] = @ + 1]
  /\ UNCHANGED <<page, announcing, listener, channel, sessions, serving, args,
                 said, pipe, asked>>

-----------------------------------------------------------------------------
(* What needs no wait happens before the page hears of anything else. *)
PageNext ==
  \/ \E p \in Pipes : Ready(p)
  \/ /\ NothingAtOnce
     /\ \/ \E p \in Pipes : Deliver(p) \/ CreateFails(p) \/ ConnectServer(p)
        \/ \E p \in Pipes, r \in Request : LookedUp(p, r) \/ Answer(p, r)
RelayNext ==
  \/ \E p \in Pipes : ServeAnnounces(p) \/ Emit(p) \/ Forget(p) \/ TellClosed(p)
  \/ Listen \/ ListenAnnounces
AgentNext ==
  \/ \E p \in Pipes : Connect(p) \/ Hangup(p)
  \/ \E p \in Pipes, l \in Lines : Say(p, l)

Next == PageNext \/ RelayNext \/ AgentNext \/ Reload
Spec == Init /\ [][Next]_vars

(* The relay's threads and the page's event loop run on. *)
FairSpec == Spec /\ WF_vars(RelayNext) /\ WF_vars(PageNext)
-----------------------------------------------------------------------------
(* Properties.                                                             *)

(***************************************************************************)
(* The page hears of a pipe once before it hears of the pipe's lines, and  *)
(* its server is given them in the order they were said, none missing and  *)
(* none twice: whatever emit, announce_held and mcp_listen do to `held`    *)
(* between each other's locks (mcp_relay.rs:204-277, 347-357).  The first  *)
(* line after a replay is whichever the agent is at.                       *)
(***************************************************************************)
Heard(p) ==
  /\ page' = page /\ channel[p] # <<>> /\ channel'[p] = Tail(channel[p])
MessagesInOrder ==
  [][\A p \in Pipes : Heard(p) =>
       LET e == Head(channel[p])
           s == servers[p]
       IN /\ e.kind = "open" => s = None
          /\ e.kind = "message" =>
               IF s = None THEN sessions[p] = None
               ELSE e.id = s.got + 1 \/ (s.resumed /\ s.got = 0)]_vars

(***************************************************************************)
(* No request is answered twice, though a line can be replayed to a server *)
(* that is also given it as a message (windowMcp.ts:62-100).               *)
(***************************************************************************)
AnsweredOnce == \A p \in Pipes, id \in Ids : answered[p][id] <= 1

(* Nothing said to the server is on its way, and the server owes nothing.  *)
Quiet(p) ==
  /\ pipe[p] = "open" /\ serving[p] = "reading"
  /\ servers[p] # None /\ servers[p].phase = "on"
  /\ servers[p].looking = {} /\ servers[p].replying = {}
  /\ channel[p] = <<>>
(* Of an agent's lines l, those that open a film, and those that are kept. *)
Opens(l) == {i \in DOMAIN l : l[i].op = "open"}
Calls(l) == {i \in DOMAIN l : Stateful(l[i])}
IsLast(i, T) == i \in T /\ \A j \in T : j <= i

(* Fewer than STATE_KEPT calls have followed the last `open`.              *)
StillKept(l) ==
  \A i \in Opens(l) :
    IsLast(i, Opens(l)) => Cardinality({j \in Calls(l) : j > i}) < StateKept

(* Every `open` names its root, or every one but the last.                 *)
AllNameRoots(l) == \A i \in Opens(l) : l[i].root # None
EarlierNameRoots(l) == \A i \in Opens(l) : IsLast(i, Opens(l)) \/ l[i].root # None

(***************************************************************************)
(* A server is where its agent thinks it is (mcp_relay.rs:18-21): in the   *)
(* film of the last `open` ...                                             *)
(***************************************************************************)
InFilmLeft(p) ==
  LET l == said[p] IN
  /\ Opens(l) = {} => servers[p].film = args[p]
  /\ \A i \in Opens(l) : IsLast(i, Opens(l)) => servers[p].film = l[i].film
(* ... with the root that the last `open` or `set_root` gave it.           *)
WithRootLeft(p) ==
  LET l == said[p] IN
  \A i \in Opens(l), j \in Calls(l) :
    IsLast(i, Opens(l)) /\ IsLast(j, Calls(l))
      => servers[p].roots[l[i].film] = l[j].root

(***************************************************************************)
(* For an agent without --scf, while fewer than STATE_KEPT set_roots have  *)
(* followed its last `open`, a server that has caught up, resumed or not,  *)
(* is in the film of that `open` if those before it named their roots, and *)
(* with the root last given if every `open` named one: the handshake and   *)
(* the calls kept (mcp_relay.rs:262-277), the messages held and the page's *)
(* replay behind them (windowMcp.ts:136-144) bring it there in order.      *)
(***************************************************************************)
ResumedAsLeft ==
  \A p \in Pipes :
    Quiet(p) /\ args[p] = None /\ StillKept(said[p])
    => /\ EarlierNameRoots(said[p]) => InFilmLeft(p)
       /\ AllNameRoots(said[p]) => WithRootLeft(p)

(***************************************************************************)
(* Contrary cases: mcp_relay.rs:18-21 of the agents left out above.  With  *)
(* --scf, or an `open` before the last that app.db has to be asked about,  *)
(* the film is that of the lookup that comes back last.                    *)
(***************************************************************************)
LookupsKeepTheOrder ==
  \A p \in Pipes : Quiet(p) /\ StillKept(said[p]) => InFilmLeft(p)

(* And STATE_KEPT set_roots leave nothing of the `open` they follow.       *)
SetRootsKeepTheFilm ==
  \A p \in Pipes :
    Quiet(p) /\ args[p] = None /\ AllNameRoots(said[p]) => InFilmLeft(p)

(***************************************************************************)
(* A pipe that no page has been told of yet is told ok, or why not, unless *)
(* the page it is to be announced to is reloaded meanwhile: whichever of   *)
(* serve and mcp_listen announces it, and whatever pipes are announced     *)
(* again beside it (mcp_relay.rs:232-250, windowMcp.ts:131-160).           *)
(***************************************************************************)
NotYetTold(p) ==
  sessions[p] # None /\ ~sessions[p].announced /\ ~Head(sessions[p].held).resumed
PipesAreTold ==
  \A p \in Pipes, n \in 1..(MaxReloads + 1) :
    (pipe[p] = "hello" /\ NotYetTold(p) /\ page = n /\ listener \in {0, n})
    ~> (pipe[p] # "hello" \/ page # n)

(***************************************************************************)
(* Contrary case: mcp_relay.rs:12-14 says that the window answers every    *)
(* hello, but one announced to a page that is gone is taken by the next    *)
(* for answered (windowMcp.ts:138-143).                                    *)
(***************************************************************************)
EveryPipeIsTold == \A p \in Pipes : pipe[p] = "hello" ~> pipe[p] # "hello"

(***************************************************************************)
(* An agent's call is answered, unless the page it was asked of is         *)
(* reloaded or the pipe ends; it says nothing more until then.             *)
(***************************************************************************)
Asking(p) ==
  /\ pipe[p] = "open" /\ said[p] # <<>> /\ asked[p] = listener
  /\ answered[p][Len(said[p])] = 0
CallsAreAnswered == \A p \in Pipes : Asking(p) ~> ~Asking(p)
=============================================================================
