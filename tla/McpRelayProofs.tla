--------------------------- MODULE McpRelayProofs ---------------------------
(***************************************************************************)
(* McpRelay, for any pipes, films and bounds: the page hears each pipe's   *)
(* lines in their order, each once; no request is answered twice, whatever *)
(* is replayed; and a server that has caught up has the film and the root  *)
(* its agent left, while the relay still keeps what brings it there.       *)
(***************************************************************************)
EXTENDS McpRelay, FiniteSetTheorems, FunctionTheorems, SequenceTheorems,
        WellFoundedInduction, TLAPS

\* The lines of a pipe that emit has been called with.
Out(p) == Len(said[p]) - (IF serving[p] = "emitting" THEN 1 ELSE 0)

IsMessage(e) == e.kind = "message"
IsOpen(e) == e.kind = "open"

\* The ids in s are of lines that were said.
Said(p, s) == \A i \in DOMAIN s : s[i] \in DOMAIN said[p]

-----------------------------------------------------------------------------
(* Who knows of a pipe, and what it knows.                                 *)

Serving(p) == serving[p] \notin {"off", "over", "gone"}

StageInv(p) ==
  /\ Len(said[p]) <= MaxLines
  /\ pipe[p] = "off" => /\ serving[p] = "off" /\ said[p] = <<>>
                        /\ servers[p] = None /\ channel[p] = <<>>
                        /\ \A i \in Ids : answered[p][i] = 0
  /\ pipe[p] \in {"hello", "open"} => sessions[p] # None
  /\ sessions[p] # None => Serving(p)
  /\ serving[p] = "emitting" => said[p] # <<>>
  /\ listener # page => channel[p] = <<>> /\ servers[p] = None

KeptInv(p) ==
  sessions[p] # None => Said(p, sessions[p].handshake) /\ Said(p, sessions[p].state)

ReplayInv(p, q) == \A i \in DOMAIN q : IsOpen(q[i]) => Said(p, q[i].replay)

ServerInv(p, s) ==
  /\ Said(p, s.replay)
  /\ \A i \in DOMAIN s.waiting : s.waiting[i].id \in DOMAIN said[p]
  /\ \A r \in s.looking : r.id \in DOMAIN said[p] /\ LooksUp(said[p][r.id])
  /\ \A r \in s.replying : r.id \in DOMAIN said[p]
  /\ s.phase # "on" => s.looking = {} /\ s.replying = {}
  /\ s.phase = "on" => s.waiting = <<>>
  /\ s.phase = "starting" => s.swallow = {} /\ s.film = None
  /\ s.phase = "answering" => s.film = args[p]

-----------------------------------------------------------------------------
(* The order of what the page hears.                                       *)

(***************************************************************************)
(* A queue of events: an `open` only in front, `closed` only at the end,   *)
(* and the messages in between one after the other, from the first line    *)
(* on unless the pipe is resumed.                                          *)
(***************************************************************************)
Ordered(q) ==
  \A i, j \in DOMAIN q : i < j =>
    /\ ~IsOpen(q[j])
    /\ q[i].kind # "closed"
    /\ IsMessage(q[j]) /\ IsMessage(q[i]) => q[j].id = q[i].id + (j - i)
    /\ IsMessage(q[j]) /\ IsOpen(q[i]) /\ ~q[i].resumed => q[j].id = j - i

\* No line after the first n is in q, and the last one there is the n-th.
UpTo(q, n) ==
  \A i \in DOMAIN q :
    /\ q[i].kind # "closed"
    /\ i = Len(q) => /\ IsMessage(q[i]) => q[i].id = n
                     /\ IsOpen(q[i]) /\ ~q[i].resumed => n = 0

\* The server is given line n next.
NextIs(s, n) == n = s.got + 1 \/ (s.resumed /\ s.got = 0)

QueueInv(p) ==
  LET q == channel[p] IN
  /\ Ordered(q)
  /\ serving[p] # "gone" => \A i \in DOMAIN q : q[i].kind # "closed"
  /\ \A i \in DOMAIN q : IsMessage(q[i]) => q[i].id <= Out(p)
  /\ q # <<>> => /\ IsOpen(q[1]) => servers[p] = None
                 /\ IsMessage(q[1]) =>
                      IF servers[p] = None THEN sessions[p] = None
                      ELSE NextIs(servers[p], q[1].id)

SessionInv(p) ==
  sessions[p] # None =>
    LET s == sessions[p] IN
    IF ~s.announced
    THEN /\ channel[p] = <<>> /\ servers[p] = None
         /\ s.held # <<>> /\ IsOpen(s.held[1])
         /\ Ordered(s.held) /\ UpTo(s.held, Out(p))
         /\ \A i \in DOMAIN s.held : IsMessage(s.held[i]) => s.held[i].id <= Out(p)
    ELSE listener = page =>
         /\ UpTo(channel[p], Out(p))
         /\ channel[p] = <<>> =>
              servers[p] # None /\ NextIs(servers[p], Out(p) + 1)

-----------------------------------------------------------------------------
(* Answers.                                                                *)

Req(i, again) == [id |-> i, again |-> again]
Holds(s, r) ==
  r \in s.looking \/ r \in s.replying \/ \E i \in DOMAIN s.waiting : s.waiting[i] = r

(***************************************************************************)
(* A request the server owes was never answered; one it owes only again,   *)
(* and whose answer is not to be swallowed, took the place of the one that *)
(* was, which it was given before.                                         *)
(***************************************************************************)
OwedInv(p, s) ==
  /\ s.got <= Out(p)
  /\ s.looking \cap s.replying = {}
  /\ \A i \in Ids :
       /\ Holds(s, Req(i, FALSE)) => i <= s.got /\ answered[p][i] = 0
       /\ Holds(s, Req(i, TRUE)) /\ i \notin s.swallow =>
            /\ i <= s.got /\ answered[p][i] = 0
            /\ ~Holds(s, Req(i, FALSE))

Unanswered(p, q) ==
  \A i \in DOMAIN q : IsMessage(q[i]) => answered[p][q[i].id] = 0
AnswersInv(p) ==
  /\ \A i \in Ids : answered[p][i] <= 1 /\ (i > Out(p) => answered[p][i] = 0)
  /\ Unanswered(p, channel[p])
  /\ sessions[p] # None /\ ~sessions[p].announced => Unanswered(p, sessions[p].held)

-----------------------------------------------------------------------------
PipeInv(p) ==
  /\ StageInv(p) /\ KeptInv(p)
  /\ ReplayInv(p, channel[p])
  /\ sessions[p] # None => ReplayInv(p, sessions[p].held)
  /\ servers[p] # None => ServerInv(p, servers[p])
OrderInv(p) == QueueInv(p) /\ SessionInv(p)
OnceInv(p) == AnswersInv(p) /\ (servers[p] # None => OwedInv(p, servers[p]))
IInv == \A p \in Pipes : PipeInv(p) /\ OrderInv(p) /\ OnceInv(p)
-----------------------------------------------------------------------------
(* Data: bounds, queues of events, requests handled together.              *)

LEMMA MaxIs ==
  ASSUME NEW n \in Nat, NEW T, T \subseteq 1..n, T # {}
  PROVE  Max(T) \in T /\ \A y \in T : y <= Max(T)
<1> DEFINE R == OpToRel(<, Nat)
           U == {n - x : x \in T}
<1>1. IsWellFoundedOn(R, Nat)
  BY NatLessThanWellFounded
<1>0. \A x \in T : x \in 1..n /\ n - x \in Nat
  OBVIOUS
<1>2. U \subseteq Nat /\ U # {}
  BY <1>0
<1> HIDE DEF R, U
<1>3. PICK u \in U : \A v \in U : <<v, u>> \notin R
  BY <1>1, <1>2, WFMin
<1>4. \A v \in U : ~(v < u)
  BY <1>2, <1>3 DEF R, OpToRel
<1>5. PICK x \in T : u = n - x
  BY DEF U
<1>6. ASSUME NEW y \in T PROVE x >= y
  <2>1. n - y \in U
    BY DEF U
  <2>2. ~(n - y < n - x)
    BY <1>4, <1>5, <2>1
  <2> QED
    BY <1>0, <2>2
<1>7. Max(T) \in T /\ \A y \in T : Max(T) >= y
  BY <1>6 DEF Max
<1> QED
  BY <1>7

LEMMA EventKinds ==
  ASSUME NEW e \in Event
  PROVE  /\ e.kind \in {"open", "message", "closed"}
         /\ IsMessage(e) => e.id \in Ids
         /\ IsOpen(e) => e.resumed \in BOOLEAN /\ e.replay \in Seq(Ids)
BY DEF Event, IsMessage, IsOpen, IdSeqs

LEMMA MessageType ==
  ASSUME NEW i \in Ids
  PROVE  /\ [kind |-> "message", id |-> i] \in Event
         /\ IsMessage([kind |-> "message", id |-> i])
         /\ ~IsOpen([kind |-> "message", id |-> i])
BY DEF Event, IsMessage, IsOpen

LEMMA ClosedType ==
  /\ [kind |-> "closed"] \in Event
  /\ ~IsMessage([kind |-> "closed"]) /\ ~IsOpen([kind |-> "closed"])
BY DEF Event, IsMessage, IsOpen

LEMMA OpenType ==
  ASSUME NEW resumed \in BOOLEAN, NEW s, resumed => s \in Session
  PROVE  LET e == OpenEvent(resumed, s) IN
         /\ e \in Event /\ IsOpen(e) /\ ~IsMessage(e) /\ e.resumed = resumed
         /\ e.replay = IF resumed THEN s.handshake \o s.state ELSE <<>>
<1>1. resumed => s.handshake \o s.state \in Seq(Ids)
  BY ConcatProperties DEF Session, IdSeqs
<1>2. <<>> \in Seq(Ids)
  OBVIOUS
<1> QED
  BY <1>1, <1>2 DEF OpenEvent, Event, IdSeqs, IsOpen, IsMessage

LEMMA OrderedTail ==
  ASSUME NEW q \in Seq(Event), q # <<>>, Ordered(q)
  PROVE  /\ Ordered(Tail(q))
         /\ \A i \in DOMAIN Tail(q) : i + 1 \in DOMAIN q /\ Tail(q)[i] = q[i + 1]
<1>1. /\ Tail(q) \in Seq(Event) /\ Len(Tail(q)) = Len(q) - 1 /\ Len(q) \in Nat
      /\ \A i \in 1..Len(Tail(q)) : Tail(q)[i] = q[i + 1]
  BY HeadTailProperties, LenProperties
<1>2. DOMAIN Tail(q) = 1..(Len(q) - 1) /\ DOMAIN q = 1..Len(q)
  BY <1>1, LenProperties
<1>3. \A i \in DOMAIN Tail(q) : i + 1 \in DOMAIN q /\ Tail(q)[i] = q[i + 1]
  BY <1>1, <1>2
<1>4. SUFFICES ASSUME NEW i \in DOMAIN Tail(q), NEW j \in DOMAIN Tail(q), i < j
               PROVE  /\ ~IsOpen(Tail(q)[j])
                      /\ Tail(q)[i].kind # "closed"
                      /\ IsMessage(Tail(q)[j]) /\ IsMessage(Tail(q)[i]) =>
                           Tail(q)[j].id = Tail(q)[i].id + (j - i)
                      /\ IsMessage(Tail(q)[j]) /\ IsOpen(Tail(q)[i])
                            /\ ~Tail(q)[i].resumed => Tail(q)[j].id = j - i
  BY <1>3 DEF Ordered
<1> DEFINE m == Len(q)
<1>8. m \in Nat /\ i \in 1..(m - 1) /\ j \in 1..(m - 1) /\ DOMAIN q = 1..m
  BY <1>1, <1>2
<1> HIDE DEF m
<1>5. 1 \in DOMAIN q /\ 1 < i + 1 /\ i + 1 < j + 1 /\ i \in Nat /\ j \in Nat
  BY <1>4, <1>8
<1>6. ~IsOpen(q[i + 1])
  BY <1>3, <1>5 DEF Ordered
<1>7. (j + 1) - (i + 1) = j - i
  BY <1>5
<1> QED
  BY <1>3, <1>5, <1>6, <1>7 DEF Ordered

LEMMA MessageAppended ==
  ASSUME NEW q \in Seq(Event), NEW n \in Nat, n + 1 \in Ids,
         Ordered(q), UpTo(q, n),
         NEW e, e = [kind |-> "message", id |-> n + 1]
  PROVE  Ordered(Append(q, e)) /\ UpTo(Append(q, e), n + 1)
<1> DEFINE qq == Append(q, e)
<1>1. e \in Event /\ IsMessage(e) /\ ~IsOpen(e) /\ e.id = n + 1 /\ e.kind = "message"
  BY MessageType
<1>2. /\ qq \in Seq(Event) /\ Len(qq) = Len(q) + 1 /\ Len(q) \in Nat
      /\ DOMAIN qq = 1..(Len(q) + 1) /\ DOMAIN q = 1..Len(q)
      /\ \A i \in 1..Len(q) : qq[i] = q[i]
      /\ qq[Len(q) + 1] = e
  BY <1>1, AppendProperties, LenProperties
<1> HIDE DEF qq
<1>3. UpTo(qq, n + 1)
  BY <1>1, <1>2 DEF UpTo, IsMessage, IsOpen
<1>4. SUFFICES ASSUME NEW i \in DOMAIN q
               PROVE  /\ IsMessage(q[i]) => n + 1 = q[i].id + (Len(q) + 1 - i)
                      /\ IsOpen(q[i]) /\ ~q[i].resumed => n + 1 = Len(q) + 1 - i
  <2>1. \A i, j \in DOMAIN q : i < j =>
          /\ ~IsOpen(q[j]) /\ q[i].kind # "closed"
          /\ IsMessage(q[j]) /\ IsMessage(q[i]) => q[j].id = q[i].id + (j - i)
          /\ IsMessage(q[j]) /\ IsOpen(q[i]) /\ ~q[i].resumed => q[j].id = j - i
    BY DEF Ordered
  <2>2. \A i \in DOMAIN q : q[i].kind # "closed"
    BY DEF UpTo
  <2>3. ASSUME NEW i \in DOMAIN qq, NEW j \in DOMAIN qq, i < j
        PROVE  /\ ~IsOpen(qq[j])
               /\ qq[i].kind # "closed"
               /\ IsMessage(qq[j]) /\ IsMessage(qq[i]) => qq[j].id = qq[i].id + (j - i)
               /\ IsMessage(qq[j]) /\ IsOpen(qq[i]) /\ ~qq[i].resumed => qq[j].id = j - i
    <3>1. i \in DOMAIN q /\ qq[i] = q[i]
      BY <1>2, <2>3
    <3>2. CASE j \in DOMAIN q
      <4>1. qq[j] = q[j]
        BY <1>2, <3>2
      <4> QED
        BY <2>1, <2>3, <3>1, <3>2, <4>1
    <3>3. CASE j \notin DOMAIN q
      <4>1. j = Len(q) + 1 /\ qq[j] = e
        BY <1>2, <2>3, <3>3
      <4> QED
        BY <1>1, <1>4, <2>2, <3>1, <4>1
    <3> QED
      BY <3>2, <3>3
  <2>4. Ordered(qq)
    BY <2>3 DEF Ordered
  <2> QED
    BY <1>3, <2>4 DEF qq
<1>5. CASE i = Len(q)
  <2>1. IsMessage(q[i]) => q[i].id = n /\ n = q[i].id
    BY <1>5 DEF UpTo
  <2>2. IsOpen(q[i]) /\ ~q[i].resumed => n = 0
    BY <1>5 DEF UpTo
  <2> QED
    BY <1>2, <1>5, <2>1, <2>2
<1>6. CASE i # Len(q)
  <2>1. i < Len(q) /\ Len(q) \in DOMAIN q /\ q[Len(q)] \in Event
    BY <1>2, <1>6, ElementOfSeq
  <2>2. ~IsOpen(q[Len(q)]) /\ q[Len(q)].kind # "closed"
    BY <2>1 DEF Ordered, UpTo
  <2>3. IsMessage(q[Len(q)])
    BY <2>1, <2>2, EventKinds DEF IsOpen, IsMessage
  <2>4. q[Len(q)].id = n
    BY <2>1, <2>3 DEF UpTo
  <2>5. q[i] \in Event
    BY <1>2, ElementOfSeq
  <2>6. IsMessage(q[i]) => n = q[i].id + (Len(q) - i) /\ q[i].id \in Nat
    BY <2>1, <2>3, <2>4, <2>5, EventKinds DEF Ordered, Ids
  <2>7. IsOpen(q[i]) /\ ~q[i].resumed => n = Len(q) - i
    BY <2>1, <2>3, <2>4 DEF Ordered
  <2> QED
    BY <1>2, <2>6, <2>7
<1> QED
  BY <1>5, <1>6

LEMMA ClosedAppended ==
  ASSUME NEW q \in Seq(Event), Ordered(q), \A i \in DOMAIN q : q[i].kind # "closed"
  PROVE  Ordered(Append(q, [kind |-> "closed"]))
<1> DEFINE e == [kind |-> "closed"]
           qq == Append(q, e)
<1>1. e \in Event /\ ~IsMessage(e) /\ ~IsOpen(e)
  BY ClosedType
<1>2. /\ Len(q) \in Nat
      /\ DOMAIN qq = 1..(Len(q) + 1) /\ DOMAIN q = 1..Len(q)
      /\ \A i \in 1..Len(q) : qq[i] = q[i]
      /\ qq[Len(q) + 1] = e
  BY <1>1, AppendProperties, LenProperties
<1> HIDE DEF qq, e
<1>3. Ordered(qq)
  BY <1>1, <1>2 DEF Ordered
<1> QED
  BY <1>3 DEF qq, e

LEMMA OneOpen ==
  ASSUME NEW e \in Event, IsOpen(e), NEW n \in Nat, ~e.resumed => n = 0
  PROVE  /\ <<e>> \in Seq(Event) /\ <<e>> # <<>> /\ Ordered(<<e>>) /\ UpTo(<<e>>, n)
         /\ \A i \in DOMAIN <<e>> : ~IsMessage(<<e>>[i]) /\ <<e>>[i] = e
BY DEF Ordered, UpTo, IsOpen, IsMessage

-----------------------------------------------------------------------------
(* Requests.                                                               *)

LEMMA RequestType ==
  ASSUME NEW i \in Ids, NEW b \in BOOLEAN
  PROVE  Req(i, b) \in Request /\ Req(i, b).id = i /\ Req(i, b).again = b
BY DEF Req, Request

\* What server s is after it was given the requests rs, one after the other.
Handles(p, s, rs, t) ==
  LET l(i) == said[p][rs[i].id]
      opens == {i \in DOMAIN rs : OpensAtOnce(l(i))}
  IN /\ t.phase = s.phase /\ t.resumed = s.resumed /\ t.replay = s.replay
     /\ t.waiting = s.waiting /\ t.swallow = s.swallow /\ t.got = s.got
     /\ \A r : r \in t.looking <=>
          r \in s.looking \/ \E i \in DOMAIN rs : rs[i] = r /\ LooksUp(l(i))
     /\ \A r : r \in t.replying <=>
          r \in s.replying \/ \E i \in DOMAIN rs : rs[i] = r /\ ~LooksUp(l(i))
     /\ opens = {} => t.film = s.film
     /\ opens # {} => \E i \in opens : /\ \A j \in opens : j <= i
                                       /\ t.film = l(i).film
     /\ (\A i \in DOMAIN rs : l(i).root = None) => t.roots = s.roots
     /\ \A i \in DOMAIN rs :
          l(i).root # None /\ (\A j \in DOMAIN rs : l(j).root # None => j <= i)
            /\ t.film # None => t.roots[t.film] = l(i).root

LEMMA HandledType ==
  ASSUME TypeOK, NEW p \in Pipes, NEW s \in Server, NEW rs \in Seq(Request),
         \A i \in DOMAIN rs : rs[i].id \in DOMAIN said[p]
  PROVE  AllHandled(p, s, rs) \in Server /\ Handles(p, s, rs, AllHandled(p, s, rs))
<1> DEFINE n == Len(rs)
           l(i) == said[p][rs[i].id]
           upTo(i) == {j \in 1..i : OpensAtOnce(l(j))}
           filmBy(i) == IF upTo(i) = {} THEN s.film ELSE l(Max(upTo(i))).film
           rooted(f) == {i \in DOMAIN rs : l(i).root # None /\ filmBy(i) = f}
           opens == {i \in DOMAIN rs : OpensAtOnce(l(i))}
           looks == {rs[i] : i \in {j \in DOMAIN rs : LooksUp(l(j))}}
           reads == {rs[i] : i \in {j \in DOMAIN rs : ~LooksUp(l(j))}}
           film == filmBy(n)
           roots == [f \in Films |-> IF rooted(f) = {} THEN s.roots[f]
                                     ELSE l(Max(rooted(f))).root]
           t == AllHandled(p, s, rs)
<1>1. t = [s EXCEPT !.looking = @ \cup looks, !.replying = @ \cup reads,
                    !.film = film, !.roots = roots]
  BY DEF AllHandled
<1>0. n \in Nat /\ DOMAIN rs = 1..n
  BY LenProperties
<1>2. \A i \in DOMAIN rs : rs[i] \in Request /\ l(i) \in Line
  BY ElementOfSeq, LenProperties DEF TypeOK
<1>11. s.film \in Films \cup {None} /\ s.roots \in [Films -> Roots \cup {None}]
  BY DEF Server
<1>12. \A i \in DOMAIN rs :
         /\ OpensAtOnce(l(i)) => l(i).film \in Films /\ l(i).root # None
         /\ l(i).root \in Roots \cup {None}
  BY <1>2 DEF OpensAtOnce, Line
<1>4. looks \subseteq Request /\ reads \subseteq Request
  BY <1>2
<1>5. /\ \A r : r \in looks <=> \E i \in DOMAIN rs : rs[i] = r /\ LooksUp(l(i))
      /\ \A r : r \in reads <=> \E i \in DOMAIN rs : rs[i] = r /\ ~LooksUp(l(i))
  OBVIOUS
<1> HIDE DEF n, l, looks, reads, t
<1>13. ASSUME NEW i \in 0..n, upTo(i) # {}
       PROVE  /\ Max(upTo(i)) \in DOMAIN rs /\ OpensAtOnce(l(Max(upTo(i))))
              /\ Max(upTo(i)) \in upTo(i)
              /\ \A j \in upTo(i) : j <= Max(upTo(i))
  <2>1. upTo(i) \subseteq 1..i /\ i \in Nat
    BY <1>0
  <2> DEFINE m == Max(upTo(i))
             T == upTo(i)
  <2> HIDE DEF T
  <2>2. Max(T) \in T /\ \A j \in T : j <= Max(T)
    BY <1>13, <2>1, MaxIs DEF T
  <2>3. m \in upTo(i) /\ \A j \in upTo(i) : j <= m
    BY <2>2 DEF T
  <2> HIDE DEF m
  <2>4. m \in DOMAIN rs /\ OpensAtOnce(l(m))
    BY <1>0, <2>1, <2>3
  <2> QED
    BY <2>3, <2>4 DEF m
<1>14. \A i \in 0..n : filmBy(i) \in Films \cup {None}
  BY <1>11, <1>12, <1>13
<1>15. opens = upTo(n)
  BY <1>0
<1>7. opens = {} => film = s.film
  BY <1>15
<1>8. opens # {} => \E i \in opens : (\A j \in opens : j <= i) /\ film = l(i).film
  BY <1>0, <1>13, <1>15
<1>16. ASSUME NEW f, rooted(f) # {}
       PROVE  Max(rooted(f)) \in rooted(f) /\ \A j \in rooted(f) : j <= Max(rooted(f))
  <2>1. rooted(f) \subseteq 1..n
    BY <1>0
  <2> DEFINE T == rooted(f)
  <2> HIDE DEF T
  <2>2. Max(T) \in T /\ \A j \in T : j <= Max(T)
    BY <1>0, <1>16, <2>1, MaxIs DEF T
  <2> QED
    BY <2>2 DEF T
<1> HIDE DEF filmBy
<1>17. roots \in [Films -> Roots \cup {None}]
  <2>1. ASSUME NEW f \in Films, rooted(f) # {} PROVE l(Max(rooted(f))).root \in Roots \cup {None}
    <3>1. Max(rooted(f)) \in rooted(f)
      BY <1>16, <2>1
    <3>2. Max(rooted(f)) \in DOMAIN rs
      BY <3>1
    <3>3. \A i \in DOMAIN rs : l(i).root \in Roots \cup {None}
      BY <1>12
    <3> HIDE DEF rooted
    <3> QED
      BY Zenon, <3>2, <3>3
  <2> HIDE DEF rooted
  <2> QED
    BY <1>11, <2>1
<1>18. (\A i \in DOMAIN rs : l(i).root = None) => roots = s.roots
  <2> SUFFICES ASSUME \A i \in DOMAIN rs : l(i).root = None PROVE roots = s.roots
    OBVIOUS
  <2>1. \A f : rooted(f) = {}
    OBVIOUS
  <2> HIDE DEF rooted
  <2> QED
    BY <1>11, <2>1
<1>19. ASSUME NEW i \in DOMAIN rs, l(i).root # None,
              \A j \in DOMAIN rs : l(j).root # None => j <= i, film # None
       PROVE  roots[film] = l(i).root
  <2>1. upTo(i) = upTo(n)
    <3>1. upTo(i) \subseteq upTo(n)
      BY <1>0
    <3>2. ASSUME NEW j \in upTo(n) PROVE j \in upTo(i)
      <4>1. j \in DOMAIN rs /\ OpensAtOnce(l(j))
        BY <1>0
      <4>2. j <= i
        BY <1>12, <1>19, <4>1
      <4> QED
        BY <1>0, <4>1, <4>2
    <3> HIDE DEF upTo
    <3> QED
      BY <3>1, <3>2
  <2>2. filmBy(i) = film
    BY <2>1 DEF filmBy
  <2>3. i \in rooted(film)
    BY <1>19, <2>2
  <2>4. film \in Films
    BY <1>0, <1>14, <1>19
  <2>5. Max(rooted(film)) \in rooted(film) /\ i <= Max(rooted(film))
    BY <1>16, <2>3
  <2>6. Max(rooted(film)) \in DOMAIN rs /\ l(Max(rooted(film))).root # None
    BY <2>5
  <2>7. Max(rooted(film)) <= i
    BY <1>19, <2>6
  <2> HIDE DEF rooted, film
  <2>8. Max(rooted(film)) = i
    BY <1>0, <2>5, <2>6, <2>7
  <2> QED
    BY <2>3, <2>4, <2>8
<1>6. film \in Films \cup {None}
  BY <1>0, <1>14
<1> HIDE DEF looks, reads, film, opens, t, roots, upTo, rooted
<1>9. /\ t \in Server
      /\ t.phase = s.phase /\ t.resumed = s.resumed /\ t.replay = s.replay
      /\ t.waiting = s.waiting /\ t.swallow = s.swallow /\ t.got = s.got
      /\ t.looking = s.looking \cup looks /\ t.replying = s.replying \cup reads
      /\ t.film = film /\ t.roots = roots
  BY <1>1, <1>4, <1>6, <1>17 DEF Server
<1> HIDE DEF l
<1>10. /\ \A r : r \in t.looking <=>
            r \in s.looking \/ \E i \in DOMAIN rs : rs[i] = r /\ LooksUp(l(i))
       /\ \A r : r \in t.replying <=>
            r \in s.replying \/ \E i \in DOMAIN rs : rs[i] = r /\ ~LooksUp(l(i))
  BY <1>5, <1>9
<1>20. /\ (\A i \in DOMAIN rs : l(i).root = None) => t.roots = s.roots
       /\ \A i \in DOMAIN rs :
            l(i).root # None /\ (\A j \in DOMAIN rs : l(j).root # None => j <= i)
              /\ t.film # None => t.roots[t.film] = l(i).root
  BY <1>9, <1>18, <1>19
<1> QED
  BY <1>7, <1>8, <1>9, <1>10, <1>20 DEF t, opens, l, Handles

-----------------------------------------------------------------------------
(* What does not concern a pipe leaves all that is known of it.            *)

SameFor(q) ==
  /\ page' = page /\ listener' = listener /\ args' = args
  /\ channel'[q] = channel[q] /\ sessions'[q] = sessions[q]
  /\ serving'[q] = serving[q] /\ said'[q] = said[q] /\ answered'[q] = answered[q]
  /\ pipe'[q] = pipe[q] /\ servers'[q] = servers[q]

LEMMA Elsewhere ==
  ASSUME NEW q \in Pipes, SameFor(q)
  PROVE  /\ PipeInv(q) => PipeInv(q)'
         /\ OrderInv(q) => OrderInv(q)'
         /\ OnceInv(q) => OnceInv(q)'
<1>1. PipeInv(q) => PipeInv(q)'
  BY DEF SameFor, PipeInv, StageInv, KeptInv, ReplayInv, ServerInv, Said, Serving
<1>2. Out(q)' = Out(q)
  BY DEF SameFor, Out
<1>3. QueueInv(q) => QueueInv(q)'
  BY <1>2 DEF SameFor, QueueInv
<1>4. SessionInv(q) => SessionInv(q)'
  BY <1>2 DEF SameFor, SessionInv
<1>5. AnswersInv(q) => AnswersInv(q)'
  BY <1>2 DEF SameFor, AnswersInv, Unanswered
<1>6. ASSUME servers[q] # None, OwedInv(q, servers[q]) PROVE OwedInv(q, servers[q])'
  BY <1>2, <1>6 DEF SameFor, OwedInv
<1> QED
  BY <1>1, <1>3, <1>4, <1>5, <1>6 DEF OrderInv, OnceInv, SameFor

-----------------------------------------------------------------------------
(* Types, and who knows of a pipe.                                         *)

LEMMA SaidTypes ==
  ASSUME TypeOK, NEW p \in Pipes, PipeInv(p)
  PROVE  /\ said[p] \in Seq(Line) /\ Len(said[p]) \in Nat /\ Len(said[p]) <= MaxLines
         /\ DOMAIN said[p] = 1..Len(said[p]) /\ DOMAIN said[p] \subseteq Ids
         /\ Out(p) \in Nat /\ Out(p) <= Len(said[p])
         /\ Out(p) = IF serving[p] = "emitting" THEN Len(said[p]) - 1 ELSE Len(said[p])
         /\ serving[p] = "emitting" => Len(said[p]) \in Ids
<1>1. /\ said[p] \in Seq(Line) /\ Len(said[p]) \in Nat /\ Len(said[p]) <= MaxLines
      /\ DOMAIN said[p] = 1..Len(said[p]) /\ DOMAIN said[p] \subseteq Ids
  <2> DEFINE l == said[p]
  <2>1. l \in Seq(Line) /\ Len(l) <= MaxLines
    BY DEF TypeOK, PipeInv, StageInv
  <2> HIDE DEF l
  <2>2. Len(l) \in Nat /\ DOMAIN l = 1..Len(l)
    BY <2>1, LenProperties
  <2>3. DOMAIN l \subseteq Ids
    BY <2>1, <2>2, RelayAssumption DEF Ids
  <2> QED
    BY <2>1, <2>2, <2>3 DEF l
<1>2. serving[p] = "emitting" => Len(said[p]) > 0
  BY EmptySeq, <1>1 DEF PipeInv, StageInv
<1>3. CASE serving[p] = "emitting"
  <2>1. Out(p) = Len(said[p]) - 1
    BY <1>3 DEF Out
  <2> QED
    BY <1>1, <1>2, <1>3, <2>1, RelayAssumption DEF Ids
<1>4. CASE serving[p] # "emitting"
  <2>1. Out(p) = Len(said[p]) - 0
    BY <1>4 DEF Out
  <2> QED
    BY <1>1, <1>4, <2>1
<1> QED
  BY <1>3, <1>4

LEMMA InitInv == Init => TypeOK /\ IInv
<1> SUFFICES ASSUME Init PROVE TypeOK /\ IInv
  OBVIOUS
<1>1. TypeOK
  <2>0. MaxReloads \in Nat /\ MaxLines \in Nat
    BY RelayAssumption
  <2>1. page \in 1..(MaxReloads + 1) /\ listener \in 0..page
    <3>1. page = 1 /\ listener = 0
      BY DEF Init
    <3> QED
      BY <2>0, <3>1
  <2>6. announcing \in BOOLEAN
    BY DEF Init
  <2>2. asked \in [Pipes -> 0..page]
    BY RelayAssumption, <2>1 DEF Init
  <2>3. answered \in [Pipes -> [Ids -> Nat]] /\ args \in [Pipes -> Films \cup {None}]
    BY RelayAssumption DEF Init
  <2>4. channel \in [Pipes -> Seq(Event)] /\ said \in [Pipes -> Seq(Line)]
    BY DEF Init
  <2>5. /\ sessions \in [Pipes -> Session \cup {None}]
        /\ servers \in [Pipes -> Server \cup {None}]
        /\ serving \in [Pipes -> {"off"}] /\ pipe \in [Pipes -> {"off"}]
    BY DEF Init
  <2> QED
    BY <2>1, <2>2, <2>3, <2>4, <2>5, <2>6 DEF TypeOK
<1>2. SUFFICES ASSUME NEW p \in Pipes
               PROVE  PipeInv(p) /\ OrderInv(p) /\ OnceInv(p)
  BY <1>1 DEF IInv
<1>3. /\ said[p] = <<>> /\ channel[p] = <<>> /\ sessions[p] = None /\ servers[p] = None
      /\ pipe[p] = "off" /\ serving[p] = "off"
      /\ \A i \in Ids : answered[p][i] = 0
  BY DEF Init
<1>4. PipeInv(p)
  BY <1>3, RelayAssumption DEF PipeInv, StageInv, KeptInv, ReplayInv
<1>5. OrderInv(p)
  BY <1>3 DEF OrderInv, QueueInv, SessionInv, Ordered
<1>6. OnceInv(p)
  BY <1>3 DEF OnceInv, AnswersInv, Unanswered
<1> QED
  BY <1>4, <1>5, <1>6

LEMMA ConnectPipe ==
  ASSUME TypeOK, NEW p \in Pipes, PipeInv(p), Connect(p)
  PROVE  TypeOK' /\ PipeInv(p)' /\ \A q \in Pipes \ {p} : SameFor(q)
<1> DEFINE e == OpenEvent(FALSE, None)
           s == [announced |-> FALSE, handshake |-> <<>>, state |-> <<>>, held |-> <<e>>]
<1>1. e \in Event /\ e.replay = <<>>
  BY OpenType
<1> HIDE DEF e
<1>2. s \in Session /\ s # None
  <2>1. <<e>> \in Seq(Event) /\ <<>> \in Seq(Ids)
    BY <1>1
  <2>2. s \in Session
    BY <2>1 DEF Session, IdSeqs
  <2> QED
    BY <2>2, NoneAssumption
<1>3. sessions' = [sessions EXCEPT ![p] = s]
  BY DEF Connect, e
<1> HIDE DEF s
<1>4. TypeOK'
  <2>1. sessions' \in [Pipes -> Session \cup {None}]
    BY <1>2, <1>3 DEF TypeOK
  <2>2. /\ serving' \in [Pipes -> {"off", "added", "reading", "emitting", "over", "gone"}]
        /\ pipe' \in [Pipes -> {"off", "hello", "open", "failed", "ended"}]
    BY DEF Connect, TypeOK
  <2>3. UNCHANGED <<page, announcing, listener, channel, args, said, answered,
                    asked, servers>>
    BY DEF Connect
  <2> QED
    BY <2>1, <2>2, <2>3 DEF TypeOK
<1>5. StageInv(p)'
  BY <1>2, <1>3 DEF Connect, PipeInv, StageInv, Serving, TypeOK
<1>6. KeptInv(p)'
  BY <1>2, <1>3 DEF KeptInv, Said, s, TypeOK
<1>7. ReplayInv(p, channel[p])' /\ ReplayInv(p, sessions[p].held)'
  <2>1. sessions'[p].held = <<e>>
    BY <1>3 DEF s, TypeOK
  <2> QED
    <3>1. \A i \in DOMAIN <<e>> : <<e>>[i] = e
      OBVIOUS
    <3>2. channel'[p] = <<>>
      BY DEF Connect, PipeInv, StageInv
    <3>3. \A q : Said(q, e.replay)'
      BY <1>1 DEF Said
    <3> QED
      BY <2>1, <3>1, <3>2, <3>3 DEF ReplayInv
<1>8. servers'[p] # None => ServerInv(p, servers[p])'
  BY DEF Connect, PipeInv, StageInv, ServerInv
<1> QED
  BY <1>3, <1>4, <1>5, <1>6, <1>7, <1>8 DEF PipeInv, SameFor, Connect, TypeOK

LEMMA SayKept ==
  ASSUME NEW s \in Session, NEW id \in Ids, NEW l \in Line
  PROVE  LET t == Kept(s, id, l) IN
         /\ t \in Session /\ t.announced = s.announced /\ t.held = s.held
         /\ \A i \in DOMAIN t.handshake :
              \/ i \in DOMAIN s.handshake /\ t.handshake[i] = s.handshake[i]
              \/ t.handshake[i] = id /\ ~Stateful(l)
         /\ IF Stateful(l)
            THEN /\ t.state # <<>> /\ t.state[Len(t.state)] = id
                 /\ \A i \in DOMAIN t.state :
                      t.state[i] = id \/ \E j \in DOMAIN s.state : t.state[i] = s.state[j]
            ELSE t.state = s.state
<1> DEFINE h == Append(s.handshake, id)
           a == Append(s.state, id)
<1>1. s.handshake \in Seq(Ids) /\ s.state \in Seq(Ids)
  BY DEF Session, IdSeqs
<1>2. /\ h \in Seq(Ids) /\ DOMAIN h = 1..(Len(s.handshake) + 1)
      /\ DOMAIN s.handshake = 1..Len(s.handshake) /\ Len(s.handshake) \in Nat
      /\ \A i \in 1..Len(s.handshake) : h[i] = s.handshake[i]
      /\ h[Len(s.handshake) + 1] = id
  BY <1>1, AppendProperties, LenProperties
<1>3. /\ a \in Seq(Ids) /\ Len(a) = Len(s.state) + 1 /\ a # <<>>
      /\ DOMAIN s.state = 1..Len(s.state) /\ Len(s.state) \in Nat
      /\ \A i \in 1..Len(s.state) : a[i] = s.state[i]
      /\ a[Len(s.state) + 1] = id
  BY <1>1, AppendProperties, LenProperties
<1>4. /\ Tail(a) \in Seq(Ids) /\ Len(Tail(a)) = Len(s.state)
      /\ \A i \in 1..Len(Tail(a)) : Tail(a)[i] = a[i + 1]
  BY <1>3, HeadTailProperties
<1> HIDE DEF h, a
<1> DEFINE t == Kept(s, id, l)
<1>5. CASE l.op = "init"
  <2>1. ~Stateful(l)
    BY <1>5 DEF Stateful, STATEFUL
  <2>2. t = [s EXCEPT !.handshake = h] \/ t = s
    BY <1>5, <2>1 DEF Kept, h
  <2> QED
    BY <1>2, <2>1, <2>2 DEF Session, IdSeqs
<1>6. CASE l.op # "init" /\ ~Stateful(l)
  BY <1>6 DEF Kept
<1>7. CASE Stateful(l)
  <2> DEFINE b == Latest(a)
  <2>1. l.op # "init" /\ t = [s EXCEPT !.state = b]
    BY <1>7 DEF Kept, Stateful, STATEFUL, a
  <2>2. StateKept \in Nat /\ StateKept > 0
    BY RelayAssumption
  <2>3. b \in Seq(Ids) /\ b # <<>> /\ b[Len(b)] = id
        /\ \A i \in DOMAIN b : b[i] = id \/ \E j \in DOMAIN s.state : b[i] = s.state[j]
    <3>1. CASE Len(a) > StateKept
      <4>1. b = Tail(a) /\ Len(s.state) > 0
        BY <1>3, <2>2, <3>1 DEF Latest
      <4>2. DOMAIN b = 1..Len(s.state) /\ b # <<>>
        BY <1>4, <4>1, LenProperties, EmptySeq
      <4>3. \A i \in 1..Len(s.state) : b[i] = a[i + 1]
        BY <1>4, <4>1
      <4> HIDE DEF b
      <4>4. b[Len(s.state)] = id /\ Len(b) = Len(s.state)
        BY <1>3, <1>4, <4>1, <4>3
      <4>5. ASSUME NEW i \in DOMAIN b
            PROVE  b[i] = id \/ \E j \in DOMAIN s.state : b[i] = s.state[j]
        <5>1. CASE i = Len(s.state)
          BY <4>4, <5>1
        <5>2. CASE i # Len(s.state)
          <6>1. i + 1 \in 1..Len(s.state) /\ b[i] = a[i + 1]
            BY <1>3, <4>2, <4>3, <5>2
          <6> QED
            BY <1>3, <6>1
        <5> QED
          BY <5>1, <5>2
      <4> QED
        BY <1>4, <4>1, <4>2, <4>4, <4>5
    <3>2. CASE ~(Len(a) > StateKept)
      <4>1. b = a
        BY <3>2 DEF Latest
      <4>2. DOMAIN a = 1..(Len(s.state) + 1)
        BY <1>3, LenProperties
      <4> QED
        BY <1>3, <4>1, <4>2
    <3> QED
      BY <3>1, <3>2
  <2> HIDE DEF b
  <2>4. t \in Session
    BY <2>1, <2>3 DEF Session, IdSeqs
  <2>5. t.state = b /\ t.announced = s.announced /\ t.held = s.held /\ t.handshake = s.handshake
    BY <2>1 DEF Session
  <2> QED
    BY <1>7, <2>3, <2>4, <2>5
<1> QED
  BY <1>5, <1>6, <1>7

LEMMA ReplayAppended ==
  ASSUME NEW p, NEW q \in Seq(Event), ReplayInv(p, q), NEW e \in Event, ~IsOpen(e)
  PROVE  ReplayInv(p, Append(q, e))
<1>1. /\ DOMAIN Append(q, e) = 1..(Len(q) + 1) /\ DOMAIN q = 1..Len(q) /\ Len(q) \in Nat
      /\ \A i \in 1..Len(q) : Append(q, e)[i] = q[i]
      /\ Append(q, e)[Len(q) + 1] = e
  BY AppendProperties, LenProperties
<1> QED
  BY <1>1 DEF ReplayInv

LEMMA SayPipe ==
  ASSUME TypeOK, NEW p \in Pipes, PipeInv(p), NEW l \in Line, Say(p, l)
  PROVE  /\ TypeOK' /\ PipeInv(p)' /\ \A q \in Pipes \ {p} : SameFor(q)
         /\ said'[p] = Append(said[p], l)
         /\ DOMAIN said'[p] = 1..(Len(said[p]) + 1)
         /\ \A i \in DOMAIN said[p] : said'[p][i] = said[p][i]
         /\ said'[p][Len(said[p]) + 1] = l /\ Len(said'[p]) = Len(said[p]) + 1
         /\ Out(p)' = Out(p) /\ Out(p) = Len(said[p])
<1> DEFINE id == Len(said[p]) + 1
<1>1. /\ said[p] \in Seq(Line) /\ Len(said[p]) \in Nat /\ Len(said[p]) < MaxLines
      /\ DOMAIN said[p] = 1..Len(said[p]) /\ serving[p] = "reading" /\ pipe[p] = "open"
  BY SaidTypes DEF Say, MaySay
<1>2. id \in Ids
  BY <1>1, RelayAssumption DEF Ids
<1>3. /\ Append(said[p], l) \in Seq(Line) /\ Append(said[p], l) # <<>>
      /\ DOMAIN Append(said[p], l) = 1..id /\ Len(Append(said[p], l)) = id
      /\ \A i \in 1..Len(said[p]) : Append(said[p], l)[i] = said[p][i]
      /\ Append(said[p], l)[id] = l
  BY <1>1, AppendProperties, LenProperties
<1>4. /\ said' = [said EXCEPT ![p] = Append(said[p], l)]
      /\ asked' = [asked EXCEPT ![p] = listener]
      /\ serving' = [serving EXCEPT ![p] = "emitting"]
      /\ sessions' = IF sessions[p] = None THEN sessions
                     ELSE [sessions EXCEPT ![p] = Kept(sessions[p], id, l)]
      /\ UNCHANGED <<page, announcing, listener, channel, args, answered, pipe, servers>>
  BY DEF Say
<1> HIDE DEF id
<1>5. sessions[p] # None => /\ sessions[p] \in Session
                            /\ Kept(sessions[p], id, l) \in Session
                            /\ Kept(sessions[p], id, l) # None
  BY <1>2, SayKept, NoneAssumption DEF TypeOK
<1>6. listener \in 0..page
  BY DEF TypeOK
<1>7. TypeOK'
  <2>1. sessions' \in [Pipes -> Session \cup {None}]
    BY <1>4, <1>5 DEF TypeOK
  <2>2. asked' \in [Pipes -> 0..page']
    BY <1>4, <1>6 DEF TypeOK
  <2>3. said' \in [Pipes -> Seq(Line)] /\ serving' \in [Pipes ->
          {"off", "added", "reading", "emitting", "over", "gone"}]
    BY <1>3, <1>4 DEF TypeOK
  <2> QED
    BY <1>4, <2>1, <2>2, <2>3 DEF TypeOK
<1>8. /\ said'[p] = Append(said[p], l) /\ serving'[p] = "emitting"
      /\ (sessions'[p] = None <=> sessions[p] = None)
      /\ sessions[p] # None => sessions'[p] = Kept(sessions[p], id, l)
  BY <1>4, <1>5 DEF TypeOK
<1>9. /\ DOMAIN said[p] \subseteq DOMAIN said'[p]
      /\ \A i \in DOMAIN said[p] : said'[p][i] = said[p][i]
      /\ DOMAIN said'[p] = 1..id /\ id \in DOMAIN said'[p]
  BY <1>1, <1>2, <1>3, <1>8 DEF id, Ids
<1>10. \A s : Said(p, s) => Said(p, s)'
  BY <1>9 DEF Said
<1>11. StageInv(p)'
  <2>1. Len(said'[p]) <= MaxLines
    BY <1>2, <1>3, <1>8, RelayAssumption DEF Ids
  <2>2. pipe'[p] = "open" /\ sessions'[p] # None /\ said'[p] # <<>>
    BY <1>1, <1>3, <1>4, <1>8 DEF PipeInv, StageInv
  <2> QED
    BY <1>4, <1>8, <2>1, <2>2 DEF PipeInv, StageInv, Serving
<1>12. KeptInv(p)'
  <2>1. SUFFICES ASSUME sessions'[p] # None
                 PROVE  /\ Said(p, sessions[p].handshake)' /\ Said(p, sessions[p].state)'
    BY DEF KeptInv
  <2>2. sessions[p] # None /\ sessions[p] \in Session
        /\ sessions'[p] = Kept(sessions[p], id, l)
    BY <1>5, <1>8, <2>1
  <2>3. Said(p, sessions[p].handshake) /\ Said(p, sessions[p].state)
    BY <2>2 DEF PipeInv, KeptInv
  <2>4. \A i \in DOMAIN sessions'[p].handshake :
           \/ i \in DOMAIN sessions[p].handshake /\ sessions'[p].handshake[i] = sessions[p].handshake[i]
           \/ sessions'[p].handshake[i] = id
    BY <1>2, <2>2, SayKept
  <2>5. \A i \in DOMAIN sessions'[p].state :
           \/ sessions'[p].state[i] = id
           \/ \E j \in DOMAIN sessions[p].state : sessions'[p].state[i] = sessions[p].state[j]
    <3>1. CASE Stateful(l)
      BY <1>2, <2>2, SayKept, <3>1
    <3>2. CASE ~Stateful(l)
      BY <1>2, <2>2, SayKept, <3>2
    <3> QED
      BY <3>1, <3>2
  <2> QED
    BY <1>9, <2>3, <2>4, <2>5 DEF Said
<1>13. ReplayInv(p, channel[p])' /\ (sessions'[p] # None => ReplayInv(p, sessions[p].held)')
  <2>1. sessions'[p] # None => sessions'[p].held = sessions[p].held /\ sessions[p] # None
    BY <1>2, <1>5, <1>8, SayKept
  <2> QED
    BY <1>4, <1>10, <2>1 DEF PipeInv, ReplayInv
<1>14. servers'[p] # None => ServerInv(p, servers[p])'
  <2>1. SUFFICES ASSUME servers[p] # None PROVE ServerInv(p, servers[p])'
    BY <1>4
  <2> QED
    BY <1>4, <1>9, <1>10, <2>1 DEF PipeInv, ServerInv
<1>15. \A q \in Pipes \ {p} : SameFor(q)
  BY <1>4 DEF SameFor, TypeOK
<1>16. Out(p)' = Out(p) /\ Out(p) = Len(said[p])
  <2>1. Out(p) = Len(said[p]) - 0
    BY <1>1 DEF Out
  <2>2. Out(p)' = id - 1
    BY <1>3, <1>8 DEF Out
  <2> QED
    BY <1>1, <2>1, <2>2 DEF id
<1>17. PipeInv(p)'
  BY <1>11, <1>12, <1>13, <1>14 DEF PipeInv
<1> QED
  BY <1>3, <1>7, <1>8, <1>9, <1>15, <1>16, <1>17 DEF id

\* What emit does to a pipe that has a session.
LEMMA EmittedPipe ==
  ASSUME TypeOK, NEW p \in Pipes, PipeInv(p), Emit(p)
  PROVE  /\ TypeOK' /\ PipeInv(p)' /\ \A q \in Pipes \ {p} : SameFor(q)
         /\ said' = said /\ servers' = servers /\ answered' = answered /\ args' = args
         /\ page' = page /\ listener' = listener
         /\ Out(p)' = Len(said[p]) /\ Out(p) = Len(said[p]) - 1 /\ Len(said[p]) \in Ids
         /\ serving'[p] = "reading"
         /\ LET e == [kind |-> "message", id |-> Len(said[p])] IN
            \/ sessions[p] = None /\ sessions' = sessions /\ channel' = channel
            \/ /\ sessions[p] # None /\ EmitNow(p) /\ sessions' = sessions
               /\ \/ listener = page /\ channel'[p] = Append(channel[p], e)
                  \/ listener # page /\ channel' = channel
            \/ /\ sessions[p] # None /\ ~EmitNow(p) /\ channel' = channel
               /\ sessions'[p] = [sessions[p] EXCEPT !.held = Append(@, e)]
<1> DEFINE e == [kind |-> "message", id |-> Len(said[p])]
<1>1. serving[p] = "emitting" /\ Len(said[p]) \in Ids /\ Out(p) = Len(said[p]) - 1
  BY SaidTypes DEF Emit
<1>2. e \in Event /\ ~IsOpen(e)
  BY <1>1, MessageType
<1> HIDE DEF e
<1>3. /\ serving' = [serving EXCEPT ![p] = "reading"]
      /\ UNCHANGED <<page, announcing, listener, args, said, answered, pipe,
                     asked, servers>>
      /\ IF sessions[p] = None THEN UNCHANGED <<sessions, channel>> ELSE Emitted(p, e)
  BY DEF Emit, e
<1>4. /\ channel[p] \in Seq(Event)
      /\ sessions[p] # None => sessions[p] \in Session /\ sessions[p].held \in Seq(Event)
  BY DEF TypeOK, Session
<1>5. Append(channel[p], e) \in Seq(Event)
  BY <1>2, <1>4
<1>6. \/ sessions[p] = None /\ sessions' = sessions /\ channel' = channel
      \/ /\ sessions[p] # None /\ EmitNow(p) /\ sessions' = sessions
         /\ \/ listener = page /\ channel' = [channel EXCEPT ![p] = Append(@, e)]
            \/ listener # page /\ channel' = channel
      \/ /\ sessions[p] # None /\ ~EmitNow(p) /\ channel' = channel
         /\ sessions' = [sessions EXCEPT ![p] = [sessions[p] EXCEPT !.held = Append(@, e)]]
  BY <1>3 DEF Emitted, Sent
<1>7. sessions[p] # None =>
        /\ [sessions[p] EXCEPT !.held = Append(@, e)] \in Session
        /\ [sessions[p] EXCEPT !.held = Append(@, e)] # None
  <2>1. sessions[p] # None => Append(sessions[p].held, e) \in Seq(Event)
    BY <1>2, <1>4
  <2>2. sessions[p] # None => [sessions[p] EXCEPT !.held = Append(@, e)] \in Session
    BY <1>4, <2>1 DEF Session
  <2> QED
    BY <2>2, NoneAssumption
<1>8. channel' \in [Pipes -> Seq(Event)] /\ sessions' \in [Pipes -> Session \cup {None}]
  <2>1. channel \in [Pipes -> Seq(Event)] /\ sessions \in [Pipes -> Session \cup {None}]
    BY DEF TypeOK
  <2>2. [channel EXCEPT ![p] = Append(@, e)] \in [Pipes -> Seq(Event)]
    BY <1>5, <2>1
  <2>3. sessions[p] # None => [sessions EXCEPT ![p] = [sessions[p] EXCEPT !.held = Append(@, e)]]
                                \in [Pipes -> Session \cup {None}]
    BY <1>7, <2>1
  <2> QED
    BY <1>6, <2>1, <2>2, <2>3
<1>9. TypeOK'
  BY <1>3, <1>8 DEF TypeOK
<1>10. \/ sessions[p] = None /\ sessions' = sessions /\ channel' = channel
       \/ /\ sessions[p] # None /\ EmitNow(p) /\ sessions' = sessions
          /\ \/ listener = page /\ channel'[p] = Append(channel[p], e)
             \/ listener # page /\ channel' = channel
       \/ /\ sessions[p] # None /\ ~EmitNow(p) /\ channel' = channel
          /\ sessions'[p] = [sessions[p] EXCEPT !.held = Append(@, e)]
  BY <1>6 DEF TypeOK
<1>11. \A q \in Pipes \ {p} : SameFor(q)
  BY <1>3, <1>6 DEF SameFor, TypeOK
<1>12. sessions'[p] = None <=> sessions[p] = None
  BY <1>7, <1>10
<1>13. StageInv(p)'
  BY <1>1, <1>3, <1>10, <1>12 DEF PipeInv, StageInv, Serving, TypeOK
<1>14. KeptInv(p)'
  <2>1. sessions[p] # None => /\ sessions'[p].handshake = sessions[p].handshake
                              /\ sessions'[p].state = sessions[p].state
    BY <1>4, <1>10 DEF Session
  <2> QED
    BY <1>3, <1>12, <2>1 DEF PipeInv, KeptInv, Said
<1>15. ReplayInv(p, channel[p])'
  <2>1. ReplayInv(p, channel[p]) /\ ReplayInv(p, Append(channel[p], e))
    BY <1>2, <1>4, ReplayAppended DEF PipeInv
  <2> QED
    BY <1>3, <1>10, <2>1 DEF ReplayInv, Said
<1>16. sessions'[p] # None => ReplayInv(p, sessions[p].held)'
  <2>1. SUFFICES ASSUME sessions[p] # None PROVE ReplayInv(p, sessions[p].held)'
    BY <1>12
  <2>2. ReplayInv(p, sessions[p].held) /\ ReplayInv(p, Append(sessions[p].held, e))
    BY <1>2, <1>4, <2>1, ReplayAppended DEF PipeInv
  <2>3. sessions'[p].held = sessions[p].held \/ sessions'[p].held = Append(sessions[p].held, e)
    BY <1>4, <1>10, <2>1 DEF Session
  <2> QED
    BY <1>3, <2>2, <2>3 DEF ReplayInv, Said
<1>17. servers'[p] # None => ServerInv(p, servers[p])'
  BY <1>3 DEF PipeInv, ServerInv, Said
<1>18. PipeInv(p)'
  BY <1>13, <1>14, <1>15, <1>16, <1>17 DEF PipeInv
<1>19. serving'[p] = "reading" /\ Out(p)' = Len(said[p])
  <2>1. serving'[p] = "reading" /\ Out(p)' = Len(said[p]) - 0
    BY <1>3 DEF Out, TypeOK
  <2> QED
    BY <1>1, <2>1 DEF Ids
<1> QED
  BY <1>1, <1>3, <1>9, <1>10, <1>11, <1>18, <1>19 DEF e

LEMMA HangupPipe ==
  ASSUME TypeOK, NEW p \in Pipes, PipeInv(p), Hangup(p)
  PROVE  TypeOK' /\ PipeInv(p)' /\ \A q \in Pipes \ {p} : SameFor(q)
<1>1. /\ pipe' = [pipe EXCEPT ![p] = "ended"] /\ pipe[p] # "off"
      /\ UNCHANGED <<page, announcing, listener, channel, sessions, serving, args,
                     said, answered, asked, servers>>
  BY DEF Hangup
<1>2. TypeOK'
  BY <1>1 DEF TypeOK
<1>3. pipe'[p] = "ended"
  BY <1>1 DEF TypeOK
<1>4. PipeInv(p)'
  BY <1>1, <1>3 DEF PipeInv, StageInv, KeptInv, ReplayInv, ServerInv, Said, Serving
<1>5. \A q \in Pipes \ {p} : SameFor(q)
  BY <1>1 DEF SameFor, TypeOK
<1> QED
  BY <1>2, <1>4, <1>5

LEMMA ForgetPipe ==
  ASSUME TypeOK, NEW p \in Pipes, PipeInv(p), Forget(p)
  PROVE  /\ TypeOK' /\ PipeInv(p)' /\ \A q \in Pipes \ {p} : SameFor(q)
         /\ sessions'[p] = None /\ serving[p] = "reading" /\ serving'[p] \in {"over", "gone"}
         /\ sessions[p] # None \/ serving'[p] = "gone"
         /\ UNCHANGED <<page, listener, channel, said, answered, args, servers>>
<1>1. /\ pipe[p] \in {"ended", "failed"} /\ serving[p] = "reading"
      /\ serving' = [serving EXCEPT ![p] = IF Knew(sessions[p]) THEN "over" ELSE "gone"]
      /\ sessions' = [sessions EXCEPT ![p] = None]
      /\ UNCHANGED <<page, announcing, listener, channel, agentVars, answered, servers>>
  BY DEF Forget
<1>2. TypeOK'
  BY <1>1 DEF TypeOK, agentVars
<1>3. sessions'[p] = None /\ serving'[p] = IF Knew(sessions[p]) THEN "over" ELSE "gone"
  BY <1>1 DEF TypeOK
<1>4. PipeInv(p)'
  BY <1>1, <1>3 DEF agentVars, PipeInv, StageInv, KeptInv, ReplayInv, ServerInv, Said, Serving
<1>5. \A q \in Pipes \ {p} : SameFor(q)
  BY <1>1 DEF SameFor, TypeOK, agentVars
<1> QED
  BY <1>1, <1>2, <1>3, <1>4, <1>5 DEF agentVars, Knew

LEMMA TellClosedPipe ==
  ASSUME TypeOK, NEW p \in Pipes, PipeInv(p), TellClosed(p)
  PROVE  /\ TypeOK' /\ PipeInv(p)' /\ \A q \in Pipes \ {p} : SameFor(q)
         /\ sessions[p] = None /\ serving[p] = "over" /\ serving'[p] = "gone"
         /\ \/ channel'[p] = Append(channel[p], [kind |-> "closed"])
            \/ channel' = channel
         /\ UNCHANGED <<page, listener, sessions, said, answered, args, servers>>
<1> DEFINE e == [kind |-> "closed"]
<1>1. /\ serving[p] = "over"
      /\ serving' = [serving EXCEPT ![p] = "gone"]
      /\ channel' = IF listener = page THEN [channel EXCEPT ![p] = Append(@, e)] ELSE channel
      /\ UNCHANGED <<page, announcing, listener, sessions, agentVars, answered, servers>>
  BY DEF TellClosed, Sent
<1>2. e \in Event /\ ~IsOpen(e)
  BY ClosedType
<1> HIDE DEF e
<1>3. channel[p] \in Seq(Event)
  BY DEF TypeOK
<1>4. Append(channel[p], e) \in Seq(Event)
  BY <1>2, <1>3
<1>5. TypeOK'
  <2>1. channel' \in [Pipes -> Seq(Event)]
    BY <1>1, <1>4 DEF TypeOK
  <2> QED
    BY <1>1, <2>1 DEF TypeOK, agentVars
<1>6. /\ serving'[p] = "gone"
      /\ listener = page => channel'[p] = Append(channel[p], e)
      /\ listener # page => channel' = channel
  BY <1>1 DEF TypeOK
<1>7. sessions[p] = None
  BY <1>1 DEF PipeInv, StageInv, Serving
<1>8. StageInv(p)'
  BY <1>1, <1>6, <1>7 DEF PipeInv, StageInv, agentVars, Serving
<1>9. ReplayInv(p, channel[p])'
  <2>1. ReplayInv(p, channel[p]) /\ ReplayInv(p, Append(channel[p], e))
    BY <1>2, <1>3, ReplayAppended DEF PipeInv
  <2> QED
    BY <1>1, <1>6, <2>1 DEF ReplayInv, Said, agentVars
<1>10. servers'[p] # None => ServerInv(p, servers[p])'
  BY <1>1 DEF PipeInv, ServerInv, Said, agentVars
<1>11. PipeInv(p)'
  BY <1>1, <1>7, <1>8, <1>9, <1>10 DEF PipeInv, KeptInv
<1>12. \A q \in Pipes \ {p} : SameFor(q)
  BY <1>1 DEF SameFor, TypeOK, agentVars
<1> QED
  BY <1>1, <1>5, <1>6, <1>7, <1>11, <1>12 DEF agentVars, e

\* A session that waits to be announced, and what announce_held leaves of it.
Waits(p) == listener # 0 /\ sessions[p] # None /\ ~sessions[p].announced
Announce(p) ==
  IF Waits(p)
  THEN /\ sessions'[p] = [sessions[p] EXCEPT !.announced = TRUE, !.held = <<>>]
       /\ channel'[p] = IF listener = page THEN sessions[p].held ELSE channel[p]
  ELSE sessions'[p] = sessions[p] /\ channel'[p] = channel[p]

LEMMA AnnounceEach ==
  ASSUME TypeOK, \A p \in Pipes : SessionInv(p), AnnounceHeld
  PROVE  /\ channel' \in [Pipes -> Seq(Event)] /\ sessions' \in [Pipes -> Session \cup {None}]
         /\ \A p \in Pipes : Announce(p)
<1> DEFINE t(p) == [sessions[p] EXCEPT !.announced = TRUE, !.held = <<>>]
<1>1. ASSUME NEW p \in Pipes, sessions[p] # None
      PROVE  /\ sessions[p] \in Session /\ sessions[p].held \in Seq(Event)
             /\ t(p) \in Session
  <2>1. sessions[p] \in Session
    BY <1>1 DEF TypeOK
  <2>2. <<>> \in Seq(Event)
    OBVIOUS
  <2> QED
    BY <2>1, <2>2 DEF Session
<1>2. ASSUME NEW p \in Pipes, p \in Unannounced
      PROVE  channel[p] \o sessions[p].held = sessions[p].held
  <2>1. channel[p] = <<>> /\ sessions[p].held \in Seq(Event)
    BY <1>1, <1>2 DEF SessionInv, Unannounced
  <2> QED
    BY <2>1, ConcatEmptySeq
<1>3. CASE listener = 0
  BY <1>3 DEF AnnounceHeld, Announce, Waits, TypeOK
<1>4. CASE listener # 0
  <2>1. sessions' = [p \in Pipes |-> IF p \in Unannounced THEN t(p) ELSE sessions[p]]
    BY <1>4 DEF AnnounceHeld
  <2>2. channel' = IF listener # page THEN channel
                   ELSE [p \in Pipes |-> IF p \in Unannounced
                           THEN channel[p] \o sessions[p].held ELSE channel[p]]
    BY <1>4 DEF AnnounceHeld
  <2>3. \A p \in Pipes : p \in Unannounced <=> Waits(p)
    BY <1>4 DEF Unannounced, Waits
  <2>4. sessions' \in [Pipes -> Session \cup {None}]
    <3>1. \A p \in Pipes : p \in Unannounced => sessions[p] # None
      BY DEF Unannounced
    <3> HIDE DEF t
    <3> QED
      BY <1>1, <2>1, <3>1 DEF TypeOK
  <2>5. channel' \in [Pipes -> Seq(Event)]
    <3>1. \A p \in Pipes : p \in Unannounced => sessions[p] # None
      BY DEF Unannounced
    <3> QED
      BY <1>1, <1>2, <2>2, <3>1 DEF TypeOK
  <2>6. ASSUME NEW p \in Pipes PROVE Announce(p)
    <3>1. CASE Waits(p)
      BY <1>2, <2>1, <2>2, <2>3, <3>1 DEF Announce
    <3>2. CASE ~Waits(p)
      BY <2>1, <2>2, <2>3, <3>2 DEF Announce
    <3> QED
      BY <3>1, <3>2
  <2> QED
    BY <2>4, <2>5, <2>6
<1> QED
  BY <1>3, <1>4

\* What announce_held means for a pipe, and what it leaves alone.
Announcement(p) ==
  /\ Announce(p)
  /\ UNCHANGED <<page, listener, agentVars, answered, servers>>
  /\ serving'[p] = serving[p] \/ (serving[p] = "added" /\ serving'[p] = "reading")

LEMMA AnnouncedPipe ==
  ASSUME TypeOK, TypeOK', NEW p \in Pipes, PipeInv(p), Announcement(p)
  PROVE  PipeInv(p)' /\ Out(p)' = Out(p)
<1>1. UNCHANGED <<page, listener, args, said, pipe, answered, servers>>
  BY DEF Announcement, agentVars
<1>2. Waits(p) =>
        LET t == [sessions[p] EXCEPT !.announced = TRUE, !.held = <<>>] IN
        /\ t \in Session /\ t # None /\ t.handshake = sessions[p].handshake
        /\ t.state = sessions[p].state /\ t.held = <<>>
  <2>1. Waits(p) => sessions[p] \in Session
    BY DEF TypeOK, Waits
  <2>2. <<>> \in Seq(Event)
    OBVIOUS
  <2> QED
    BY <2>1, <2>2, NoneAssumption DEF Session
<1>3. /\ sessions'[p] = None <=> sessions[p] = None
      /\ sessions[p] # None => /\ sessions'[p].handshake = sessions[p].handshake
                               /\ sessions'[p].state = sessions[p].state
                               /\ sessions'[p].held = sessions[p].held \/ sessions'[p].held = <<>>
  <2>1. CASE Waits(p)
    BY <1>2, <2>1 DEF Announcement, Announce, Waits
  <2>2. CASE ~Waits(p)
    BY <2>2 DEF Announcement, Announce
  <2> QED
    BY <2>1, <2>2
<1>4. channel'[p] = channel[p] \/ (Waits(p) /\ channel'[p] = sessions[p].held /\ listener = page)
  BY DEF Announcement, Announce
<1>5. StageInv(p)'
  BY <1>1, <1>3, <1>4 DEF Announcement, PipeInv, StageInv, Serving, Waits
<1>6. KeptInv(p)'
  BY <1>1, <1>3 DEF PipeInv, KeptInv, Said
<1>7. ReplayInv(p, channel[p])' /\ (sessions'[p] # None => ReplayInv(p, sessions[p].held)')
  BY <1>1, <1>3, <1>4 DEF PipeInv, ReplayInv, Said, Waits
<1>8. servers'[p] # None => ServerInv(p, servers[p])'
  BY <1>1 DEF PipeInv, ServerInv, Said
<1>9. Out(p)' = Out(p)
  BY <1>1 DEF Announcement, Out
<1> QED
  BY <1>5, <1>6, <1>7, <1>8, <1>9 DEF PipeInv

LEMMA ServeAnnouncesPipes ==
  ASSUME TypeOK, \A q \in Pipes : SessionInv(q), NEW p \in Pipes, ServeAnnounces(p)
  PROVE  TypeOK' /\ \A q \in Pipes : Announcement(q)
<1>1. /\ serving[p] = "added" /\ serving' = [serving EXCEPT ![p] = "reading"]
      /\ AnnounceHeld
      /\ UNCHANGED <<page, announcing, listener, args, said, answered, pipe,
                     asked, servers>>
  BY DEF ServeAnnounces
<1>2. /\ channel' \in [Pipes -> Seq(Event)] /\ sessions' \in [Pipes -> Session \cup {None}]
      /\ \A q \in Pipes : Announce(q)
  BY <1>1, AnnounceEach
<1> QED
  BY <1>1, <1>2 DEF TypeOK, Announcement, agentVars

LEMMA ListenAnnouncesPipes ==
  ASSUME TypeOK, \A q \in Pipes : SessionInv(q), ListenAnnounces
  PROVE  TypeOK' /\ \A q \in Pipes : Announcement(q)
<1>1. /\ announcing' = FALSE
      /\ AnnounceHeld
      /\ UNCHANGED <<page, listener, serving, agentVars, answered, servers>>
  BY DEF ListenAnnounces
<1>2. /\ channel' \in [Pipes -> Seq(Event)] /\ sessions' \in [Pipes -> Session \cup {None}]
      /\ \A q \in Pipes : Announce(q)
  BY <1>1, AnnounceEach
<1>3. TypeOK'
  <2>1. announcing' \in BOOLEAN
    BY <1>1
  <2> QED
    BY <1>1, <1>2, <2>1 DEF TypeOK, agentVars
<1> QED
  BY <1>1, <1>2, <1>3 DEF Announcement

LEMMA ReannouncedType ==
  ASSUME NEW s \in Session, s.announced
  PROVE  LET t == Reannounced(s)
             e == OpenEvent(TRUE, s)
         IN /\ s # None /\ t \in Session /\ t # None /\ ~t.announced
            /\ t.handshake = s.handshake /\ t.state = s.state /\ t.held = <<e>>
            /\ e \in Event /\ IsOpen(e) /\ e.resumed /\ e.replay = s.handshake \o s.state
<1> DEFINE e == OpenEvent(TRUE, s)
           t == [s EXCEPT !.announced = FALSE, !.held = <<e>>]
<1>1. e \in Event /\ IsOpen(e) /\ e.resumed /\ e.replay = s.handshake \o s.state
  BY OpenType
<1> HIDE DEF e
<1>2. <<e>> \in Seq(Event) /\ s # None
  BY <1>1, NoneAssumption
<1>3. t \in Session /\ ~t.announced /\ t.handshake = s.handshake /\ t.state = s.state
      /\ t.held = <<e>>
  BY <1>2 DEF Session
<1>4. Reannounced(s) = t
  BY <1>2 DEF Reannounced, e
<1> HIDE DEF t
<1> QED
  BY <1>1, <1>2, <1>3, <1>4, NoneAssumption DEF e

\* What both halves of a concatenation are, all of it is.
LEMMA SaidBoth ==
  ASSUME NEW p, NEW s \in Seq(Ids), NEW t \in Seq(Ids), Said(p, s), Said(p, t)
  PROVE  Said(p, s \o t)
<1>1. /\ DOMAIN (s \o t) = 1..(Len(s) + Len(t)) /\ Len(s) \in Nat /\ Len(t) \in Nat
      /\ DOMAIN s = 1..Len(s) /\ DOMAIN t = 1..Len(t)
      /\ \A i \in 1..(Len(s) + Len(t)) :
           (s \o t)[i] = IF i <= Len(s) THEN s[i] ELSE t[i - Len(s)]
  BY ConcatProperties, LenProperties
<1> SUFFICES ASSUME NEW i \in DOMAIN (s \o t) PROVE (s \o t)[i] \in DOMAIN said[p]
  BY DEF Said
<1>2. CASE i <= Len(s)
  BY <1>1, <1>2 DEF Said
<1>3. CASE ~(i <= Len(s))
  <2>1. i - Len(s) \in DOMAIN t
    BY <1>1, <1>3
  <2> QED
    BY <1>1, <1>3, <2>1 DEF Said
<1> QED
  BY <1>2, <1>3

\* mcp_listen, for a pipe.
Listening(p) ==
  /\ listener # page /\ listener' = page /\ sessions'[p] = Reannounced(sessions[p])
  /\ UNCHANGED <<page, channel, serving, agentVars, answered, servers>>

LEMMA ListenPipes ==
  ASSUME TypeOK, Listen
  PROVE  TypeOK' /\ \A p \in Pipes : Listening(p)
<1>1. ASSUME NEW p \in Pipes PROVE Reannounced(sessions[p]) \in Session \cup {None}
  <2>1. CASE sessions[p] = None \/ ~sessions[p].announced
    BY <2>1 DEF Reannounced, TypeOK
  <2>2. CASE sessions[p] # None /\ sessions[p].announced
    <3>1. sessions[p] \in Session
      BY <2>2 DEF TypeOK
    <3> QED
      BY <2>2, <3>1, ReannouncedType
  <2> QED
    BY <2>1, <2>2
<1>2. sessions' \in [Pipes -> Session \cup {None}]
  BY <1>1 DEF Listen
<1>3. announcing' \in BOOLEAN
  BY DEF Listen
<1>4. listener' = page /\ listener' \in 0..page
  BY RelayAssumption DEF Listen, TypeOK
<1> QED
  BY <1>2, <1>3, <1>4 DEF Listen, TypeOK, agentVars, Listening

LEMMA ListeningPipe ==
  ASSUME TypeOK, NEW p \in Pipes, PipeInv(p), Listening(p)
  PROVE  PipeInv(p)' /\ Out(p)' = Out(p)
<1>1. UNCHANGED <<page, channel, serving, args, said, pipe, answered, servers>>
  BY DEF Listening, agentVars
<1>2. /\ channel[p] = <<>> /\ servers[p] = None
  BY DEF Listening, PipeInv, StageInv
<1>3. CASE sessions[p] = None \/ ~sessions[p].announced
  <2>1. sessions'[p] = sessions[p]
    BY <1>3 DEF Listening, Reannounced
  <2> QED
    BY <1>1, <1>2, <2>1 DEF PipeInv, StageInv, KeptInv, ReplayInv, Serving, Said, Out
<1>4. CASE sessions[p] # None /\ sessions[p].announced
  <2> DEFINE s == sessions[p]
             e == OpenEvent(TRUE, s)
  <2>1. s \in Session
    BY <1>4 DEF TypeOK
  <2>2. /\ sessions'[p] # None /\ sessions'[p].handshake = s.handshake
        /\ sessions'[p].state = s.state /\ sessions'[p].held = <<e>>
        /\ e.replay = s.handshake \o s.state
    BY <1>4, <2>1, ReannouncedType DEF Listening
  <2>3. Said(p, e.replay)
    <3>1. s.handshake \in Seq(Ids) /\ s.state \in Seq(Ids)
      BY <2>1 DEF Session, IdSeqs
    <3>2. Said(p, s.handshake) /\ Said(p, s.state)
      BY <1>4 DEF PipeInv, KeptInv
    <3>3. Said(p, s.handshake \o s.state)
      BY <3>1, <3>2, SaidBoth
    <3> QED
      BY <2>2, <3>3
  <2> HIDE DEF e
  <2>4. ReplayInv(p, sessions[p].held)'
    <3>1. \A i \in DOMAIN <<e>> : <<e>>[i] = e
      OBVIOUS
    <3> QED
      BY <1>1, <2>2, <2>3, <3>1 DEF ReplayInv, Said
  <2>5. KeptInv(p)' /\ ReplayInv(p, channel[p])'
    BY <1>1, <1>2, <2>2, <1>4 DEF PipeInv, KeptInv, Said, ReplayInv
  <2>6. StageInv(p)'
    BY <1>1, <1>2, <1>4, <2>2 DEF PipeInv, StageInv, Serving
  <2> QED
    BY <1>1, <1>2, <2>4, <2>5, <2>6 DEF PipeInv, Out
<1> QED
  BY <1>3, <1>4

\* A reload, for a pipe.
Reloading(p) ==
  /\ page' = page + 1 /\ listener' = listener /\ listener' < page'
  /\ channel'[p] = <<>> /\ servers'[p] = None
  /\ UNCHANGED <<sessions, serving, agentVars, answered>>

LEMMA ReloadPipes ==
  ASSUME TypeOK, Reload
  PROVE  TypeOK' /\ \A p \in Pipes : Reloading(p)
<1>1. page \in Nat /\ page <= MaxReloads /\ page' = page + 1 /\ listener \in 0..page
      /\ page >= 1 /\ MaxReloads \in Nat
  BY RelayAssumption DEF TypeOK, Reload
<1>2. page' \in 1..(MaxReloads + 1) /\ listener' \in 0..page' /\ listener' < page'
  BY <1>1 DEF Reload
<1>3. asked' \in [Pipes -> 0..page']
  <2>1. asked' = asked /\ \A q \in Pipes : asked[q] \in 0..(page + 1)
    BY <1>1 DEF Reload, agentVars, TypeOK
  <2> QED
    BY <1>1, <2>1 DEF TypeOK
<1>4. channel' \in [Pipes -> Seq(Event)] /\ servers' \in [Pipes -> Server \cup {None}]
  BY DEF Reload
<1>5. \A p \in Pipes : channel'[p] = <<>> /\ servers'[p] = None
  BY DEF Reload
<1>6. UNCHANGED <<announcing, listener, sessions, serving, args, said, pipe, answered>>
  BY DEF Reload, agentVars
<1>7. TypeOK'
  BY <1>2, <1>3, <1>4, <1>6 DEF TypeOK
<1> QED
  BY <1>1, <1>2, <1>5, <1>7 DEF Reload, Reloading, agentVars

LEMMA ReloadingPipe ==
  ASSUME TypeOK, NEW p \in Pipes, PipeInv(p), Reloading(p)
  PROVE  PipeInv(p)' /\ Out(p)' = Out(p)
BY DEF Reloading, agentVars, PipeInv, StageInv, KeptInv, ReplayInv, Serving, Said, Out

-----------------------------------------------------------------------------
(* The page's steps.                                                       *)

LEMMA NewServerType ==
  ASSUME NEW e \in Event, IsOpen(e)
  PROVE  LET s == NewServer(e) IN
         /\ s \in Server /\ s # None /\ s.phase = "starting" /\ s.resumed = e.resumed
         /\ s.replay = e.replay /\ s.waiting = <<>> /\ s.swallow = {}
         /\ s.looking = {} /\ s.replying = {} /\ s.film = None /\ s.got = 0
<1> DEFINE s == NewServer(e)
<1>1. e.resumed \in BOOLEAN /\ e.replay \in IdSeqs
  BY EventKinds DEF IdSeqs
<1>2. /\ <<>> \in Seq(Request) /\ 0 \in 0..MaxLines
      /\ [f \in Films |-> None] \in [Films -> Roots \cup {None}]
  BY RelayAssumption
<1>3. s \in Server
  BY <1>1, <1>2 DEF NewServer, Server
<1> QED
  BY <1>3, NoneAssumption DEF NewServer

\* What server s is after it was given line id.
Given(p, s, id, t) ==
  LET r == Req(id, FALSE)
      l == said[p][id]
  IN /\ t.phase = s.phase /\ t.resumed = s.resumed /\ t.replay = s.replay
     /\ t.swallow = s.swallow /\ t.got = id
     /\ s.phase # "on" =>
          /\ t.waiting = Append(s.waiting, r) /\ t.film = s.film
          /\ t.looking = s.looking /\ t.replying = s.replying
     /\ s.phase = "on" =>
          /\ t.waiting = s.waiting
          /\ \A x : x \in t.looking <=> x \in s.looking \/ (x = r /\ LooksUp(l))
          /\ \A x : x \in t.replying <=> x \in s.replying \/ (x = r /\ ~LooksUp(l))
          /\ t.film = IF OpensAtOnce(l) THEN l.film ELSE s.film
          /\ IF l.root = None THEN t.roots = s.roots
             ELSE t.film # None => t.roots[t.film] = l.root

LEMMA ReceivedIs ==
  ASSUME TypeOK, NEW p \in Pipes, NEW s \in Server, NEW id \in Ids, id \in DOMAIN said[p]
  PROVE  /\ Received(p, s, id) \in Server /\ Received(p, s, id) # None
         /\ Given(p, s, id, Received(p, s, id))
<1> DEFINE r == Req(id, FALSE)
           l == said[p][id]
           u == [s EXCEPT !.got = id]
           rs == <<r>>
<1>1. r \in Request /\ r.id = id
  BY RequestType
<1>2. u \in Server /\ u.got = id /\ u.phase = s.phase /\ u.resumed = s.resumed
      /\ u.replay = s.replay /\ u.swallow = s.swallow /\ u.waiting = s.waiting
      /\ u.film = s.film /\ u.roots = s.roots /\ u.looking = s.looking /\ u.replying = s.replying
  BY DEF Server, Ids
<1>3. Received(p, s, id) = IF s.phase = "on" THEN AllHandled(p, u, rs)
                           ELSE [u EXCEPT !.waiting = Append(@, r)]
  BY DEF Received, Req
<1>4. CASE s.phase # "on"
  <2> DEFINE t == [u EXCEPT !.waiting = Append(@, r)]
  <2>1. Append(u.waiting, r) \in Seq(Request)
    <3>1. u.waiting \in Seq(Request)
      BY <1>2 DEF Server
    <3> HIDE DEF u, r
    <3> QED
      BY <1>1, <3>1
  <2>2. t \in Server
    BY <1>2, <2>1 DEF Server
  <2>3. /\ t.phase = s.phase /\ t.resumed = s.resumed /\ t.replay = s.replay
        /\ t.swallow = s.swallow /\ t.got = id /\ t.waiting = Append(s.waiting, r)
        /\ t.film = s.film /\ t.looking = s.looking /\ t.replying = s.replying
    BY <1>2 DEF Server
  <2>4. Received(p, s, id) = t
    BY <1>3, <1>4
  <2> HIDE DEF t, r
  <2> QED
    BY <1>4, <2>2, <2>3, <2>4, NoneAssumption DEF r, Given
<1>5. CASE s.phase = "on"
  <2> DEFINE t == AllHandled(p, u, rs)
             opens == {i \in DOMAIN rs : OpensAtOnce(said[p][rs[i].id])}
  <2>1. rs \in Seq(Request) /\ DOMAIN rs = {1} /\ rs[1] = r
    <3> HIDE DEF r
    <3> QED
      BY <1>1
  <2> HIDE DEF rs, r
  <2>2. \A i \in DOMAIN rs : rs[i].id \in DOMAIN said[p]
    BY <1>1, <2>1
  <2> HIDE DEF u, t
  <2>3. t \in Server /\ Handles(p, u, rs, t)
    BY <1>2, <2>1, <2>2, HandledType DEF t
  <2>4. t.film = IF OpensAtOnce(l) THEN l.film ELSE s.film
    <3>1. CASE OpensAtOnce(l)
      <4>1. opens = {1}
        BY <1>1, <2>1, <3>1
      <4> QED
        BY <1>1, <2>1, <2>3, <3>1, <4>1 DEF Handles
    <3>2. CASE ~OpensAtOnce(l)
      <4>1. opens = {}
        BY <1>1, <2>1, <3>2
      <4> QED
        BY <1>2, <2>3, <3>2, <4>1 DEF Handles
    <3> QED
      BY <3>1, <3>2
  <2>8. IF l.root = None THEN t.roots = s.roots
        ELSE t.film # None => t.roots[t.film] = l.root
    <3>1. CASE l.root = None
      <4>1. \A i \in DOMAIN rs : said[p][rs[i].id].root = None
        BY <1>1, <2>1, <3>1
      <4> QED
        BY <1>2, <2>3, <3>1, <4>1 DEF Handles
    <3>2. CASE l.root # None
      <4>1. /\ 1 \in DOMAIN rs /\ said[p][rs[1].id] = l
            /\ \A j \in DOMAIN rs : j <= 1
        BY <1>1, <2>1
      <4> QED
        BY <2>3, <3>2, <4>1 DEF Handles
    <3> QED
      BY <3>1, <3>2
  <2>5. /\ \A x : x \in t.looking <=> x \in s.looking \/ (x = r /\ LooksUp(l))
        /\ \A x : x \in t.replying <=> x \in s.replying \/ (x = r /\ ~LooksUp(l))
    BY <1>1, <1>2, <2>1, <2>3 DEF Handles
  <2>6. Received(p, s, id) = t
    BY <1>3, <1>5 DEF t
  <2>7. t # None
    BY <2>3, NoneAssumption
  <2> HIDE DEF l, opens
  <2> QED
    BY <1>2, <1>5, <2>3, <2>4, <2>5, <2>6, <2>7, <2>8 DEF r, l, Given, Handles
<1> QED
  BY <1>4, <1>5

LEMMA DeliverPipe ==
  ASSUME TypeOK, NEW p \in Pipes, PipeInv(p), QueueInv(p), Deliver(p)
  PROVE  /\ TypeOK' /\ PipeInv(p)' /\ \A q \in Pipes \ {p} : SameFor(q)
         /\ UNCHANGED <<page, listener, sessions, serving, agentVars, answered>>
         /\ channel[p] # <<>> /\ channel'[p] = Tail(channel[p])
         /\ Out(p)' = Out(p)
         /\ LET e == channel[p][1] IN
            /\ e \in Event /\ 1 \in DOMAIN channel[p]
            /\ \/ IsOpen(e) /\ servers'[p] = NewServer(e)
               \/ ~IsOpen(e) /\ servers'[p] = None /\ (e.kind = "closed" \/ servers[p] = None)
               \/ /\ IsMessage(e) /\ servers[p] # None /\ servers[p] \in Server
                  /\ e.id \in DOMAIN said[p] /\ e.id \in Ids
                  /\ servers'[p] = Received(p, servers[p], e.id)
<1> DEFINE e == channel[p][1]
           s == servers[p]
<1>1. /\ channel[p] # <<>> /\ channel' = [channel EXCEPT ![p] = Tail(channel[p])]
      /\ servers' = [servers EXCEPT ![p] =
            IF e.kind = "open" THEN NewServer(e)
            ELSE IF e.kind = "closed" \/ s = None THEN None
            ELSE Received(p, s, e.id)]
      /\ UNCHANGED <<page, announcing, listener, sessions, serving, agentVars, answered>>
  <2>1. channel[p] \in Seq(Event) /\ channel[p] # <<>>
    BY DEF Deliver, TypeOK
  <2>2. Head(channel[p]) = e
    BY <2>1
  <2> QED
    BY <2>1, <2>2 DEF Deliver
<1>2. channel[p] \in Seq(Event) /\ Tail(channel[p]) \in Seq(Event)
      /\ 1 \in DOMAIN channel[p] /\ e \in Event
      /\ \A i \in DOMAIN Tail(channel[p]) : i + 1 \in DOMAIN channel[p]
                                            /\ Tail(channel[p])[i] = channel[p][i + 1]
  <2>1. channel[p] \in Seq(Event) /\ channel[p] # <<>>
    BY <1>1 DEF TypeOK
  <2>2. Len(channel[p]) \in Nat /\ Len(channel[p]) > 0
    BY <2>1, EmptySeq
  <2>3. 1 \in DOMAIN channel[p]
    BY <2>1, <2>2, LenProperties
  <2>4. e \in Event
    BY <2>1, <2>3, ElementOfSeq, LenProperties
  <2> QED
    BY <2>1, <2>3, <2>4, HeadTailProperties, OrderedTail DEF QueueInv
<1>3. IsMessage(e) => e.id \in Ids /\ e.id \in DOMAIN said[p]
  <2>1. IsMessage(e) => e.id \in Ids /\ e.id <= Out(p)
    BY <1>2, EventKinds DEF QueueInv
  <2> QED
    BY <2>1, SaidTypes DEF Ids
<1> DEFINE t == servers'[p]
<1>4. \/ IsOpen(e) /\ t = NewServer(e)
      \/ ~IsOpen(e) /\ t = None /\ (e.kind = "closed" \/ s = None)
      \/ /\ IsMessage(e) /\ s # None /\ s \in Server
         /\ t = Received(p, s, e.id)
  <2>1. e.kind \in {"open", "message", "closed"}
    BY <1>2, EventKinds
  <2>2. t = IF e.kind = "open" THEN NewServer(e)
            ELSE IF e.kind = "closed" \/ s = None THEN None
            ELSE Received(p, s, e.id)
    BY <1>1 DEF TypeOK
  <2>3. s # None => s \in Server
    BY DEF TypeOK
  <2> QED
    BY <2>1, <2>2, <2>3 DEF IsOpen, IsMessage
<1>5. t \in Server \cup {None}
  <2>1. IsOpen(e) => NewServer(e) \in Server
    BY <1>2, NewServerType
  <2>2. IsMessage(e) /\ s # None /\ s \in Server => Received(p, s, e.id) \in Server
    BY <1>3, ReceivedIs
  <2> QED
    BY <1>4, <2>1, <2>2
<1>6. servers' = [servers EXCEPT ![p] = t]
  BY <1>1 DEF TypeOK
<1>7. channel'[p] = Tail(channel[p])
  BY <1>1 DEF TypeOK
<1> HIDE DEF e
<1>8. TypeOK'
  <2>1. servers' \in [Pipes -> Server \cup {None}]
    BY <1>5, <1>6 DEF TypeOK
  <2>2. channel' \in [Pipes -> Seq(Event)]
    BY <1>1, <1>2 DEF TypeOK
  <2> QED
    BY <1>1, <2>1, <2>2 DEF TypeOK, agentVars
<1>9. \A q \in Pipes \ {p} : SameFor(q)
  BY <1>1 DEF SameFor, TypeOK, agentVars
<1>10. UNCHANGED <<page, listener, sessions, serving, args, said, pipe, answered>>
  BY <1>1 DEF agentVars
<1>11. StageInv(p)' /\ KeptInv(p)'
  <2>1. listener = page /\ pipe[p] # "off"
    BY <1>1 DEF PipeInv, StageInv
  <2> QED
    BY <1>10, <2>1 DEF PipeInv, StageInv, KeptInv, Serving, Said
<1>12. ReplayInv(p, channel[p])' /\ (sessions'[p] # None => ReplayInv(p, sessions[p].held)')
  <2>1. ReplayInv(p, channel[p]) /\ (sessions[p] # None => ReplayInv(p, sessions[p].held))
    BY DEF PipeInv
  <2>2. ReplayInv(p, Tail(channel[p]))
    BY <1>2, <2>1 DEF ReplayInv
  <2>3. \A h : ReplayInv(p, h) => \A i \in DOMAIN h : IsOpen(h[i]) => Said(p, h[i].replay)'
    BY <1>10 DEF ReplayInv, Said
  <2> QED
    BY <1>7, <1>10, <2>1, <2>2, <2>3 DEF ReplayInv
<1>13. ASSUME t # None PROVE ServerInv(p, t)
  <2>1. CASE IsOpen(e) /\ t = NewServer(e)
    <3>1. Said(p, e.replay)
      BY <1>2, <2>1 DEF PipeInv, ReplayInv, e
    <3> QED
      BY <1>2, <2>1, <3>1, NewServerType DEF ServerInv
  <2>2. CASE IsMessage(e) /\ s # None /\ s \in Server /\ t = Received(p, s, e.id)
    <3> DEFINE r == Req(e.id, FALSE)
    <3>1. r \in Request /\ r.id = e.id
      BY <1>3, <2>2, RequestType
    <3>2. ServerInv(p, s)
      BY <2>2 DEF PipeInv
    <3>3. Given(p, s, e.id, t)
      BY <1>3, <2>2, ReceivedIs
    <3>4. s.waiting \in Seq(Request)
      BY <2>2 DEF Server
    <3> HIDE DEF r, t
    <3>5. s.phase # "on" => \A i \in DOMAIN t.waiting : t.waiting[i].id \in DOMAIN said[p]
      <4>1. /\ DOMAIN Append(s.waiting, r) = 1..(Len(s.waiting) + 1)
            /\ DOMAIN s.waiting = 1..Len(s.waiting) /\ Len(s.waiting) \in Nat
            /\ \A i \in 1..Len(s.waiting) : Append(s.waiting, r)[i] = s.waiting[i]
            /\ Append(s.waiting, r)[Len(s.waiting) + 1] = r
        BY <3>1, <3>4, AppendProperties, LenProperties
      <4> QED
        <5>1. SUFFICES ASSUME s.phase # "on", NEW i \in DOMAIN t.waiting
                       PROVE  t.waiting[i].id \in DOMAIN said[p]
          OBVIOUS
        <5>2. t.waiting = Append(s.waiting, r)
          BY <3>3, <5>1 DEF Given, r
        <5>3. t.waiting[i] = r \/ (i \in DOMAIN s.waiting /\ t.waiting[i] = s.waiting[i])
          BY <4>1, <5>1, <5>2
        <5> QED
          BY <1>3, <2>2, <3>1, <3>2, <5>3 DEF ServerInv
    <3>6. CASE s.phase # "on"
      BY <3>2, <3>3, <3>5, <3>6 DEF ServerInv, Given
    <3>7. CASE s.phase = "on"
      BY <1>3, <2>2, <3>1, <3>2, <3>3, <3>7 DEF ServerInv, Given, r
    <3> QED
      BY <3>6, <3>7
  <2> QED
    BY <1>4, <1>13, <2>1, <2>2
<1>14. t # None => ServerInv(p, servers[p])'
  BY <1>10, <1>13 DEF ServerInv, Said
<1>15. PipeInv(p)' /\ Out(p)' = Out(p)
  BY <1>10, <1>11, <1>12, <1>14 DEF PipeInv, Out
<1> QED
  BY <1>1, <1>2, <1>3, <1>4, <1>7, <1>8, <1>9, <1>15 DEF e

\* What server s is once it was created.
Readied(p, s, t) ==
  /\ t.phase = "answering" /\ t.resumed = s.resumed /\ t.replay = s.replay
  /\ t.got = s.got /\ t.looking = s.looking /\ t.replying = s.replying
  /\ t.waiting = s.waiting \o Again(s.replay)
  /\ t.swallow = ToSet(s.replay) /\ t.film = args[p]

\* What waits then: what did before, and behind it the replay.
LEMMA AgainIs ==
  ASSUME NEW w \in Seq(Request), NEW s \in Seq(Ids)
  PROVE  /\ Again(s) \in Seq(Request) /\ w \o Again(s) \in Seq(Request)
         /\ DOMAIN (w \o Again(s)) = 1..(Len(w) + Len(s))
         /\ DOMAIN w = 1..Len(w) /\ DOMAIN s = 1..Len(s)
         /\ Len(w) \in Nat /\ Len(s) \in Nat
         /\ \A i \in 1..Len(w) : (w \o Again(s))[i] = w[i]
         /\ \A i \in 1..Len(s) : (w \o Again(s))[Len(w) + i] = Req(s[i], TRUE)
<1>1. DOMAIN s = 1..Len(s) /\ Len(s) \in Nat /\ \A i \in 1..Len(s) : s[i] \in Ids
  BY LenProperties, ElementOfSeq
<1> DEFINE a == Again(s)
<1>2. a \in [1..Len(s) -> Request] /\ \A i \in 1..Len(s) : a[i] = Req(s[i], TRUE)
  BY <1>1, RequestType DEF Again, Req
<1>3. a \in Seq(Request) /\ Len(a) = Len(s)
  <2> HIDE DEF a
  <2>1. a \in Seq(Request)
    BY <1>1, <1>2
  <2>2. DOMAIN a = 1..Len(s) /\ DOMAIN a = 1..Len(a) /\ Len(a) \in Nat
    BY <1>2, <2>1, LenProperties
  <2> QED
    BY <1>1, <2>1, <2>2
<1> HIDE DEF a
<1>4. /\ w \o a \in Seq(Request) /\ Len(w \o a) = Len(w) + Len(a)
      /\ \A i \in 1..(Len(w) + Len(a)) :
           (w \o a)[i] = IF i <= Len(w) THEN w[i] ELSE a[i - Len(w)]
      /\ Len(w) \in Nat /\ DOMAIN w = 1..Len(w)
      /\ DOMAIN (w \o a) = 1..(Len(w) + Len(a))
  <2>1. /\ w \o a \in Seq(Request) /\ Len(w \o a) = Len(w) + Len(a)
        /\ \A i \in 1..(Len(w) + Len(a)) :
             (w \o a)[i] = IF i <= Len(w) THEN w[i] ELSE a[i - Len(w)]
    BY <1>3, ConcatProperties
  <2>2. Len(w) \in Nat /\ DOMAIN w = 1..Len(w)
    BY LenProperties
  <2>3. DOMAIN (w \o a) = 1..(Len(w) + Len(a))
    <3> DEFINE r == w \o a
    <3>1. r \in Seq(Request) /\ Len(r) = Len(w) + Len(a)
      BY <2>1
    <3> HIDE DEF r
    <3>2. DOMAIN r = 1..Len(r)
      BY <3>1, LenProperties
    <3> QED
      BY <3>1, <3>2 DEF r
  <2> QED
    BY <2>1, <2>2, <2>3
<1>5. \A i \in 1..Len(w) : (w \o a)[i] = w[i]
  BY <1>1, <1>3, <1>4
<1>6. ASSUME NEW i \in 1..Len(s) PROVE (w \o a)[Len(w) + i] = Req(s[i], TRUE)
  <2>1. Len(w) + i \in 1..(Len(w) + Len(a)) /\ ~(Len(w) + i <= Len(w))
        /\ (Len(w) + i) - Len(w) = i
    BY <1>1, <1>3, <1>4
  <2>2. (w \o a)[Len(w) + i] = a[i]
    BY <1>4, <2>1
  <2> QED
    BY <1>2, <2>2
<1> QED
  BY <1>1, <1>3, <1>4, <1>5, <1>6 DEF a

\* What else is known of a server than its film and roots.
Besides(s, t) ==
  /\ t.phase = s.phase /\ t.resumed = s.resumed /\ t.replay = s.replay
  /\ t.waiting = s.waiting /\ t.swallow = s.swallow /\ t.got = s.got
  /\ t.looking = s.looking /\ t.replying = s.replying

LEMMA OpenProjectType ==
  ASSUME NEW s \in Server, NEW film \in Films, NEW root \in Roots \cup {None}
  PROVE  LET t == OpenProject(s, film, root) IN
         t \in Server /\ t.film = film /\ Besides(s, t)
<1> DEFINE roots == IF root = None THEN s.roots ELSE [s.roots EXCEPT ![film] = root]
           t == OpenProject(s, film, root)
<1>1. s.roots \in [Films -> Roots \cup {None}]
  BY DEF Server
<1>2. roots \in [Films -> Roots \cup {None}]
  BY <1>1
<1>3. t = [s EXCEPT !.film = film, !.roots = roots]
  BY DEF OpenProject
<1> HIDE DEF roots, t
<1>4. t \in Server /\ t.film = film
  BY <1>2, <1>3 DEF Server
<1>5. Besides(s, t)
  BY <1>3 DEF Server, Besides
<1> QED
  BY <1>4, <1>5 DEF t

LEMMA ReadyPipe ==
  ASSUME TypeOK, NEW p \in Pipes, PipeInv(p), Ready(p)
  PROVE  /\ TypeOK' /\ PipeInv(p)' /\ \A q \in Pipes \ {p} : SameFor(q)
         /\ UNCHANGED <<page, listener, channel, sessions, serving, agentVars, answered>>
         /\ servers[p] # None /\ servers[p] \in Server /\ servers[p].phase = "starting"
         /\ servers'[p] # None /\ Readied(p, servers[p], servers'[p])
         /\ Out(p)' = Out(p)
<1> DEFINE s == servers[p]
           u == Replayed(s)
           opened(root) == IF args[p] = None THEN u ELSE OpenProject(u, args[p], root)
<1>0. PICK root \in Roots \cup {None} : servers' = [servers EXCEPT ![p] = opened(root)]
  BY DEF Ready
<1> DEFINE t == opened(root)
<1>1. /\ s # None /\ s.phase = "starting"
      /\ servers' = [servers EXCEPT ![p] = t]
      /\ UNCHANGED <<page, announcing, listener, channel, sessions, serving, agentVars, answered>>
  BY <1>0 DEF Ready
<1>2. s \in Server /\ args[p] \in Films \cup {None}
  BY <1>1 DEF TypeOK
<1>3. s.waiting \in Seq(Request) /\ s.replay \in Seq(Ids)
  BY <1>2 DEF Server, IdSeqs
<1>4. s.waiting \o Again(s.replay) \in Seq(Request) /\ ToSet(s.replay) \subseteq Ids
  <2> DEFINE w == s.waiting
             x == s.replay
  <2>1. w \in Seq(Request) /\ x \in Seq(Ids)
    BY <1>3
  <2> HIDE DEF w, x
  <2>2. w \o Again(x) \in Seq(Request)
    BY <2>1, AgainIs
  <2>3. \A i \in DOMAIN x : x[i] \in Ids
    BY <2>1, LenProperties, ElementOfSeq
  <2>4. ToSet(x) \subseteq Ids
    BY <2>3 DEF ToSet
  <2> QED
    BY <2>2, <2>4 DEF w, x
<1> HIDE DEF s
<1>16. /\ u \in Server /\ u.film = s.film
       /\ u.phase = "answering" /\ u.resumed = s.resumed /\ u.replay = s.replay
       /\ u.got = s.got /\ u.looking = s.looking /\ u.replying = s.replying
       /\ u.waiting = s.waiting \o Again(s.replay) /\ u.swallow = ToSet(s.replay)
  BY <1>2, <1>4 DEF Server, Replayed
<1>17. s.film = None
  BY <1>1 DEF PipeInv, ServerInv, s
<1> HIDE DEF u
<1>18. t \in Server /\ t.film = args[p] /\ Besides(u, t)
  <2>1. CASE args[p] = None
    BY <1>16, <1>17, <2>1 DEF Besides
  <2>2. CASE args[p] # None
    BY <1>2, <1>16, <2>2, OpenProjectType
  <2> QED
    BY <2>1, <2>2
<1> HIDE DEF opened
<1>5. t \in Server /\ Readied(p, s, t)
  BY <1>16, <1>18 DEF Besides, Readied
<1>6. t # None
  BY <1>5, NoneAssumption
<1> HIDE DEF t
<1>7. servers'[p] = t
  BY <1>1 DEF TypeOK
<1>8. TypeOK'
  BY <1>1, <1>5 DEF TypeOK, agentVars
<1>9. \A q \in Pipes \ {p} : SameFor(q)
  BY <1>1 DEF SameFor, TypeOK, agentVars
<1>10. UNCHANGED <<page, listener, channel, sessions, serving, args, said, pipe, answered>>
  BY <1>1 DEF agentVars
<1>11. StageInv(p)' /\ KeptInv(p)' /\ ReplayInv(p, channel[p])'
  BY <1>1, <1>10 DEF PipeInv, StageInv, KeptInv, ReplayInv, Serving, Said, s
<1>12. sessions'[p] # None => ReplayInv(p, sessions[p].held)'
  BY <1>10 DEF PipeInv, ReplayInv, Said
<1>13. ServerInv(p, t)
  <2>1. ServerInv(p, s)
    BY <1>1 DEF PipeInv, s
  <2>2. \A i \in DOMAIN t.waiting : t.waiting[i].id \in DOMAIN said[p]
    <3>1. SUFFICES ASSUME NEW i \in DOMAIN t.waiting
                   PROVE  t.waiting[i].id \in DOMAIN said[p]
      OBVIOUS
    <3> DEFINE w == s.waiting
               x == s.replay
    <3>2. t.waiting = w \o Again(x)
      BY <1>5 DEF Readied
    <3>5. w \in Seq(Request) /\ x \in Seq(Ids)
      BY <1>3
    <3>6. Said(p, x) /\ \A j \in DOMAIN w : w[j].id \in DOMAIN said[p]
      BY <2>1 DEF ServerInv
    <3> HIDE DEF w, x
    <3> DEFINE v == w \o Again(x)
    <3>7. /\ DOMAIN v = 1..(Len(w) + Len(x)) /\ DOMAIN w = 1..Len(w)
          /\ Len(w) \in Nat /\ Len(x) \in Nat
          /\ \A j \in 1..Len(w) : v[j] = w[j]
          /\ \A j \in 1..Len(x) : v[Len(w) + j] = Req(x[j], TRUE)
      BY <3>5, AgainIs
    <3>8. t.waiting = v
      BY <3>2
    <3> HIDE DEF v
    <3>3. CASE i \in DOMAIN w
      <4>1. t.waiting[i] = w[i]
        BY <3>3, <3>7, <3>8
      <4> QED
        BY <3>3, <3>6, <4>1
    <3>4. CASE i \notin DOMAIN w
      <4> DEFINE k == i - Len(w)
      <4>1. k \in 1..Len(x) /\ i = Len(w) + k
        BY <3>1, <3>4, <3>7, <3>8
      <4> HIDE DEF k
      <4>2. t.waiting[i] = Req(x[k], TRUE)
        BY <3>7, <3>8, <4>1
      <4>3. x[k] \in DOMAIN said[p]
        BY <3>5, <3>6, <4>1, LenProperties DEF Said
      <4> QED
        BY <4>2, <4>3 DEF Req
    <3> QED
      BY <3>3, <3>4
  <2> QED
    BY <1>1, <1>5, <2>1, <2>2 DEF ServerInv, Readied
<1>14. ServerInv(p, servers[p])'
  BY <1>7, <1>10, <1>13 DEF ServerInv, Said
<1>15. PipeInv(p)' /\ Out(p)' = Out(p)
  BY <1>10, <1>11, <1>12, <1>14 DEF PipeInv, Out
<1> QED
  BY <1>1, <1>2, <1>5, <1>6, <1>7, <1>8, <1>9, <1>15 DEF s

LEMMA CreateFailsPipe ==
  ASSUME TypeOK, NEW p \in Pipes, PipeInv(p), CreateFails(p)
  PROVE  /\ TypeOK' /\ PipeInv(p)' /\ \A q \in Pipes \ {p} : SameFor(q)
         /\ UNCHANGED <<page, listener, channel, serving, args, said, answered>>
         /\ servers[p] # None /\ servers'[p] = None /\ sessions'[p] = None
         /\ Out(p)' = Out(p)
<1>1. /\ servers[p] # None
      /\ servers' = [servers EXCEPT ![p] = None]
      /\ sessions' = [sessions EXCEPT ![p] = None]
      /\ pipe' = IF pipe[p] \in {"hello", "open"} /\ sessions[p] # None
                 THEN [pipe EXCEPT ![p] = "failed"] ELSE pipe
      /\ UNCHANGED <<page, announcing, listener, channel, serving, args, said,
                     answered, asked>>
  BY DEF CreateFails
<1>2. servers'[p] = None /\ sessions'[p] = None
  BY <1>1 DEF TypeOK
<1>3. pipe[p] \notin {"off"}
  BY <1>1 DEF PipeInv, StageInv
<1>4. pipe'[p] \notin {"off", "hello", "open"}
  <2>1. CASE pipe[p] \in {"hello", "open"}
    <3>1. pipe' = [pipe EXCEPT ![p] = "failed"]
      BY <1>1, <2>1 DEF PipeInv, StageInv
    <3> QED
      BY <3>1 DEF TypeOK
  <2>2. CASE pipe[p] \notin {"hello", "open"}
    BY <1>1, <1>3, <2>2
  <2> QED
    BY <2>1, <2>2
<1>5. pipe' \in [Pipes -> {"off", "hello", "open", "failed", "ended"}]
  BY <1>1 DEF TypeOK
<1>6. TypeOK'
  BY <1>1, <1>5 DEF TypeOK
<1>7. \A q \in Pipes \ {p} : SameFor(q)
  BY <1>1 DEF SameFor, TypeOK
<1>8. PipeInv(p)' /\ Out(p)' = Out(p)
  BY <1>1, <1>2, <1>4 DEF PipeInv, StageInv, KeptInv, ReplayInv, Serving, Said, Out
<1> QED
  BY <1>1, <1>2, <1>6, <1>7, <1>8

\* What server s is once it is connected.
Connects(p, s, t) ==
  \E u \in Server : /\ u = [s EXCEPT !.phase = "on", !.waiting = <<>>]
                    /\ Handles(p, u, s.waiting, t)

LEMMA ConnectServerPipe ==
  ASSUME TypeOK, NEW p \in Pipes, PipeInv(p), ConnectServer(p)
  PROVE  /\ TypeOK' /\ PipeInv(p)' /\ \A q \in Pipes \ {p} : SameFor(q)
         /\ UNCHANGED <<page, listener, channel, sessions, serving, args, said, answered>>
         /\ servers[p] # None /\ servers[p] \in Server /\ servers[p].phase = "answering"
         /\ servers'[p] # None /\ Connects(p, servers[p], servers'[p])
         /\ Out(p)' = Out(p)
<1> DEFINE s == servers[p]
           u == [s EXCEPT !.phase = "on", !.waiting = <<>>]
           t == AllHandled(p, u, s.waiting)
<1>1. /\ s # None /\ s.phase = "answering"
      /\ servers' = [servers EXCEPT ![p] = t]
      /\ pipe' = IF TellsOk(s) /\ pipe[p] = "hello" /\ sessions[p] # None
                 THEN [pipe EXCEPT ![p] = "open"] ELSE pipe
      /\ UNCHANGED <<page, announcing, listener, channel, sessions, serving, args,
                     said, answered, asked>>
  BY DEF ConnectServer
<1>2. s \in Server /\ s.waiting \in Seq(Request) /\ ServerInv(p, s)
  BY <1>1 DEF TypeOK, PipeInv, Server
<1> HIDE DEF s
<1>3. u \in Server
  <2>1. <<>> \in Seq(Request)
    OBVIOUS
  <2> QED
    BY <1>2, <2>1 DEF Server
<1>4. /\ u.phase = "on" /\ u.waiting = <<>> /\ u.replay = s.replay /\ u.swallow = s.swallow
      /\ u.looking = s.looking /\ u.replying = s.replying
  <2>1. u.phase = "on" /\ u.waiting = <<>>
    BY <1>2 DEF Server
  <2>2. u.replay = s.replay /\ u.swallow = s.swallow
    BY <1>2 DEF Server
  <2>3. u.looking = s.looking /\ u.replying = s.replying
    BY <1>2 DEF Server
  <2> QED
    BY <2>1, <2>2, <2>3
<1>5. \A i \in DOMAIN s.waiting : s.waiting[i].id \in DOMAIN said[p]
  BY <1>2 DEF ServerInv
<1> HIDE DEF u
<1>6. t \in Server /\ Handles(p, u, s.waiting, t)
  BY <1>2, <1>3, <1>5, HandledType
<1> HIDE DEF t
<1>7. t # None /\ Connects(p, s, t)
  BY <1>3, <1>6, NoneAssumption DEF Connects, u
<1>8. servers'[p] = t
  BY <1>1 DEF TypeOK
<1>9. TypeOK'
  <2>1. pipe' \in [Pipes -> {"off", "hello", "open", "failed", "ended"}]
    BY <1>1 DEF TypeOK
  <2> QED
    BY <1>1, <1>6, <2>1 DEF TypeOK
<1>10. pipe'[p] = pipe[p] \/ (pipe'[p] = "open" /\ pipe[p] = "hello")
  BY <1>1 DEF TypeOK
<1>11. StageInv(p)'
  BY <1>1, <1>10 DEF PipeInv, StageInv, Serving, s
<1>12. KeptInv(p)' /\ ReplayInv(p, channel[p])' /\ Out(p)' = Out(p)
  BY <1>1 DEF PipeInv, KeptInv, ReplayInv, Said, Out
<1>13. sessions'[p] # None => ReplayInv(p, sessions[p].held)'
  BY <1>1 DEF PipeInv, ReplayInv, Said
<1>14. ServerInv(p, t)
  <2>1. /\ t.phase = "on" /\ t.replay = s.replay /\ t.waiting = <<>>
    BY <1>4, <1>6 DEF Handles
  <2>2. \A r \in t.looking : r.id \in DOMAIN said[p] /\ LooksUp(said[p][r.id])
    BY <1>2, <1>4, <1>5, <1>6 DEF Handles, ServerInv
  <2>3. \A r \in t.replying : r.id \in DOMAIN said[p]
    BY <1>2, <1>4, <1>5, <1>6 DEF Handles, ServerInv
  <2> QED
    BY <1>2, <2>1, <2>2, <2>3 DEF ServerInv
<1>15. ServerInv(p, servers[p])'
  BY <1>1, <1>8, <1>14 DEF ServerInv, Said
<1>16. \A q \in Pipes \ {p} : SameFor(q)
  BY <1>1 DEF SameFor, TypeOK
<1> QED
  BY <1>1, <1>2, <1>7, <1>8, <1>9, <1>11, <1>12, <1>13, <1>15, <1>16 DEF PipeInv, s

\* What server s is once it has the film of request r.
Looked(p, s, r, t) ==
  /\ t.phase = s.phase /\ t.resumed = s.resumed /\ t.replay = s.replay
  /\ t.waiting = s.waiting /\ t.swallow = s.swallow /\ t.got = s.got
  /\ t.looking = s.looking \ {r} /\ t.replying = s.replying \cup {r}
  /\ t.film = said[p][r.id].film

LEMMA LookedUpPipe ==
  ASSUME TypeOK, NEW p \in Pipes, PipeInv(p), NEW r \in Request, LookedUp(p, r)
  PROVE  /\ TypeOK' /\ PipeInv(p)' /\ \A q \in Pipes \ {p} : SameFor(q)
         /\ UNCHANGED <<page, listener, channel, sessions, serving, agentVars, answered>>
         /\ servers[p] # None /\ servers[p] \in Server /\ r \in servers[p].looking
         /\ servers'[p] # None /\ Looked(p, servers[p], r, servers'[p])
         /\ Out(p)' = Out(p)
<1> DEFINE s == servers[p]
           u == Replies(s, r)
<1>0. PICK root \in Roots \cup {None} :
        servers' = [servers EXCEPT ![p] = OpenProject(Replies(@, r), said[p][r.id].film, root)]
  BY Zenon DEF LookedUp
<1> DEFINE t == OpenProject(u, said[p][r.id].film, root)
<1>1. /\ s # None /\ r \in s.looking
      /\ UNCHANGED <<page, announcing, listener, channel, sessions, serving, agentVars, answered>>
  BY DEF LookedUp
<1>2. s \in Server /\ ServerInv(p, s)
  BY <1>1 DEF TypeOK, PipeInv
<1>3. servers' = [servers EXCEPT ![p] = t]
  BY Zenon, <1>0
<1> HIDE DEF s
<1>4. r.id \in DOMAIN said[p] /\ LooksUp(said[p][r.id])
  BY <1>1, <1>2 DEF ServerInv
<1>5. said[p][r.id] \in Line
  BY <1>4, LenProperties, ElementOfSeq DEF TypeOK
<1>6. said[p][r.id].film \in Films
  BY <1>4, <1>5 DEF LooksUp, Line
<1>17. /\ u \in Server
       /\ u.phase = s.phase /\ u.resumed = s.resumed /\ u.replay = s.replay
       /\ u.waiting = s.waiting /\ u.swallow = s.swallow /\ u.got = s.got
       /\ u.looking = s.looking \ {r} /\ u.replying = s.replying \cup {r}
  BY <1>2 DEF Server, Replies
<1> HIDE DEF u
<1>7. t \in Server /\ t.film = said[p][r.id].film /\ Besides(u, t)
  BY <1>6, <1>17, OpenProjectType
<1> HIDE DEF t
<1>8. Looked(p, s, r, t)
  BY <1>7, <1>17 DEF Besides, Looked
<1>9. t # None /\ servers'[p] = t
  BY <1>3, <1>7, NoneAssumption DEF TypeOK
<1>10. TypeOK'
  BY <1>1, <1>3, <1>7 DEF TypeOK, agentVars
<1>11. \A q \in Pipes \ {p} : SameFor(q)
  BY <1>1, <1>3 DEF SameFor, TypeOK, agentVars
<1>12. UNCHANGED <<page, listener, channel, sessions, serving, args, said, pipe, answered>>
  BY <1>1 DEF agentVars
<1>13. StageInv(p)' /\ KeptInv(p)' /\ ReplayInv(p, channel[p])' /\ Out(p)' = Out(p)
  BY <1>1, <1>12 DEF PipeInv, StageInv, KeptInv, ReplayInv, Serving, Said, s, Out
<1>14. sessions'[p] # None => ReplayInv(p, sessions[p].held)'
  BY <1>12 DEF PipeInv, ReplayInv, Said
<1>15. ServerInv(p, t)
  <2>1. s.phase = "on"
    BY <1>1, <1>2 DEF ServerInv
  <2> QED
    BY <1>2, <1>4, <1>8, <2>1 DEF ServerInv, Looked
<1>16. ServerInv(p, servers[p])'
  BY <1>9, <1>12, <1>15 DEF ServerInv, Said
<1> QED
  BY <1>1, <1>2, <1>9, <1>10, <1>11, <1>13, <1>8, <1>14, <1>16 DEF PipeInv, s

\* An answer that goes out to the agent.
GoesOut(p, r) ==
  ~(Swallows(servers[p], r.id) \/ sessions[p] = None \/ pipe[p] # "open")

LEMMA AnswerPipe ==
  ASSUME TypeOK, NEW p \in Pipes, PipeInv(p), NEW r \in Request, Answer(p, r)
  PROVE  /\ TypeOK' /\ PipeInv(p)' /\ \A q \in Pipes \ {p} : SameFor(q)
         /\ UNCHANGED <<page, listener, channel, sessions, serving, args, said, pipe>>
         /\ servers[p] # None /\ servers[p] \in Server /\ r \in servers[p].replying
         /\ servers'[p] # None
         /\ servers'[p] = [servers[p] EXCEPT !.replying = @ \ {r}, !.swallow = @ \ {r.id}]
         /\ GoesOut(p, r) =>
              /\ answered'[p][r.id] = answered[p][r.id] + 1
              /\ \A i \in Ids : i # r.id => answered'[p][i] = answered[p][i]
         /\ ~GoesOut(p, r) => answered' = answered
         /\ Out(p)' = Out(p)
<1> DEFINE s == servers[p]
           t == [s EXCEPT !.replying = @ \ {r}, !.swallow = @ \ {r.id}]
<1>1. /\ s # None /\ r \in s.replying
      /\ UNCHANGED <<page, announcing, listener, channel, sessions, serving, args,
                     said, pipe, asked>>
      /\ IF GoesOut(p, r)
         THEN answered' = [answered EXCEPT ![p][r.id] = @ + 1]
         ELSE UNCHANGED answered
  BY DEF Answer, GoesOut
<1>2. s \in Server /\ ServerInv(p, s)
  BY <1>1 DEF TypeOK, PipeInv
<1>3. servers' = [servers EXCEPT ![p] = t]
  BY DEF Answer, TypeOK
<1> HIDE DEF s
<1>4. r.id \in Ids
  BY DEF Request, Ids
<1>5. t \in Server
  BY <1>2 DEF Server
<1>6. /\ t.phase = s.phase /\ t.replay = s.replay /\ t.waiting = s.waiting
      /\ t.swallow = s.swallow \ {r.id}
      /\ t.looking = s.looking /\ t.replying = s.replying \ {r} /\ t.film = s.film
  BY <1>2 DEF Server
<1> HIDE DEF t
<1>7. t # None /\ servers'[p] = t
  BY <1>3, <1>5, NoneAssumption DEF TypeOK
<1>8. answered' \in [Pipes -> [Ids -> Nat]]
  <2>1. CASE GoesOut(p, r)
    <3>1. answered' = [answered EXCEPT ![p][r.id] = @ + 1]
      BY <1>1, <2>1
    <3>2. answered[p][r.id] + 1 \in Nat /\ answered \in [Pipes -> [Ids -> Nat]]
      BY <1>4 DEF TypeOK
    <3> QED
      BY <3>1, <3>2, <1>4
  <2>2. CASE ~GoesOut(p, r)
    BY <1>1, <2>2 DEF TypeOK
  <2> QED
    BY <2>1, <2>2
<1>9. TypeOK'
  BY <1>1, <1>3, <1>5, <1>8 DEF TypeOK
<1>10. \A q \in Pipes \ {p} : SameFor(q)
  BY <1>1, <1>3 DEF SameFor, TypeOK
<1>11. IF GoesOut(p, r)
       THEN /\ answered'[p][r.id] = answered[p][r.id] + 1
            /\ \A i \in Ids : i # r.id => answered'[p][i] = answered[p][i]
       ELSE UNCHANGED answered
  BY <1>1, <1>4 DEF TypeOK
<1>12. pipe[p] # "off"
  BY <1>1 DEF PipeInv, StageInv, s
<1>13. StageInv(p)' /\ KeptInv(p)' /\ ReplayInv(p, channel[p])' /\ Out(p)' = Out(p)
  BY <1>1, <1>12 DEF PipeInv, StageInv, KeptInv, ReplayInv, Serving, Said, Out, s
<1>14. sessions'[p] # None => ReplayInv(p, sessions[p].held)'
  BY <1>1 DEF PipeInv, ReplayInv, Said
<1>15. ServerInv(p, t)
  <2>1. s.phase = "on"
    BY <1>1, <1>2 DEF ServerInv
  <2> QED
    BY <1>2, <1>6, <2>1 DEF ServerInv
<1>16. ServerInv(p, servers[p])'
  BY <1>1, <1>7, <1>15 DEF ServerInv, Said
<1> QED
  BY <1>1, <1>2, <1>7, <1>9, <1>10, <1>11, <1>13, <1>14, <1>16 DEF PipeInv, s, t

-----------------------------------------------------------------------------
(* The order of what the page hears, step by step.                         *)

LEMMA ConnectOrder ==
  ASSUME TypeOK, TypeOK', NEW p \in Pipes, PipeInv(p), PipeInv(p)', Connect(p)
  PROVE  OrderInv(p)'
<1> DEFINE e == OpenEvent(FALSE, None)
<1>1. e \in Event /\ IsOpen(e) /\ ~e.resumed
  BY OpenType
<1>2. /\ channel'[p] = <<>> /\ servers'[p] = None /\ said'[p] = <<>>
      /\ sessions'[p].announced = FALSE /\ sessions'[p].held = <<e>>
      /\ serving'[p] = "added"
  BY DEF Connect, PipeInv, StageInv, TypeOK
<1> HIDE DEF e
<1>3. Out(p)' = 0
  <2>1. Len(said'[p]) = 0
    BY <1>2
  <2> QED
    BY <1>2, <2>1 DEF Out
<1>4. /\ <<e>> \in Seq(Event) /\ <<e>> # <<>> /\ Ordered(<<e>>) /\ UpTo(<<e>>, 0)
      /\ \A i \in DOMAIN <<e>> : ~IsMessage(<<e>>[i]) /\ <<e>>[i] = e
  BY <1>1, OneOpen
<1>5. IsOpen(<<e>>[1])
  BY <1>1
<1>6. SessionInv(p)'
  BY <1>2, <1>3, <1>4, <1>5 DEF SessionInv
<1>7. QueueInv(p)'
  BY <1>2 DEF QueueInv, Ordered
<1> QED
  BY <1>6, <1>7 DEF OrderInv

LEMMA SayOrder ==
  ASSUME TypeOK, NEW p \in Pipes, PipeInv(p), OrderInv(p), NEW l \in Line, Say(p, l)
  PROVE  OrderInv(p)'
<1>1. Out(p)' = Out(p)
  BY SayPipe
<1>2. /\ UNCHANGED <<page, listener, channel, servers>>
      /\ serving[p] = "reading" /\ serving'[p] = "emitting"
  BY DEF Say, MaySay, TypeOK
<1>3. Len(said[p]) + 1 \in Ids
  BY SaidTypes, RelayAssumption DEF Say, MaySay, Ids
<1>4. sessions'[p] # None =>
        /\ sessions[p] # None /\ sessions'[p].announced = sessions[p].announced
        /\ sessions'[p].held = sessions[p].held
  <2>1. CASE sessions[p] = None
    BY <2>1 DEF Say
  <2>2. CASE sessions[p] # None
    <3>1. sessions[p] \in Session
      BY <2>2 DEF TypeOK
    <3>2. sessions'[p] = Kept(sessions[p], Len(said[p]) + 1, l)
      BY <2>2 DEF Say, TypeOK
    <3> QED
      BY <1>3, <2>2, <3>1, <3>2, SayKept
  <2> QED
    BY <2>1, <2>2
<1>5. sessions[p] = None => sessions'[p] = None
  BY DEF Say
<1> QED
  BY <1>1, <1>2, <1>4, <1>5 DEF OrderInv, QueueInv, SessionInv

LEMMA EmitOrder ==
  ASSUME TypeOK, NEW p \in Pipes, PipeInv(p), OrderInv(p), Emit(p)
  PROVE  OrderInv(p)'
<1> DEFINE e == [kind |-> "message", id |-> Len(said[p])]
           q == channel[p]
           n == Out(p)
<1>1. /\ UNCHANGED <<page, listener, servers>>
      /\ Out(p)' = n + 1 /\ Len(said[p]) = n + 1 /\ n + 1 \in Ids
      /\ serving'[p] = "reading" /\ serving[p] = "emitting"
      /\ \/ sessions[p] = None /\ sessions' = sessions /\ channel' = channel
         \/ /\ sessions[p] # None /\ EmitNow(p) /\ sessions' = sessions
            /\ \/ listener = page /\ channel'[p] = Append(q, e)
               \/ listener # page /\ channel' = channel
         \/ /\ sessions[p] # None /\ ~EmitNow(p) /\ channel' = channel
            /\ sessions'[p] = [sessions[p] EXCEPT !.held = Append(@, e)]
  <2>1. Len(said[p]) \in Nat /\ n \in Nat
    BY SaidTypes
  <2>2. serving[p] = "emitting"
    BY DEF Emit
  <2> QED
    BY <2>1, <2>2, EmittedPipe
<1>2. n \in Nat /\ e = [kind |-> "message", id |-> n + 1]
      /\ e \in Event /\ IsMessage(e) /\ ~IsOpen(e) /\ e.id = n + 1
  BY <1>1, SaidTypes, MessageType
<1>3. q \in Seq(Event)
  BY DEF TypeOK
<1>4. \A i \in DOMAIN q : IsMessage(q[i]) => q[i].id <= n /\ q[i].id \in Ids
  BY <1>3, LenProperties, ElementOfSeq, EventKinds DEF OrderInv, QueueInv
<1> HIDE DEF e, n
<1>5. CASE /\ channel'[p] = q
           /\ sessions'[p] = None <=> sessions[p] = None
           /\ sessions[p] # None => listener # page /\ sessions'[p].announced
  <2>1. \A i \in DOMAIN q : IsMessage(q[i]) => q[i].id <= n + 1
    BY <1>2, <1>4 DEF Ids
  <2>2. QueueInv(p)'
    BY <1>1, <1>5, <2>1 DEF OrderInv, QueueInv
  <2> QED
    BY <1>1, <1>5, <2>2 DEF OrderInv, SessionInv
<1>6. CASE sessions[p] # None /\ sessions[p].announced /\ listener = page
           /\ sessions' = sessions /\ channel'[p] = Append(q, e)
  <2>1. Ordered(q) /\ UpTo(q, n)
        /\ (q = <<>> => servers[p] # None /\ NextIs(servers[p], n + 1))
    BY <1>6 DEF OrderInv, QueueInv, SessionInv, n
  <2> DEFINE qq == Append(q, e)
  <2>2. Ordered(qq) /\ UpTo(qq, n + 1)
    BY <1>1, <1>2, <1>3, <2>1, MessageAppended
  <2>3. /\ DOMAIN qq = 1..(Len(q) + 1) /\ DOMAIN q = 1..Len(q) /\ Len(q) \in Nat
        /\ \A i \in 1..Len(q) : qq[i] = q[i]
        /\ qq[Len(q) + 1] = e /\ qq # <<>>
    BY <1>2, <1>3, AppendProperties, LenProperties
  <2> HIDE DEF qq
  <2>4. \A i \in DOMAIN qq : IsMessage(qq[i]) => qq[i].id <= n + 1
    <3>1. SUFFICES ASSUME NEW i \in DOMAIN qq, IsMessage(qq[i]) PROVE qq[i].id <= n + 1
      OBVIOUS
    <3>2. CASE i \in DOMAIN q
      BY <1>2, <1>4, <2>3, <3>1, <3>2 DEF Ids
    <3>3. CASE i \notin DOMAIN q
      <4>1. qq[i] = e
        BY <2>3, <3>1, <3>3
      <4> QED
        BY <1>2, <4>1
    <3> QED
      BY <3>2, <3>3
  <2>5. \A i \in DOMAIN qq : qq[i].kind # "closed"
    BY <2>2 DEF UpTo
  <2>6. /\ IsOpen(qq[1]) => servers[p] = None
        /\ IsMessage(qq[1]) => servers[p] # None /\ NextIs(servers[p], qq[1].id)
    <3>1. CASE q = <<>>
      <4>1. qq[1] = e
        BY <2>3, <3>1
      <4> QED
        BY <1>2, <2>1, <3>1, <4>1
    <3>2. CASE q # <<>>
      <4>1. qq[1] = q[1]
        BY <1>3, <2>3, <3>2, EmptySeq
      <4> QED
        BY <1>6, <3>2, <4>1 DEF OrderInv, QueueInv
    <3> QED
      BY <3>1, <3>2
  <2>7. channel'[p] = qq
    BY <1>6 DEF qq
  <2>8. QueueInv(p)'
    BY <1>1, <1>6, <2>2, <2>4, <2>5, <2>6, <2>7 DEF QueueInv
  <2>9. SessionInv(p)'
    BY <1>1, <1>6, <2>2, <2>3, <2>7 DEF SessionInv
  <2> QED
    BY <2>8, <2>9 DEF OrderInv
<1>7. CASE sessions[p] # None /\ ~sessions[p].announced /\ channel' = channel
           /\ sessions'[p] = [sessions[p] EXCEPT !.held = Append(@, e)]
  <2> DEFINE h == sessions[p].held
             hh == Append(h, e)
  <2>1. sessions[p] \in Session /\ h \in Seq(Event)
    BY <1>7 DEF TypeOK, Session
  <2>2. /\ channel[p] = <<>> /\ servers[p] = None
        /\ h # <<>> /\ IsOpen(h[1]) /\ Ordered(h) /\ UpTo(h, n)
        /\ \A i \in DOMAIN h : IsMessage(h[i]) => h[i].id <= n
    BY <1>7 DEF OrderInv, SessionInv, n
  <2>3. \A i \in DOMAIN h : IsMessage(h[i]) => h[i].id \in Ids
    BY <2>1, LenProperties, ElementOfSeq, EventKinds
  <2>4. sessions'[p].announced = sessions[p].announced /\ sessions'[p].held = hh
    BY <1>7, <2>1 DEF Session
  <2> HIDE DEF h
  <2>5. Ordered(hh) /\ UpTo(hh, n + 1)
    BY <1>1, <1>2, <2>1, <2>2, MessageAppended
  <2>6. /\ DOMAIN hh = 1..(Len(h) + 1) /\ DOMAIN h = 1..Len(h) /\ Len(h) \in Nat
        /\ \A i \in 1..Len(h) : hh[i] = h[i]
        /\ hh[Len(h) + 1] = e /\ hh # <<>> /\ Len(h) > 0
    BY <1>2, <2>1, <2>2, AppendProperties, LenProperties, EmptySeq
  <2> HIDE DEF hh
  <2>7. \A i \in DOMAIN hh : IsMessage(hh[i]) => hh[i].id <= n + 1
    <3>1. SUFFICES ASSUME NEW i \in DOMAIN hh, IsMessage(hh[i]) PROVE hh[i].id <= n + 1
      OBVIOUS
    <3>2. CASE i \in DOMAIN h
      BY <1>2, <2>2, <2>3, <2>6, <3>1, <3>2 DEF Ids
    <3>3. CASE i \notin DOMAIN h
      <4>1. hh[i] = e
        BY <2>6, <3>1, <3>3
      <4> QED
        BY <1>2, <4>1
    <3> QED
      BY <3>2, <3>3
  <2>8. IsOpen(hh[1])
    BY <2>2, <2>6
  <2>9. SessionInv(p)'
    BY <1>1, <1>7, <2>2, <2>4, <2>5, <2>6, <2>7, <2>8 DEF SessionInv
  <2>10. QueueInv(p)'
    BY <1>7, <2>2 DEF QueueInv, Ordered
  <2> QED
    BY <2>9, <2>10 DEF OrderInv
<1>8. page # 0
  BY DEF TypeOK
<1>9. CASE sessions[p] # None /\ ~EmitNow(p) /\ channel' = channel
           /\ sessions'[p] = [sessions[p] EXCEPT !.held = Append(@, e)]
  <2>1. CASE ~sessions[p].announced
    BY <1>7, <1>9, <2>1
  <2>2. CASE sessions[p].announced
    <3>1. listener = 0
      BY <1>9, <2>2 DEF EmitNow
    <3>3. sessions[p] \in Session /\ Append(sessions[p].held, e) \in Seq(Event)
      BY <1>2, <1>9 DEF TypeOK, Session
    <3>2. sessions'[p] \in Session /\ sessions'[p] # None
      BY <1>9, <3>3, NoneAssumption DEF Session
    <3>4. sessions'[p].announced = sessions[p].announced
      BY <1>9, <3>3 DEF Session
    <3> QED
      BY <1>5, <1>8, <1>9, <2>2, <3>1, <3>2, <3>4
  <2> QED
    BY <2>1, <2>2
<1> QED
  BY <1>1, <1>5, <1>6, <1>9 DEF EmitNow

LEMMA HangupOrder ==
  ASSUME TypeOK, NEW p \in Pipes, OrderInv(p), Hangup(p)
  PROVE  OrderInv(p)'
BY DEF Hangup, OrderInv, QueueInv, SessionInv, Out

LEMMA ForgetOrder ==
  ASSUME TypeOK, NEW p \in Pipes, PipeInv(p), OrderInv(p), Forget(p)
  PROVE  OrderInv(p)' /\ Out(p)' = Out(p)
<1>1. /\ sessions'[p] = None /\ serving[p] = "reading" /\ serving'[p] \in {"over", "gone"}
      /\ UNCHANGED <<page, listener, channel, said, servers>>
  BY ForgetPipe
<1>2. Out(p)' = Out(p)
  BY <1>1 DEF Out
<1> QED
  BY <1>1, <1>2 DEF OrderInv, QueueInv, SessionInv

LEMMA TellClosedOrder ==
  ASSUME TypeOK, NEW p \in Pipes, PipeInv(p), OrderInv(p), TellClosed(p)
  PROVE  OrderInv(p)' /\ Out(p)' = Out(p)
<1> DEFINE e == [kind |-> "closed"]
           q == channel[p]
           qq == Append(q, e)
<1>1. /\ sessions[p] = None /\ sessions'[p] = None
      /\ serving[p] = "over" /\ serving'[p] = "gone"
      /\ channel'[p] = qq \/ channel'[p] = q
      /\ UNCHANGED <<page, listener, said, servers>>
  BY TellClosedPipe
<1>2. Out(p)' = Out(p)
  BY <1>1 DEF Out
<1>3. CASE channel'[p] = q
  BY <1>1, <1>2, <1>3 DEF OrderInv, QueueInv, SessionInv
<1>4. CASE channel'[p] = qq
  <2>1. e \in Event /\ ~IsOpen(e) /\ ~IsMessage(e) /\ q \in Seq(Event)
    BY ClosedType DEF TypeOK
  <2>2. Ordered(qq)
    BY <1>1, <2>1, ClosedAppended DEF OrderInv, QueueInv
  <2> HIDE DEF e
  <2>3. /\ DOMAIN qq = 1..(Len(q) + 1) /\ DOMAIN q = 1..Len(q) /\ Len(q) \in Nat
        /\ \A i \in 1..Len(q) : qq[i] = q[i]
        /\ qq[Len(q) + 1] = e /\ qq # <<>> /\ (q # <<>> => Len(q) > 0)
    BY <2>1, AppendProperties, LenProperties, EmptySeq
  <2> HIDE DEF qq
  <2>4. \A i \in DOMAIN qq : IsMessage(qq[i]) => qq[i].id <= Out(p)
    <3>1. \A i \in DOMAIN qq : i \in DOMAIN q \/ qq[i] = e
      BY <2>3
    <3> QED
      BY <2>1, <2>3, <3>1 DEF OrderInv, QueueInv
  <2>5. /\ IsOpen(qq[1]) => servers[p] = None
        /\ IsMessage(qq[1]) => servers[p] = None \/ NextIs(servers[p], qq[1].id)
    <3>1. CASE q = <<>>
      BY <2>1, <2>3, <3>1
    <3>2. CASE q # <<>>
      BY <2>3, <3>2 DEF OrderInv, QueueInv
    <3> QED
      BY <3>1, <3>2
  <2>6. QueueInv(p)'
    BY <1>1, <1>2, <1>4, <2>2, <2>4, <2>5 DEF QueueInv
  <2>7. SessionInv(p)'
    BY <1>1 DEF SessionInv
  <2> QED
    BY <1>2, <2>6, <2>7 DEF OrderInv
<1> QED
  BY <1>1, <1>2, <1>3, <1>4

LEMMA AnnouncedOrder ==
  ASSUME TypeOK, NEW p \in Pipes, PipeInv(p), Out(p)' = Out(p), OrderInv(p), Announcement(p)
  PROVE  OrderInv(p)'
<1>1. /\ UNCHANGED <<page, listener, servers, said>>
      /\ serving'[p] = serving[p] \/ (serving[p] = "added" /\ serving'[p] = "reading")
  BY DEF Announcement, agentVars
<1>2. CASE Waits(p)
  <2> DEFINE h == sessions[p].held
  <2>1. sessions[p] \in Session /\ sessions[p] # None /\ ~sessions[p].announced
    BY <1>2 DEF TypeOK, Waits
  <2>2. sessions'[p].announced
    BY <1>2, <2>1 DEF Announcement, Announce, Session
  <2>3. /\ channel[p] = <<>> /\ servers[p] = None
        /\ h # <<>> /\ IsOpen(h[1]) /\ Ordered(h) /\ UpTo(h, Out(p))
        /\ \A i \in DOMAIN h : IsMessage(h[i]) => h[i].id <= Out(p)
    BY <2>1 DEF OrderInv, SessionInv
  <2>4. channel'[p] = IF listener = page THEN h ELSE <<>>
    BY <1>2, <2>3 DEF Announcement, Announce
  <2> HIDE DEF h
  <2>5. ~IsMessage(h[1])
    BY <2>3 DEF IsOpen, IsMessage
  <2>6. \A i \in DOMAIN h : h[i].kind # "closed"
    BY <2>3 DEF UpTo
  <2>7. QueueInv(p)'
    <3>1. CASE listener = page
      BY <1>1, <2>3, <2>4, <2>5, <2>6, <3>1 DEF QueueInv
    <3>2. CASE listener # page
      BY <2>4, <3>2 DEF QueueInv, Ordered
    <3> QED
      BY <3>1, <3>2
  <2>8. SessionInv(p)'
    BY <1>1, <2>2, <2>3, <2>4 DEF SessionInv
  <2> QED
    BY <2>7, <2>8 DEF OrderInv
<1>3. CASE ~Waits(p)
  <2>1. sessions'[p] = sessions[p] /\ channel'[p] = channel[p]
    BY <1>3 DEF Announcement, Announce
  <2> QED
    BY <1>1, <2>1 DEF OrderInv, QueueInv, SessionInv
<1> QED
  BY <1>2, <1>3

LEMMA ListeningOrder ==
  ASSUME TypeOK, NEW p \in Pipes, PipeInv(p), OrderInv(p), Listening(p)
  PROVE  OrderInv(p)'
<1>1. /\ channel'[p] = <<>> /\ servers'[p] = None /\ Out(p)' = Out(p)
      /\ UNCHANGED <<page, serving>> /\ sessions'[p] = Reannounced(sessions[p])
      /\ Out(p) \in Nat
  BY ListeningPipe, SaidTypes DEF Listening, PipeInv, StageInv
<1>2. QueueInv(p)'
  BY <1>1 DEF QueueInv, Ordered
<1>3. SessionInv(p)'
  <2>1. CASE sessions[p] = None
    BY <1>1, <2>1 DEF SessionInv, Reannounced
  <2>2. CASE sessions[p] # None /\ ~sessions[p].announced
    <3>1. sessions'[p] = sessions[p]
      BY <1>1, <2>2 DEF Reannounced
    <3> QED
      BY <1>1, <2>2, <3>1 DEF OrderInv, SessionInv
  <2>3. CASE sessions[p] # None /\ sessions[p].announced
    <3> DEFINE e == OpenEvent(TRUE, sessions[p])
    <3>1. /\ ~sessions'[p].announced /\ sessions'[p].held = <<e>>
          /\ e \in Event /\ IsOpen(e) /\ e.resumed
      <4>1. sessions[p] \in Session /\ sessions[p].announced
        BY <2>3 DEF TypeOK
      <4> QED
        BY <1>1, <4>1, ReannouncedType
    <3> HIDE DEF e
    <3>2. /\ <<e>> # <<>> /\ Ordered(<<e>>) /\ UpTo(<<e>>, Out(p))
          /\ \A i \in DOMAIN <<e>> : ~IsMessage(<<e>>[i]) /\ <<e>>[i] = e
      BY <1>1, <3>1, OneOpen
    <3>3. IsOpen(<<e>>[1])
      BY <3>1
    <3> QED
      BY <1>1, <3>1, <3>2, <3>3 DEF SessionInv
  <2> QED
    BY <2>1, <2>2, <2>3
<1> QED
  BY <1>2, <1>3 DEF OrderInv

LEMMA ReloadingOrder ==
  ASSUME TypeOK, NEW p \in Pipes, PipeInv(p), OrderInv(p), Reloading(p)
  PROVE  OrderInv(p)'
<1>1. /\ channel'[p] = <<>> /\ servers'[p] = None /\ Out(p)' = Out(p) /\ listener' # page'
      /\ sessions' = sessions
  <2>1. listener' \in Int /\ page' \in Int
    BY DEF Reloading, TypeOK
  <2> QED
    BY <2>1, ReloadingPipe DEF Reloading
<1>2. QueueInv(p)'
  BY <1>1 DEF QueueInv, Ordered
<1>3. SessionInv(p)'
  BY <1>1 DEF OrderInv, SessionInv
<1> QED
  BY <1>2, <1>3 DEF OrderInv

LEMMA DeliverOrder ==
  ASSUME TypeOK, NEW p \in Pipes, PipeInv(p), OrderInv(p), Deliver(p)
  PROVE  OrderInv(p)'
<1> DEFINE q == channel[p]
           e == q[1]
           qq == Tail(q)
           n == Out(p)
           t == servers'[p]
<1>1. /\ UNCHANGED <<page, listener, sessions, serving>>
      /\ q # <<>> /\ channel'[p] = qq /\ Out(p)' = n
      /\ e \in Event
      /\ \/ IsOpen(e) /\ t = NewServer(e)
         \/ ~IsOpen(e) /\ t = None /\ (e.kind = "closed" \/ servers[p] = None)
         \/ /\ IsMessage(e) /\ servers[p] # None /\ servers[p] \in Server
            /\ e.id \in DOMAIN said[p] /\ e.id \in Ids
            /\ t = Received(p, servers[p], e.id)
  BY DeliverPipe DEF OrderInv
<1>2. q \in Seq(Event) /\ Ordered(q)
  BY DEF TypeOK, OrderInv, QueueInv
<1>3. /\ qq \in Seq(Event) /\ Len(qq) = Len(q) - 1 /\ Len(q) \in Nat /\ Len(q) > 0
      /\ DOMAIN qq = 1..(Len(q) - 1) /\ DOMAIN q = 1..Len(q)
      /\ \A i \in DOMAIN qq : i + 1 \in DOMAIN q /\ qq[i] = q[i + 1]
      /\ Ordered(qq)
  BY <1>1, <1>2, HeadTailProperties, LenProperties, EmptySeq, OrderedTail
<1> HIDE DEF q, qq, t
<1>4. 1 \in DOMAIN q
  BY <1>3
<1>5. \A i \in DOMAIN qq : IsMessage(qq[i]) => qq[i].id <= n
  BY <1>3 DEF OrderInv, QueueInv, q
<1>6. serving[p] # "gone" => \A i \in DOMAIN qq : qq[i].kind # "closed"
  BY <1>3 DEF OrderInv, QueueInv, q
\* What the server is given next is what follows e.
<1>7. ASSUME NEW m \in Nat, t # None,
             IsOpen(e) /\ ~e.resumed => m = 1,
             IsMessage(e) => m = e.id + 1
      PROVE  NextIs(t, m)
  <2>1. CASE IsOpen(e)
    <3>1. t = NewServer(e)
      BY <1>1, <2>1 DEF IsOpen, IsMessage
    <3>2. t.resumed = e.resumed /\ t.got = 0
      BY <1>1, <2>1, <3>1, NewServerType
    <3> QED
      BY <1>7, <2>1, <3>2 DEF NextIs
  <2>2. CASE ~IsOpen(e)
    <3>1. IsMessage(e) /\ t.got = e.id /\ e.id \in Nat
      <4>1. /\ IsMessage(e) /\ servers[p] \in Server /\ e.id \in DOMAIN said[p] /\ e.id \in Ids
            /\ t = Received(p, servers[p], e.id)
        BY <1>1, <1>7, <2>2
      <4>2. Given(p, servers[p], e.id, t)
        BY <4>1, ReceivedIs
      <4> QED
        BY <4>1, <4>2 DEF Given, Ids
    <3> QED
      BY <1>7, <3>1 DEF NextIs
  <2> QED
    BY <2>1, <2>2
<1>8. ASSUME qq # <<>>
      PROVE  /\ ~IsOpen(qq[1])
             /\ IsMessage(qq[1]) => IF t = None THEN sessions[p] = None
                                    ELSE NextIs(t, qq[1].id)
  <2>1. Len(q) > 1 /\ 1 \in DOMAIN qq /\ qq[1] = q[2] /\ 2 \in DOMAIN q
    <3>1. Len(qq) > 0
      BY <1>3, <1>8, EmptySeq
    <3> QED
      BY <1>3, <3>1
  <2>2. /\ ~IsOpen(q[2]) /\ e.kind # "closed"
        /\ IsMessage(q[2]) /\ IsMessage(e) => q[2].id = e.id + (2 - 1)
        /\ IsMessage(q[2]) /\ IsOpen(e) /\ ~e.resumed => q[2].id = 2 - 1
    BY <1>2, <1>4, <2>1 DEF Ordered
  <2>3. ASSUME IsMessage(q[2]), t = None PROVE sessions[p] = None
    <3>1. ~IsOpen(e) /\ servers[p] = None
      <4>1. IsOpen(e) => t # None
        BY <1>1, NewServerType DEF IsOpen, IsMessage
      <4>2. CASE IsMessage(e) /\ servers[p] # None
        <5>1. Received(p, servers[p], e.id) # None
          BY <1>1, <2>2, <2>3, <4>1, <4>2, ReceivedIs DEF IsOpen, IsMessage
        <5> QED
          BY <1>1, <2>2, <2>3, <4>1, <4>2, <5>1
      <4>3. e.kind \in {"open", "message", "closed"}
        BY <1>1, EventKinds
      <4> QED
        BY <1>1, <2>2, <2>3, <4>1, <4>2, <4>3 DEF IsOpen, IsMessage
    <3>2. IsMessage(e)
      BY <1>1, <2>2, <3>1, EventKinds DEF IsOpen, IsMessage
    <3> QED
      BY <1>1, <3>1, <3>2 DEF OrderInv, QueueInv, q
  <2>4. ASSUME IsMessage(q[2]), t # None PROVE NextIs(t, q[2].id)
    <3>1. q[2].id \in Nat
      BY <1>2, <2>1, <2>4, ElementOfSeq, LenProperties, EventKinds DEF Ids
    <3>2. IsMessage(e) => e.id \in Nat
      BY <1>1, EventKinds DEF Ids
    <3> QED
      BY <1>7, <2>2, <2>4, <3>1, <3>2
  <2> QED
    BY <2>1, <2>2, <2>3, <2>4
<1>9. QueueInv(p)'
  BY <1>1, <1>3, <1>5, <1>6, <1>8 DEF QueueInv, t
<1>10. ASSUME sessions[p] # None, listener = page, sessions[p].announced
       PROVE  UpTo(qq, n) /\ (qq = <<>> => t # None /\ NextIs(t, n + 1))
  <2>1. UpTo(q, n)
    BY <1>10 DEF OrderInv, SessionInv, q
  <2>2. UpTo(qq, n)
    <3>1. \A i \in DOMAIN qq : i = Len(qq) => i + 1 = Len(q)
      BY <1>3
    <3> QED
      BY <1>3, <2>1, <3>1 DEF UpTo
  <2>3. ASSUME qq = <<>> PROVE t # None /\ NextIs(t, n + 1)
    <3>1. Len(q) = 1
      BY <1>3, <2>3, EmptySeq
    <3>2. /\ e.kind # "closed" /\ (IsMessage(e) => e.id = n)
          /\ IsOpen(e) /\ ~e.resumed => n = 0
      BY <1>4, <2>1, <3>1 DEF UpTo
    <3>3. t # None
      <4>1. IsOpen(e) => t # None
        BY <1>1, NewServerType DEF IsOpen, IsMessage
      <4>2. IsMessage(e) => servers[p] # None
        BY <1>1, <1>10 DEF OrderInv, QueueInv, q
      <4>3. IsOpen(e) \/ IsMessage(e)
        BY <1>1, <3>2, EventKinds DEF IsOpen, IsMessage
      <4>4. ~IsOpen(e) => t = Received(p, servers[p], e.id) /\ e.id \in DOMAIN said[p]
                          /\ e.id \in Ids /\ servers[p] \in Server
        BY <1>1, <3>2, <4>2, <4>3
      <4>5. ~IsOpen(e) => t # None
        BY <4>4, ReceivedIs
      <4> QED
        BY <4>1, <4>5
    <3>4. n \in Nat
      BY SaidTypes
    <3> QED
      BY <1>7, <3>2, <3>3, <3>4
  <2> QED
    BY <2>2, <2>3
<1>11. SessionInv(p)'
  <2>1. sessions[p] # None => sessions[p].announced
    BY <1>1 DEF OrderInv, SessionInv, q
  <2> QED
    BY <1>1, <1>10, <2>1 DEF SessionInv, t
<1> QED
  BY <1>9, <1>11 DEF OrderInv

\* A step of a pipe's server that takes no message.
ServerStep(p) ==
  /\ UNCHANGED <<page, listener, channel, sessions, serving, args, said>>
  /\ servers[p] # None /\ servers'[p] # None
  /\ servers'[p].got = servers[p].got /\ servers'[p].resumed = servers[p].resumed

LEMMA ServerStepOrder ==
  ASSUME NEW p \in Pipes, OrderInv(p), ServerStep(p)
  PROVE  OrderInv(p)'
BY DEF ServerStep, OrderInv, QueueInv, SessionInv, NextIs, Out

LEMMA CreateFailsOrder ==
  ASSUME TypeOK, NEW p \in Pipes, PipeInv(p), OrderInv(p), CreateFails(p)
  PROVE  OrderInv(p)'
<1>1. /\ UNCHANGED <<page, listener, channel, serving>> /\ Out(p)' = Out(p)
      /\ servers'[p] = None /\ sessions'[p] = None
  BY CreateFailsPipe
<1> QED
  BY <1>1 DEF OrderInv, QueueInv, SessionInv

LEMMA ServerSteps ==
  ASSUME TypeOK, NEW p \in Pipes, PipeInv(p),
         \/ Ready(p) \/ ConnectServer(p)
         \/ \E r \in Request : LookedUp(p, r) \/ Answer(p, r)
  PROVE  ServerStep(p)
<1>1. CASE Ready(p)
  BY <1>1, ReadyPipe DEF ServerStep, Readied, agentVars
<1>2. CASE ConnectServer(p)
  <2>1. Connects(p, servers[p], servers'[p]) /\ servers[p] \in Server
    BY <1>2, ConnectServerPipe
  <2>2. PICK u \in Server : /\ u = [servers[p] EXCEPT !.phase = "on", !.waiting = <<>>]
                            /\ Handles(p, u, servers[p].waiting, servers'[p])
    BY <2>1 DEF Connects
  <2>3. u.got = servers[p].got /\ u.resumed = servers[p].resumed
    BY <2>1, <2>2 DEF Server
  <2>4. servers'[p].got = servers[p].got /\ servers'[p].resumed = servers[p].resumed
    BY <2>2, <2>3 DEF Handles
  <2> QED
    BY <1>2, <2>4, ConnectServerPipe DEF ServerStep
<1>3. ASSUME NEW r \in Request, LookedUp(p, r) PROVE ServerStep(p)
  <2>2. servers'[p].got = servers[p].got /\ servers'[p].resumed = servers[p].resumed
    BY <1>3, LookedUpPipe DEF Looked
  <2> QED
    BY <1>3, <2>2, LookedUpPipe DEF ServerStep, agentVars
<1>4. ASSUME NEW r \in Request, Answer(p, r) PROVE ServerStep(p)
  <2>1. /\ servers[p] \in Server
        /\ servers'[p] = [servers[p] EXCEPT !.replying = @ \ {r}, !.swallow = @ \ {r.id}]
    BY <1>4, AnswerPipe
  <2>2. servers'[p].got = servers[p].got /\ servers'[p].resumed = servers[p].resumed
    BY <2>1 DEF Server
  <2> QED
    BY <1>4, <2>2, AnswerPipe DEF ServerStep
<1> QED
  BY <1>1, <1>2, <1>3, <1>4

-----------------------------------------------------------------------------
(* Answers, step by step.                                                  *)

LEMMA Requests ==
  ASSUME NEW r \in Request
  PROVE  r = Req(r.id, r.again) /\ r.id \in Ids /\ r.again \in BOOLEAN
BY DEF Request, Req

\* A pipe whose answers and server no step has changed.
LEMMA OnceKept ==
  ASSUME NEW p \in Pipes, OnceInv(p), Out(p)' = Out(p),
         UNCHANGED <<answered, servers>>,
         Unanswered(p, channel'[p]),
         sessions'[p] # None /\ ~sessions'[p].announced => Unanswered(p, sessions'[p].held)
  PROVE  OnceInv(p)'
<1>1. AnswersInv(p)'
  BY DEF OnceInv, AnswersInv, Unanswered
<1>2. servers'[p] # None => OwedInv(p, servers[p])'
  BY DEF OnceInv, OwedInv
<1> QED
  BY <1>1, <1>2 DEF OnceInv

\* What is appended to a queue and is no message, or is one that has no answer.
LEMMA UnansweredAppended ==
  ASSUME NEW p, NEW q \in Seq(Event), Unanswered(p, q), NEW e \in Event,
         IsMessage(e) => answered[p][e.id] = 0
  PROVE  Unanswered(p, Append(q, e))
<1>1. /\ DOMAIN Append(q, e) = 1..(Len(q) + 1) /\ DOMAIN q = 1..Len(q) /\ Len(q) \in Nat
      /\ \A i \in 1..Len(q) : Append(q, e)[i] = q[i]
      /\ Append(q, e)[Len(q) + 1] = e
  BY AppendProperties, LenProperties
<1> QED
  BY <1>1 DEF Unanswered

LEMMA ConnectOnce ==
  ASSUME TypeOK, NEW p \in Pipes, PipeInv(p), OnceInv(p), Connect(p)
  PROVE  OnceInv(p)'
<1> DEFINE e == OpenEvent(FALSE, None)
<1>1. e \in Event /\ ~IsMessage(e)
  BY OpenType
<1>2. /\ UNCHANGED <<answered, servers, channel>>
      /\ sessions'[p].held = <<e>>
      /\ channel[p] = <<>> /\ servers[p] = None
      /\ \A i \in Ids : answered[p][i] = 0
  BY DEF Connect, PipeInv, StageInv, TypeOK
<1> HIDE DEF e
<1>3. Unanswered(p, <<e>>)
  <2>1. \A i \in DOMAIN <<e>> : <<e>>[i] = e
    OBVIOUS
  <2> QED
    BY <1>1, <2>1 DEF Unanswered
<1>4. AnswersInv(p)'
  BY <1>2, <1>3 DEF AnswersInv, Unanswered
<1> QED
  BY <1>2, <1>4 DEF OnceInv

LEMMA SayOnce ==
  ASSUME TypeOK, NEW p \in Pipes, PipeInv(p), OnceInv(p), NEW l \in Line, Say(p, l)
  PROVE  OnceInv(p)'
<1>1. Out(p)' = Out(p)
  BY SayPipe
<1>2. UNCHANGED <<channel, servers, answered>>
  BY DEF Say
<1>3. Len(said[p]) + 1 \in Ids
  BY SaidTypes, RelayAssumption DEF Say, MaySay, Ids
<1>4. sessions'[p] # None =>
        /\ sessions[p] # None /\ sessions'[p].announced = sessions[p].announced
        /\ sessions'[p].held = sessions[p].held
  <2>1. CASE sessions[p] = None
    BY <2>1 DEF Say
  <2>2. CASE sessions[p] # None
    <3>1. sessions[p] \in Session
      BY <2>2 DEF TypeOK
    <3>2. sessions'[p] = Kept(sessions[p], Len(said[p]) + 1, l)
      BY <2>2 DEF Say, TypeOK
    <3> QED
      BY <1>3, <2>2, <3>1, <3>2, SayKept
  <2> QED
    BY <2>1, <2>2
<1>5. Unanswered(p, channel'[p])
  BY <1>2 DEF OnceInv, AnswersInv
<1>6. sessions'[p] # None /\ ~sessions'[p].announced => Unanswered(p, sessions'[p].held)
  BY <1>4 DEF OnceInv, AnswersInv
<1> QED
  BY <1>1, <1>2, <1>5, <1>6, OnceKept

LEMMA EmitOnce ==
  ASSUME TypeOK, NEW p \in Pipes, PipeInv(p), OnceInv(p), Emit(p)
  PROVE  OnceInv(p)'
<1> DEFINE e == [kind |-> "message", id |-> Len(said[p])]
           n == Out(p)
<1>1. /\ UNCHANGED <<servers, answered>>
      /\ Out(p)' = n + 1 /\ Len(said[p]) = n + 1 /\ n + 1 \in Ids /\ n \in Nat
      /\ \/ sessions' = sessions /\ channel' = channel
         \/ sessions' = sessions /\ channel'[p] = Append(channel[p], e)
         \/ /\ sessions[p] # None /\ channel' = channel
            /\ sessions'[p] = [sessions[p] EXCEPT !.held = Append(@, e)]
  <2> DEFINE k == Len(said[p])
             nn == Out(p)'
  <2>1. k \in Nat /\ n \in Nat
    BY SaidTypes
  <2>2. nn = k /\ n = k - 1 /\ k \in Ids
    BY EmittedPipe
  <2>3. UNCHANGED <<servers, answered>>
    BY EmittedPipe
  <2>4. \/ sessions' = sessions /\ channel' = channel
        \/ sessions' = sessions /\ channel'[p] = Append(channel[p], e)
        \/ /\ sessions[p] # None /\ channel' = channel
           /\ sessions'[p] = [sessions[p] EXCEPT !.held = Append(@, e)]
    BY EmittedPipe
  <2> HIDE DEF k, n, nn
  <2>5. nn = n + 1 /\ k = n + 1 /\ n + 1 \in Ids
    BY <2>1, <2>2
  <2> QED
    BY <2>1, <2>3, <2>4, <2>5 DEF k, n, nn
<1>2. e \in Event /\ IsMessage(e) /\ e.id = n + 1
  BY <1>1, MessageType
<1> HIDE DEF e, n
<1>3. answered[p][e.id] = 0
  BY <1>1, <1>2 DEF OnceInv, AnswersInv, n
<1>4. channel[p] \in Seq(Event) /\ Unanswered(p, channel[p])
  BY DEF TypeOK, OnceInv, AnswersInv
<1>5. Unanswered(p, Append(channel[p], e))
  BY <1>2, <1>3, <1>4, UnansweredAppended
<1>6. Unanswered(p, channel'[p])
  BY <1>1, <1>4, <1>5
<1>7. ASSUME sessions'[p] # None, ~sessions'[p].announced
      PROVE  Unanswered(p, sessions'[p].held)
  <2>1. CASE sessions' = sessions
    BY <1>7, <2>1 DEF OnceInv, AnswersInv
  <2>2. CASE /\ sessions[p] # None
             /\ sessions'[p] = [sessions[p] EXCEPT !.held = Append(@, e)]
    <3>1. sessions[p] \in Session /\ sessions[p].held \in Seq(Event)
      BY <2>2 DEF TypeOK, Session
    <3>2. /\ sessions'[p].held = Append(sessions[p].held, e)
          /\ sessions'[p].announced = sessions[p].announced
      BY <2>2, <3>1 DEF Session
    <3>3. Unanswered(p, sessions[p].held)
      BY <1>7, <2>2, <3>2 DEF OnceInv, AnswersInv
    <3> QED
      BY <1>2, <1>3, <3>1, <3>2, <3>3, UnansweredAppended
  <2> QED
    BY <1>1, <2>1, <2>2
<1>8. AnswersInv(p)'
  <2>1. \A i \in Ids : answered[p][i] <= 1 /\ (i > n + 1 => answered[p][i] = 0)
    BY <1>1 DEF OnceInv, AnswersInv, n, Ids
  <2> QED
    BY <1>1, <1>6, <1>7, <2>1 DEF AnswersInv, Unanswered
<1>9. ASSUME servers[p] # None PROVE OwedInv(p, servers[p])'
  <2>1. OwedInv(p, servers[p]) /\ servers[p].got \in Nat
    BY <1>9 DEF OnceInv, TypeOK, Server
  <2>2. servers[p].got <= n + 1
    BY <1>1, <2>1 DEF OwedInv, n
  <2> QED
    BY <1>1, <2>1, <2>2 DEF OwedInv
<1> QED
  BY <1>1, <1>8, <1>9 DEF OnceInv

LEMMA HangupOnce ==
  ASSUME NEW p \in Pipes, OnceInv(p), Hangup(p)
  PROVE  OnceInv(p)'
<1>1. UNCHANGED <<answered, servers, channel, sessions>> /\ Out(p)' = Out(p)
  BY DEF Hangup, Out
<1> QED
  BY <1>1, OnceKept DEF OnceInv, AnswersInv

LEMMA ForgetOnce ==
  ASSUME TypeOK, NEW p \in Pipes, PipeInv(p), OnceInv(p), Forget(p), Out(p)' = Out(p)
  PROVE  OnceInv(p)'
<1>1. UNCHANGED <<answered, servers, channel>> /\ sessions'[p] = None
  BY ForgetPipe
<1> QED
  BY <1>1, OnceKept DEF OnceInv, AnswersInv

LEMMA TellClosedOnce ==
  ASSUME TypeOK, NEW p \in Pipes, PipeInv(p), OnceInv(p), TellClosed(p), Out(p)' = Out(p)
  PROVE  OnceInv(p)'
<1> DEFINE e == [kind |-> "closed"]
<1>1. /\ UNCHANGED <<answered, servers, sessions>> /\ sessions[p] = None
      /\ channel'[p] = Append(channel[p], e) \/ channel' = channel
  BY TellClosedPipe
<1>2. e \in Event /\ ~IsMessage(e)
  BY ClosedType
<1> HIDE DEF e
<1>3. channel[p] \in Seq(Event) /\ Unanswered(p, channel[p])
  BY DEF TypeOK, OnceInv, AnswersInv
<1>4. Unanswered(p, channel'[p])
  BY <1>1, <1>2, <1>3, UnansweredAppended
<1> QED
  BY <1>1, <1>4, OnceKept

LEMMA AnnouncedOnce ==
  ASSUME TypeOK, NEW p \in Pipes, OnceInv(p), Announcement(p), Out(p)' = Out(p)
  PROVE  OnceInv(p)'
<1>1. UNCHANGED <<answered, servers>>
  BY DEF Announcement
<1>2. CASE Waits(p)
  <2>1. sessions[p] \in Session /\ sessions[p] # None /\ ~sessions[p].announced
    BY <1>2 DEF TypeOK, Waits
  <2>2. sessions'[p].announced
    BY <1>2, <2>1 DEF Announcement, Announce, Session
  <2>3. channel'[p] = sessions[p].held \/ channel'[p] = channel[p]
    BY <1>2 DEF Announcement, Announce
  <2>4. Unanswered(p, channel'[p])
    BY <2>1, <2>3 DEF OnceInv, AnswersInv
  <2> QED
    BY <1>1, <2>2, <2>4, OnceKept
<1>3. CASE ~Waits(p)
  BY <1>1, <1>3, OnceKept DEF Announcement, Announce, OnceInv, AnswersInv
<1> QED
  BY <1>2, <1>3

LEMMA ListeningOnce ==
  ASSUME TypeOK, NEW p \in Pipes, OnceInv(p), Listening(p), Out(p)' = Out(p)
  PROVE  OnceInv(p)'
<1>1. UNCHANGED <<answered, servers, channel>> /\ sessions'[p] = Reannounced(sessions[p])
  BY DEF Listening
<1>2. Unanswered(p, channel'[p])
  BY <1>1 DEF OnceInv, AnswersInv
<1>3. ASSUME sessions'[p] # None, ~sessions'[p].announced
      PROVE  Unanswered(p, sessions'[p].held)
  <2>1. CASE sessions[p] = None \/ ~sessions[p].announced
    BY <1>1, <1>3, <2>1 DEF Reannounced, OnceInv, AnswersInv
  <2>2. CASE sessions[p] # None /\ sessions[p].announced
    <3> DEFINE e == OpenEvent(TRUE, sessions[p])
    <3>1. sessions[p] \in Session
      BY <2>2 DEF TypeOK
    <3>2. sessions'[p].held = <<e>> /\ IsOpen(e)
      BY <1>1, <2>2, <3>1, ReannouncedType
    <3> HIDE DEF e
    <3>3. ~IsMessage(e) /\ \A i \in DOMAIN <<e>> : <<e>>[i] = e
      BY <3>2 DEF IsOpen, IsMessage
    <3> QED
      BY <3>2, <3>3 DEF Unanswered
  <2> QED
    BY <2>1, <2>2
<1> QED
  BY <1>1, <1>2, <1>3, OnceKept

LEMMA ReloadingOnce ==
  ASSUME NEW p \in Pipes, OnceInv(p), Reloading(p), Out(p)' = Out(p)
  PROVE  OnceInv(p)'
BY DEF Reloading, OnceInv, AnswersInv, Unanswered

LEMMA CreateFailsOnce ==
  ASSUME TypeOK, NEW p \in Pipes, PipeInv(p), OnceInv(p), CreateFails(p)
  PROVE  OnceInv(p)'
<1>1. /\ UNCHANGED <<answered, channel>> /\ Out(p)' = Out(p)
      /\ servers'[p] = None /\ sessions'[p] = None
  BY CreateFailsPipe
<1> QED
  BY <1>1 DEF OnceInv, AnswersInv, Unanswered

LEMMA DeliverOnce ==
  ASSUME TypeOK, NEW p \in Pipes, PipeInv(p), OrderInv(p), OnceInv(p), Deliver(p)
  PROVE  OnceInv(p)'
<1> DEFINE q == channel[p]
           e == q[1]
           n == Out(p)
           s == servers[p]
           t == servers'[p]
<1>1. /\ UNCHANGED <<sessions, answered>>
      /\ q # <<>> /\ channel'[p] = Tail(q) /\ Out(p)' = n
      /\ e \in Event /\ 1 \in DOMAIN q
      /\ \/ IsOpen(e) /\ t = NewServer(e)
         \/ ~IsOpen(e) /\ t = None /\ (e.kind = "closed" \/ s = None)
         \/ /\ IsMessage(e) /\ s # None /\ s \in Server
            /\ e.id \in DOMAIN said[p] /\ e.id \in Ids
            /\ t = Received(p, s, e.id)
  BY DeliverPipe DEF OrderInv
<1>2. q \in Seq(Event) /\ Ordered(q)
  BY DEF TypeOK, OrderInv, QueueInv
<1>3. \A i \in DOMAIN Tail(q) : i + 1 \in DOMAIN q /\ Tail(q)[i] = q[i + 1]
  BY <1>1, <1>2, OrderedTail
<1>4. Unanswered(p, channel'[p])
  BY <1>1, <1>3 DEF OnceInv, AnswersInv, Unanswered
<1>5. AnswersInv(p)'
  BY <1>1, <1>4 DEF OnceInv, AnswersInv, Unanswered
<1> HIDE DEF t
<1>6. CASE IsOpen(e) /\ t = NewServer(e)
  <2>1. /\ t.waiting = <<>> /\ t.looking = {} /\ t.replying = {} /\ t.got = 0
    BY <1>1, <1>6, NewServerType
  <2>2. n \in Nat
    BY SaidTypes
  <2>3. \A x : ~Holds(t, x)
    BY <2>1 DEF Holds
  <2>4. t.got <= n /\ t.looking \cap t.replying = {}
    BY <2>1, <2>2
  <2> HIDE DEF n
  <2>5. n = Out(p)' /\ t = servers'[p]
    BY <1>1 DEF n, t
  <2>6. OwedInv(p, servers[p])'
    BY <2>3, <2>4, <2>5 DEF OwedInv
  <2> QED
    BY <1>5, <2>6 DEF OnceInv
<1>7. CASE t = None
  BY <1>5, <1>7 DEF OnceInv, t
<1>8. CASE /\ IsMessage(e) /\ s # None /\ s \in Server
           /\ e.id \in DOMAIN said[p] /\ e.id \in Ids
           /\ t = Received(p, s, e.id)
  <2> DEFINE id == e.id
             new == Req(id, FALSE)
  <2>1. Given(p, s, id, t)
    BY <1>8, ReceivedIs
  <2>2. id <= n /\ NextIs(s, id) /\ answered[p][id] = 0
    BY <1>1, <1>8 DEF OrderInv, QueueInv, OnceInv, AnswersInv, Unanswered
  <2>3. OwedInv(p, s) /\ ServerInv(p, s)
    BY <1>8 DEF OnceInv, PipeInv
  <2>4. s.got \in Nat /\ id \in Nat /\ id > s.got /\ s.waiting \in Seq(Request)
    BY <1>8, <2>2 DEF Server, Ids, NextIs
  <2>5. new \in Request /\ new.id = id /\ new.again = FALSE
    BY <1>8, RequestType
  <2> HIDE DEF e, s
  <2>6. ASSUME NEW x PROVE Holds(t, x) <=> Holds(s, x) \/ x = new
    <3>1. CASE s.phase = "on"
      <4>1. /\ t.waiting = s.waiting
            /\ x \in t.looking <=> x \in s.looking \/ (x = new /\ LooksUp(said[p][id]))
            /\ x \in t.replying <=> x \in s.replying \/ (x = new /\ ~LooksUp(said[p][id]))
        BY <2>1, <3>1 DEF Given
      <4> QED
        BY <4>1 DEF Holds
    <3>2. CASE s.phase # "on"
      <4>1. /\ t.waiting = Append(s.waiting, new)
            /\ t.looking = s.looking /\ t.replying = s.replying
        BY <2>1, <3>2 DEF Given
      <4> HIDE DEF new
      <4>2. /\ DOMAIN t.waiting = 1..(Len(s.waiting) + 1)
            /\ DOMAIN s.waiting = 1..Len(s.waiting) /\ Len(s.waiting) \in Nat
            /\ \A i \in 1..Len(s.waiting) : t.waiting[i] = s.waiting[i]
            /\ t.waiting[Len(s.waiting) + 1] = new
        BY <2>4, <2>5, <4>1, AppendProperties, LenProperties
      <4>3. (\E i \in DOMAIN t.waiting : t.waiting[i] = x) <=>
              (\E i \in DOMAIN s.waiting : s.waiting[i] = x) \/ x = new
        <5>1. ASSUME NEW i \in DOMAIN t.waiting, t.waiting[i] = x
              PROVE  (\E j \in DOMAIN s.waiting : s.waiting[j] = x) \/ x = new
          <6>1. i \in DOMAIN s.waiting \/ i = Len(s.waiting) + 1
            BY <4>2
          <6> QED
            BY <4>2, <5>1, <6>1
        <5>2. ASSUME NEW i \in DOMAIN s.waiting, s.waiting[i] = x
              PROVE  \E j \in DOMAIN t.waiting : t.waiting[j] = x
          <6>1. i \in DOMAIN t.waiting
            BY <4>2
          <6> QED
            BY <4>2, <5>2, <6>1
        <5>3. Len(s.waiting) + 1 \in DOMAIN t.waiting
          BY <4>2
        <5> QED
          BY <4>2, <5>1, <5>2, <5>3
      <4> QED
        BY <4>1, <4>3 DEF Holds
    <3> QED
      BY <3>1, <3>2
  <2>7. \A i \in Ids : Holds(s, Req(i, FALSE)) => i <= s.got
    BY <2>3 DEF OwedInv
  <2>8. ~Holds(s, new)
    <3>1. Holds(s, new) => id <= s.got
      BY <1>8, <2>7 DEF new
    <3> HIDE DEF id, new
    <3>2. ~(id <= s.got)
      BY <2>4
    <3> QED
      BY <3>1, <3>2
  <2>9. t.looking \cap t.replying = {}
    <3>1. CASE s.phase = "on"
      <4>1. \A x : /\ x \in t.looking <=> x \in s.looking \/ (x = new /\ LooksUp(said[p][id]))
                   /\ x \in t.replying <=> x \in s.replying \/ (x = new /\ ~LooksUp(said[p][id]))
        BY <2>1, <3>1 DEF Given
      <4>2. new \notin s.looking /\ new \notin s.replying
        BY <2>8 DEF Holds
      <4>3. s.looking \cap s.replying = {}
        BY <2>3 DEF OwedInv
      <4> HIDE DEF new
      <4> QED
        BY <4>1, <4>2, <4>3
    <3>2. CASE s.phase # "on"
      BY <2>1, <2>3, <3>2 DEF Given, OwedInv
    <3> QED
      BY <3>1, <3>2
  <2>10. t.got = id /\ t.swallow = s.swallow
    BY <2>1 DEF Given
  <2>11. \A i, j \in Ids : \A b, c \in BOOLEAN : Req(i, b) = Req(j, c) => i = j /\ b = c
    BY RequestType
  <2>12. ASSUME NEW i \in Ids
         PROVE  /\ Holds(t, Req(i, FALSE)) => i <= id /\ answered[p][i] = 0
                /\ Holds(t, Req(i, TRUE)) /\ i \notin s.swallow =>
                     /\ i <= id /\ answered[p][i] = 0
                     /\ ~Holds(t, Req(i, FALSE))
    <3>1. i \in Nat
      BY DEF Ids
    <3>2. /\ Holds(s, Req(i, FALSE)) => i <= s.got /\ answered[p][i] = 0
          /\ Holds(s, Req(i, TRUE)) /\ i \notin s.swallow =>
               /\ i <= s.got /\ answered[p][i] = 0
               /\ ~Holds(s, Req(i, FALSE))
      BY <2>3 DEF OwedInv
    <3>3. Holds(t, Req(i, FALSE)) <=> Holds(s, Req(i, FALSE)) \/ i = id
      BY <1>8, <2>6, <2>11
    <3>4. Holds(t, Req(i, TRUE)) <=> Holds(s, Req(i, TRUE))
      BY <1>8, <2>6, <2>11
    <3>5. i <= s.got => i <= id /\ i # id
      BY <2>4, <3>1
    <3> HIDE DEF id
    <3>6. Holds(t, Req(i, FALSE)) => i <= id /\ answered[p][i] = 0
      <4>1. CASE i = id
        BY <2>2, <2>4, <4>1
      <4>2. CASE i # id
        BY <3>2, <3>3, <3>5, <4>2
      <4> QED
        BY <4>1, <4>2
    <3> QED
      BY <3>2, <3>3, <3>4, <3>5, <3>6
  <2> HIDE DEF id
  <2>13. OwedInv(p, servers[p])'
    BY <1>1, <2>2, <2>9, <2>10, <2>12 DEF OwedInv, t
  <2> QED
    BY <1>5, <2>13 DEF OnceInv
<1> QED
  BY <1>1, <1>6, <1>7, <1>8

LEMMA ReadyOnce ==
  ASSUME TypeOK, NEW p \in Pipes, PipeInv(p), OnceInv(p), Ready(p)
  PROVE  OnceInv(p)'
<1> DEFINE s == servers[p]
           t == servers'[p]
<1>1. /\ UNCHANGED <<channel, sessions, answered>> /\ Out(p)' = Out(p)
      /\ s # None /\ s \in Server /\ s.phase = "starting"
      /\ t # None /\ Readied(p, s, t)
  BY ReadyPipe
<1> HIDE DEF t
<1>2. OwedInv(p, s) /\ s.looking = {} /\ s.replying = {} /\ s.swallow = {}
  BY <1>1 DEF OnceInv, PipeInv, ServerInv
<1> HIDE DEF s
<1>3. s.waiting \in Seq(Request) /\ s.replay \in Seq(Ids)
  BY <1>1 DEF Server, IdSeqs
<1>4. t.looking = {} /\ t.replying = {} /\ t.got = s.got /\ t.swallow = ToSet(s.replay)
      /\ t.waiting = s.waiting \o Again(s.replay)
  BY <1>1, <1>2 DEF Readied
<1> DEFINE w == s.waiting
           a == s.replay
<1>5. ASSUME NEW i \in Ids
      PROVE  /\ Holds(t, Req(i, FALSE)) => Holds(s, Req(i, FALSE))
             /\ Holds(t, Req(i, TRUE)) => Holds(s, Req(i, TRUE)) \/ i \in t.swallow
  <2>1. w \in Seq(Request) /\ a \in Seq(Ids) /\ t.waiting = w \o Again(a)
    BY <1>3, <1>4
  <2>2. t.swallow = {a[k] : k \in DOMAIN a}
    BY <1>4 DEF ToSet
  <2> HIDE DEF w, a
  <2> DEFINE v == w \o Again(a)
  <2>0. /\ DOMAIN v = 1..(Len(w) + Len(a)) /\ Len(w) \in Nat /\ Len(a) \in Nat
        /\ DOMAIN w = 1..Len(w) /\ DOMAIN a = 1..Len(a)
        /\ \A k \in 1..Len(w) : v[k] = w[k]
        /\ \A k \in 1..Len(a) : v[Len(w) + k] = Req(a[k], TRUE)
    BY <2>1, AgainIs
  <2>8. t.waiting = v
    BY <2>1
  <2> HIDE DEF v
  <2>3. ASSUME NEW j \in DOMAIN t.waiting
        PROVE  \/ j \in DOMAIN w /\ t.waiting[j] = w[j]
               \/ \E k \in DOMAIN a : t.waiting[j] = Req(a[k], TRUE) /\ a[k] \in Ids
    <3>1. /\ DOMAIN t.waiting = 1..(Len(w) + Len(a)) /\ Len(w) \in Nat /\ Len(a) \in Nat
          /\ DOMAIN w = 1..Len(w) /\ DOMAIN a = 1..Len(a)
          /\ \A k \in 1..Len(w) : t.waiting[k] = w[k]
          /\ \A k \in 1..Len(a) : t.waiting[Len(w) + k] = Req(a[k], TRUE)
      BY <2>0, <2>8
    <3>2. CASE j \in DOMAIN w
      BY <3>1, <3>2
    <3>3. CASE j \notin DOMAIN w
      <4> DEFINE k == j - Len(w)
      <4>1. k \in 1..Len(a) /\ j = Len(w) + k
        BY <2>3, <3>1, <3>3
      <4> HIDE DEF k
      <4>2. a[k] \in Ids
        BY <2>1, <4>1, ElementOfSeq
      <4> QED
        BY <3>1, <4>1, <4>2
    <3> QED
      BY <3>2, <3>3
  <2>4. \A x : Holds(t, x) => \/ Holds(s, x)
                              \/ \E k \in DOMAIN a : x = Req(a[k], TRUE) /\ a[k] \in Ids
    BY <1>4, <2>3 DEF Holds, w
  <2>5. \A j \in Ids : Req(i, FALSE) # Req(j, TRUE) /\ (Req(i, TRUE) = Req(j, TRUE) => i = j)
    BY RequestType
  <2>6. Holds(t, Req(i, FALSE)) => Holds(s, Req(i, FALSE))
    BY <2>4, <2>5
  <2>7. Holds(t, Req(i, TRUE)) => Holds(s, Req(i, TRUE)) \/ i \in t.swallow
    BY <2>2, <2>4, <2>5
  <2> QED
    BY <2>6, <2>7
<1>6. \A i \in Ids :
       /\ Holds(t, Req(i, FALSE)) => i <= t.got /\ answered[p][i] = 0
       /\ Holds(t, Req(i, TRUE)) /\ i \notin t.swallow =>
            /\ i <= t.got /\ answered[p][i] = 0
            /\ ~Holds(t, Req(i, FALSE))
  BY <1>2, <1>4, <1>5 DEF OwedInv
<1>7. t.got <= Out(p) /\ t.looking \cap t.replying = {}
  BY <1>2, <1>4 DEF OwedInv
<1>8. OwedInv(p, servers[p])'
  BY <1>1, <1>6, <1>7 DEF OwedInv, t
<1>9. AnswersInv(p)'
  BY <1>1 DEF OnceInv, AnswersInv, Unanswered
<1> QED
  BY <1>8, <1>9 DEF OnceInv

\* A server that owes the same requests, in whatever stage of theirs.
LEMMA OwesTheSame ==
  ASSUME NEW p \in Pipes, OnceInv(p), Out(p)' = Out(p),
         UNCHANGED <<channel, sessions, answered>>,
         servers[p] # None, servers'[p].got = servers[p].got,
         servers'[p].swallow = servers[p].swallow,
         servers'[p].looking \cap servers'[p].replying = {},
         \A x : Holds(servers'[p], x) <=> Holds(servers[p], x)
  PROVE  OnceInv(p)'
<1> DEFINE t == servers'[p]
           s == servers[p]
<1>1. OwedInv(p, s)
  BY DEF OnceInv
<1> HIDE DEF t, s
<1>2. OwedInv(p, t)
  BY <1>1 DEF OwedInv, t, s
<1>3. OwedInv(p, servers[p])'
  BY <1>2 DEF OwedInv, t
<1>4. AnswersInv(p)'
  BY DEF OnceInv, AnswersInv, Unanswered
<1> QED
  BY <1>3, <1>4 DEF OnceInv

LEMMA ConnectServerOnce ==
  ASSUME TypeOK, NEW p \in Pipes, PipeInv(p), OnceInv(p), ConnectServer(p)
  PROVE  OnceInv(p)'
<1> DEFINE s == servers[p]
           t == servers'[p]
           l(r) == said[p][r.id]
<1>1. /\ UNCHANGED <<channel, sessions, answered>> /\ Out(p)' = Out(p)
      /\ s # None /\ s \in Server /\ s.phase = "answering" /\ Connects(p, s, t)
  BY ConnectServerPipe
<1>2. s.looking = {} /\ s.replying = {}
  BY <1>1 DEF PipeInv, ServerInv
<1>3. PICK u \in Server : /\ u = [s EXCEPT !.phase = "on", !.waiting = <<>>]
                          /\ Handles(p, u, s.waiting, t)
  BY <1>1 DEF Connects
<1> HIDE DEF s, t
<1>4. /\ u.got = s.got /\ u.swallow = s.swallow /\ u.looking = {} /\ u.replying = {}
  BY <1>1, <1>2, <1>3 DEF Server
<1>5. u.waiting = <<>>
  BY <1>1, <1>3 DEF Server
<1>6. /\ t.got = s.got /\ t.swallow = s.swallow /\ t.waiting = <<>>
      /\ \A r : r \in t.looking <=> \E i \in DOMAIN s.waiting : s.waiting[i] = r /\ LooksUp(l(r))
      /\ \A r : r \in t.replying <=> \E i \in DOMAIN s.waiting : s.waiting[i] = r /\ ~LooksUp(l(r))
  BY <1>3, <1>4, <1>5 DEF Handles
<1>7. t.looking \cap t.replying = {}
  BY <1>6
<1>8. \A x : Holds(t, x) <=> Holds(s, x)
  BY <1>2, <1>6 DEF Holds
<1> QED
  BY <1>1, <1>6, <1>7, <1>8, OwesTheSame DEF s, t

LEMMA LookedUpOnce ==
  ASSUME TypeOK, NEW p \in Pipes, PipeInv(p), OnceInv(p), NEW r \in Request, LookedUp(p, r)
  PROVE  OnceInv(p)'
<1> DEFINE s == servers[p]
           t == servers'[p]
<1>1. /\ UNCHANGED <<channel, sessions, answered>> /\ Out(p)' = Out(p)
      /\ s # None /\ s \in Server /\ r \in s.looking
      /\ Looked(p, s, r, t)
  BY LookedUpPipe
<1>2. s.looking \cap s.replying = {}
  BY <1>1 DEF OnceInv, OwedInv
<1> HIDE DEF s, t
<1>3. /\ t.got = s.got /\ t.swallow = s.swallow /\ t.waiting = s.waiting
      /\ t.looking = s.looking \ {r} /\ t.replying = s.replying \cup {r}
  BY <1>1 DEF Looked
<1>4. t.looking \cap t.replying = {}
  BY <1>2, <1>3
<1>5. \A x : Holds(t, x) <=> Holds(s, x)
  BY <1>1, <1>3 DEF Holds
<1> QED
  BY <1>1, <1>3, <1>4, <1>5, OwesTheSame DEF s, t

\* What is still on its way to a server comes after what it was given.
LEMMA Later ==
  ASSUME TypeOK, NEW p \in Pipes, OrderInv(p), servers[p] # None
  PROVE  \A j \in DOMAIN channel[p] :
           IsMessage(channel[p][j]) => channel[p][j].id > servers[p].got
<1> DEFINE q == channel[p]
           s == servers[p]
<1>1. SUFFICES ASSUME NEW j \in DOMAIN q, IsMessage(q[j]) PROVE q[j].id > s.got
  OBVIOUS
<1>2. /\ q \in Seq(Event) /\ Len(q) \in Nat /\ DOMAIN q = 1..Len(q) /\ 1 \in DOMAIN q
      /\ q # <<>> /\ j \in Nat
  <2>1. q \in Seq(Event)
    BY DEF TypeOK
  <2> HIDE DEF q
  <2> QED
    BY <1>1, <2>1, LenProperties
<1>3. /\ Ordered(q) /\ ~IsOpen(q[1])
      /\ IsMessage(q[1]) => NextIs(s, q[1].id)
  BY <1>2 DEF OrderInv, QueueInv
<1>4. s.got \in Nat
  BY DEF TypeOK, Server
<1> HIDE DEF q, s
<1>5. q[1] \in Event /\ q[j] \in Event
  BY <1>1, <1>2, ElementOfSeq
<1>6. IsMessage(q[1])
  <2>1. CASE j = 1
    BY <1>1, <2>1
  <2>2. CASE j # 1
    <3>1. q[1].kind # "closed"
      BY <1>1, <1>2, <1>3, <2>2 DEF Ordered
    <3> QED
      BY <1>3, <1>5, <3>1, EventKinds DEF IsOpen, IsMessage
  <2> QED
    BY <2>1, <2>2
<1>7. q[1].id \in Nat /\ q[1].id > s.got
  BY <1>3, <1>4, <1>5, <1>6, EventKinds DEF NextIs, Ids
<1>8. CASE j = 1
  BY <1>7, <1>8
<1>9. CASE j # 1
  <2>1. q[j].id = q[1].id + (j - 1) /\ j > 1
    BY <1>1, <1>2, <1>3, <1>6, <1>9 DEF Ordered
  <2> QED
    BY <1>2, <1>4, <1>7, <2>1
<1> QED
  BY <1>8, <1>9

LEMMA AnswerOnce ==
  ASSUME TypeOK, NEW p \in Pipes, PipeInv(p), OrderInv(p), OnceInv(p),
         NEW r \in Request, Answer(p, r)
  PROVE  OnceInv(p)'
<1> DEFINE s == servers[p]
           t == servers'[p]
           out == GoesOut(p, r)
           n == Out(p)
<1>1. /\ UNCHANGED <<channel, sessions>> /\ Out(p)' = n
      /\ s # None /\ s \in Server /\ r \in s.replying
      /\ t = [s EXCEPT !.replying = @ \ {r}, !.swallow = @ \ {r.id}]
      /\ out => /\ answered'[p][r.id] = answered[p][r.id] + 1
                /\ \A i \in Ids : i # r.id => answered'[p][i] = answered[p][i]
      /\ ~out => answered' = answered
  BY AnswerPipe
<1>2. OwedInv(p, s) /\ ServerInv(p, s) /\ AnswersInv(p)
  BY <1>1 DEF OnceInv, PipeInv
<1>3. \A j \in DOMAIN channel[p] : IsMessage(channel[p][j]) => channel[p][j].id > s.got
  BY <1>1, Later
<1>4. sessions[p] # None => sessions[p].announced
  BY <1>1 DEF OrderInv, SessionInv
<1>5. out => r.id \notin s.swallow
  BY DEF GoesOut, Swallows
<1>6. r = Req(r.id, r.again) /\ r.id \in Ids /\ r.again \in BOOLEAN
  BY Requests
<1>7. s.waiting = <<>>
  BY <1>1, <1>2 DEF ServerInv
<1> HIDE DEF s, t, out, n
<1>8. /\ t.got = s.got /\ t.swallow = s.swallow \ {r.id} /\ t.waiting = s.waiting
      /\ t.looking = s.looking /\ t.replying = s.replying \ {r}
  BY <1>1 DEF Server
<1>9. \A x : Holds(t, x) <=> Holds(s, x) /\ x # r
  <2>1. r \notin s.looking
    BY <1>1, <1>2 DEF OwedInv
  <2> QED
    BY <1>1, <1>7, <1>8, <2>1 DEF Holds
<1>10. Holds(s, r)
  BY <1>1 DEF Holds
<1>11. r.again = FALSE => r.id <= s.got /\ answered[p][r.id] = 0
  BY <1>2, <1>6, <1>10 DEF OwedInv
<1>12. r.again = TRUE /\ r.id \notin s.swallow =>
         r.id <= s.got /\ answered[p][r.id] = 0 /\ ~Holds(s, Req(r.id, FALSE))
  BY <1>2, <1>6, <1>10 DEF OwedInv
<1>13. out => r.id <= s.got /\ answered[p][r.id] = 0
  BY <1>5, <1>6, <1>11, <1>12
<1>14. s.got \in Nat /\ n \in Nat /\ s.got <= n
  BY <1>1, <1>2, SaidTypes DEF Server, OwedInv, n
<1>15. AnswersInv(p)'
  <2>1. ASSUME NEW i \in Ids
        PROVE  answered'[p][i] <= 1 /\ (i > n => answered'[p][i] = 0)
    <3>1. i \in Nat /\ answered[p][i] <= 1 /\ (i > n => answered[p][i] = 0)
      BY <1>2 DEF AnswersInv, Ids, n
    <3>2. CASE out /\ i = r.id
      <4>1. answered'[p][i] = 0 + 1 /\ i <= s.got
        BY <1>1, <1>13, <3>2
      <4> QED
        BY <1>14, <3>1, <4>1
    <3>3. CASE ~(out /\ i = r.id)
      BY <1>1, <3>1, <3>3
    <3> QED
      BY <3>2, <3>3
  <2>2. Unanswered(p, channel[p])'
    <3>1. SUFFICES ASSUME NEW j \in DOMAIN channel[p], IsMessage(channel[p][j])
                   PROVE  answered'[p][channel[p][j].id] = 0
      BY <1>1 DEF Unanswered
    <3>2. answered[p][channel[p][j].id] = 0 /\ channel[p][j].id > s.got
      BY <1>2, <1>3, <3>1 DEF AnswersInv, Unanswered
    <3>3. channel[p][j].id \in Ids
      <4>1. channel[p] \in Seq(Event)
        BY DEF TypeOK
      <4>2. channel[p][j] \in Event
        BY <3>1, <4>1, ElementOfSeq, LenProperties
      <4> QED
        BY <3>1, <4>2, EventKinds
    <3>4. CASE out
      <4>1. channel[p][j].id # r.id
        BY <1>6, <1>13, <1>14, <3>2, <3>3, <3>4 DEF Ids
      <4> QED
        BY <1>1, <3>2, <3>3, <3>4, <4>1
    <3>5. CASE ~out
      BY <1>1, <3>2, <3>5
    <3> QED
      BY <3>4, <3>5
  <2>3. sessions'[p] # None => sessions'[p].announced
    BY <1>1, <1>4
  <2> QED
    BY <1>1, <2>1, <2>2, <2>3 DEF AnswersInv
<1>16. ASSUME NEW i \in Ids
       PROVE  /\ Holds(t, Req(i, FALSE)) => i <= t.got /\ answered'[p][i] = 0
              /\ Holds(t, Req(i, TRUE)) /\ i \notin t.swallow =>
                   /\ i <= t.got /\ answered'[p][i] = 0
                   /\ ~Holds(t, Req(i, FALSE))
  <2>1. /\ Holds(s, Req(i, FALSE)) => i <= s.got /\ answered[p][i] = 0
        /\ Holds(s, Req(i, TRUE)) /\ i \notin s.swallow =>
             /\ i <= s.got /\ answered[p][i] = 0
             /\ ~Holds(s, Req(i, FALSE))
    BY <1>2 DEF OwedInv
  <2>2. CASE i # r.id
    <3>1. answered'[p][i] = answered[p][i]
      BY <1>1, <2>2
    <3> QED
      BY <1>8, <1>9, <2>1, <2>2, <3>1
  <2>3. CASE i = r.id /\ out
    <3>1. r.again = FALSE => ~Holds(t, Req(i, FALSE)) /\ ~Holds(s, Req(i, TRUE))
      BY <1>5, <1>6, <1>9, <1>10, <2>1, <2>3
    <3>2. r.again = TRUE => ~Holds(t, Req(i, TRUE)) /\ ~Holds(s, Req(i, FALSE))
      BY <1>5, <1>6, <1>9, <1>12, <2>3
    <3> QED
      BY <1>6, <1>9, <3>1, <3>2
  <2>4. CASE i = r.id /\ ~out
    <3>1. answered'[p][i] = answered[p][i]
      BY <1>1, <2>4
    <3>2. r.again = FALSE => ~Holds(t, Req(i, FALSE))
      BY <1>6, <1>9, <2>4
    <3>3. r.again = TRUE => ~Holds(t, Req(i, TRUE))
      BY <1>6, <1>9, <2>4
    <3> QED
      BY <1>6, <1>8, <1>9, <1>11, <2>1, <2>4, <3>1, <3>2, <3>3
  <2> QED
    BY <2>2, <2>3, <2>4
<1>17. t.got <= n /\ t.looking \cap t.replying = {}
  BY <1>2, <1>8, <1>14 DEF OwedInv
<1>18. OwedInv(p, servers[p])'
  BY <1>1, <1>16, <1>17 DEF OwedInv, t
<1> QED
  BY <1>15, <1>18 DEF OnceInv
-----------------------------------------------------------------------------
(* The theorems.                                                           *)

LEMMA OnlyHere ==
  ASSUME IInv, NEW p \in Pipes, PipeInv(p)', OrderInv(p)', OnceInv(p)',
         \A q \in Pipes \ {p} : SameFor(q)
  PROVE  IInv'
<1>1. ASSUME NEW q \in Pipes PROVE PipeInv(q)' /\ OrderInv(q)' /\ OnceInv(q)'
  <2>1. CASE q = p
    BY <2>1
  <2>2. CASE q # p
    <3>1. SameFor(q) /\ PipeInv(q) /\ OrderInv(q) /\ OnceInv(q)
      BY <2>2 DEF IInv
    <3> QED
      BY <3>1, Elsewhere
  <2> QED
    BY <2>1, <2>2
<1> QED
  BY <1>1 DEF IInv

LEMMA Step == TypeOK /\ IInv /\ [Next]_vars => TypeOK' /\ IInv'
<1> SUFFICES ASSUME TypeOK, IInv, [Next]_vars PROVE TypeOK' /\ IInv'
  OBVIOUS
<1>1. \A p \in Pipes : PipeInv(p) /\ OrderInv(p) /\ OnceInv(p) /\ QueueInv(p) /\ SessionInv(p)
  BY DEF IInv, OrderInv
<1>2. CASE UNCHANGED vars
  <2>1. TypeOK'
    BY <1>2 DEF vars, TypeOK
  <2>2. \A p \in Pipes : SameFor(p)
    BY <1>2 DEF vars, SameFor
  <2> QED
    BY <1>1, <2>1, <2>2, Elsewhere DEF IInv
<1>3. ASSUME NEW p \in Pipes, Connect(p) PROVE TypeOK' /\ IInv'
  <2>1. TypeOK' /\ PipeInv(p)' /\ \A q \in Pipes \ {p} : SameFor(q)
    BY <1>1, <1>3, ConnectPipe
  <2> QED
    BY <1>1, <1>3, <2>1, ConnectOrder, ConnectOnce, OnlyHere
<1>4. ASSUME NEW p \in Pipes, Hangup(p) PROVE TypeOK' /\ IInv'
  <2>1. TypeOK' /\ PipeInv(p)' /\ \A q \in Pipes \ {p} : SameFor(q)
    BY <1>1, <1>4, HangupPipe
  <2> QED
    BY <1>1, <1>4, <2>1, HangupOrder, HangupOnce, OnlyHere
<1>5. ASSUME NEW p \in Pipes, NEW l \in Lines, Say(p, l) PROVE TypeOK' /\ IInv'
  <2>0. l \in Line
    BY LinesAssumption
  <2>1. TypeOK' /\ PipeInv(p)' /\ \A q \in Pipes \ {p} : SameFor(q)
    BY <1>1, <1>5, <2>0, SayPipe
  <2> QED
    BY <1>1, <1>5, <2>0, <2>1, SayOrder, SayOnce, OnlyHere
<1>6. ASSUME NEW p \in Pipes, Emit(p) PROVE TypeOK' /\ IInv'
  <2>1. TypeOK' /\ PipeInv(p)' /\ \A q \in Pipes \ {p} : SameFor(q)
    BY <1>1, <1>6, EmittedPipe
  <2> QED
    BY <1>1, <1>6, <2>1, EmitOrder, EmitOnce, OnlyHere
<1>7. ASSUME NEW p \in Pipes, Forget(p) PROVE TypeOK' /\ IInv'
  <2>1. TypeOK' /\ PipeInv(p)' /\ \A q \in Pipes \ {p} : SameFor(q)
    BY <1>1, <1>7, ForgetPipe
  <2>2. OrderInv(p)' /\ Out(p)' = Out(p)
    BY <1>1, <1>7, ForgetOrder
  <2> QED
    BY <1>1, <1>7, <2>1, <2>2, ForgetOnce, OnlyHere
<1>8. ASSUME NEW p \in Pipes, TellClosed(p) PROVE TypeOK' /\ IInv'
  <2>1. TypeOK' /\ PipeInv(p)' /\ \A q \in Pipes \ {p} : SameFor(q)
    BY <1>1, <1>8, TellClosedPipe
  <2>2. OrderInv(p)' /\ Out(p)' = Out(p)
    BY <1>1, <1>8, TellClosedOrder
  <2> QED
    BY <1>1, <1>8, <2>1, <2>2, TellClosedOnce, OnlyHere
<1>9. ASSUME TypeOK', \A q \in Pipes : Announcement(q) PROVE IInv'
  <2>1. ASSUME NEW q \in Pipes PROVE PipeInv(q)' /\ OrderInv(q)' /\ OnceInv(q)'
    <3>1. Announcement(q) /\ TypeOK'
      BY <1>9
    <3>2. PipeInv(q)' /\ Out(q)' = Out(q)
      BY <1>1, <3>1, AnnouncedPipe
    <3> QED
      BY <1>1, <3>1, <3>2, AnnouncedOrder, AnnouncedOnce
  <2> QED
    BY <2>1 DEF IInv
<1>10. ASSUME NEW p \in Pipes, ServeAnnounces(p) PROVE TypeOK' /\ IInv'
  BY <1>1, <1>9, <1>10, ServeAnnouncesPipes
<1>11. CASE ListenAnnounces
  BY <1>1, <1>9, <1>11, ListenAnnouncesPipes
<1>12. CASE Listen
  <2>1. TypeOK' /\ \A q \in Pipes : Listening(q)
    BY <1>12, ListenPipes
  <2>2. ASSUME NEW q \in Pipes PROVE PipeInv(q)' /\ OrderInv(q)' /\ OnceInv(q)'
    <3>1. PipeInv(q)' /\ Out(q)' = Out(q)
      BY <1>1, <2>1, ListeningPipe
    <3> QED
      BY <1>1, <2>1, <3>1, ListeningOrder, ListeningOnce
  <2> QED
    BY <2>1, <2>2 DEF IInv
<1>13. CASE Reload
  <2>1. TypeOK' /\ \A q \in Pipes : Reloading(q)
    BY <1>13, ReloadPipes
  <2>2. ASSUME NEW q \in Pipes PROVE PipeInv(q)' /\ OrderInv(q)' /\ OnceInv(q)'
    <3>1. PipeInv(q)' /\ Out(q)' = Out(q)
      BY <1>1, <2>1, ReloadingPipe
    <3> QED
      BY <1>1, <2>1, <3>1, ReloadingOrder, ReloadingOnce
  <2> QED
    BY <2>1, <2>2 DEF IInv
<1>14. ASSUME NEW p \in Pipes, Deliver(p) PROVE TypeOK' /\ IInv'
  <2>1. TypeOK' /\ PipeInv(p)' /\ \A q \in Pipes \ {p} : SameFor(q)
    BY <1>1, <1>14, DeliverPipe
  <2> QED
    BY <1>1, <1>14, <2>1, DeliverOrder, DeliverOnce, OnlyHere
<1>15. ASSUME NEW p \in Pipes, CreateFails(p) PROVE TypeOK' /\ IInv'
  <2>1. TypeOK' /\ PipeInv(p)' /\ \A q \in Pipes \ {p} : SameFor(q)
    BY <1>1, <1>15, CreateFailsPipe
  <2> QED
    BY <1>1, <1>15, <2>1, CreateFailsOrder, CreateFailsOnce, OnlyHere
<1>16. ASSUME NEW p \in Pipes, Ready(p) PROVE TypeOK' /\ IInv'
  <2>1. TypeOK' /\ PipeInv(p)' /\ \A q \in Pipes \ {p} : SameFor(q)
    BY <1>1, <1>16, ReadyPipe
  <2>2. ServerStep(p)
    BY <1>1, <1>16, ServerSteps
  <2> QED
    BY <1>1, <1>16, <2>1, <2>2, ServerStepOrder, ReadyOnce, OnlyHere
<1>17. ASSUME NEW p \in Pipes, ConnectServer(p) PROVE TypeOK' /\ IInv'
  <2>1. TypeOK' /\ PipeInv(p)' /\ \A q \in Pipes \ {p} : SameFor(q)
    BY <1>1, <1>17, ConnectServerPipe
  <2>2. ServerStep(p)
    BY <1>1, <1>17, ServerSteps
  <2> QED
    BY <1>1, <1>17, <2>1, <2>2, ServerStepOrder, ConnectServerOnce, OnlyHere
<1>18. ASSUME NEW p \in Pipes, NEW r \in Request, LookedUp(p, r) PROVE TypeOK' /\ IInv'
  <2>1. TypeOK' /\ PipeInv(p)' /\ \A q \in Pipes \ {p} : SameFor(q)
    BY <1>1, <1>18, LookedUpPipe
  <2>2. ServerStep(p)
    BY <1>1, <1>18, ServerSteps
  <2> QED
    BY <1>1, <1>18, <2>1, <2>2, ServerStepOrder, LookedUpOnce, OnlyHere
<1>19. ASSUME NEW p \in Pipes, NEW r \in Request, Answer(p, r) PROVE TypeOK' /\ IInv'
  <2>1. TypeOK' /\ PipeInv(p)' /\ \A q \in Pipes \ {p} : SameFor(q)
    BY <1>1, <1>19, AnswerPipe
  <2>2. ServerStep(p)
    BY <1>1, <1>19, ServerSteps
  <2> QED
    BY <1>1, <1>19, <2>1, <2>2, ServerStepOrder, AnswerOnce, OnlyHere
<1> QED
  BY <1>2, <1>3, <1>4, <1>5, <1>6, <1>7, <1>8, <1>10, <1>11, <1>12, <1>13, <1>14,
     <1>15, <1>16, <1>17, <1>18, <1>19 DEF Next, PageNext, RelayNext, AgentNext

LEMMA Invariant == Spec => [](TypeOK /\ IInv)
<1>1. Init => TypeOK /\ IInv
  BY InitInv
<1>2. TypeOK /\ IInv /\ [Next]_vars => (TypeOK /\ IInv)'
  BY Step
<1> QED
  BY <1>1, <1>2, PTL DEF Spec

(* The relay, the agents and the page's servers keep to their types.       *)
THEOREM TypeCorrect == Spec => []TypeOK
BY Invariant, PTL

(***************************************************************************)
(* However emit, announce_held and mcp_listen take turns at the lock and   *)
(* however often the page is reloaded, it hears of a pipe once before it   *)
(* hears of its lines, and each server is given them in their order.       *)
(***************************************************************************)
THEOREM OrderTheorem == Spec => MessagesInOrder
<1> DEFINE A == \A p \in Pipes : Heard(p) =>
                  LET e == Head(channel[p])
                      s == servers[p]
                  IN /\ e.kind = "open" => s = None
                     /\ e.kind = "message" =>
                          IF s = None THEN sessions[p] = None
                          ELSE e.id = s.got + 1 \/ (s.resumed /\ s.got = 0)
<1>1. TypeOK /\ IInv => A
  <2> SUFFICES ASSUME TypeOK, IInv, NEW p \in Pipes, Heard(p)
               PROVE  LET e == Head(channel[p])
                          s == servers[p]
                      IN /\ e.kind = "open" => s = None
                         /\ e.kind = "message" =>
                              IF s = None THEN sessions[p] = None
                              ELSE e.id = s.got + 1 \/ (s.resumed /\ s.got = 0)
    OBVIOUS
  <2>1. channel[p] # <<>> /\ Head(channel[p]) = channel[p][1]
    BY HeadTailProperties DEF Heard, TypeOK
  <2>2. QueueInv(p)
    BY DEF IInv, OrderInv
  <2> QED
    BY <2>1, <2>2 DEF QueueInv, IsOpen, IsMessage, NextIs
<1> HIDE DEF A
<1>2. [](TypeOK /\ IInv) => [][A]_vars
  BY <1>1, PTL
<1>3. Spec => [][A]_vars
  BY <1>2, Invariant, PTL
<1> QED
  BY <1>3 DEF MessagesInOrder, A

(***************************************************************************)
(* A line that is replayed to a server, and given to it as a message too,  *)
(* is answered to the agent at most once.                                  *)
(***************************************************************************)
THEOREM OnceTheorem == Spec => []AnsweredOnce
<1>1. IInv => AnsweredOnce
  BY DEF IInv, OnceInv, AnswersInv, AnsweredOnce
<1> QED
  BY <1>1, Invariant, PTL

-----------------------------------------------------------------------------
(* Films and roots.  What is said here of them is said of an agent's lines *)
(* l and of the number n of them that emit was called with.                *)

\* The last `open`, while a replay has it.
Due(l) == {i \in Opens(l) : /\ IsLast(i, Opens(l))
                            /\ Cardinality({j \in Calls(l) : j > i}) < StateKept}

\* The last line of s that is in C is k, the latest of them; none is if k is 0.
LastIn(C, s, k) ==
  /\ \A i \in DOMAIN s : s[i] \in C => s[i] <= k
  /\ \/ k = 0 /\ \A i \in DOMAIN s : s[i] \notin C
     \/ \E i \in DOMAIN s : /\ s[i] = k /\ k \in C
                            /\ \A j \in DOMAIN s : j > i => s[j] \notin C
Lasts(l, s, k, m) == LastIn(Opens(l), s, k) /\ LastIn(Calls(l), s, m)

\* The calls that are kept in t: the latest of C, in their order.
Keeps(C, t) ==
  /\ Len(t) <= StateKept
  /\ \A i \in DOMAIN t : t[i] \in C
  /\ \A i, j \in DOMAIN t : i < j => t[i] < t[j]
  /\ \A c \in C : \/ \E i \in DOMAIN t : t[i] = c
                  \/ Len(t) = StateKept /\ \A i \in DOMAIN t : c < t[i]
KeepsCalls(l, s) ==
  /\ \A i \in DOMAIN s.handshake : s.handshake[i] \notin Calls(l)
  /\ Keeps(Calls(l), s.state)

\* What is in D after line k is still on its way: in q, or at emit.
Rest(C, D, n, k, q) ==
  /\ k = 0 \/ k \in C
  /\ \A i \in D : i > k => i > n \/ \E j \in DOMAIN q : IsMessage(q[j]) /\ q[j].id = i
  /\ \A j \in DOMAIN q : IsMessage(q[j]) => q[j].id >= k
Rests(l, n, k, m, q) ==
  Rest(Opens(l), Due(l), n, k, q) /\ Rest(Calls(l), Calls(l), n, m, q)

FilmAt(l, k) == IF k = 0 THEN None ELSE l[k].film

IdsOf(rs) == [i \in DOMAIN rs |-> rs[i].id]
WaitingIds(s) == IdsOf(s.waiting)

(***************************************************************************)
(* Server s has the film of line k, or will have it when it is connected   *)
(* and has looked the root up; and the root of line m.                     *)
(***************************************************************************)
Took(l, s, k, m) ==
  /\ s.phase = "starting" => s.waiting = <<>> /\ Lasts(l, s.replay, k, m)
  /\ s.phase = "answering" => Lasts(l, WaitingIds(s), k, m)
  /\ s.phase = "on" =>
       /\ \A r \in s.looking : r.id <= k
       /\ s.film = FilmAt(l, k) \/ \E r \in s.looking : r.id = k
       /\ AllNameRoots(l) /\ k # 0 /\ m # 0 => s.roots[l[k].film] = l[m].root

\* With q, server s comes to the film and the root that were given last.
Has(l, n, s, q) ==
  \E k, m \in 0..Len(l) : Took(l, s, k, m) /\ Rests(l, n, k, m, q)

\* So does the server that q begins with.
Begins(l, n, q) ==
  q # <<>> /\ IsOpen(q[1]) =>
    \E k, m \in 0..Len(l) : Lasts(l, q[1].replay, k, m) /\ Rests(l, n, k, m, q)

StateInv(p) == sessions[p] # None => KeepsCalls(said[p], sessions[p])
FilmInv(p) ==
  args[p] = None /\ EarlierNameRoots(said[p]) /\ sessions[p] # None =>
    /\ ~sessions[p].announced => Begins(said[p], Out(p), sessions[p].held)
    /\ Begins(said[p], Out(p), channel[p])
    /\ servers[p] # None => Has(said[p], Out(p), servers[p], channel[p])

LeftInv(p) == StateInv(p) /\ FilmInv(p)
Left == \A p \in Pipes : LeftInv(p)
-----------------------------------------------------------------------------
(* Data: lines, what is kept of them, and the last of them.                *)

LEMMA LeftElsewhere ==
  ASSUME NEW q \in Pipes, SameFor(q), LeftInv(q)
  PROVE  LeftInv(q)'
<1>1. Out(q)' = Out(q)
  BY DEF SameFor, Out
<1> QED
  BY <1>1 DEF SameFor, LeftInv, StateInv, FilmInv

LEMMA CallTypes ==
  ASSUME NEW l \in Seq(Line)
  PROVE  /\ Opens(l) \subseteq Calls(l) /\ Calls(l) \subseteq 1..Len(l)
         /\ Due(l) \subseteq Opens(l) /\ Len(l) \in Nat /\ DOMAIN l = 1..Len(l)
         /\ \A i \in Opens(l) : l[i].film \in Films /\ l[i].film # None
         /\ \A i \in DOMAIN l : i \in Calls(l) /\ i \notin Opens(l) => l[i].root # None
         /\ \A i \in DOMAIN l : l[i].root # None => i \in Calls(l)
         /\ \A i \in DOMAIN l : i \in Opens(l) <=> OpensAtOnce(l[i]) \/ LooksUp(l[i])
         /\ \A i \in DOMAIN l : OpensAtOnce(l[i]) <=> i \in Opens(l) /\ l[i].root # None
<1>1. Len(l) \in Nat /\ DOMAIN l = 1..Len(l) /\ \A i \in DOMAIN l : l[i] \in Line
  BY LenProperties, ElementOfSeq
<1>2. \A x \in Line : /\ x.op = "open" => x.film \in Films /\ x.film # None
                      /\ x.op = "set_root" => x.root # None
                      /\ x.root # None => x.op \in STATEFUL
  BY RelayAssumption DEF Line, STATEFUL
<1> QED
  BY <1>1, <1>2 DEF Opens, Calls, Due, Stateful, STATEFUL, OpensAtOnce, LooksUp

\* Lines already said are what they were when another is said.
LEMMA SaidMore ==
  ASSUME NEW l \in Seq(Line), NEW m \in Seq(Line), Len(m) = Len(l) + 1,
         \A i \in DOMAIN l : m[i] = l[i]
  PROVE  /\ \A i \in DOMAIN l : (i \in Opens(m) <=> i \in Opens(l))
                                /\ (i \in Calls(m) <=> i \in Calls(l))
         /\ Len(m) \in Calls(m) <=> Stateful(m[Len(m)])
         /\ Opens(l) \subseteq Opens(m) /\ Calls(l) \subseteq Calls(m)
         /\ Calls(m) \subseteq Calls(l) \cup {Len(m)}
         /\ Due(m) \subseteq Due(l) \cup {Len(m)}
         /\ EarlierNameRoots(m) => EarlierNameRoots(l)
         /\ AllNameRoots(m) => AllNameRoots(l)
<1>1. /\ DOMAIN l = 1..Len(l) /\ Len(l) \in Nat /\ DOMAIN m = 1..(Len(l) + 1)
      /\ DOMAIN l \subseteq DOMAIN m
  BY LenProperties
<1>2. \A i \in DOMAIN l : (i \in Opens(m) <=> i \in Opens(l))
                          /\ (i \in Calls(m) <=> i \in Calls(l))
  BY <1>1 DEF Opens, Calls
<1>3. Len(m) \in Calls(m) <=> Stateful(m[Len(m)])
  BY <1>1 DEF Calls
<1>4. /\ Opens(l) \subseteq DOMAIN l /\ Calls(l) \subseteq DOMAIN l
      /\ Opens(m) \subseteq DOMAIN m /\ Calls(m) \subseteq DOMAIN m
  BY DEF Opens, Calls
<1>5. Opens(l) \subseteq Opens(m) /\ Calls(l) \subseteq Calls(m)
  BY <1>2, <1>4
<1>6. \A i \in DOMAIN m : i \in DOMAIN l \/ i = Len(m)
  BY <1>1
<1>7. Calls(m) \subseteq Calls(l) \cup {Len(m)}
  BY <1>2, <1>4, <1>6
<1>8. ASSUME NEW i \in Due(m), i # Len(m) PROVE i \in Due(l)
  <2> DEFINE S == {j \in Calls(l) : j > i}
             T == {j \in Calls(m) : j > i}
  <2>1. i \in Opens(m) /\ IsLast(i, Opens(m)) /\ Cardinality(T) < StateKept
    BY <1>8 DEF Due
  <2>2. i \in Opens(l) /\ IsLast(i, Opens(l))
    BY <1>2, <1>4, <1>5, <1>6, <1>8, <2>1 DEF IsLast
  <2>3. IsFiniteSet(T)
    <3>1. IsFiniteSet(1..(Len(l) + 1))
      BY <1>1, FS_Interval
    <3>2. T \subseteq 1..(Len(l) + 1)
      BY <1>1, <1>4
    <3> QED
      BY <3>1, <3>2, FS_Subset
  <2>4. S \subseteq T
    BY <1>5
  <2> HIDE DEF S, T
  <2>5. Cardinality(S) <= Cardinality(T) /\ Cardinality(S) \in Nat /\ Cardinality(T) \in Nat
    BY <2>3, <2>4, FS_Subset, FS_CardinalityType
  <2>6. Cardinality(S) < StateKept
    BY <2>1, <2>5, RelayAssumption
  <2> QED
    BY <2>2, <2>6 DEF Due, S
<1>9. EarlierNameRoots(m) => EarlierNameRoots(l)
  BY <1>4, <1>5 DEF EarlierNameRoots, IsLast
<1>10. AllNameRoots(m) => AllNameRoots(l)
  BY <1>4, <1>5 DEF AllNameRoots
<1> QED
  BY <1>2, <1>3, <1>5, <1>7, <1>8, <1>9, <1>10

\* What is last in s depends on what of s is in C.
LEMMA LastOfSame ==
  ASSUME NEW C, NEW D, NEW s, NEW k, LastIn(C, s, k),
         \A i \in DOMAIN s : s[i] \in C <=> s[i] \in D
  PROVE  LastIn(D, s, k)
BY DEF LastIn

\* One more call: the latest are kept.
LEMMA LatestKeeps ==
  ASSUME NEW C \in SUBSET Ids, NEW t \in Seq(Ids), Keeps(C, t),
         NEW id \in Ids, \A c \in C : c < id
  PROVE  Keeps(C \cup {id}, Latest(Append(t, id)))
<1> DEFINE a == Append(t, id)
           n == Len(t)
<1>1. /\ a \in Seq(Ids) /\ Len(a) = n + 1 /\ n \in Nat /\ a # <<>>
      /\ DOMAIN a = 1..(n + 1) /\ DOMAIN t = 1..n
      /\ \A i \in 1..n : a[i] = t[i]
      /\ a[n + 1] = id
  BY AppendProperties, LenProperties
<1>0. C \subseteq Nat /\ id \in Nat /\ StateKept \in Nat \ {0} /\ n <= StateKept
  BY RelayAssumption DEF Ids, Keeps
<1> HIDE DEF a, n
<1>2. \A i \in DOMAIN a : a[i] \in C \cup {id}
  BY <1>1 DEF Keeps
<1>3. \A i, j \in DOMAIN a : i < j => a[i] < a[j]
  <2> SUFFICES ASSUME NEW i \in DOMAIN a, NEW j \in DOMAIN a, i < j PROVE a[i] < a[j]
    OBVIOUS
  <2>1. i \in 1..n /\ a[i] = t[i] /\ t[i] \in C
    BY <1>1 DEF Keeps
  <2>2. CASE j = n + 1
    BY <1>1, <2>1, <2>2
  <2>3. CASE j # n + 1
    <3>1. j \in 1..n /\ a[j] = t[j]
      BY <1>1, <2>3
    <3> QED
      BY <1>1, <2>1, <3>1 DEF Keeps
  <2> QED
    BY <2>2, <2>3
<1>4. CASE n + 1 > StateKept
  <2> DEFINE b == Tail(a)
  <2>1. /\ b \in Seq(Ids) /\ Len(b) = n /\ Latest(a) = b
        /\ \A i \in 1..n : b[i] = a[i + 1]
    BY <1>1, <1>4, HeadTailProperties DEF Latest
  <2>2. DOMAIN b = 1..n /\ n = StateKept
    BY <1>0, <1>1, <1>4, <2>1, LenProperties
  <2> HIDE DEF b
  <2>3. \A i \in 1..n : i + 1 \in DOMAIN a
    BY <1>1
  <2>4. \A i \in DOMAIN b : b[i] \in C \cup {id}
    BY <1>2, <2>1, <2>2, <2>3
  <2>5. \A i, j \in DOMAIN b : i < j => b[i] < b[j]
    <3> SUFFICES ASSUME NEW i \in DOMAIN b, NEW j \in DOMAIN b, i < j PROVE b[i] < b[j]
      OBVIOUS
    <3>1. i + 1 < j + 1 /\ i + 1 \in DOMAIN a /\ j + 1 \in DOMAIN a
      BY <2>2, <2>3
    <3> QED
      BY <1>3, <2>1, <2>2, <3>1
  <2>6. ASSUME NEW c \in C \cup {id}
        PROVE  (\E i \in DOMAIN b : b[i] = c) \/ \A i \in DOMAIN b : c < b[i]
    <3>1. \A i \in 2..(n + 1) : i - 1 \in DOMAIN b /\ b[i - 1] = a[i]
      <4> SUFFICES ASSUME NEW i \in 2..(n + 1) PROVE i - 1 \in DOMAIN b /\ b[i - 1] = a[i]
        OBVIOUS
      <4>1. i - 1 \in 1..n /\ (i - 1) + 1 = i
        BY <1>1
      <4> QED
        BY <2>1, <2>2, <4>1
    <3>2. CASE c = id
      BY <1>0, <1>1, <2>2, <3>1, <3>2
    <3>3. ASSUME NEW j \in DOMAIN t, t[j] = c PROVE (\E i \in DOMAIN b : b[i] = c) \/ \A i \in DOMAIN b : c < b[i]
      <4>1. CASE j = 1
        <5>1. 1 \in DOMAIN a /\ a[1] = c
          BY <1>1, <3>3, <4>1
        <5>2. \A i \in DOMAIN b : i + 1 \in DOMAIN a /\ 1 < i + 1 /\ b[i] = a[i + 1]
          BY <1>1, <2>1, <2>2, <2>3
        <5> QED
          BY <1>3, <5>1, <5>2
      <4>2. CASE j # 1
        <5>1. j \in 2..(n + 1) /\ a[j] = c
          BY <1>1, <3>3, <4>2
        <5> QED
          BY <3>1, <5>1
      <4> QED
        BY <4>1, <4>2
    <3>4. ASSUME c \in C, \A i \in DOMAIN t : c < t[i] PROVE \A i \in DOMAIN b : c < b[i]
      <4>1. \A i \in DOMAIN a : c < a[i]
        BY <1>1, <3>4
      <4> QED
        BY <2>1, <2>2, <2>3, <4>1
    <3> QED
      BY <3>2, <3>3, <3>4 DEF Keeps
  <2>7. Keeps(C \cup {id}, b)
    BY <1>0, <2>1, <2>2, <2>4, <2>5, <2>6 DEF Keeps
  <2> QED
    BY <2>1, <2>7 DEF a
<1>5. CASE ~(n + 1 > StateKept)
  <2>1. Latest(a) = a
    BY <1>1, <1>5 DEF Latest
  <2>2. ASSUME NEW c \in C \cup {id} PROVE \E i \in DOMAIN a : a[i] = c
    <3>1. CASE c = id
      BY <1>1, <3>1
    <3>2. CASE c \in C
      <4>1. n # StateKept
        BY <1>0, <1>1, <1>5
      <4>2. PICK i \in DOMAIN t : t[i] = c
        BY <3>2, <4>1 DEF Keeps, n
      <4>3. i \in DOMAIN a /\ a[i] = c
        BY <1>1, <4>2
      <4> QED
        BY <4>3
    <3> QED
      BY <3>1, <3>2
  <2>3. Len(a) <= StateKept
    BY <1>0, <1>1, <1>5
  <2>4. Keeps(C \cup {id}, a)
    BY <1>2, <1>3, <2>2, <2>3 DEF Keeps
  <2> QED
    BY <2>1, <2>4 DEF a
<1> QED
  BY <1>0, <1>1, <1>4, <1>5

\* So the last call is kept, and an `open` that is due.
LEMMA LastKept ==
  ASSUME NEW l \in Seq(Line), NEW t \in Seq(Ids), Keeps(Calls(l), t)
  PROVE  \E k, m \in 0..Len(l) : /\ Lasts(l, t, k, m)
                                 /\ \A i \in Due(l) : i <= k
                                 /\ \A i \in Calls(l) : i <= m
<1> DEFINE C == Calls(l)
           P == {i \in DOMAIN t : t[i] \in Opens(l)}
           n == Len(t)
<1>1. /\ Opens(l) \subseteq C /\ C \subseteq 1..Len(l) /\ Due(l) \subseteq Opens(l)
      /\ Len(l) \in Nat /\ n \in Nat /\ DOMAIN t = 1..n
  BY CallTypes, LenProperties
<1>2. StateKept \in Nat \ {0}
  BY RelayAssumption
<1>0. 0 \in 0..Len(l) /\ 1..Len(l) \subseteq 0..Len(l) /\ 1..Len(l) \subseteq Nat
  BY <1>1
<1> HIDE DEF C, n
<1>3. /\ \A i \in DOMAIN t : t[i] \in C
      /\ \A i, j \in DOMAIN t : i < j => t[i] < t[j]
      /\ \A c \in C : (\E i \in DOMAIN t : t[i] = c)
                      \/ (n = StateKept /\ \A i \in DOMAIN t : c < t[i])
  BY DEF Keeps, C, n
<1>8. C \subseteq Nat /\ DOMAIN t \subseteq Nat
  <2>1. C \subseteq Nat
    BY <1>0, <1>1
  <2>2. DOMAIN t \subseteq Nat
    BY <1>1
  <2> QED
    BY <2>1, <2>2
<1>9. \A i, j \in DOMAIN t : i <= j => t[i] <= t[j]
  <2> SUFFICES ASSUME NEW i \in DOMAIN t, NEW j \in DOMAIN t, i <= j PROVE t[i] <= t[j]
    OBVIOUS
  <2>1. t[i] \in Nat /\ t[j] \in Nat /\ i \in Nat /\ j \in Nat
    BY <1>3, <1>8
  <2>2. i = j \/ i < j
    BY <2>1
  <2> QED
    BY <1>3, <2>1, <2>2
<1>4. \E m \in 0..Len(l) : LastIn(C, t, m) /\ \A i \in C : i <= m
  <2>1. CASE n = 0
    <3>1. DOMAIN t = {} /\ n # StateKept
      BY <1>1, <1>2, <2>1
    <3>2. C = {}
      BY <1>3, <3>1
    <3> QED
      BY <1>0, <3>1, <3>2 DEF LastIn
  <2>2. CASE n # 0
    <3>1. n \in DOMAIN t /\ \A i \in DOMAIN t : i <= n /\ ~(i > n)
      BY <1>1, <2>2
    <3>2. t[n] \in C /\ t[n] \in 0..Len(l) /\ \A i \in DOMAIN t : t[i] <= t[n]
      BY <1>0, <1>1, <1>3, <1>9, <3>1
    <3>3. LastIn(C, t, t[n])
      BY <3>1, <3>2 DEF LastIn
    <3>4. ASSUME NEW c \in C PROVE c <= t[n]
      <4>1. CASE \E i \in DOMAIN t : t[i] = c
        BY <3>2, <4>1
      <4>2. CASE c < t[n]
        BY <1>0, <1>1, <3>2, <4>2
      <4> QED
        BY <1>3, <3>1, <4>1, <4>2
    <3> QED
      BY <3>2, <3>3, <3>4
  <2> QED
    BY <2>1, <2>2
<1>5. ASSUME NEW d \in Due(l) PROVE \E i \in P : t[i] = d
  <2>1. d \in Opens(l) /\ d \in C /\ Cardinality({j \in C : j > d}) < StateKept
    BY <1>1 DEF Due, C
  <2> DEFINE F == {j \in C : j > d}
  <2>2. SUFFICES ASSUME n = StateKept, \A i \in DOMAIN t : d < t[i] PROVE FALSE
    BY <1>3, <2>1
  <2>3. t \in [1..n -> F] /\ \A i, j \in 1..n : t[i] = t[j] => i = j
    <3>1. t \in [1..n -> Ids]
      BY LenProperties DEF n
    <3>2. \A i \in 1..n : t[i] \in F
      <4> SUFFICES ASSUME NEW i \in DOMAIN t PROVE t[i] \in C /\ t[i] > d
        BY <1>1
      <4>1. t[i] \in Nat /\ t[i] \in C /\ d \in Nat /\ d < t[i]
        BY <1>3, <1>8, <2>1, <2>2
      <4> QED
        BY <4>1
    <3>3. ASSUME NEW i \in 1..n, NEW j \in 1..n, t[i] = t[j] PROVE i = j
      <4>1. ~(t[i] < t[j]) /\ ~(t[j] < t[i])
        <5>1. t[i] \in Nat
          BY <1>1, <1>3, <1>8
        <5> QED
          BY <3>3, <5>1
      <4>2. ~(i < j) /\ ~(j < i)
        BY <1>1, <1>3, <4>1
      <4> QED
        BY <4>2
    <3> HIDE DEF F
    <3> QED
      BY <3>1, <3>2, <3>3
  <2>4. IsFiniteSet(F)
    <3>1. IsFiniteSet(1..Len(l))
      BY <1>1, FS_Interval
    <3>2. F \subseteq 1..Len(l)
      BY <1>1
    <3> QED
      BY <3>1, <3>2, FS_Subset
  <2>5. Cardinality(F) < StateKept
    BY <2>1
  <2> HIDE DEF F
  <2>6. IsFiniteSet(1..n) /\ Cardinality(1..n) = n
    BY <1>1, FS_Interval
  <2>7. Cardinality(1..n) <= Cardinality(F)
    <3>1. t \in Injection(1..n, F)
      BY <2>3, Fun_IsInj
    <3> QED
      BY <2>4, <3>1, FS_Injection
  <2>8. Cardinality(F) \in Nat
    BY <2>4, FS_CardinalityType
  <2> QED
    BY <1>1, <1>2, <2>2, <2>5, <2>6, <2>7, <2>8
<1>6. \E k \in 0..Len(l) : LastIn(Opens(l), t, k) /\ \A i \in Due(l) : i <= k
  <2>1. CASE P = {}
    BY <1>0, <1>5, <2>1 DEF LastIn
  <2>2. CASE P # {}
    <3>1. P \subseteq 1..n
      BY <1>1
    <3>2. PICK i \in P : \A j \in P : j <= i
      <4> HIDE DEF P
      <4> QED
        BY <1>1, <2>2, <3>1, MaxIs
    <3>3. i \in DOMAIN t /\ t[i] \in Opens(l) /\ t[i] \in 0..Len(l)
      BY <1>0, <1>1, <1>3
    <3>4. \A j \in P : t[j] <= t[i]
      BY <1>9, <3>2, <3>3
    <3>5. \A j \in DOMAIN t : j > i => t[j] \notin Opens(l)
      BY <1>1, <3>2, <3>3
    <3>6. LastIn(Opens(l), t, t[i])
      BY <3>3, <3>4, <3>5 DEF LastIn
    <3> QED
      BY <1>5, <3>3, <3>4, <3>6
  <2> QED
    BY <2>1, <2>2
<1> QED
  BY <1>4, <1>6 DEF Lasts, C

\* A handshake in front has nothing of C.
LEMMA LastOfReplay ==
  ASSUME NEW C, NEW h \in Seq(Ids), NEW s \in Seq(Ids), NEW k,
         \A i \in DOMAIN h : h[i] \notin C, LastIn(C, s, k)
  PROVE  LastIn(C, h \o s, k)
<1> DEFINE r == h \o s
<1>1. /\ DOMAIN h = 1..Len(h) /\ DOMAIN s = 1..Len(s) /\ Len(h) \in Nat /\ Len(s) \in Nat
      /\ r \in Seq(Ids) /\ Len(r) = Len(h) + Len(s)
      /\ \A i \in 1..(Len(h) + Len(s)) : r[i] = IF i <= Len(h) THEN h[i] ELSE s[i - Len(h)]
  BY ConcatProperties, LenProperties
<1>2. DOMAIN r = 1..(Len(h) + Len(s))
  BY <1>1, LenProperties
<1> HIDE DEF r
<1>3. \A i \in DOMAIN h : r[i] = h[i]
  BY <1>1
<1>4. \A i \in DOMAIN s : Len(h) + i \in DOMAIN r /\ r[Len(h) + i] = s[i]
  <2> SUFFICES ASSUME NEW i \in DOMAIN s
               PROVE  Len(h) + i \in DOMAIN r /\ r[Len(h) + i] = s[i]
    OBVIOUS
  <2>1. Len(h) + i \in 1..(Len(h) + Len(s)) /\ ~(Len(h) + i <= Len(h))
        /\ (Len(h) + i) - Len(h) = i
    BY <1>1
  <2> QED
    BY <1>1, <1>2, <2>1
<1>5. ASSUME NEW i \in DOMAIN r
      PROVE  i \in DOMAIN h \/ (i - Len(h) \in DOMAIN s /\ i = Len(h) + (i - Len(h)))
  BY <1>1, <1>2
<1>8. \A i \in DOMAIN r : r[i] \in C => r[i] <= k
  <2>1. \A i \in DOMAIN s : s[i] \in C => s[i] <= k
    BY DEF LastIn
  <2> QED
    BY <1>3, <1>4, <1>5, <2>1
<1>6. CASE k = 0 /\ \A i \in DOMAIN s : s[i] \notin C
  <2>1. ASSUME NEW i \in DOMAIN r PROVE r[i] \notin C
    BY <1>3, <1>4, <1>5, <1>6
  <2> QED
    BY <1>6, <1>8, <2>1 DEF LastIn, r
<1>7. CASE \E i \in DOMAIN s : /\ s[i] = k /\ k \in C
                               /\ \A j \in DOMAIN s : j > i => s[j] \notin C
  <2>1. PICK i \in DOMAIN s : /\ s[i] = k /\ k \in C
                              /\ \A j \in DOMAIN s : j > i => s[j] \notin C
    BY <1>7
  <2>2. ASSUME NEW j \in DOMAIN r, j > Len(h) + i PROVE r[j] \notin C
    <3>1. j \notin DOMAIN h
      BY <1>1, <2>2
    <3>2. j - Len(h) \in DOMAIN s /\ j = Len(h) + (j - Len(h))
      BY <1>5, <2>2, <3>1
    <3>3. j - Len(h) > i
      BY <1>1, <1>2, <2>2
    <3> QED
      BY <1>4, <2>1, <3>2, <3>3
  <2>3. Len(h) + i \in DOMAIN r /\ r[Len(h) + i] = k
    BY <1>4, <2>1
  <2> QED
    BY <1>8, <2>1, <2>2, <2>3 DEF LastIn, r
<1> QED
  BY <1>6, <1>7 DEF LastIn

-----------------------------------------------------------------------------
(* Each step.                                                              *)

LEMMA ConnectLeft ==
  ASSUME TypeOK, NEW p \in Pipes, PipeInv(p), LeftInv(p), Connect(p)
  PROVE  LeftInv(p)'
<1> DEFINE e == OpenEvent(FALSE, None)
           l == said[p]
           s == sessions'[p]
<1>1. e.replay = <<>> /\ IsOpen(e) /\ e \in Event
  BY OpenType
<1> HIDE DEF e
<1>2. l = <<>> /\ servers[p] = None /\ channel[p] = <<>>
  BY DEF PipeInv, StageInv, Connect
<1>3. /\ UNCHANGED <<said, args, answered, channel, servers>>
      /\ s.handshake = <<>> /\ s.state = <<>> /\ s.held = <<e>>
  BY DEF Connect, TypeOK, e
<1> HIDE DEF s
<1>4. DOMAIN l = {} /\ Len(l) = 0 /\ 0 \in 0..Len(l)
  BY <1>2
<1> HIDE DEF l
<1>5. Opens(l) = {} /\ Calls(l) = {} /\ Due(l) = {}
  BY <1>4 DEF Opens, Calls, Due
<1>6. Lasts(l, <<>>, 0, 0)
  BY DEF Lasts, LastIn
<1>7. KeepsCalls(l, s)
  BY <1>3, <1>5, RelayAssumption DEF KeepsCalls, Keeps
<1>8. ASSUME NEW n PROVE Begins(l, n, <<e>>)
  <2>1. <<e>>[1] = e /\ ~IsMessage(e) /\ \A i \in DOMAIN <<e>> : <<e>>[i] = e
    BY <1>1 DEF IsOpen, IsMessage
  <2>2. Rests(l, n, 0, 0, <<e>>)
    BY <1>5, <2>1 DEF Rests, Rest
  <2> QED
    BY <1>1, <1>4, <1>6, <2>1, <2>2 DEF Begins
<1>9. \A n : Begins(l, n, <<>>)
  BY DEF Begins
<1>10. StateInv(p)'
  BY <1>3, <1>7 DEF StateInv, l, s
<1>11. FilmInv(p)'
  BY <1>2, <1>3, <1>8, <1>9 DEF FilmInv, l, s
<1> QED
  BY <1>10, <1>11 DEF LeftInv

LEMMA HangupLeft ==
  ASSUME NEW p \in Pipes, LeftInv(p), Hangup(p)
  PROVE  LeftInv(p)'
<1>1. /\ UNCHANGED <<said, args, answered, sessions, channel, servers>>
      /\ Out(p)' = Out(p)
  BY DEF Hangup, Out
<1> QED
  BY <1>1 DEF LeftInv, StateInv, FilmInv

\* Nothing is to be known of a pipe without a session.
LEMMA LeftWithout ==
  ASSUME NEW p \in Pipes, sessions'[p] = None
  PROVE  LeftInv(p)'
BY DEF LeftInv, StateInv, FilmInv

LEMMA GoneLeft ==
  ASSUME TypeOK, NEW p \in Pipes, PipeInv(p), LeftInv(p),
         Forget(p) \/ TellClosed(p) \/ CreateFails(p)
  PROVE  LeftInv(p)'
<1>1. sessions'[p] = None
  BY ForgetPipe, TellClosedPipe, CreateFailsPipe
<1> QED
  BY <1>1, LeftWithout

LEMMA SayLeft ==
  ASSUME TypeOK, NEW p \in Pipes, PipeInv(p), LeftInv(p), NEW x \in Line, Say(p, x)
  PROVE  LeftInv(p)'
<1> DEFINE l == said[p]
           y == said'[p]
           n == Len(l)
           id == n + 1
<1>1. /\ l \in Seq(Line) /\ n \in Nat /\ DOMAIN l = 1..n /\ id \in Ids /\ Out(p) = n
      /\ DOMAIN y = 1..id /\ \A i \in DOMAIN l : y[i] = l[i]
      /\ y[id] = x /\ Len(y) = id /\ Out(p)' = n /\ y \in Seq(Line)
      /\ DOMAIN l \subseteq Ids
  <2>1. /\ TypeOK' /\ DOMAIN y = 1..id /\ \A i \in DOMAIN l : y[i] = l[i]
        /\ y[id] = x /\ Len(y) = id /\ Out(p)' = n /\ Out(p) = n
    BY SayPipe
  <2>2. l \in Seq(Line) /\ n \in Nat /\ DOMAIN l = 1..n /\ n < MaxLines /\ DOMAIN l \subseteq Ids
    BY SaidTypes DEF TypeOK, Say, MaySay
  <2> HIDE DEF l, y, n
  <2>3. n + 1 \in Ids
    BY <2>2, RelayAssumption DEF Ids
  <2>4. y \in Seq(Line)
    BY <2>1 DEF TypeOK, y
  <2> QED
    BY <2>1, <2>2, <2>3, <2>4
<1>2. /\ UNCHANGED <<channel, args, answered, servers>>
      /\ sessions'[p] = IF sessions[p] = None THEN None ELSE Kept(sessions[p], id, x)
  BY DEF Say, TypeOK
<1>3. /\ \A i \in DOMAIN l : (i \in Opens(y) <=> i \in Opens(l))
                             /\ (i \in Calls(y) <=> i \in Calls(l))
      /\ id \in Calls(y) <=> Stateful(x)
      /\ Opens(l) \subseteq Opens(y) /\ Calls(l) \subseteq Calls(y)
      /\ Calls(y) \subseteq Calls(l) \cup {id}
      /\ Due(y) \subseteq Due(l) \cup {id}
      /\ EarlierNameRoots(y) => EarlierNameRoots(l)
      /\ AllNameRoots(y) => AllNameRoots(l)
  <2> HIDE DEF l, y
  <2> QED
    BY <1>1, SaidMore
<1>4. /\ Opens(l) \subseteq 1..n /\ Calls(l) \subseteq 1..n /\ Calls(l) \subseteq DOMAIN l
      /\ Opens(l) \subseteq DOMAIN l /\ id > n /\ 0..n \subseteq 0..Len(y)
  <2>1. Opens(l) \subseteq Calls(l) /\ Calls(l) \subseteq 1..n
    BY <1>1, CallTypes
  <2> HIDE DEF l, y, n
  <2> QED
    BY <1>1, <2>1
<1>5. ASSUME NEW s, NEW k, NEW m, Lasts(l, s, k, m), Said(p, s) PROVE Lasts(y, s, k, m)
  <2>1. \A i \in DOMAIN s : (s[i] \in Opens(l) <=> s[i] \in Opens(y))
                            /\ (s[i] \in Calls(l) <=> s[i] \in Calls(y))
    BY <1>3, <1>5 DEF Said
  <2> QED
    BY <1>5, <2>1, LastOfSame DEF Lasts
<1>6. ASSUME NEW k, NEW m, NEW q, Rests(l, n, k, m, q) PROVE Rests(y, n, k, m, q)
  <2> HIDE DEF l, y, id
  <2>1. Rest(Opens(y), Due(y), n, k, q)
    <3>1. Rest(Opens(l), Due(l), n, k, q)
      BY <1>6 DEF Rests
    <3> QED
      BY <1>3, <1>4, <3>1 DEF Rest
  <2>2. Rest(Calls(y), Calls(y), n, m, q)
    <3>1. Rest(Calls(l), Calls(l), n, m, q)
      BY <1>6 DEF Rests
    <3> QED
      BY <1>3, <1>4, <3>1 DEF Rest
  <2> QED
    BY <2>1, <2>2 DEF Rests
<1>7. ASSUME NEW q, ReplayInv(p, q), Begins(l, n, q), q # <<>> => 1 \in DOMAIN q
      PROVE  Begins(y, n, q)
  <2>1. SUFFICES ASSUME q # <<>>, IsOpen(q[1])
                 PROVE  \E k, m \in 0..Len(y) : Lasts(y, q[1].replay, k, m)
                                                /\ Rests(y, n, k, m, q)
    BY DEF Begins
  <2>2. PICK k \in 0..n, m \in 0..n : Lasts(l, q[1].replay, k, m) /\ Rests(l, n, k, m, q)
    BY <1>7, <2>1 DEF Begins
  <2>3. Said(p, q[1].replay)
    BY <1>7, <2>1 DEF ReplayInv
  <2>4. Lasts(y, q[1].replay, k, m) /\ Rests(y, n, k, m, q)
    BY <1>5, <1>6, <2>2, <2>3
  <2> HIDE DEF l, y, n
  <2> QED
    BY <1>4, <2>2, <2>4
<1>8. ASSUME NEW s, ServerInv(p, s), Has(l, n, s, channel[p])
      PROVE  Has(y, n, s, channel[p])
  <2>1. PICK k \in 0..n, m \in 0..n : Took(l, s, k, m) /\ Rests(l, n, k, m, channel[p])
    BY <1>8 DEF Has
  <2>2. Said(p, s.replay) /\ Said(p, WaitingIds(s))
    BY <1>8 DEF ServerInv, Said, WaitingIds, IdsOf
  <2>3. (k # 0 => k \in DOMAIN l) /\ (m # 0 => m \in DOMAIN l)
    BY <1>4, <2>1 DEF Rests, Rest
  <2>4. FilmAt(y, k) = FilmAt(l, k)
    BY <1>1, <2>3 DEF FilmAt
  <2>5. s.phase = "on" /\ AllNameRoots(y) /\ k # 0 /\ m # 0
          => s.roots[y[k].film] = y[m].root
    <3>1. k # 0 /\ m # 0 => y[k] = l[k] /\ y[m] = l[m]
      BY <1>1, <2>3
    <3> HIDE DEF l, y
    <3> QED
      BY <1>3, <2>1, <3>1 DEF Took
  <2>6. Took(y, s, k, m)
    <3> HIDE DEF l, y
    <3> QED
      BY <1>5, <2>1, <2>2, <2>4, <2>5 DEF Took
  <2>7. Rests(y, n, k, m, channel[p])
    BY <1>6, <2>1
  <2> HIDE DEF l, y, n
  <2> QED
    BY <1>4, <2>1, <2>6, <2>7 DEF Has
<1>9. ASSUME NEW s \in Session, KeepsCalls(l, s), Said(p, s.handshake), Said(p, s.state)
      PROVE  KeepsCalls(y, Kept(s, id, x))
  <2> DEFINE t == Kept(s, id, x)
  <2>1. \A i \in DOMAIN t.handshake :
          \/ i \in DOMAIN s.handshake /\ t.handshake[i] = s.handshake[i]
          \/ t.handshake[i] = id /\ ~Stateful(x)
    BY <1>1, SayKept
  <2>2. t.state = IF Stateful(x) THEN Latest(Append(s.state, id)) ELSE s.state
    BY DEF Kept, Session, Stateful, STATEFUL
  <2> HIDE DEF t, id, l, y, n
  <2>3. \A i \in DOMAIN t.handshake : t.handshake[i] \notin Calls(y)
    BY <1>3, <1>9, <2>1 DEF KeepsCalls, Said, l
  <2>4. CASE Stateful(x)
    <3>1. Calls(y) = Calls(l) \cup {id}
      BY <1>3, <2>4
    <3>2. /\ Calls(l) \in SUBSET Ids /\ s.state \in Seq(Ids) /\ Keeps(Calls(l), s.state)
          /\ id \in Ids /\ \A c \in Calls(l) : c < id
      <4>1. \A c \in Calls(l) : c \in 1..n
        BY <1>4
      <4>2. \A c \in Calls(l) : c < id
        BY <1>1, <1>4, <4>1 DEF id
      <4> QED
        BY <1>1, <1>4, <1>9, <4>2 DEF KeepsCalls, Session, IdSeqs
    <3>3. Keeps(Calls(y), t.state)
      BY <2>2, <2>4, <3>1, <3>2, LatestKeeps
    <3> QED
      BY <2>3, <3>3 DEF KeepsCalls, t
  <2>5. CASE ~Stateful(x)
    <3>1. Calls(y) = Calls(l)
      BY <1>3, <2>5
    <3> QED
      BY <1>9, <2>2, <2>3, <2>5, <3>1 DEF KeepsCalls, t
  <2> QED
    BY <2>4, <2>5 DEF t, id
<1>10. StateInv(p)'
  <2>1. CASE sessions[p] = None
    BY <1>2, <2>1 DEF StateInv
  <2>2. CASE sessions[p] # None
    <3>1. sessions[p] \in Session /\ KeepsCalls(l, sessions[p])
          /\ Said(p, sessions[p].handshake) /\ Said(p, sessions[p].state)
      BY <2>2 DEF TypeOK, LeftInv, StateInv, PipeInv, KeptInv
    <3>2. KeepsCalls(y, sessions'[p])
      BY <1>2, <1>9, <2>2, <3>1
    <3> QED
      BY <3>2 DEF StateInv
  <2> QED
    BY <2>1, <2>2
<1>11. ASSUME args[p] = None, EarlierNameRoots(y), sessions'[p] # None
       PROVE  /\ ~sessions'[p].announced => Begins(y, n, sessions'[p].held)
              /\ Begins(y, n, channel[p])
              /\ servers[p] # None => Has(y, n, servers[p], channel[p])
  <2>1. sessions[p] # None /\ sessions[p] \in Session
    BY <1>2, <1>11 DEF TypeOK
  <2>2. sessions'[p].held = sessions[p].held /\ sessions'[p].announced = sessions[p].announced
    BY <1>1, <1>2, <2>1, SayKept
  <2>3. FilmInv(p) /\ EarlierNameRoots(l)
    BY <1>3, <1>11 DEF LeftInv
  <2>4. /\ ~sessions[p].announced => Begins(l, n, sessions[p].held)
        /\ Begins(l, n, channel[p])
        /\ servers[p] # None => Has(l, n, servers[p], channel[p])
    BY <1>1, <1>11, <2>1, <2>3 DEF FilmInv
  <2>5. \A q \in Seq(Event) : q # <<>> => 1 \in DOMAIN q
    BY LenProperties
  <2>6. channel[p] \in Seq(Event) /\ sessions[p].held \in Seq(Event)
    BY <2>1 DEF TypeOK, Session
  <2>7. /\ ReplayInv(p, channel[p]) /\ ReplayInv(p, sessions[p].held)
        /\ servers[p] # None => ServerInv(p, servers[p])
    BY <2>1 DEF PipeInv
  <2> HIDE DEF l, y, n
  <2> QED
    BY <1>7, <1>8, <2>2, <2>4, <2>5, <2>6, <2>7
<1>12. FilmInv(p)'
  BY <1>1, <1>2, <1>11 DEF FilmInv
<1> QED
  BY <1>10, <1>12 DEF LeftInv

\* A line that was pending at emit is now behind q.
LEMMA RestAppended ==
  ASSUME NEW n \in Ids, NEW C \in SUBSET (1..n), NEW D \in SUBSET C, NEW k \in 0..n,
         NEW q \in Seq(Event), Rest(C, D, n - 1, k, q),
         NEW e, e = [kind |-> "message", id |-> n]
  PROVE  Rest(C, D, n, k, Append(q, e))
<1> DEFINE qq == Append(q, e)
<1>1. e \in Event /\ IsMessage(e) /\ e.id = n
  BY MessageType
<1>2. /\ DOMAIN qq = 1..(Len(q) + 1) /\ DOMAIN q = 1..Len(q) /\ Len(q) \in Nat
      /\ \A i \in 1..Len(q) : qq[i] = q[i]
      /\ qq[Len(q) + 1] = e
  BY <1>1, AppendProperties, LenProperties
<1> HIDE DEF qq
<1>3. n \in Nat /\ D \subseteq 1..n
  BY DEF Ids
<1>4. ASSUME NEW i \in D, i > k
      PROVE  i > n \/ \E j \in DOMAIN qq : IsMessage(qq[j]) /\ qq[j].id = i
  <2>1. CASE i = n
    <3>1. Len(q) + 1 \in DOMAIN qq
      BY <1>2
    <3> QED
      BY <1>1, <1>2, <2>1, <3>1
  <2>2. CASE i # n
    <3>1. ~(i > n - 1)
      BY <1>3, <2>2
    <3>2. PICK j \in DOMAIN q : IsMessage(q[j]) /\ q[j].id = i
      BY <1>4, <3>1 DEF Rest
    <3> QED
      BY <1>2, <3>2
  <2> QED
    BY <2>1, <2>2
<1>5. ASSUME NEW j \in DOMAIN qq, IsMessage(qq[j]) PROVE qq[j].id >= k
  <2>1. CASE j \in DOMAIN q
    BY <1>2, <1>5, <2>1 DEF Rest
  <2>2. CASE j \notin DOMAIN q
    <3>1. j = Len(q) + 1
      BY <1>2, <2>2
    <3> QED
      BY <1>1, <1>2, <1>3, <3>1
  <2> QED
    BY <2>1, <2>2
<1>6. k = 0 \/ k \in C
  BY DEF Rest
<1> QED
  BY <1>4, <1>5, <1>6 DEF Rest, qq

LEMMA RestsAppended ==
  ASSUME NEW l \in Seq(Line), NEW n \in Ids, n = Len(l), NEW k \in 0..n, NEW m \in 0..n,
         NEW q \in Seq(Event), Rests(l, n - 1, k, m, q),
         NEW e, e = [kind |-> "message", id |-> n]
  PROVE  Rests(l, n, k, m, Append(q, e))
<1>1. /\ Opens(l) \in SUBSET (1..n) /\ Calls(l) \in SUBSET (1..n)
      /\ Due(l) \in SUBSET Opens(l) /\ Calls(l) \in SUBSET Calls(l)
  BY CallTypes
<1>2. /\ Rest(Opens(l), Due(l), n - 1, k, q)
      /\ Rest(Calls(l), Calls(l), n - 1, m, q)
  BY DEF Rests
<1> QED
  BY <1>1, <1>2, RestAppended DEF Rests

LEMMA EmitLeft ==
  ASSUME TypeOK, NEW p \in Pipes, PipeInv(p), OrderInv(p), LeftInv(p), Emit(p)
  PROVE  LeftInv(p)'
<1> DEFINE l == said[p]
           n == Len(l)
           e == [kind |-> "message", id |-> n]
           Fit == args[p] = None /\ EarlierNameRoots(l)
<1>1. /\ UNCHANGED <<said, servers, answered, args, page, listener>>
      /\ Out(p)' = n /\ Out(p) = n - 1 /\ n \in Ids
      /\ \/ sessions[p] = None /\ sessions' = sessions /\ channel' = channel
         \/ /\ sessions[p] # None /\ EmitNow(p) /\ sessions' = sessions
            /\ \/ listener = page /\ channel'[p] = Append(channel[p], e)
               \/ listener # page /\ channel' = channel
         \/ /\ sessions[p] # None /\ ~EmitNow(p) /\ channel' = channel
            /\ sessions'[p] = [sessions[p] EXCEPT !.held = Append(@, e)]
  BY EmittedPipe
<1>2. l \in Seq(Line) /\ channel[p] \in Seq(Event)
  BY DEF TypeOK
<1>3. CASE sessions[p] = None
  BY <1>1, <1>3, LeftWithout
<1>4. ASSUME sessions[p] # None PROVE sessions[p] \in Session
  BY <1>4 DEF TypeOK
<1>6. ASSUME NEW q \in Seq(Event), q # <<>>, Begins(l, n - 1, q)
      PROVE  Begins(l, n, Append(q, e))
  <2>1. Append(q, e) # <<>> /\ Append(q, e)[1] = q[1]
    <3>1. e \in Event
      BY <1>1, MessageType
    <3> HIDE DEF e
    <3>2. Len(q) \in Nat /\ Len(q) > 0
      BY <1>6, LenProperties, EmptySeq
    <3> QED
      BY <3>1, <3>2, AppendProperties
  <2> HIDE DEF n, e, l
  <2>2. SUFFICES ASSUME IsOpen(q[1])
                 PROVE  \E k, m \in 0..Len(l) : Lasts(l, q[1].replay, k, m)
                                                /\ Rests(l, n, k, m, Append(q, e))
    BY <2>1 DEF Begins
  <2>3. PICK k \in 0..Len(l), m \in 0..Len(l) :
          Lasts(l, q[1].replay, k, m) /\ Rests(l, n - 1, k, m, q)
    BY <1>6, <2>2 DEF Begins
  <2>4. Rests(l, n, k, m, Append(q, e))
    BY <1>1, <1>2, <2>3, RestsAppended DEF n, e
  <2> QED
    BY <2>3, <2>4
<1>7. CASE sessions[p] # None /\ EmitNow(p) /\ sessions' = sessions
  <2>1. sessions[p].announced
    BY <1>7 DEF EmitNow
  <2>2. StateInv(p)'
    BY <1>1, <1>7 DEF LeftInv, StateInv
  <2>3. CASE listener = page /\ channel'[p] = Append(channel[p], e)
    <3>2. e \in Event /\ IsMessage(e) /\ ~IsOpen(e)
      BY <1>1, MessageType
    <3>3. SUFFICES ASSUME Fit
                   PROVE  /\ Begins(l, n, channel'[p])
                          /\ servers[p] # None => Has(l, n, servers[p], channel'[p])
      BY <1>1, <1>7, <2>1, <2>2 DEF LeftInv, FilmInv
    <3>4. /\ Begins(l, n - 1, channel[p])
          /\ servers[p] # None => Has(l, n - 1, servers[p], channel[p])
      BY <1>1, <1>7, <3>3 DEF LeftInv, FilmInv
    <3>5. Begins(l, n, channel'[p])
      <4>1. CASE channel[p] = <<>>
        <5>1. Append(channel[p], e)[1] = e
          BY <4>1
        <5> HIDE DEF e
        <5> QED
          BY <2>3, <3>2, <5>1 DEF Begins
      <4>2. CASE channel[p] # <<>>
        BY <1>2, <1>6, <2>3, <3>4, <4>2
      <4> QED
        BY <4>1, <4>2
    <3>6. ASSUME servers[p] # None PROVE Has(l, n, servers[p], channel'[p])
      <4> HIDE DEF n, e, l
      <4>1. PICK k \in 0..Len(l), m \in 0..Len(l) :
              Took(l, servers[p], k, m) /\ Rests(l, n - 1, k, m, channel[p])
        BY <3>4, <3>6 DEF Has
      <4> DEFINE q == channel[p]
      <4>2. /\ q \in Seq(Event) /\ l \in Seq(Line) /\ n \in Ids /\ n = Len(l)
            /\ k \in 0..n /\ m \in 0..n /\ Rests(l, n - 1, k, m, q)
        BY <1>1, <1>2, <4>1 DEF n
      <4> HIDE DEF q
      <4>3. Rests(l, n, k, m, Append(q, e))
        BY <4>2, RestsAppended DEF e
      <4> QED
        BY <2>3, <4>1, <4>3 DEF Has, q
    <3> QED
      BY <3>5, <3>6
  <2>4. CASE listener # page /\ channel' = channel
    <3>1. channel[p] = <<>> /\ servers[p] = None
      BY <2>4 DEF PipeInv, StageInv
    <3> QED
      BY <1>1, <1>7, <2>1, <2>2, <2>4, <3>1 DEF LeftInv, FilmInv, Begins
  <2> QED
    BY <1>1, <1>7, <2>3, <2>4
<1>8. CASE /\ sessions[p] # None /\ ~EmitNow(p) /\ channel' = channel
           /\ sessions'[p] = [sessions[p] EXCEPT !.held = Append(@, e)]
  <2> DEFINE s == sessions[p]
             h == s.held
  <2>1. s \in Session /\ h \in Seq(Event)
    BY <1>4, <1>8 DEF Session
  <2>2. /\ sessions'[p].handshake = s.handshake /\ sessions'[p].state = s.state
        /\ sessions'[p].held = Append(h, e) /\ sessions'[p].announced = s.announced
    BY <1>8, <2>1 DEF Session
  <2>3. StateInv(p)'
    BY <1>1, <1>8, <2>2 DEF LeftInv, StateInv, KeepsCalls
  <2>4. channel[p] = <<>> /\ servers[p] = None
    <3>1. CASE s.announced
      <4>1. listener # page
        BY <1>8, <3>1 DEF EmitNow, TypeOK
      <4> QED
        BY <4>1 DEF PipeInv, StageInv
    <3>2. CASE ~s.announced
      BY <1>8, <3>2 DEF OrderInv, SessionInv
    <3> QED
      BY <3>1, <3>2
  <2>5. ASSUME ~s.announced, Fit PROVE Begins(l, n, Append(h, e))
    <3>1. h # <<>> /\ Begins(l, n - 1, h)
      BY <1>1, <1>8, <2>5 DEF OrderInv, SessionInv, LeftInv, FilmInv
    <3> QED
      BY <1>6, <2>1, <3>1
  <2>6. FilmInv(p)'
    BY <1>1, <1>8, <2>2, <2>4, <2>5 DEF FilmInv, Begins
  <2> QED
    BY <2>3, <2>6 DEF LeftInv
<1> QED
  BY <1>1, <1>3, <1>7, <1>8

LEMMA AnnouncedLeft ==
  ASSUME TypeOK, NEW p \in Pipes, PipeInv(p), OrderInv(p), LeftInv(p), Announcement(p),
         Out(p)' = Out(p)
  PROVE  LeftInv(p)'
<1> DEFINE l == said[p]
           n == Out(p)
           s == sessions[p]
           Fit == args[p] = None /\ EarlierNameRoots(l)
<1>1. UNCHANGED <<page, listener, agentVars, answered, servers>>
  BY DEF Announcement
<1>3. CASE Waits(p)
  <2>1. s # None /\ s \in Session /\ ~s.announced
    BY <1>3 DEF Waits, TypeOK
  <2>2. /\ sessions'[p].handshake = s.handshake /\ sessions'[p].state = s.state
        /\ sessions'[p].announced
        /\ channel'[p] = IF listener = page THEN s.held ELSE channel[p]
    BY <1>3, <2>1 DEF Announcement, Announce, Session
  <2>3. servers[p] = None /\ channel[p] = <<>>
    BY <2>1 DEF OrderInv, SessionInv
  <2>4. StateInv(p)'
    BY <1>1, <2>1, <2>2 DEF LeftInv, StateInv, KeepsCalls, agentVars
  <2>5. Fit => Begins(l, n, s.held)
    BY <2>1 DEF LeftInv, FilmInv
  <2>6. Fit => Begins(l, n, channel'[p])
    <3>1. CASE listener = page
      BY <2>2, <2>5, <3>1
    <3>2. CASE listener # page
      BY <2>2, <2>3, <3>2 DEF Begins
    <3> QED
      BY <3>1, <3>2
  <2>7. FilmInv(p)'
    BY <1>1, <2>2, <2>3, <2>6 DEF FilmInv, agentVars
  <2> QED
    BY <2>4, <2>7 DEF LeftInv
<1>4. CASE ~Waits(p)
  <2>1. sessions'[p] = s /\ channel'[p] = channel[p]
    BY <1>4 DEF Announcement, Announce
  <2> QED
    BY <1>1, <2>1 DEF LeftInv, StateInv, FilmInv, agentVars
<1> QED
  BY <1>3, <1>4

\* What mcp_listen makes of a session that was announced.
LEMMA ReplayBegins ==
  ASSUME NEW l \in Seq(Line), NEW n, NEW s \in Session, s.announced, KeepsCalls(l, s)
  PROVE  Begins(l, n, Reannounced(s).held)
<1> DEFINE e == OpenEvent(TRUE, s)
           h == s.handshake
           t == s.state
<1>1. /\ Reannounced(s).held = <<e>> /\ e \in Event /\ IsOpen(e) /\ e.replay = h \o t
  BY ReannouncedType
<1>2. /\ h \in Seq(Ids) /\ t \in Seq(Ids) /\ \A i \in DOMAIN h : h[i] \notin Calls(l)
      /\ Keeps(Calls(l), t)
  BY DEF Session, IdSeqs, KeepsCalls
<1>0. /\ Opens(l) \subseteq Calls(l) /\ Calls(l) \subseteq 1..Len(l)
      /\ Due(l) \subseteq Opens(l) /\ Len(l) \in Nat
  BY CallTypes
<1> HIDE DEF e, h, t
<1>3. PICK k \in 0..Len(l), m \in 0..Len(l) :
        Lasts(l, t, k, m) /\ (\A i \in Due(l) : i <= k) /\ \A i \in Calls(l) : i <= m
  BY <1>2, LastKept
<1>4. Lasts(l, e.replay, k, m)
  <2>1. \A i \in DOMAIN h : h[i] \notin Opens(l)
    BY <1>0, <1>2
  <2> QED
    BY <1>1, <1>2, <1>3, <2>1, LastOfReplay DEF Lasts
<1>5. <<e>>[1] = e /\ ~IsMessage(e) /\ \A i \in DOMAIN <<e>> : <<e>>[i] = e
  BY <1>1 DEF IsOpen, IsMessage
<1>6. (k = 0 \/ k \in Opens(l)) /\ (m = 0 \/ m \in Calls(l))
  BY <1>3 DEF Lasts, LastIn
<1>7. (\A i \in Due(l) : ~(i > k)) /\ \A i \in Calls(l) : ~(i > m)
  <2>1. \A i \in Calls(l) : i \in Nat
    BY <1>0
  <2>2. \A i \in Due(l) : i \in Nat
    BY <1>0, <2>1
  <2> QED
    BY <1>0, <1>3, <2>1, <2>2
<1>8. Rests(l, n, k, m, <<e>>)
  BY <1>5, <1>6, <1>7 DEF Rests, Rest
<1> QED
  BY <1>1, <1>4, <1>5, <1>8 DEF Begins

LEMMA ListeningLeft ==
  ASSUME TypeOK, NEW p \in Pipes, PipeInv(p), LeftInv(p), Listening(p), Out(p)' = Out(p)
  PROVE  LeftInv(p)'
<1> DEFINE s == sessions[p]
<1>1. UNCHANGED <<channel, agentVars, answered, servers>> /\ sessions'[p] = Reannounced(s)
  BY DEF Listening
<1>2. CASE s = None \/ ~s.announced
  <2>1. sessions'[p] = s
    BY <1>1, <1>2 DEF Reannounced
  <2> QED
    BY <1>1, <2>1 DEF LeftInv, StateInv, FilmInv, agentVars
<1>3. CASE s # None /\ s.announced
  <2>1. s \in Session /\ KeepsCalls(said[p], s) /\ said[p] \in Seq(Line)
    BY <1>3 DEF TypeOK, LeftInv, StateInv
  <2>2. /\ sessions'[p].handshake = s.handshake /\ sessions'[p].state = s.state
    BY <1>1, <1>3, <2>1, ReannouncedType
  <2>3. channel[p] = <<>> /\ servers[p] = None
    BY DEF Listening, PipeInv, StageInv
  <2>4. Begins(said[p], Out(p), sessions'[p].held)
    BY <1>1, <1>3, <2>1, ReplayBegins
  <2>5. StateInv(p)'
    BY <1>1, <2>1, <2>2 DEF StateInv, KeepsCalls, agentVars
  <2>6. FilmInv(p)'
    BY <1>1, <2>3, <2>4 DEF FilmInv, Begins, agentVars
  <2> QED
    BY <2>5, <2>6 DEF LeftInv
<1> QED
  BY <1>2, <1>3

LEMMA ReloadingLeft ==
  ASSUME NEW p \in Pipes, LeftInv(p), Reloading(p), Out(p)' = Out(p)
  PROVE  LeftInv(p)'
BY DEF LeftInv, StateInv, FilmInv, Reloading, Begins, agentVars

\* Behind the first event, which is no message, nothing is missed.
LEMMA RestBehind ==
  ASSUME NEW C, NEW D, NEW n, NEW k, NEW q \in Seq(Event), q # <<>>, Ordered(q),
         Rest(C, D, n, k, q), ~IsMessage(q[1])
  PROVE  Rest(C, D, n, k, Tail(q))
<1>1. \A j \in DOMAIN Tail(q) : j + 1 \in DOMAIN q /\ Tail(q)[j] = q[j + 1]
  BY OrderedTail
<1>2. \A j \in DOMAIN q : j = 1 \/ (j - 1 \in DOMAIN Tail(q) /\ Tail(q)[j - 1] = q[j])
  <2>1. /\ Tail(q) \in Seq(Event) /\ Len(Tail(q)) = Len(q) - 1 /\ Len(q) \in Nat
    BY HeadTailProperties, LenProperties
  <2>2. DOMAIN Tail(q) = 1..(Len(q) - 1) /\ DOMAIN q = 1..Len(q)
    BY <2>1, LenProperties
  <2> SUFFICES ASSUME NEW j \in DOMAIN q, j # 1
               PROVE  j - 1 \in DOMAIN Tail(q) /\ Tail(q)[j - 1] = q[j]
    OBVIOUS
  <2>3. j - 1 \in DOMAIN Tail(q) /\ (j - 1) + 1 = j
    BY <2>1, <2>2
  <2> QED
    BY <1>1, <2>3
<1> DEFINE t == Tail(q)
<1>3. \A j \in DOMAIN t : IsMessage(t[j]) => t[j].id >= k
  BY <1>1 DEF Rest
<1>4. ASSUME NEW i, NEW j \in DOMAIN q, IsMessage(q[j]), q[j].id = i
      PROVE  \E h \in DOMAIN t : IsMessage(t[h]) /\ t[h].id = i
  <2>1. j # 1
    BY <1>4
  <2> QED
    BY <1>2, <1>4, <2>1
<1> HIDE DEF t
<1>5. \A i \in D : i > k =>
        i > n \/ \E j \in DOMAIN t : IsMessage(t[j]) /\ t[j].id = i
  BY <1>4 DEF Rest
<1>6. k = 0 \/ k \in C
  BY DEF Rest
<1> QED
  BY <1>3, <1>5, <1>6 DEF Rest, t

\* Behind a message of a line in C, that line is the one to come.
LEMMA RestBehindMessage ==
  ASSUME NEW C, NEW D \in SUBSET C, C \subseteq Nat, NEW n, NEW k \in Nat,
         NEW q \in Seq(Event), q # <<>>,
         Ordered(q), Rest(C, D, n, k, q), IsMessage(q[1])
  PROVE  /\ Rest(C, D, n, IF q[1].id \in C THEN q[1].id ELSE k, Tail(q))
         /\ q[1].id >= k
<1> DEFINE id == q[1].id
           m == IF id \in C THEN id ELSE k
           t == Tail(q)
<1>1. \A j \in DOMAIN t : j + 1 \in DOMAIN q /\ t[j] = q[j + 1]
  BY OrderedTail
<1>2. /\ t \in Seq(Event) /\ Len(q) \in Nat
      /\ DOMAIN t = 1..(Len(q) - 1) /\ DOMAIN q = 1..Len(q) /\ 1 \in DOMAIN q
  <2>1. /\ t \in Seq(Event) /\ Len(t) = Len(q) - 1 /\ Len(q) \in Nat /\ Len(q) > 0
    BY HeadTailProperties, LenProperties, EmptySeq
  <2> HIDE DEF t
  <2>2. DOMAIN t = 1..(Len(q) - 1) /\ DOMAIN q = 1..Len(q)
    BY <2>1, LenProperties
  <2> QED
    BY <2>1, <2>2
<1>3. \A j \in DOMAIN q : j = 1 \/ (j - 1 \in DOMAIN t /\ t[j - 1] = q[j])
  <2> SUFFICES ASSUME NEW j \in DOMAIN q, j # 1
               PROVE  j - 1 \in DOMAIN t /\ t[j - 1] = q[j]
    OBVIOUS
  <2>3. j - 1 \in DOMAIN t /\ (j - 1) + 1 = j
    BY <1>2
  <2> QED
    BY <1>1, <2>3
<1> HIDE DEF t
<1>4. id \in Nat
  <2>1. q[1] \in Event
    BY <1>2, ElementOfSeq
  <2> QED
    BY <2>1, EventKinds DEF Ids
<1>5. \A j \in DOMAIN t : IsMessage(t[j]) => t[j].id = id + j
  <2> SUFFICES ASSUME NEW j \in DOMAIN t, IsMessage(q[j + 1])
               PROVE  q[j + 1].id = id + j
    BY <1>1
  <2>1. j + 1 \in DOMAIN q /\ 1 < j + 1 /\ (j + 1) - 1 = j
    BY <1>1, <1>2
  <2> QED
    BY <1>2, <2>1 DEF Ordered
<1>6. id >= k
  BY <1>2 DEF Rest
<1> HIDE DEF id
<1>7. m \in Nat /\ m <= id /\ m >= k /\ (m = 0 \/ m \in C)
  <2>1. CASE id \in C
    BY <1>4, <1>6, <2>1
  <2>2. CASE id \notin C
    BY <1>4, <1>6, <2>2 DEF Rest
  <2> QED
    BY <2>1, <2>2
<1>8. ASSUME NEW j \in DOMAIN t, IsMessage(t[j]) PROVE t[j].id >= m
  <2>1. t[j].id = id + j /\ j \in Nat
    BY <1>2, <1>5, <1>8
  <2> QED
    BY <1>4, <1>7, <2>1
<1>9. ASSUME NEW i \in D, i > m, i \in Nat
      PROVE  i > n \/ \E j \in DOMAIN t : IsMessage(t[j]) /\ t[j].id = i
  <2>1. i # id
    <3>1. CASE id \in C
      BY <1>4, <1>9, <3>1
    <3>2. CASE id \notin C
      BY <1>9, <3>2
    <3> QED
      BY <3>1, <3>2
  <2> HIDE DEF m
  <2>2. i > k
    BY <1>7, <1>9
  <2>3. CASE i > n
    BY <2>3
  <2>4. CASE ~(i > n)
    <3>1. PICK j \in DOMAIN q : IsMessage(q[j]) /\ q[j].id = i
      BY <1>9, <2>2, <2>4 DEF Rest
    <3>2. j # 1
      BY <2>1, <3>1 DEF id
    <3> QED
      BY <1>3, <3>1, <3>2
  <2> QED
    BY <2>3, <2>4
<1>10. \A i \in D : i \in Nat
  OBVIOUS
<1> QED
  BY <1>6, <1>7, <1>8, <1>9, <1>10 DEF Rest, id, t

\* One more request is waiting.
LEMMA LastOfWaiting ==
  ASSUME NEW C, NEW w \in Seq(Request), NEW r \in Request, NEW k \in Nat, r.id >= k,
         \A i \in DOMAIN w : w[i].id \in Nat, r.id \in Nat,
         LastIn(C, IdsOf(w), k)
  PROVE  LastIn(C, IdsOf(Append(w, r)), IF r.id \in C THEN r.id ELSE k)
<1> DEFINE v == Append(w, r)
           a == IdsOf(w)
           b == IdsOf(v)
           n == Len(w)
           m == IF r.id \in C THEN r.id ELSE k
<1>1. /\ DOMAIN w = 1..n /\ n \in Nat /\ DOMAIN v = 1..(n + 1)
      /\ \A i \in 1..n : v[i] = w[i]
      /\ v[n + 1] = r
  BY AppendProperties, LenProperties
<1> HIDE DEF v, n
<1>2. /\ DOMAIN a = 1..n /\ DOMAIN b = 1..(n + 1)
      /\ \A i \in 1..n : b[i] = a[i] /\ a[i] \in Nat
      /\ b[n + 1] = r.id
  <2>1. DOMAIN a = DOMAIN w /\ \A i \in DOMAIN w : a[i] = w[i].id
    BY DEF IdsOf
  <2>2. DOMAIN b = DOMAIN v /\ \A i \in DOMAIN v : b[i] = v[i].id
    BY DEF IdsOf
  <2>3. \A i \in 1..n : i \in 1..(n + 1) /\ w[i].id \in Nat
    BY <1>1
  <2>4. n + 1 \in 1..(n + 1)
    BY <1>1
  <2> HIDE DEF a, b
  <2> QED
    BY <1>1, <2>1, <2>2, <2>3, <2>4
<1> HIDE DEF a, b
<1>3. n + 1 \in DOMAIN b /\ \A i \in DOMAIN b : i \in DOMAIN a \/ i = n + 1
  BY <1>1, <1>2
<1>6. \A i \in DOMAIN b : b[i] \in C => b[i] <= m
  <2>1. \A i \in DOMAIN a : a[i] \in C => a[i] <= k
    BY DEF LastIn, a
  <2>2. m \in Nat /\ m >= k
    OBVIOUS
  <2> SUFFICES ASSUME NEW i \in DOMAIN b, b[i] \in C PROVE b[i] <= m
    OBVIOUS
  <2>3. CASE i = n + 1
    BY <1>2, <2>3
  <2>4. CASE i # n + 1
    <3>1. b[i] = a[i] /\ i \in DOMAIN a /\ a[i] \in Nat
      BY <1>2, <1>3, <2>4
    <3> HIDE DEF m
    <3> QED
      BY <2>1, <2>2, <3>1
  <2> QED
    BY <2>3, <2>4
<1>4. CASE r.id \in C
  <2>1. \A j \in DOMAIN b : ~(j > n + 1)
    BY <1>1, <1>2
  <2>2. LastIn(C, b, r.id)
    BY <1>2, <1>3, <1>4, <1>6, <2>1 DEF LastIn
  <2> QED
    BY <1>4, <2>2 DEF b, v
<1>5. CASE r.id \notin C
  <2>1. CASE k = 0 /\ \A i \in DOMAIN a : a[i] \notin C
    <3>1. \A i \in DOMAIN b : b[i] \notin C
      BY <1>2, <1>3, <1>5, <2>1
    <3> QED
      BY <1>5, <1>6, <2>1, <3>1 DEF LastIn, b, v
  <2>2. CASE \E i \in DOMAIN a : /\ a[i] = k /\ k \in C
                                 /\ \A j \in DOMAIN a : j > i => a[j] \notin C
    <3>1. PICK i \in DOMAIN a : /\ a[i] = k /\ k \in C
                                /\ \A j \in DOMAIN a : j > i => a[j] \notin C
      BY <2>2
    <3>2. \A j \in DOMAIN b : j > i => b[j] \notin C
      BY <1>2, <1>3, <1>5, <3>1
    <3>3. i \in DOMAIN b /\ b[i] = k
      BY <1>1, <1>2, <3>1
    <3>4. LastIn(C, b, k)
      BY <1>5, <1>6, <3>1, <3>2, <3>3 DEF LastIn
    <3> QED
      BY <1>5, <3>4 DEF b, v
  <2> QED
    BY <2>1, <2>2 DEF LastIn, a
<1> QED
  BY <1>4, <1>5

\* A server that is given a line when it is connected.
LEMMA GivenTook ==
  ASSUME NEW p \in Pipes, NEW l \in Seq(Line), l = said[p], NEW s \in Server, NEW t,
         ServerInv(p, s), s.phase = "on", NEW id \in DOMAIN l, Given(p, s, id, t),
         NEW k \in 0..Len(l), NEW m \in 0..Len(l), Took(l, s, k, m),
         k = 0 \/ k \in Opens(l), id >= k
  PROVE  Took(l, t, IF id \in Opens(l) THEN id ELSE k, IF id \in Calls(l) THEN id ELSE m)
<1> DEFINE x == l[id]
           r == Req(id, FALSE)
           kk == IF id \in Opens(l) THEN id ELSE k
           mm == IF id \in Calls(l) THEN id ELSE m
<1>1. /\ Opens(l) \subseteq Calls(l) /\ Calls(l) \subseteq 1..Len(l)
      /\ Len(l) \in Nat /\ DOMAIN l = 1..Len(l)
      /\ \A i \in Opens(l) : l[i].film \in Films /\ l[i].film # None
      /\ id \in Calls(l) /\ id \notin Opens(l) => x.root # None
      /\ x.root # None => id \in Calls(l)
      /\ id \in Opens(l) <=> OpensAtOnce(x) \/ LooksUp(x)
      /\ OpensAtOnce(x) <=> id \in Opens(l) /\ x.root # None
  BY CallTypes
<1>2. /\ t.phase = "on"
      /\ \A y : y \in t.looking <=> y \in s.looking \/ (y = r /\ LooksUp(x))
      /\ t.film = IF OpensAtOnce(x) THEN x.film ELSE s.film
      /\ IF x.root = None THEN t.roots = s.roots
         ELSE t.film # None => t.roots[t.film] = x.root
  BY DEF Given
<1>3. /\ \A y \in s.looking : y.id <= k
      /\ s.film = FilmAt(l, k) \/ \E y \in s.looking : y.id = k
      /\ AllNameRoots(l) /\ k # 0 /\ m # 0 => s.roots[l[k].film] = l[m].root
  BY DEF Took
<1>4. /\ id \in Nat /\ k \in Nat /\ m \in Nat /\ r.id = id /\ id # 0
      /\ kk \in Nat /\ kk >= k
  BY <1>1 DEF Req
<1>5. \A y \in s.looking : y.id \in DOMAIN l /\ LooksUp(l[y.id])
  BY DEF ServerInv
<1>6. \A y \in t.looking : y.id <= kk
  <2> SUFFICES ASSUME NEW y \in t.looking PROVE y.id <= kk
    OBVIOUS
  <2>1. CASE y \in s.looking
    <3>1. y.id \in Nat /\ y.id <= k
      BY <1>1, <1>3, <1>5, <2>1
    <3> HIDE DEF kk
    <3> QED
      BY <1>4, <3>1
  <2>2. CASE y = r /\ LooksUp(x)
    <3>1. y.id = id /\ kk = id
      BY <1>1, <1>4, <2>2
    <3> HIDE DEF kk, r
    <3> QED
      BY <1>4, <3>1
  <2> QED
    BY <1>2, <2>1, <2>2
<1>7. t.film = FilmAt(l, kk) \/ \E y \in t.looking : y.id = kk
  <2>1. CASE OpensAtOnce(x)
    BY <1>1, <1>2, <1>4, <2>1 DEF FilmAt
  <2>2. CASE LooksUp(x)
    BY <1>1, <1>2, <1>4, <2>2
  <2>3. CASE ~OpensAtOnce(x) /\ ~LooksUp(x)
    <3>1. kk = k /\ t.film = s.film
      BY <1>1, <1>2, <2>3
    <3> QED
      BY <1>2, <1>3, <3>1
  <2> QED
    BY <2>1, <2>2, <2>3
<1>8. ASSUME AllNameRoots(l), kk # 0, mm # 0 PROVE t.roots[l[kk].film] = l[mm].root
  <2>1. s.looking = {} /\ s.film = FilmAt(l, k)
    <3>1. \A y \in s.looking : y.id \in Opens(l) /\ l[y.id].root = None
      BY <1>5 DEF LooksUp, Opens
    <3> QED
      BY <1>3, <1>8, <3>1 DEF AllNameRoots
  <2>2. CASE id \notin Calls(l)
    <3>1. kk = k /\ mm = m /\ x.root = None
      BY <1>1, <2>2
    <3> QED
      BY <1>2, <1>3, <1>8, <3>1
  <2>3. CASE id \in Calls(l)
    <3>1. x.root # None
      BY <1>1, <1>8, <2>3 DEF AllNameRoots
    <3>2. t.film = l[kk].film /\ l[kk].film # None
      <4>1. CASE id \in Opens(l)
        BY <1>1, <1>2, <3>1, <4>1
      <4>2. CASE id \notin Opens(l)
        <5>1. kk = k /\ k # 0 /\ k \in Opens(l) /\ t.film = s.film
          BY <1>1, <1>2, <1>8, <4>2
        <5> QED
          BY <1>1, <2>1, <5>1 DEF FilmAt
      <4> QED
        BY <4>1, <4>2
    <3>3. l[mm] = x
      BY <2>3
    <3> HIDE DEF kk, mm, x
    <3> QED
      BY <1>2, <3>1, <3>2, <3>3
  <2> QED
    BY <2>2, <2>3
<1> HIDE DEF kk, mm
<1>9. Took(l, t, kk, mm)
  BY <1>2, <1>6, <1>7, <1>8 DEF Took
<1> QED
  BY <1>9 DEF kk, mm

LEMMA DeliverLeft ==
  ASSUME TypeOK, NEW p \in Pipes, PipeInv(p), OrderInv(p), LeftInv(p), Deliver(p), ~AtOnce(p)
  PROVE  LeftInv(p)'
<1> DEFINE q == channel[p]
           e == q[1]
           n == Out(p)
           l == said[p]
           s == servers[p]
           t == servers'[p]
<1>1. /\ UNCHANGED <<sessions, answered, said, args>>
      /\ q # <<>> /\ channel'[p] = Tail(q) /\ Out(p)' = n
      /\ e \in Event /\ 1 \in DOMAIN q
      /\ \/ IsOpen(e) /\ t = NewServer(e)
         \/ ~IsOpen(e) /\ t = None /\ (e.kind = "closed" \/ s = None)
         \/ /\ IsMessage(e) /\ s # None /\ s \in Server
            /\ e.id \in DOMAIN l /\ e.id \in Ids
            /\ t = Received(p, s, e.id)
  BY DeliverPipe DEF OrderInv, agentVars
<1>2. q \in Seq(Event) /\ Ordered(q) /\ l \in Seq(Line)
  BY DEF TypeOK, OrderInv, QueueInv
<1>3. StateInv(p)'
  BY <1>1 DEF LeftInv, StateInv
<1>4. SUFFICES ASSUME args[p] = None, EarlierNameRoots(l), sessions[p] # None
               PROVE  /\ Begins(l, n, Tail(q))
                      /\ t # None => Has(l, n, t, Tail(q))
  <2>1. args[p] = None /\ EarlierNameRoots(l) /\ sessions[p] # None /\ ~sessions[p].announced
          => Begins(l, n, sessions[p].held)
    BY DEF LeftInv, FilmInv
  <2>2. FilmInv(p)'
    BY <1>1, <1>4, <2>1 DEF FilmInv
  <2> QED
    BY <1>3, <2>2 DEF LeftInv
<1>5. /\ Begins(l, n, q)
      /\ s # None => Has(l, n, s, q)
  BY <1>4 DEF LeftInv, FilmInv
<1>6. Begins(l, n, Tail(q))
  <2> DEFINE u == Tail(q)
  <2>1. u \in Seq(Event) /\ \A j \in DOMAIN u : j + 1 \in DOMAIN q /\ u[j] = q[j + 1]
    BY <1>1, <1>2, OrderedTail, HeadTailProperties
  <2> HIDE DEF u
  <2>2. SUFFICES ASSUME u # <<>> PROVE ~IsOpen(u[1])
    BY DEF Begins, u
  <2>3. 1 \in DOMAIN u
    BY <2>1, <2>2, LenProperties, EmptySeq
  <2>4. 1 + 1 \in DOMAIN q /\ 1 < 1 + 1 /\ u[1] = q[1 + 1]
    BY <2>1, <2>3
  <2> QED
    BY <1>1, <1>2, <2>4 DEF Ordered
<1> HIDE DEF t, l, n
<1>7. CASE IsOpen(e) /\ t = NewServer(e)
  <2>1. t.phase = "starting" /\ t.replay = e.replay /\ t.waiting = <<>>
    BY <1>1, <1>7, NewServerType
  <2>2. PICK k \in 0..Len(l), m \in 0..Len(l) :
          Lasts(l, e.replay, k, m) /\ Rests(l, n, k, m, q)
    BY <1>1, <1>5, <1>7 DEF Begins
  <2>3. Rests(l, n, k, m, Tail(q))
    BY <1>1, <1>2, <1>7, <2>2, RestBehind DEF IsOpen, IsMessage, Rests
  <2>4. Took(l, t, k, m)
    BY <2>1, <2>2 DEF Took
  <2> QED
    BY <1>6, <2>2, <2>3, <2>4 DEF Has
<1>8. CASE t = None
  BY <1>6, <1>8
<1>9. CASE /\ IsMessage(e) /\ s # None /\ s \in Server
           /\ e.id \in DOMAIN l /\ e.id \in Ids
           /\ t = Received(p, s, e.id)
  <2> DEFINE id == e.id
             r == Req(id, FALSE)
             kk(k) == IF id \in Opens(l) THEN id ELSE k
             mm(m) == IF id \in Calls(l) THEN id ELSE m
  <2>1. Given(p, s, id, t) /\ ServerInv(p, s)
    BY <1>9, ReceivedIs DEF l, PipeInv
  <2>2. PICK k \in 0..Len(l), m \in 0..Len(l) : Took(l, s, k, m) /\ Rests(l, n, k, m, q)
    BY <1>5, <1>9 DEF Has
  <2>3. /\ Len(l) \in Nat /\ DOMAIN l = 1..Len(l) /\ id \in 0..Len(l)
        /\ k \in Nat /\ m \in Nat /\ id \in Nat
    BY <1>2, <1>9, LenProperties DEF Ids
  <2>4. /\ Opens(l) \subseteq Nat /\ Calls(l) \subseteq Nat
        /\ Due(l) \in SUBSET Opens(l) /\ Calls(l) \in SUBSET Calls(l)
    <3>1. /\ Opens(l) \subseteq Calls(l) /\ Calls(l) \subseteq 1..Len(l)
          /\ Due(l) \subseteq Opens(l)
      BY <1>2, CallTypes
    <3> QED
      BY <2>3, <3>1
  <2>5. /\ Rest(Opens(l), Due(l), n, kk(k), Tail(q)) /\ id >= k
        /\ Rest(Calls(l), Calls(l), n, mm(m), Tail(q)) /\ id >= m
        /\ k = 0 \/ k \in Opens(l)
    <3>1. Rest(Opens(l), Due(l), n, k, q) /\ Rest(Calls(l), Calls(l), n, m, q)
      BY <2>2 DEF Rests
    <3> HIDE DEF q
    <3>2. Rest(Opens(l), Due(l), n, kk(k), Tail(q)) /\ id >= k
      BY <1>1, <1>2, <1>9, <2>3, <2>4, <3>1, RestBehindMessage DEF e
    <3>3. Rest(Calls(l), Calls(l), n, mm(m), Tail(q)) /\ id >= m
      BY <1>1, <1>2, <1>9, <2>3, <2>4, <3>1, RestBehindMessage DEF e
    <3> QED
      BY <3>1, <3>2, <3>3 DEF Rest
  <2>6. kk(k) \in 0..Len(l) /\ mm(m) \in 0..Len(l)
    BY <2>2, <2>3
  <2>7. SUFFICES Took(l, t, kk(k), mm(m))
    <3> HIDE DEF kk, mm
    <3> QED
      BY <1>6, <2>5, <2>6, <2>7 DEF Has, Rests
  <2>8. s.phase # "starting"
    BY <1>4, <1>9 DEF AtOnce
  <2>9. t.phase = s.phase
    BY <2>1 DEF Given
  <2> HIDE DEF s, q, e, id
  <2>10. CASE s.phase = "answering"
    <3>1. t.waiting = Append(s.waiting, r)
      BY <2>1, <2>10 DEF Given
    <3>2. Lasts(l, WaitingIds(s), k, m) /\ s.waiting \in Seq(Request)
      BY <1>9, <2>2, <2>10 DEF Took, Server
    <3>3. r \in Request /\ r.id = id
      BY <1>9, RequestType DEF id
    <3>4. \A i \in DOMAIN s.waiting : s.waiting[i].id \in Nat
      BY <2>1, <2>3 DEF ServerInv, l
    <3> DEFINE w == s.waiting
    <3>5. LastIn(Opens(l), IdsOf(w), k) /\ LastIn(Calls(l), IdsOf(w), m)
      BY <3>2 DEF Lasts, WaitingIds
    <3>9. /\ w \in Seq(Request) /\ r \in Request /\ r.id = id
          /\ \A i \in DOMAIN w : w[i].id \in Nat
          /\ r.id \in Nat /\ r.id >= k /\ r.id >= m /\ k \in Nat /\ m \in Nat
      BY <2>3, <2>5, <3>2, <3>3, <3>4
    <3> HIDE DEF r, w
    <3>6. LastIn(Opens(l), IdsOf(Append(w, r)), IF r.id \in Opens(l) THEN r.id ELSE k)
      BY <3>5, <3>9, LastOfWaiting
    <3>7. LastIn(Calls(l), IdsOf(Append(w, r)), IF r.id \in Calls(l) THEN r.id ELSE m)
      BY <3>5, <3>9, LastOfWaiting
    <3>8. Lasts(l, WaitingIds(t), kk(k), mm(m))
      BY <3>1, <3>6, <3>7, <3>9 DEF Lasts, WaitingIds, w
    <3> HIDE DEF kk, mm
    <3> QED
      BY <2>9, <2>10, <3>8 DEF Took
  <2>11. CASE s.phase = "on"
    BY <1>2, <1>9, <2>1, <2>2, <2>5, <2>11, GivenTook DEF l, id
  <2>12. s.phase \in {"starting", "answering", "on"}
    BY <1>9 DEF Server
  <2> QED
    BY <2>8, <2>10, <2>11, <2>12
<1> QED
  BY <1>1, <1>7, <1>8, <1>9 DEF t, l

\* A step of a server that says nothing and goes on having its film and root.
LEMMA ServerLeft ==
  ASSUME NEW p \in Pipes, LeftInv(p), Out(p)' = Out(p),
         UNCHANGED <<channel, sessions, args, said>>,
         servers[p] # None,
         \A k, m \in 0..Len(said[p]) :
           /\ args[p] = None /\ EarlierNameRoots(said[p]) /\ Took(said[p], servers[p], k, m)
           /\ (k = 0 \/ k \in Opens(said[p]))
           => Took(said[p], servers'[p], k, m)
  PROVE  LeftInv(p)'
<1>1. StateInv(p)'
  BY DEF LeftInv, StateInv
<1>2. ASSUME args[p] = None, EarlierNameRoots(said[p]), sessions[p] # None
      PROVE  Has(said[p], Out(p), servers'[p], channel[p])
  <2>1. PICK k \in 0..Len(said[p]), m \in 0..Len(said[p]) :
          Took(said[p], servers[p], k, m) /\ Rests(said[p], Out(p), k, m, channel[p])
    BY <1>2 DEF LeftInv, FilmInv, Has
  <2>2. k = 0 \/ k \in Opens(said[p])
    BY <2>1 DEF Rests, Rest
  <2> QED
    BY <1>2, <2>1, <2>2 DEF Has
<1>3. FilmInv(p)'
  BY <1>2 DEF LeftInv, FilmInv
<1> QED
  BY <1>1, <1>3 DEF LeftInv

LEMMA ReadyLeft ==
  ASSUME TypeOK, NEW p \in Pipes, PipeInv(p), LeftInv(p), Ready(p)
  PROVE  LeftInv(p)'
<1> DEFINE s == servers[p]
           t == servers'[p]
           l == said[p]
<1>1. /\ UNCHANGED <<channel, sessions, args, said>> /\ Out(p)' = Out(p)
      /\ s # None /\ s \in Server /\ s.phase = "starting"
      /\ Readied(p, s, t)
  BY ReadyPipe DEF agentVars
<1>2. ASSUME NEW k, NEW m, Took(l, s, k, m) PROVE Took(l, t, k, m)
  <2>1. s.waiting = <<>> /\ Lasts(l, s.replay, k, m) /\ s.replay \in Seq(Ids)
    BY <1>1, <1>2 DEF Took, Server, IdSeqs
  <2>2. t.phase = "answering" /\ t.waiting = <<>> \o Again(s.replay)
    BY <1>1, <2>1 DEF Readied
  <2> DEFINE a == s.replay
             w == <<>> \o Again(a)
             b == [i \in DOMAIN w |-> w[i].id]
  <2>3. a \in Seq(Ids) /\ Lasts(l, a, k, m)
    BY <2>1
  <2> HIDE DEF a
  <2>4. /\ DOMAIN w = 1..(0 + Len(a)) /\ DOMAIN a = 1..Len(a) /\ Len(a) \in Nat
        /\ \A i \in 1..Len(a) : w[0 + i] = Req(a[i], TRUE)
    <3>1. <<>> \in Seq(Request) /\ Len(<<>>) = 0
      OBVIOUS
    <3> QED
      BY <2>3, <3>1, AgainIs
  <2> HIDE DEF w
  <2>5. DOMAIN w = DOMAIN a /\ \A i \in DOMAIN a : w[i] = Req(a[i], TRUE)
    <3>1. \A i \in 1..Len(a) : 0 + i = i
      OBVIOUS
    <3>2. 0 + Len(a) = Len(a)
      BY <2>4
    <3> QED
      BY <2>4, <3>1, <3>2
  <2>6. DOMAIN b = DOMAIN a /\ \A i \in DOMAIN a : b[i] = a[i]
    BY <2>5 DEF Req
  <2> HIDE DEF b
  <2>7. Lasts(l, b, k, m)
    BY <2>3, <2>6 DEF Lasts, LastIn
  <2>8. WaitingIds(t) = b
    BY <2>2 DEF WaitingIds, IdsOf, a, b, w
  <2> QED
    BY <2>2, <2>7, <2>8 DEF Took
<1> QED
  BY <1>1, <1>2, ServerLeft

LEMMA ConnectServerLeft ==
  ASSUME TypeOK, NEW p \in Pipes, PipeInv(p), LeftInv(p), ConnectServer(p)
  PROVE  LeftInv(p)'
<1> DEFINE s == servers[p]
           t == servers'[p]
           l == said[p]
           w == s.waiting
           line(i) == l[w[i].id]
           opens == {i \in DOMAIN w : OpensAtOnce(line(i))}
<1>1. /\ UNCHANGED <<channel, sessions, args, said>> /\ Out(p)' = Out(p)
      /\ s # None /\ s \in Server /\ s.phase = "answering" /\ Connects(p, s, t)
  BY ConnectServerPipe
<1>2. ServerInv(p, s)
  BY <1>1 DEF PipeInv
<1>3. /\ \A i \in DOMAIN w : w[i].id \in DOMAIN l
      /\ s.film = args[p] /\ s.looking = {}
  BY <1>1, <1>2 DEF ServerInv
<1>4. PICK u \in Server : /\ u = [s EXCEPT !.phase = "on", !.waiting = <<>>]
                          /\ Handles(p, u, w, t)
  BY <1>1 DEF Connects
<1>5. u.phase = "on" /\ u.film = s.film /\ u.looking = {}
  BY <1>1, <1>3, <1>4 DEF Server
<1>6. /\ t.phase = "on"
      /\ \A r : r \in t.looking <=> \E i \in DOMAIN w : w[i] = r /\ LooksUp(line(i))
      /\ opens = {} => t.film = args[p]
      /\ opens # {} => \E i \in opens : (\A j \in opens : j <= i) /\ t.film = line(i).film
      /\ \A i \in DOMAIN w :
           line(i).root # None /\ (\A j \in DOMAIN w : line(j).root # None => j <= i)
             /\ t.film # None => t.roots[t.film] = line(i).root
  <2>1. /\ t.phase = u.phase
        /\ \A r : r \in t.looking <=>
             r \in u.looking \/ \E i \in DOMAIN w : w[i] = r /\ LooksUp(line(i))
    BY <1>4 DEF Handles
  <2>2. /\ opens = {} => t.film = u.film
        /\ opens # {} => \E i \in opens : (\A j \in opens : j <= i) /\ t.film = line(i).film
    BY <1>4 DEF Handles
  <2>3. \A i \in DOMAIN w :
          line(i).root # None /\ (\A j \in DOMAIN w : line(j).root # None => j <= i)
            /\ t.film # None => t.roots[t.film] = line(i).root
    BY <1>4 DEF Handles
  <2> HIDE DEF opens, line, w, t
  <2> QED
    BY <1>3, <1>5, <2>1, <2>2, <2>3
<1>7. \A i \in DOMAIN w : i \in Nat
  <2>1. w \in Seq(Request)
    BY <1>1 DEF Server
  <2> HIDE DEF w
  <2> QED
    BY <2>1, LenProperties
<1>8. l \in Seq(Line)
  BY DEF TypeOK
<1>9. /\ DOMAIN l = 1..Len(l) /\ Len(l) \in Nat
      /\ \A i \in Opens(l) : l[i].film \in Films /\ l[i].film # None
      /\ \A i \in DOMAIN l : i \in Calls(l) /\ i \notin Opens(l) => l[i].root # None
      /\ \A i \in DOMAIN l : l[i].root # None => i \in Calls(l)
      /\ \A i \in DOMAIN l : i \in Opens(l) <=> OpensAtOnce(l[i]) \/ LooksUp(l[i])
      /\ \A i \in DOMAIN l : OpensAtOnce(l[i]) <=> i \in Opens(l) /\ l[i].root # None
      /\ Opens(l) \subseteq Calls(l)
  <2> HIDE DEF l
  <2> QED
    BY <1>8, CallTypes
<1>10. opens \subseteq DOMAIN w /\ \A i \in opens : line(i) = l[w[i].id] /\ OpensAtOnce(line(i))
  OBVIOUS
<1>11. ASSUME NEW k \in 0..Len(l), NEW m \in 0..Len(l), args[p] = None, Took(l, s, k, m)
       PROVE  Took(l, t, k, m)
  <2>1. LastIn(Opens(l), IdsOf(w), k) /\ LastIn(Calls(l), IdsOf(w), m)
    BY <1>1, <1>11 DEF Took, Lasts, WaitingIds
  <2>2. DOMAIN IdsOf(w) = DOMAIN w /\ \A i \in DOMAIN w : IdsOf(w)[i] = w[i].id
    BY DEF IdsOf
  <2>3. \A i \in DOMAIN w : i \in opens <=> w[i].id \in Opens(l) /\ line(i).root # None
    BY <1>3, <1>9
  <2>4. \A i \in DOMAIN w : line(i) = l[w[i].id]
    OBVIOUS
  <2>5. \A i \in DOMAIN w : w[i].id \in Opens(l) /\ line(i).root = None <=> LooksUp(line(i))
    BY <1>3, <1>9 DEF LooksUp, OpensAtOnce, Opens
  <2> HIDE DEF w, opens, line, s, t, l
  <2>6. \A r \in t.looking : r.id <= k
    <3> SUFFICES ASSUME NEW i \in DOMAIN w, LooksUp(line(i)) PROVE w[i].id <= k
      BY <1>6
    <3>1. w[i].id \in Opens(l)
      BY <2>5
    <3> QED
      BY <2>1, <2>2, <3>1 DEF LastIn
  <2>7. (k = 0 /\ \A i \in DOMAIN w : w[i].id \notin Opens(l))
        \/ \E i \in DOMAIN w : /\ w[i].id = k /\ k \in Opens(l)
                               /\ \A j \in DOMAIN w : j > i => w[j].id \notin Opens(l)
    BY <2>1, <2>2 DEF LastIn
  <2>8. ASSUME NEW i \in DOMAIN w, w[i].id = k, k \in Opens(l), l[k].root # None,
               \A j \in DOMAIN w : j > i => w[j].id \notin Opens(l)
        PROVE  t.film = l[k].film /\ k # 0
    <3>1. i \in opens
      BY <2>3, <2>4, <2>8
    <3>2. PICK h \in opens : (\A j \in opens : j <= h) /\ t.film = line(h).film
      BY <1>6, <3>1
    <3>3. i <= h /\ h \in DOMAIN w /\ ~(h > i)
      BY <1>10, <2>3, <2>8, <3>1, <3>2
    <3>4. h = i
      BY <1>7, <3>3
    <3> QED
      BY <1>9, <2>4, <2>8, <3>2, <3>4 DEF Opens
  <2>9. t.film = FilmAt(l, k) \/ \E r \in t.looking : r.id = k
    <3>1. CASE k = 0 /\ \A i \in DOMAIN w : w[i].id \notin Opens(l)
      <4>1. opens = {}
        BY <1>10, <2>3, <3>1
      <4> QED
        BY <1>6, <1>11, <3>1, <4>1 DEF FilmAt
    <3>2. ASSUME NEW i \in DOMAIN w, w[i].id = k, k \in Opens(l),
                 \A j \in DOMAIN w : j > i => w[j].id \notin Opens(l)
          PROVE  t.film = FilmAt(l, k) \/ \E r \in t.looking : r.id = k
      <4>1. CASE l[k].root # None
        BY <2>8, <3>2, <4>1 DEF FilmAt
      <4>2. CASE l[k].root = None
        <5>1. w[i] \in t.looking
          BY <1>6, <2>4, <2>5, <3>2, <4>2
        <5> QED
          BY <3>2, <5>1
      <4> QED
        BY <4>1, <4>2
    <3> QED
      BY <2>7, <3>1, <3>2
  <2>10. ASSUME AllNameRoots(l), k # 0, m # 0 PROVE t.roots[l[k].film] = l[m].root
    <3>1. t.film = l[k].film /\ l[k].film # None
      <4>1. \A i \in Opens(l) : l[i].root # None
        BY <2>10 DEF AllNameRoots
      <4>2. PICK i \in DOMAIN w : /\ w[i].id = k /\ k \in Opens(l)
                                  /\ \A j \in DOMAIN w : j > i => w[j].id \notin Opens(l)
        BY <2>7, <2>10
      <4> QED
        BY <1>9, <2>8, <4>1, <4>2
    <3>2. PICK i \in DOMAIN w : /\ w[i].id = m /\ m \in Calls(l)
                                /\ \A j \in DOMAIN w : j > i => w[j].id \notin Calls(l)
      BY <2>1, <2>2, <2>10 DEF LastIn
    <3>3. line(i) = l[m] /\ l[m].root # None
      <4>1. m \in DOMAIN l
        BY <1>3, <3>2 DEF l
      <4> QED
        BY <1>9, <2>4, <2>10, <3>2, <4>1 DEF AllNameRoots
    <3>4. \A j \in DOMAIN w : line(j).root # None => j <= i
      <4> SUFFICES ASSUME NEW j \in DOMAIN w, line(j).root # None PROVE j <= i
        OBVIOUS
      <4>1. w[j].id \in DOMAIN l
        BY <1>3 DEF w, l
      <4>2. w[j].id \in Calls(l)
        BY <1>9, <2>4, <4>1
      <4>3. ~(j > i)
        BY <3>2, <4>2
      <4> QED
        BY <1>7, <4>3
    <3> QED
      BY <1>6, <3>1, <3>3, <3>4
  <2> QED
    BY <1>6, <2>6, <2>9, <2>10 DEF Took
<1> HIDE DEF t, s, l
<1> QED
  BY <1>1, <1>11, ServerLeft DEF t, s, l

LEMMA LookedUpLeft ==
  ASSUME TypeOK, NEW p \in Pipes, PipeInv(p), LeftInv(p), NEW r \in Request, LookedUp(p, r)
  PROVE  LeftInv(p)'
<1> DEFINE s == servers[p]
           t == servers'[p]
           l == said[p]
<1>1. /\ UNCHANGED <<channel, sessions, args, said>> /\ Out(p)' = Out(p)
      /\ s # None /\ r \in s.looking /\ Looked(p, s, r, t)
  BY LookedUpPipe DEF agentVars
<1>2. /\ r.id \in DOMAIN l /\ LooksUp(l[r.id]) /\ s.phase = "on" /\ l \in Seq(Line)
  BY <1>1 DEF PipeInv, ServerInv, TypeOK
<1>3. /\ t.phase = "on" /\ t.looking = s.looking \ {r} /\ t.film = l[r.id].film
  BY <1>1, <1>2 DEF Looked
<1>4. r.id \in Opens(l) /\ l[r.id].root = None
  BY <1>2 DEF Opens, LooksUp
<1>5. DOMAIN l = 1..Len(l) /\ Len(l) \in Nat
  BY <1>2, LenProperties
<1> HIDE DEF s, t, l
<1>6. ASSUME NEW k \in 0..Len(l), NEW m \in 0..Len(l), EarlierNameRoots(l),
             Took(l, s, k, m), k = 0 \/ k \in Opens(l)
      PROVE  Took(l, t, k, m)
  <2>1. /\ \A x \in s.looking : x.id <= k
        /\ r.id <= k /\ r.id \in Nat /\ r.id # 0 /\ k \in Nat
    BY <1>1, <1>2, <1>5, <1>6 DEF Took
  <2>2. r.id = k
    <3>1. k \in Opens(l)
      BY <1>6, <2>1
    <3>2. IsLast(r.id, Opens(l))
      BY <1>4, <1>6 DEF EarlierNameRoots
    <3>3. k <= r.id
      BY <3>1, <3>2 DEF IsLast
    <3> QED
      BY <2>1, <3>3
  <2>3. t.film = FilmAt(l, k)
    BY <1>3, <2>1, <2>2 DEF FilmAt
  <2>4. ~AllNameRoots(l)
    BY <1>4 DEF AllNameRoots
  <2> QED
    BY <1>3, <2>1, <2>3, <2>4 DEF Took
<1> QED
  BY <1>1, <1>6, ServerLeft DEF s, t, l

LEMMA AnswerLeft ==
  ASSUME TypeOK, NEW p \in Pipes, PipeInv(p), LeftInv(p), NEW r \in Request, Answer(p, r)
  PROVE  LeftInv(p)'
<1> DEFINE s == servers[p]
           t == servers'[p]
           l == said[p]
<1>1. /\ UNCHANGED <<channel, sessions, args, said>> /\ Out(p)' = Out(p)
      /\ s # None /\ s \in Server
      /\ t = [s EXCEPT !.replying = @ \ {r}, !.swallow = @ \ {r.id}]
  BY AnswerPipe
<1>2. /\ t.phase = s.phase /\ t.replay = s.replay /\ t.waiting = s.waiting
      /\ t.film = s.film /\ t.roots = s.roots /\ t.looking = s.looking
  BY <1>1 DEF Server
<1> HIDE DEF s, t, l
<1>3. \A k, m : Took(l, s, k, m) => Took(l, t, k, m)
  BY <1>2 DEF Took, WaitingIds
<1> QED
  BY <1>1, <1>3, ServerLeft DEF s, t, l

-----------------------------------------------------------------------------
(* The theorem.                                                            *)

LEMMA InitLeft == Init => Left
BY DEF Init, Left, LeftInv, StateInv, FilmInv

LEMMA LeftOnlyHere ==
  ASSUME Left, NEW p \in Pipes, LeftInv(p)', \A q \in Pipes \ {p} : SameFor(q)
  PROVE  Left'
<1>1. ASSUME NEW q \in Pipes PROVE LeftInv(q)'
  <2>1. CASE q = p
    BY <2>1
  <2>2. CASE q # p
    <3>1. SameFor(q) /\ LeftInv(q)
      BY <2>2 DEF Left
    <3> QED
      BY <3>1, LeftElsewhere
  <2> QED
    BY <2>1, <2>2
<1> QED
  BY <1>1 DEF Left

LEMMA LeftStep == TypeOK /\ IInv /\ Left /\ [Next]_vars => Left'
<1> SUFFICES ASSUME TypeOK, IInv, Left, [Next]_vars PROVE Left'
  OBVIOUS
<1>1. \A p \in Pipes : /\ PipeInv(p) /\ OrderInv(p) /\ OnceInv(p) /\ LeftInv(p)
                       /\ QueueInv(p) /\ SessionInv(p)
  BY DEF IInv, OrderInv, Left
<1>2. CASE UNCHANGED vars
  <2>1. \A p \in Pipes : SameFor(p)
    BY <1>2 DEF vars, SameFor
  <2> QED
    BY <1>1, <2>1, LeftElsewhere DEF Left
<1>3. ASSUME NEW p \in Pipes, Connect(p) PROVE Left'
  BY <1>1, <1>3, ConnectPipe, ConnectLeft, LeftOnlyHere
<1>4. ASSUME NEW p \in Pipes, Hangup(p) PROVE Left'
  BY <1>1, <1>4, HangupPipe, HangupLeft, LeftOnlyHere
<1>5. ASSUME NEW p \in Pipes, NEW x \in Lines, Say(p, x) PROVE Left'
  BY <1>1, <1>5, LinesAssumption, SayPipe, SayLeft, LeftOnlyHere
<1>6. ASSUME NEW p \in Pipes, Emit(p) PROVE Left'
  BY <1>1, <1>6, EmittedPipe, EmitLeft, LeftOnlyHere
<1>7. ASSUME NEW p \in Pipes, Forget(p) PROVE Left'
  BY <1>1, <1>7, ForgetPipe, GoneLeft, LeftOnlyHere
<1>8. ASSUME NEW p \in Pipes, TellClosed(p) PROVE Left'
  BY <1>1, <1>8, TellClosedPipe, GoneLeft, LeftOnlyHere
<1>9. ASSUME NEW p \in Pipes, CreateFails(p) PROVE Left'
  BY <1>1, <1>9, CreateFailsPipe, GoneLeft, LeftOnlyHere
<1>10. ASSUME TypeOK', \A q \in Pipes : Announcement(q) PROVE Left'
  BY <1>1, <1>10, AnnouncedPipe, AnnouncedLeft DEF Left
<1>11. ASSUME NEW p \in Pipes, ServeAnnounces(p) PROVE Left'
  BY <1>1, <1>10, <1>11, ServeAnnouncesPipes
<1>12. CASE ListenAnnounces
  BY <1>1, <1>10, <1>12, ListenAnnouncesPipes
<1>13. CASE Listen
  BY <1>1, <1>13, ListenPipes, ListeningPipe, ListeningLeft DEF Left
<1>14. CASE Reload
  BY <1>1, <1>14, ReloadPipes, ReloadingPipe, ReloadingLeft DEF Left
<1>15. ASSUME NEW p \in Pipes, Deliver(p), NothingAtOnce PROVE Left'
  <2>1. ~AtOnce(p)
    BY <1>15 DEF NothingAtOnce
  <2> QED
    BY <1>1, <1>15, <2>1, DeliverPipe, DeliverLeft, LeftOnlyHere
<1>16. ASSUME NEW p \in Pipes, Ready(p) PROVE Left'
  BY <1>1, <1>16, ReadyPipe, ReadyLeft, LeftOnlyHere
<1>17. ASSUME NEW p \in Pipes, ConnectServer(p) PROVE Left'
  BY <1>1, <1>17, ConnectServerPipe, ConnectServerLeft, LeftOnlyHere
<1>18. ASSUME NEW p \in Pipes, NEW r \in Request, LookedUp(p, r) PROVE Left'
  BY <1>1, <1>18, LookedUpPipe, LookedUpLeft, LeftOnlyHere
<1>19. ASSUME NEW p \in Pipes, NEW r \in Request, Answer(p, r) PROVE Left'
  <2>1. LeftInv(p)'
    BY <1>1, <1>19, AnswerLeft
  <2>2. \A q \in Pipes \ {p} : SameFor(q)
    BY <1>1, <1>19, AnswerPipe
  <2> QED
    BY <2>1, <2>2, LeftOnlyHere
<1> QED
  BY <1>2, <1>3, <1>4, <1>5, <1>6, <1>7, <1>8, <1>9, <1>11, <1>12, <1>13, <1>14,
     <1>15, <1>16, <1>17, <1>18, <1>19 DEF Next, PageNext, RelayNext, AgentNext

LEMMA LeftIsAsLeft == TypeOK /\ IInv /\ Left => ResumedAsLeft
<1> SUFFICES ASSUME TypeOK, IInv, Left, NEW p \in Pipes,
                    Quiet(p), args[p] = None, StillKept(said[p]), EarlierNameRoots(said[p])
             PROVE  /\ InFilmLeft(p)
                    /\ AllNameRoots(said[p]) => WithRootLeft(p)
  <2>1. \A p \in Pipes : AllNameRoots(said[p]) => EarlierNameRoots(said[p])
    BY DEF AllNameRoots, EarlierNameRoots
  <2> QED
    BY <2>1 DEF ResumedAsLeft
<1> DEFINE l == said[p]
           n == Out(p)
<1>1. PipeInv(p) /\ FilmInv(p)
  BY DEF IInv, Left, LeftInv
<1>2. /\ sessions[p] # None /\ servers[p] # None /\ servers[p].phase = "on"
      /\ servers[p].looking = {} /\ channel[p] = <<>> /\ n = Len(l)
      /\ l \in Seq(Line) /\ Len(l) \in Nat
  <2>1. n = Len(l) /\ l \in Seq(Line) /\ Len(l) \in Nat
    BY <1>1, SaidTypes DEF Quiet
  <2> QED
    BY <1>1, <2>1 DEF Quiet, PipeInv, StageInv
<1>3. PICK k \in 0..Len(l), m \in 0..Len(l) :
        Took(l, servers[p], k, m) /\ Rests(l, n, k, m, <<>>)
  BY <1>1, <1>2 DEF FilmInv, Has
<1> HIDE DEF l, n
<1>4. /\ servers[p].film = FilmAt(l, k)
      /\ AllNameRoots(l) /\ k # 0 /\ m # 0 => servers[p].roots[l[k].film] = l[m].root
  BY <1>2, <1>3 DEF Took
<1>5. /\ Opens(l) \subseteq Calls(l) /\ Calls(l) \subseteq 1..Len(l)
      /\ Due(l) \subseteq Opens(l)
  BY <1>2, CallTypes
<1>6. /\ k = 0 \/ k \in Opens(l)
      /\ m = 0 \/ m \in Calls(l)
      /\ \A i \in Due(l) : ~(i > k)
      /\ \A i \in Calls(l) : ~(i > m)
  <2>1. \A i \in Calls(l) : ~(i > n)
    BY <1>2, <1>5
  <2> QED
    BY <1>3, <1>5, <2>1 DEF Rests, Rest
<1>7. ASSUME NEW i \in Opens(l), IsLast(i, Opens(l)) PROVE i = k /\ k # 0
  <2>1. i \in Due(l)
    BY <1>7 DEF StillKept, Due, l
  <2>2. i \in Nat /\ i # 0 /\ k \in Nat
    BY <1>2, <1>5
  <2>3. i <= k
    BY <1>6, <2>1, <2>2
  <2>4. k <= i
    BY <1>6, <1>7, <2>2, <2>3 DEF IsLast
  <2> QED
    BY <2>2, <2>3, <2>4
<1>8. ASSUME NEW j \in Calls(l), IsLast(j, Calls(l)) PROVE j = m /\ m # 0
  <2>1. j \in Nat /\ j # 0 /\ m \in Nat
    BY <1>2, <1>5
  <2>2. j <= m
    BY <1>6, <2>1
  <2>3. m <= j
    BY <1>6, <1>8, <2>1, <2>2 DEF IsLast
  <2> QED
    BY <2>1, <2>2, <2>3
<1>9. InFilmLeft(p)
  BY <1>4, <1>6, <1>7 DEF InFilmLeft, FilmAt, l
<1>10. AllNameRoots(l) => WithRootLeft(p)
  BY <1>4, <1>7, <1>8 DEF WithRootLeft, l
<1> QED
  BY <1>9, <1>10 DEF l

(***************************************************************************)
(* However often the page is reloaded between an agent's calls, a server   *)
(* that was given the replay and what came after it is in the film of the  *)
(* last `open` if those before it name their roots, and has the root last  *)
(* given if every one does; as long as fewer than STATE_KEPT calls have    *)
(* followed that `open`, which is then among those kept.                   *)
(***************************************************************************)
THEOREM LeftTheorem == Spec => []ResumedAsLeft
<1>1. Init => Left
  BY InitLeft
<1>2. TypeOK /\ IInv /\ Left /\ [Next]_vars => Left'
  BY LeftStep
<1>3. TypeOK /\ IInv /\ Left => ResumedAsLeft
  BY LeftIsAsLeft
<1>4. Spec => [](TypeOK /\ IInv)
  BY Invariant
<1> QED
  BY <1>1, <1>2, <1>3, <1>4, PTL DEF Spec
=============================================================================
