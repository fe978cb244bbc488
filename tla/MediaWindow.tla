------------------------------ MODULE MediaWindow ------------------------------
(***************************************************************************)
(* The window's media panels at work on the operations of MediaOps: a      *)
(* reference board (ReferenceBoard.tsx, BoardParts.tsx, ExceptionList.tsx, *)
(* the variant drop of ElementTabs.tsx), the strip of a shot               *)
(* (MediaStrip.tsx), the poster, and the one change the store can undo     *)
(* (store.ts, recordChange and undoLastChange).                            *)
(*                                                                         *)
(* A panel builds each call from the tables as it last read them; the host *)
(* runs the calls one at a time in the order they came (FilmHost).  The    *)
(* answer of a call is taken with its run: until then the window can only  *)
(* queue more calls, and what it would put in them does not depend on the  *)
(* answer, undo excepted, which is then asked before the run.              *)
(***************************************************************************)
EXTENDS MediaOps, Integers

CONSTANTS
  Subjects,     \* owners with a board: characters, locations, ...
  Shots,        \* owners with a strip
  Project,      \* the owner of the posters
  Files,        \* files that can be dropped
  When,         \* conditions of exceptions
  FirstFilm,    \* the film opened, [t, next]
  MaxAsks,      \* bound: what the writer does, undoing apart
  MaxQueue      \* bound: calls under way

\* What a row holds that operations count with: an order, a precedence, and
\* a bundle that was given out.
RowOK(table, row, next) ==
  /\ table = "member" =>
       /\ row = [bundle |-> row.bundle, asset |-> row.asset, order |-> row.order]
       /\ row.bundle \in 1..(next - 1) /\ row.order \in Nat
  /\ table = "binding" =>
       /\ row = [owner |-> row.owner, bundle |-> row.bundle,
                 baseline |-> row.baseline, precedence |-> row.precedence,
                 when |-> row.when, replaces |-> row.replaces]
       /\ row.bundle \in 1..(next - 1) /\ row.precedence \in Nat
       /\ row.baseline \in BOOLEAN
  /\ table = "related" =>
       /\ row = [owner |-> row.owner, asset |-> row.asset, type |-> row.type,
                 order |-> row.order]
       /\ row.order \in Nat

\* Tables whose rows have ids that were given out.
TablesOK(t, next) ==
  /\ t = [table \in Tables |-> [k \in DOMAIN t[table] |-> t[table][k]]]
  /\ \A table \in Tables :
       /\ DOMAIN t[table] \subseteq 1..(next - 1)
       /\ \A k \in DOMAIN t[table] : RowOK(table, t[table][k], next)

FilmOK(f) ==
  /\ f = [t |-> f.t, next |-> f.next]
  /\ f.next \in Nat \ {0}
  /\ TablesOK(f.t, f.next)

ASSUME BoundsAssumption == MaxAsks \in Nat /\ MaxQueue \in Nat
ASSUME FirstFilmAssumption == FilmOK(FirstFilm)
\* A condition is one: filterValues refuses an exception that sets no filter.
ASSUME WhenAssumption == None \notin When

VARIABLES
  film,     \* the film on the host
  seen,     \* its tables as the panels last read them
  calls,    \* the calls under way, in order
  last,     \* lastChange: the change an undo would take back, or NoChange
  asks      \* what the writer has done so far, undoing apart

vars == <<film, seen, calls, last, asks>>

NoChange == [made |-> NoRows, was |-> NoTables, from |-> NoTables, to |-> NoTables]

Purposes == {"identity", "set", "concept"}
Sharings  == {"ask", "both", "split"}
Types    == {"storyboard", "start"}

PurposesOf(owner) == IF owner \in Shots THEN Types ELSE Purposes

Init ==
  /\ film = FirstFilm
  /\ seen = FirstFilm.t
  /\ calls = <<>>
  /\ last = NoChange
  /\ asks = 0

\* The panels' effect on a new revision.
Refresh ==
  /\ seen # film.t
  /\ seen' = film.t
  /\ UNCHANGED <<film, calls, last, asks>>

-----------------------------------------------------------------------------
(* What a panel offers, from what it shows.                                 *)

Ask(call) ==
  /\ asks < MaxAsks /\ Len(calls) < MaxQueue
  /\ calls' = Append(calls, call)
  /\ asks' = asks + 1
  /\ UNCHANGED <<film, seen, last>>

Tile(table, id, bundle) ==
  [at |-> <<table, id>>, asset |-> seen[table][id].asset, bundle |-> bundle]

SetTiles(bundle) == {Tile("member", m, bundle) : m \in MembersOf(seen, bundle)}

BoardTiles(owner) ==
  {Tile("anchor", a, None) :
     a \in {k \in DOMAIN seen.anchor : seen.anchor[k].owner = owner}}
  \cup {Tile("related", r, None) : r \in TilesOf(seen, owner)}
  \cup UNION {SetTiles(seen.binding[b].bundle) :
                b \in BaselineBindings(seen, owner)}

ExceptionTiles(owner) ==
  UNION {SetTiles(seen.binding[b].bundle) :
           b \in Exceptions(seen, owner)}

SameSequence(a, b) ==
  /\ a.at[1] = b.at[1] /\ a.at # b.at
  /\ \/ a.at[1] = "related"
     \/ a.at[1] = "member" /\ a.bundle = b.bundle

\* Whether to share is asked of a set alone.
SharingsFor(purpose) == IF purpose = "set" THEN Sharings ELSE {"ask"}

AskToAttach ==
  \E owner \in Subjects \cup Shots, asset \in DOMAIN seen.asset :
    \E purpose \in PurposesOf(owner) : \E shared \in SharingsFor(purpose) :
      Ask([do |-> "attach", owner |-> owner, assets |-> <<asset>>,
           purpose |-> purpose, shared |-> shared, to |-> None,
           created |-> {}])

\* A file of the project given to an exception.
AskToAttachToException ==
  \E owner \in Subjects, asset \in DOMAIN seen.asset :
    \E b \in Exceptions(seen, owner) :
      Ask([do |-> "attach", owner |-> owner, assets |-> <<asset>>,
           purpose |-> "set", shared |-> "ask",
           to |-> seen.binding[b].bundle, created |-> {}])

\* placeFiles: the file is registered first, and attached when that is
\* answered.
AskToDrop ==
  \E owner \in Subjects \cup Shots, file \in Files :
    \E purpose \in PurposesOf(owner) : \E shared \in SharingsFor(purpose) :
      Ask([do |-> "register", owner |-> owner, file |-> file,
           purpose |-> purpose, shared |-> shared])

AskToDetach ==
  \E owner \in Subjects \cup Shots :
    \E tile \in BoardTiles(owner) \cup ExceptionTiles(owner) :
      Ask([do |-> "detach", tile |-> tile])

\* What a tile is for; a link of a type the board does not offer has none of
\* its purposes.
PurposeOf(tile) ==
  CASE tile.at[1] = "anchor" -> "identity"
    [] tile.at[1] = "member" -> "set"
    [] tile.at[1] = "related" -> seen.related[tile.at[2]].type

\* Nobody is asked whether to share: a set that others use is an error.
AskToRepurpose ==
  \E owner \in Subjects :
    \E tile \in BoardTiles(owner) :
      \E purpose \in Purposes \ {PurposeOf(tile)} :
        Ask([do |-> "repurpose", owner |-> owner, tile |-> tile,
             purpose |-> purpose])

\* Past any tile of its sequence: the filters may hide those in between.
AskToMoveTile ==
  \E owner \in Subjects, delta \in {"earlier", "later"} :
    \E tile, neighbour \in BoardTiles(owner) :
      /\ SameSequence(tile, neighbour)
      /\ Ask([do |-> "moveTile", owner |-> owner, tile |-> tile,
              neighbour |-> neighbour, delta |-> delta])

AskToConfirm ==
  \E a \in DOMAIN seen.anchor :
    /\ seen.anchor[a].status = "candidate"
    /\ Ask([do |-> "confirm", anchor |-> a])

AskToAddException ==
  \E owner \in Subjects, when \in When, replaces \in BOOLEAN :
    Ask([do |-> "addException", owner |-> owner, when |-> when,
         replaces |-> replaces])

AskOfException ==
  \E owner \in Subjects :
    \E b \in Exceptions(seen, owner) :
      \/ \E when \in When \ {seen.binding[b].when} :
           Ask([do |-> "updateException", binding |-> b, when |-> when])
      \/ \E up \in BOOLEAN :
           Ask([do |-> "moveException", owner |-> owner, binding |-> b,
                up |-> up])
      \/ Ask([do |-> "removeException", binding |-> b])

\* The strip as it is shown.
AskOfStrip ==
  \E shot \in Shots :
    \E id \in TilesOf(seen, shot) :
      LET strip == Strip(seen, TilesOf(seen, shot))
      IN  \/ \E type \in Types \ {seen.related[id].type} :
               Ask([do |-> "setType", link |-> id, type |-> type])
          \/ \E delta \in {"earlier", "later"} :
               /\ \/ delta = "earlier" /\ strip.place[id] > 1
                  \/ /\ delta = "later"
                     /\ strip.place[id] < Cardinality(DOMAIN strip.place)
               /\ Ask([do |-> "moveMedia", strip |-> strip, link |-> id,
                       delta |-> delta])

AskForPoster ==
  \E asset \in DOMAIN seen.asset : Ask([do |-> "setPoster", asset |-> asset])

\* undoLastChange: the change is taken at the click.  Undoing is not counted:
\* it ends by itself, since it leaves nothing to undo.
AskToUndo ==
  /\ last # NoChange /\ Len(calls) < MaxQueue
  /\ calls' = Append(calls, [do |-> "undo", change |-> last])
  /\ UNCHANGED <<film, seen, last, asks>>

-----------------------------------------------------------------------------
(* The host runs the first call, and the window takes its answer.           *)

Head1(do) == calls # <<>> /\ calls[1].do = do

\* recordChange: a change that did nothing leaves the one before it.  The
\* tables it began from and led to are kept for the properties alone.
Settle(change, created) ==
  LET whole == WithCreatedAssets(change, created)
      from  == [film.t EXCEPT !.asset = Without(@, created)]
  IN  /\ film' = [t |-> change.t, next |-> change.next]
      /\ last' = IF whole.made = NoRows /\ change.was = NoTables THEN last
                 ELSE [made |-> whole.made, was |-> change.was,
                       from |-> from, to |-> change.t]

Answer(do, Change(_)) ==
  /\ Head1(do)
  /\ Settle(Change(calls[1]), {})
  /\ calls' = Tail(calls)
  /\ UNCHANGED <<seen, asks>>

RunRegister ==
  /\ Head1("register")
  /\ LET c      == calls[1]
         change == RegisterFile(film, c.file)
     IN  /\ film' = [t |-> change.t, next |-> change.next]
         /\ \E asset \in AssetsOf(change.t, c.file) :
              calls' = Append(Tail(calls),
                [do |-> "attach", owner |-> c.owner, assets |-> <<asset>>,
                 purpose |-> c.purpose, shared |-> c.shared, to |-> None,
                 created |-> change.made["asset"]])
  /\ UNCHANGED <<seen, last, asks>>

\* A set that others share is not added to until the writer says how; the
\* answer is a call of its own.
RunAttach ==
  /\ Head1("attach")
  /\ LET c == calls[1]
     IN  IF c.purpose = "set" /\ c.to = None /\ Refuses(film.t, c.owner, c.shared)
         THEN UNCHANGED <<film, last>>
         ELSE Settle(Attach(film, c.owner, c.assets, c.purpose, c.shared, c.to),
                     c.created)
  /\ calls' = Tail(calls)
  /\ UNCHANGED <<seen, asks>>

RunDetach == Answer("detach", LAMBDA c : Detach(film, c.tile))

\* What the detached tile leaves is what the attach is refused on.
RunRepurpose ==
  /\ Head1("repurpose")
  /\ LET c == calls[1]
     IN  IF /\ c.purpose = "set"
            /\ Refuses(Detach(film, c.tile).t, c.owner, "ask")
         THEN UNCHANGED <<film, last>>
         ELSE Settle(Repurpose(film, c.owner, c.tile, c.purpose, "ask"), {})
  /\ calls' = Tail(calls)
  /\ UNCHANGED <<seen, asks>>

RunMoveTile ==
  Answer("moveTile", LAMBDA c :
    MoveTile(film, c.owner, c.tile, c.neighbour, c.delta))
RunConfirm == Answer("confirm", LAMBDA c : ConfirmIdentity(film, c.anchor))
RunAddException ==
  Answer("addException", LAMBDA c :
    AddException(film, c.owner, c.when, c.replaces))
RunUpdateException ==
  Answer("updateException", LAMBDA c : UpdateException(film, c.binding, c.when))
RunMoveException ==
  Answer("moveException", LAMBDA c :
    MoveException(film, c.owner, c.binding, c.up))
RunRemoveException ==
  Answer("removeException", LAMBDA c : RemoveException(film, c.binding))
RunSetType == Answer("setType", LAMBDA c : SetMediaType(film, c.link, c.type))
RunMoveMedia ==
  Answer("moveMedia", LAMBDA c : MoveMedia(film, c.strip, c.link, c.delta))
\* The poster of an asset that is gone is not found again after it was
\* inserted: the call fails and its transaction is rolled back.
RunSetPoster ==
  Answer("setPoster", LAMBDA c : IF c.asset \in DOMAIN film.t.asset
                                  THEN SetPoster(film, Project, c.asset)
                                  ELSE Begin(film))

\* Whatever change came meanwhile, there is none to undo afterwards.
RunUndo ==
  /\ Head1("undo")
  /\ film' = [film EXCEPT !.t = ApplyUndoChange(film.t, calls[1].change)]
  /\ last' = NoChange
  /\ calls' = Tail(calls)
  /\ UNCHANGED <<seen, asks>>

Next ==
  \/ Refresh
  \/ AskToAttach \/ AskToAttachToException \/ AskToDrop \/ AskToDetach
  \/ AskToRepurpose \/ AskToMoveTile \/ AskToConfirm \/ AskToAddException
  \/ AskOfException \/ AskOfStrip \/ AskForPoster \/ AskToUndo
  \/ RunRegister \/ RunAttach \/ RunDetach \/ RunRepurpose \/ RunMoveTile
  \/ RunConfirm \/ RunAddException \/ RunUpdateException \/ RunMoveException
  \/ RunRemoveException \/ RunSetType \/ RunMoveMedia \/ RunSetPoster
  \/ RunUndo

Spec == Init /\ [][Next]_vars

-----------------------------------------------------------------------------
(* Properties.                                                              *)

\* The film is one, whatever is undone, and so is what the panels show.
TypeOK ==
  /\ FilmOK(film)
  /\ TablesOK(seen, film.next) /\ TablesOK(last.was, film.next)
  /\ asks \in 0..MaxAsks /\ Len(calls) <= MaxQueue

\* The host ran the call at the head, of this kind.
Ran(do) == Head1(do) /\ Len(calls') < Len(calls)

\* Undoing a change while the film is as the change left it gives the film
\* back as it was before, the assets that a drop registered gone with it: a
\* row the change made and then wrote to is not brought back, and one it wrote
\* to twice returns to the first of its states (undoChange.ts).
UndoRestores ==
  [][Ran("undo") /\ film.t = calls[1].change.to
       => film'.t = calls[1].change.from]_vars

\* The files of an owner's look.
Look(t, owner) ==
  {t.member[m].asset :
     m \in UNION {MembersOf(t, t.binding[b].bundle) :
                    b \in BaselineBindings(t, owner)}}

\* A file added to one owner's look reaches another's only when the writer
\* has chosen "for everyone using it", and the owner that is given a copy of
\* its own keeps every file it had, whatever was queued between the question
\* and the answer (attachInto, splitInto).
OthersAreAsked ==
  [][Ran("attach") /\ calls[1].purpose = "set" /\ calls[1].to = None
       => /\ Look(film.t, calls[1].owner) \subseteq Look(film'.t, calls[1].owner)
          /\ calls[1].shared # "both" =>
               \A owner \in Subjects \ {calls[1].owner} :
                 Look(film'.t, owner) = Look(film.t, owner)]_vars

\* No two exceptions of an owner have one precedence, nor one that a baseline
\* has.
RanksApart(t, owner) ==
  \A b \in Exceptions(t, owner) :
    /\ t.binding[b].precedence > 0
    /\ \A d \in Exceptions(t, owner) \ {b} :
         t.binding[b].precedence # t.binding[d].precedence

\* Exceptions that are ranked stay so whatever is added, moved and removed in
\* whatever order the calls arrive; an undo, which writes old ranks back, is
\* left out (addException, moveException).
RanksStayApart ==
  [][~Ran("undo") => \A owner \in Subjects :
       RanksApart(film.t, owner) => RanksApart(film'.t, owner)]_vars

\* A move takes the tile past the neighbour that was shown and leaves every
\* other tile of the sequence, shown or hidden, in the order it had
\* (moveTile).
MovesKeepOrder ==
  [][Ran("moveTile") =>
       LET c     == calls[1]
           tile  == c.tile.at[2]
           next  == c.neighbour.at[2]
           ids(t) == IF c.tile.at[1] = "related" THEN RelatedOf(t, c.owner)
                     ELSE MembersOf(t, c.tile.bundle)
           order(t)    == ByOrder(t[c.tile.at[1]], ids(t))
           place(t, k) == Place(order(t), ids(t), k)
           rest(t)     == {p \in order(t) : tile \notin {p[1], p[2]}}
       IN  /\ ids(film'.t) = ids(film.t)
           /\ rest(film'.t) = rest(film.t)
           /\ {tile, next} \subseteq ids(film.t) =>
                place(film'.t, tile)
                  = place(film'.t, next) + (IF c.delta = "earlier" THEN -1 ELSE 1)]_vars

\* What MediaStrip.tsx and moveMedia say of a strip that was moved: its rows
\* have the places 1..n, "the sequence the writer sees is the one stored".
StripIsInOrder ==
  [][Ran("moveMedia") =>
       \A shot \in Shots : calls[1].link \in RelatedOf(film.t, shot) =>
         \A r, k \in TilesOf(film'.t, shot) : r # k =>
           film'.t.related[r].order # film'.t.related[k].order]_vars

=============================================================================
