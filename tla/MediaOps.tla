-------------------------------- MODULE MediaOps --------------------------------
(***************************************************************************)
(* The media operations of the film host: scf-core/src/ops/mediaOps.ts     *)
(* (reference boards), relatedMediaOps.ts (the strips of shots, scenes and *)
(* the project), bundling.ts, assetImport.ts and the change that undoes    *)
(* each of them, undoChange.ts.  The host runs each as one transaction, so *)
(* each is one operator; MediaWindow.tla interleaves them.                 *)
(*                                                                         *)
(* A film is [t |-> tables, next |-> the next row id]; a table maps ids to *)
(* rows:                                                                   *)
(*   asset    [file]                                                       *)
(*   bundle   [of]                          of: the owner it is named for  *)
(*   member   [bundle, asset, order]        bundle_asset                   *)
(*   binding  [owner, bundle, baseline, precedence, when, replaces]        *)
(*   related  [owner, asset, type, order]   asset_relationship             *)
(*   anchor   [owner, asset, status]        entity_anchor                  *)
(* One board stands for the four of the code, which differ in their        *)
(* bundles' intent; `when` is the condition of an exception, None for a    *)
(* binding without a filter.  None is NULL.                                *)
(***************************************************************************)
EXTENDS Naturals, Sequences, FiniteSets

None == 0

Tables == {"asset", "bundle", "member", "binding", "related", "anchor"}

Greatest(S) == IF S = {} THEN 0 ELSE CHOOSE n \in S : \A m \in S : m <= n

\* A table with the rows of another put over its own, and without some.
PutOver(rows, others) ==
  [k \in DOMAIN rows \cup DOMAIN others |->
     IF k \in DOMAIN others THEN others[k] ELSE rows[k]]

Without(rows, ids) == [k \in DOMAIN rows \ ids |-> rows[k]]

\* The place of k in S under the order R, from one, and all of S by place.
Place(R, S, k) == 1 + Cardinality({d \in S : <<d, k>> \in R})

Listed(R, S) ==
  [i \in 1..Cardinality(S) |-> CHOOSE k \in S : Place(R, S, k) = i]

-----------------------------------------------------------------------------
(* ChangeRecorder: a change under way is a film with the ids of the rows it *)
(* has made and the rows it has altered as they were, by table.             *)

NoRows == [table \in Tables |-> {}]
NoTables == [table \in Tables |-> <<>>]

Begin(f) == [t |-> f.t, next |-> f.next, made |-> NoRows, was |-> NoTables]

\* The ids of the next n rows.
NewIds(c, n) == c.next..(c.next + n - 1)

Insert(c, table, rows) ==
  [c EXCEPT !.t[table] = PutOver(@, rows),
            !.next = @ + Cardinality(DOMAIN rows),
            !.made[table] = @ \cup DOMAIN rows]

InsertRow(c, table, row) == Insert(c, table, [k \in {c.next} |-> row])

\* Slip: a row the change has made is kept as well.
SnapshotOfMade(c, table, ids) ==
  LET kept == ids \cap DOMAIN c.t[table]
  IN  [c EXCEPT !.was[table] = PutOver([k \in kept |-> c.t[table][k]], @)]

\* Once for each row, and never for a row the change has made itself.
Snapshot(c, table, ids) ==
  LET kept == (ids \cap DOMAIN c.t[table]) \ c.made[table]
  IN  [c EXCEPT !.was[table] = PutOver([k \in kept |-> c.t[table][k]], @)]

\* The rows that are there.
Update(c, table, rows) ==
  [Snapshot(c, table, DOMAIN rows) EXCEPT
     !.t[table] = [k \in DOMAIN @ |-> IF k \in DOMAIN rows THEN rows[k] ELSE @[k]]]

UpdateRow(c, table, id, row) == Update(c, table, [k \in {id} |-> row])

Delete(c, table, ids) ==
  [Snapshot(c, table, ids) EXCEPT !.t[table] = Without(@, ids)]

\* applyUndoChange: what was made goes, then what was altered comes back over
\* whatever is there.
ApplyUndoChange(t, change) ==
  [table \in Tables |->
     PutOver(Without(t[table], change.made[table]), change.was[table])]

-----------------------------------------------------------------------------
(* Sequences of files: the rows of one owner, or of one bundle, by order.   *)

RelatedOf(t, owner)  == {r \in DOMAIN t.related : t.related[r].owner = owner}
\* loadMedia shows those whose asset is there.
TilesOf(t, owner) ==
  {r \in RelatedOf(t, owner) : t.related[r].asset \in DOMAIN t.asset}
MembersOf(t, bundle) == {m \in DOMAIN t.member : t.member[m].bundle = bundle}

\* ORDER BY "order" IS NULL, "order", id
ByOrder(rows, ids) ==
  {p \in ids \X ids :
     LET o == rows[p[1]].order
         q == rows[p[2]].order
     IN  \/ o # None /\ (q = None \/ o < q)
         \/ o = q /\ p[1] < p[2]}

\* ORDER BY "order", id: those without an order come first.
ByOrderNoneFirst(rows, ids) ==
  {p \in ids \X ids : \/ rows[p[1]].order < rows[p[2]].order
                      \/ rows[p[1]].order = rows[p[2]].order /\ p[1] < p[2]}

Places(R, ids) == [k \in ids |-> Place(R, ids, k)]

\* The rows written back in their places; `was` is the order each is taken to
\* have, and a row that has its place already is not touched.
Renumber(c, table, place, was) ==
  LET moved == {k \in DOMAIN place \cap DOMAIN c.t[table] : was[k] # place[k]}
  IN  Update(c, table, [k \in moved |-> [c.t[table][k] EXCEPT !.order = place[k]]])

\* The row at one place and k trade places.
Swapped(place, k, at) ==
  [d \in DOMAIN place |-> IF d = k THEN at
                          ELSE IF place[d] = at THEN place[k] ELSE place[d]]

-----------------------------------------------------------------------------
(* attachInto                                                               *)

\* The files that are not there yet, each once, as they were given.
FilesToAdd(assets, there) ==
  LET first == {i \in DOMAIN assets : /\ assets[i] \notin there
                                      /\ \A j \in 1..(i - 1) : assets[j] # assets[i]}
      list  == Listed({p \in first \X first : p[1] < p[2]}, first)
  IN  [i \in DOMAIN list |-> assets[list[i]]]

\* A verified anchor, unless there is one for this file.
AddAnchors(c, owner, assets) ==
  LET there == {c.t.anchor[a].asset :
                  a \in {d \in DOMAIN c.t.anchor : c.t.anchor[d].owner = owner}}
      add   == FilesToAdd(assets, there)
  IN  Insert(c, "anchor",
        [k \in NewIds(c, Len(add)) |->
           [owner |-> owner, asset |-> add[k - c.next + 1], status |-> "verified"]])

\* A related file goes last; rows without an order count as places.
TopOrder(t, owner) ==
  Greatest({t.related[r].order : r \in RelatedOf(t, owner)}
             \cup {Cardinality(RelatedOf(t, owner))})

AddRelated(c, owner, assets, type) ==
  LET there == {c.t.related[r].asset :
                  r \in {d \in RelatedOf(c.t, owner) : c.t.related[d].type = type}}
      add   == FilesToAdd(assets, there)
  IN  Insert(c, "related",
        [k \in NewIds(c, Len(add)) |->
           [owner |-> owner, asset |-> add[k - c.next + 1], type |-> type,
            order |-> TopOrder(c.t, owner) + k - c.next + 1]])

\* applyBundleAdd: new files go after the highest order.
NewMembers(c, bundle, assets) ==
  LET top == Greatest({c.t.member[m].order : m \in MembersOf(c.t, bundle)})
  IN  Insert(c, "member",
        [k \in NewIds(c, Len(assets)) |->
           [bundle |-> bundle, asset |-> assets[k - c.next + 1],
            order |-> top + k - c.next + 1]])

\* planBundleAdd: a file that is in the bundle stays as it is.
AddMembers(c, bundle, assets) ==
  NewMembers(c, bundle,
    FilesToAdd(assets, {c.t.member[m].asset : m \in MembersOf(c.t, bundle)}))

\* The bindings that make up an owner's look: no condition, a live bundle.
IsPure(binding) == binding.baseline /\ binding.when = None

BindingsOf(t, owner) ==
  {b \in DOMAIN t.binding :
     t.binding[b].owner = owner /\ t.binding[b].bundle \in DOMAIN t.bundle}

BaselineBindings(t, owner) == {b \in BindingsOf(t, owner) : IsPure(t.binding[b])}

BaselineSet(t, owner) ==
  CHOOSE b \in BaselineBindings(t, owner) :
    \A d \in BaselineBindings(t, owner) :
      \/ t.binding[b].precedence < t.binding[d].precedence
      \/ t.binding[b].precedence = t.binding[d].precedence /\ b <= d

SharedWith(t, bundle, owner) ==
  {t.binding[b].owner :
     b \in {d \in DOMAIN t.binding : t.binding[d].bundle = bundle}} \ {owner}

NewBinding(c, owner, baseline, precedence, when, replaces) ==
  InsertRow(InsertRow(c, "bundle", [of |-> owner]), "binding",
            [owner |-> owner, bundle |-> c.next, baseline |-> baseline,
             precedence |-> precedence, when |-> when, replaces |-> replaces])

NewBaseline(c, owner) == NewBinding(c, owner, TRUE, 0, None, FALSE)

CopyMembers(c, from, to) ==
  LET ids  == MembersOf(c.t, from)
      list == Listed(ByOrderNoneFirst(c.t.member, ids), ids)
  IN  NewMembers(c, to, [i \in DOMAIN list |-> c.t.member[list[i]].asset])

\* splitInto: a bundle of the owner's own, and its binding moved to it.
Split(c, owner, b) ==
  LET copied == CopyMembers(InsertRow(c, "bundle", [of |-> owner]),
                            c.t.binding[b].bundle, c.next)
  IN  UpdateRow(copied, "binding", b, [c.t.binding[b] EXCEPT !.bundle = c.next])

\* The owner's set made ready for a new file; shared is "ask", "both" or
\* "split", and "ask" of a set that others use is refused.
Refuses(t, owner, shared) ==
  /\ BaselineBindings(t, owner) # {}
  /\ shared = "ask"
  /\ SharedWith(t, t.binding[BaselineSet(t, owner)].bundle, owner) # {}

\* Slip: a copy is made of sets with files only.
ReadySetOnceFilled(c, owner, shared) ==
  LET b == BaselineSet(c.t, owner)
  IN  IF BaselineBindings(c.t, owner) = {} THEN NewBaseline(c, owner)
      ELSE IF /\ shared = "split"
              /\ MembersOf(c.t, c.t.binding[b].bundle) # {}
              /\ SharedWith(c.t, c.t.binding[b].bundle, owner) # {}
      THEN Split(c, owner, b) ELSE c

ReadySet(c, owner, shared) ==
  LET b == BaselineSet(c.t, owner)
  IN  IF BaselineBindings(c.t, owner) = {} THEN NewBaseline(c, owner)
      ELSE IF shared = "split"
              /\ SharedWith(c.t, c.t.binding[b].bundle, owner) # {}
      THEN Split(c, owner, b) ELSE c

\* to: the bundle of an exception, or None for the owner's set.
AddToSet(c, owner, assets, shared, to) ==
  LET ready == ReadySet(c, owner, shared)
  IN  IF to # None THEN AddMembers(c, to, assets)
      ELSE AddMembers(ready, ready.t.binding[BaselineSet(ready.t, owner)].bundle,
                      assets)

AttachInto(c, owner, assets, purpose, shared, to) ==
  IF purpose = "identity" THEN AddAnchors(c, owner, assets)
  ELSE IF purpose = "set" THEN AddToSet(c, owner, assets, shared, to)
  ELSE AddRelated(c, owner, assets, purpose)

-----------------------------------------------------------------------------
(* The calls.  A tile is [at |-> <<table, id>>, asset, bundle].             *)

Attach(f, owner, assets, purpose, shared, to) ==
  AttachInto(Begin(f), owner, assets, purpose, shared, to)

Detach(f, tile) == Delete(Begin(f), tile.at[1], {tile.at[2]})

Repurpose(f, owner, tile, purpose, shared) ==
  AttachInto(Detach(f, tile), owner, <<tile.asset>>, purpose, shared, None)

\* Slip: the tile and its neighbour trade places.
PastBySwap(R, ids, id, neighbour, delta) ==
  LET other(k) == IF k = id THEN neighbour ELSE IF k = neighbour THEN id ELSE k
  IN  {p \in ids \X ids : <<other(p[1]), other(p[2])>> \in R}

\* moveTile: past the neighbour, in the sequence as it is stored.
Past(R, ids, id, neighbour, delta) ==
  {p \in ids \X ids :
     IF p[1] = id
     THEN /\ p[2] # id
          /\ \/ <<neighbour, p[2]>> \in R
             \/ p[2] = neighbour /\ delta = "earlier"
     ELSE IF p[2] = id
     THEN \/ <<p[1], neighbour>> \in R
          \/ p[1] = neighbour /\ delta = "later"
     ELSE p \in R}

MoveTile(f, owner, tile, neighbour, delta) ==
  LET table == tile.at[1]
      rows  == f.t[table]
      all   == IF table = "related" THEN RelatedOf(f.t, owner)
               ELSE MembersOf(f.t, tile.bundle)
      order == Past(ByOrder(rows, all), all, tile.at[2], neighbour.at[2], delta)
  IN  IF {tile.at[2], neighbour.at[2]} \subseteq all
      THEN Renumber(Begin(f), table, Places(order, all),
                    [k \in all |-> rows[k].order])
      ELSE Begin(f)

ConfirmIdentity(f, anchor) ==
  IF anchor \notin DOMAIN f.t.anchor THEN Begin(f)
  ELSE UpdateRow(Begin(f), "anchor", anchor,
                 [f.t.anchor[anchor] EXCEPT !.status = "verified"])

\* Slip: the exceptions are counted.
TopPrecedenceByCount(t, owner) ==
  Cardinality({b \in BindingsOf(t, owner) : ~t.binding[b].baseline})

TopPrecedence(t, owner) ==
  Greatest({t.binding[b].precedence : b \in BindingsOf(t, owner)})

\* An exception ranks above every binding its owner has.
AddException(f, owner, when, replaces) ==
  NewBinding(Begin(f), owner, FALSE, TopPrecedence(f.t, owner) + 1, when, replaces)

UpdateException(f, b, when) ==
  IF b \notin DOMAIN f.t.binding THEN Begin(f)
  ELSE UpdateRow(Begin(f), "binding", b, [f.t.binding[b] EXCEPT !.when = when])

\* The exceptions of an owner, and their order: highest precedence first.
Exceptions(t, owner) == BindingsOf(t, owner) \ BaselineBindings(t, owner)

ByPrecedence(rows, ids) ==
  {p \in ids \X ids :
     \/ rows[p[1]].precedence > rows[p[2]].precedence
     \/ rows[p[1]].precedence = rows[p[2]].precedence /\ p[1] < p[2]}

\* Renumbered n..1, from the highest, with two of them swapped.
MoveException(f, owner, b, up) ==
  LET rows  == f.t.binding
      ids   == Exceptions(f.t, owner)
      n     == Cardinality(ids)
      place == Places(ByPrecedence(rows, ids), ids)
      at    == IF up THEN place[b] - 1 ELSE place[b] + 1
      rank  == [k \in ids |-> n + 1 - Swapped(place, b, at)[k]]
      moved == {k \in ids : rows[k].precedence # rank[k]}
  IN  IF b \notin ids THEN Begin(f)
      ELSE IF at \notin 1..n THEN Begin(f)
      ELSE Update(Begin(f), "binding",
                  [k \in moved |-> [rows[k] EXCEPT !.precedence = rank[k]]])

\* The binding goes, and its bundle with it when nothing else binds that.
RemoveException(f, b) ==
  LET bundle == f.t.binding[b].bundle
      gone   == Delete(Begin(f), "binding", {b})
  IN  IF b \notin DOMAIN f.t.binding THEN Begin(f)
      ELSE IF \E d \in DOMAIN gone.t.binding : gone.t.binding[d].bundle = bundle
      THEN gone
      ELSE Delete(Delete(gone, "member", MembersOf(f.t, bundle)), "bundle", {bundle})

\* registerFiles: one asset for a file, however often it is dropped.
AssetsOf(t, file) == {a \in DOMAIN t.asset : t.asset[a].file = file}

RegisterFile(f, file) ==
  IF AssetsOf(f.t, file) # {} THEN Begin(f)
  ELSE InsertRow(Begin(f), "asset", [file |-> file])

WithCreatedAssets(change, assets) == [change EXCEPT !.made["asset"] = assets \cup @]

-----------------------------------------------------------------------------
(* The strip of a shot or scene, and the poster.                            *)

SetMediaType(f, r, type) ==
  IF r \notin DOMAIN f.t.related THEN Begin(f)
  ELSE UpdateRow(Begin(f), "related", r, [f.t.related[r] EXCEPT !.type = type])

\* A strip: its rows' places, and the order each has.
Strip(t, ids) ==
  [place |-> Places(ByOrder(t.related, ids), ids),
   order |-> [k \in ids |-> t.related[k].order]]

\* moveMedia: the strip as the window last read it is written back in its new
\* order.
MoveMedia(f, strip, id, delta) ==
  LET at == strip.place[id]
      to == IF delta = "earlier" THEN at - 1 ELSE at + 1
  IN  IF to \notin 1..Cardinality(DOMAIN strip.place) THEN Begin(f)
      ELSE Renumber(Begin(f), "related", Swapped(strip.place, id, to), strip.order)

\* setPoster: related as a poster if it is not, and then first in the order.
SetPoster(f, project, asset) ==
  LET posters(t) == {r \in TilesOf(t, project) : /\ t.related[r].asset = asset
                                                 /\ t.related[r].type = "poster"}
      with   == IF posters(f.t) # {} THEN Begin(f)
                ELSE InsertRow(Begin(f), "related",
                       [owner |-> project, asset |-> asset,
                        type |-> "poster", order |-> None])
      strip  == Strip(with.t, TilesOf(with.t, project))
      place  == strip.place
      chosen == CHOOSE r \in posters(with.t) :
                  \A k \in posters(with.t) : place[r] <= place[k]
  IN  Renumber(with, "related",
               [k \in DOMAIN place |->
                  IF k = chosen THEN 1
                  ELSE IF place[k] < place[chosen] THEN place[k] + 1 ELSE place[k]],
               strip.order)
=============================================================================
