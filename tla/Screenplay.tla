------------------------------ MODULE Screenplay ------------------------------
(***************************************************************************)
(* The writes of the film host that touch the script, its scenes, the acts *)
(* or sequences they form and their shots: scf-core/src/ops/calls.ts       *)
(* ("script.commit"), features.ts (linkAndCreateAtCommit),                 *)
(* structureCommit.ts, recordOps.ts, undoDelete.ts, sceneOps.ts and        *)
(* shootOps.ts.  The host runs each as one transaction, so each is one     *)
(* operator from a film to a film; ScriptView.tla interleaves them.        *)
(*                                                                         *)
(* A film is a record of its tables:                                       *)
(*   rows     the stored script, see SceneOrder                            *)
(*   scenes   scene id -> number                                           *)
(*   spans    span id -> [name, start, num]; one table stands for act and  *)
(*            sequence, which the code treats alike                        *)
(*   shots    shot id -> [scene, code]                                     *)
(*   members  <<scene, span>> -> order_in_sequence                         *)
(*   policy   "derived" or "fixed"                                         *)
(*   next     the row ids the next inserts get, one counter per table      *)
(***************************************************************************)
EXTENDS SceneOrder, SequencesExt

\* A table of one row, and a table with the rows of another put over its own.
OneRow(id, row) == [k \in {id} |-> row]

PutOver(table, rows) ==
  [k \in DOMAIN table \cup DOMAIN rows |->
     IF k \in DOMAIN rows THEN rows[k] ELSE table[k]]

\* The lines as linkAndCreateAtCommit leaves them.  A heading keeps the scene
\* it carries unless an earlier heading has claimed it; the others get a new
\* scene, or none when the commit may not create.  A line below a heading has
\* the heading's scene.
KeepsScene(rows, i) ==
  /\ rows[i].scene # None
  /\ \A j \in HeadingsOf(rows) : j < i => rows[j].scene # rows[i].scene

Unlinked(rows) == {i \in HeadingsOf(rows) : ~KeepsScene(rows, i)}

\* Slip: the scenes one commit creates all get the same row id.
HeadingSceneSame(f, rows, createNew, i) ==
  IF KeepsScene(rows, i) THEN rows[i].scene
  ELSE IF createNew THEN f.next.scene ELSE None

HeadingScene(f, rows, createNew, i) ==
  IF KeepsScene(rows, i) THEN rows[i].scene
  ELSE IF createNew
       THEN f.next.scene + Cardinality({j \in Unlinked(rows) : j < i})
       ELSE None

LinkedRows(f, rows, createNew) ==
  LET above(i) == {j \in HeadingsOf(rows) : j <= i}
      nearest(i) == CHOOSE j \in above(i) : \A k \in above(i) : k <= j
  IN  [i \in DOMAIN rows |->
         [rows[i] EXCEPT !.scene =
            IF above(i) = {} THEN None
            ELSE HeadingScene(f, rows, createNew, nearest(i))]]

-----------------------------------------------------------------------------
(* commitStructure: the sections' spans, then everything that follows from  *)
(* the order of the scenes.                                                 *)

\* The scene a section anchors to: that of the first linked heading below it.
SectionAnchor(rows, i) ==
  LET below == {j \in HeadingsOf(rows) : j > i /\ rows[j].scene # None}
  IN  IF below = {} THEN None
      ELSE rows[CHOOSE j \in below : \A k \in below : j <= k].scene

\* The sections that have an anchor; the others are left alone.
Sections(rows) ==
  {i \in DOMAIN rows : rows[i].type = "section" /\ SectionAnchor(rows, i) # None}

\* The span a section names: the one it is bound to, else the last one with
\* its label, as the spans were before the commit.
NamedSpan(spans, row) ==
  LET named == {a \in DOMAIN spans : spans[a].name = row.text}
  IN  IF row.ref \in DOMAIN spans THEN row.ref
      ELSE IF named = {} THEN None
      ELSE CHOOSE a \in named : \A b \in named : b <= a

\* The sections that get a span of their own: the first of each new label.
Creating(spans, rows) ==
  LET new == {i \in Sections(rows) : NamedSpan(spans, rows[i]) = None}
  IN  {i \in new : \A j \in new : rows[j].text = rows[i].text => i <= j}

\* The span section i is bound to by the commit.
BoundSpan(f, rows, createNew, i) ==
  LET named == NamedSpan(f.spans, rows[i])
      first == CHOOSE j \in Creating(f.spans, rows) : rows[j].text = rows[i].text
  IN  IF named # None THEN named
      ELSE IF createNew
      THEN f.next.span + Cardinality({j \in Creating(f.spans, rows) : j < first})
      ELSE None

LastOf(S) == CHOOSE i \in S : \A j \in S : j <= i

\* Section i is bound to span[i], or to none; creating are the first of those
\* bound to a span that is created.  A span starts where the last of its
\* sections does, and has the last name that differs from its own among the
\* sections that were bound to it.
BindSections(f, rows, span, creating) ==
  LET of(a)    == {i \in DOMAIN span : span[i] = a}
      old(a)   == IF a \in DOMAIN f.spans THEN f.spans[a]
                  ELSE [name |-> rows[LastOf(of(a))].text, start |-> None, num |-> None]
      names(a) == {i \in of(a) : rows[i].ref = a /\ rows[i].text # old(a).name}
  IN  [spans |-> [a \in DOMAIN f.spans \cup {span[i] : i \in creating} |->
                    [name  |-> IF names(a) = {} THEN old(a).name
                               ELSE rows[LastOf(names(a))].text,
                     start |-> IF of(a) = {} THEN old(a).start
                               ELSE SectionAnchor(rows, LastOf(of(a))),
                     num   |-> old(a).num]],
       next  |-> f.next.span + Cardinality(creating),
       rows  |-> [i \in DOMAIN rows |->
                    IF i \in DOMAIN span /\ span[i] # None
                    THEN [rows[i] EXCEPT !.ref = span[i]] ELSE rows[i]]]

\* Every section of the script is bound, one after another.
CommitSections(f, rows, createNew) ==
  BindSections(f, rows,
    [i \in Sections(rows) |-> BoundSpan(f, rows, createNew, i)],
    IF createNew THEN Creating(f.spans, rows) ELSE {})

\* Slip: spans are renumbered whatever the policy says.
RenumberAllSpans(policy, spans, pos) ==
  [a \in DOMAIN spans |->
     IF a \in Anchored(spans, pos)
     THEN [spans[a] EXCEPT !.num = SpanNumber(spans, pos, a)]
     ELSE spans[a]]

\* renumberSpans: only when numbering is derived.
RenumberSpans(policy, spans, pos) ==
  [a \in DOMAIN spans |->
     IF policy = "derived" /\ a \in Anchored(spans, pos)
     THEN [spans[a] EXCEPT !.num = SpanNumber(spans, pos, a)]
     ELSE spans[a]]

\* Slip: a scene without a heading keeps its number.
RenumberPlaced(policy, scenes, hint) ==
  IF policy = "fixed" THEN scenes
  ELSE [s \in DOMAIN scenes |->
          IF s \in DOMAIN hint THEN hint[s] + 1 ELSE scenes[s]]

\* Scene numbers: the position in the script, cleared for a scene without one.
RenumberScenes(policy, scenes, hint) ==
  IF policy = "fixed" THEN scenes
  ELSE [s \in DOMAIN scenes |-> IF s \in DOMAIN hint THEN hint[s] + 1 ELSE None]

\* Shot codes follow their scene's number, read under the number it had.
RestampShots(policy, shots, scenes, hint) ==
  [h \in DOMAIN shots |->
     IF policy = "derived" /\ shots[h].scene \in DOMAIN hint
     THEN [shots[h] EXCEPT !.code =
             Restamped(@, scenes[shots[h].scene], hint[shots[h].scene] + 1)]
     ELSE shots[h]]

\* scene_sequence: a row for every scene of every span, never a row less.
DerivedMembers(spans, pos) ==
  LET of == {m \in (DOMAIN pos) \X Anchored(spans, pos) :
               m[1] \in SpanScenes(spans, pos, m[2])}
  IN  [m \in of |-> pos[m[1]] - pos[spans[m[2]].start] + 1]

\* The headings whose order counts are those of the script as it is stored
\* when the structure is committed.
OrderSource(f, rows) == f.rows

CommitStructure(f, rows, createNew) ==
  LET bound == CommitSections(f, rows, createNew)
      hint  == SceneOrderHint(OrderSource(f, rows))
      pos   == ScenePositions(hint, f.scenes)
  IN  [f EXCEPT
         !.rows      = bound.rows,
         !.scenes    = RenumberScenes(f.policy, @, hint),
         !.shots     = RestampShots(f.policy, @, f.scenes, hint),
         !.spans     = RenumberSpans(f.policy, bound.spans, pos),
         !.members   = PutOver(@, DerivedMembers(bound.spans, pos)),
         !.next.span = bound.next]

\* "script.commit": link, create, commit the structure, and only then replace
\* the stored lines.  A line that names a scene the film does not have is
\* refused by the foreign key, and the whole transaction rolls back.
CommitScript(f, plan, createNew) ==
  LET rows    == LinkedRows(f, plan, createNew)
      created == IF createNew
                 THEN {rows[i].scene : i \in Unlinked(plan)} ELSE {}
      linked  == [f EXCEPT
                    !.scenes     = PutOver([s \in created |-> None], @),
                    !.next.scene = @ + Cardinality(created)]
      stored  == CommitStructure(linked, rows, createNew)
      ok      == \A i \in DOMAIN rows :
                   rows[i].scene \in DOMAIN linked.scenes \cup {None}
  IN  [ok |-> ok, film |-> IF ok THEN stored ELSE f]

-----------------------------------------------------------------------------
(* Structure, shots and scene records.                                      *)

Positions(f) == ScenePositions(SceneOrderHint(f.rows), f.scenes)

Renumbered(f) == [f EXCEPT !.spans = RenumberSpans(f.policy, @, Positions(f))]

\* "Untitled act": a name no section line of the script has.
Untitled == 99

CreateSpan(f, s) ==
  Renumbered([f EXCEPT
    !.spans = PutOver(@, OneRow(f.next.span, [name |-> Untitled, start |-> s, num |-> None])),
    !.next.span = @ + 1])

SetSpanBoundary(f, a, s) == Renumbered([f EXCEPT !.spans[a].start = s])

Codes(f, s, except) ==
  {f.shots[h].code : h \in {k \in DOMAIN f.shots : f.shots[k].scene = s} \ except}

AddShot(f, s) ==
  [f EXCEPT
     !.shots = PutOver(@, OneRow(f.next.shot,
                 [scene |-> s,
                  code  |-> NextShotNumber(f.scenes[s], Codes(f, s, {}))])),
     !.next.shot = @ + 1]

\* updateRecord of a shot's scene: it takes the next code of its new scene.
MoveShotTo(f, h, s) ==
  IF f.shots[h].scene = s THEN f
  ELSE [f EXCEPT !.shots[h] =
          [scene |-> s, code |-> NextShotNumber(f.scenes[s], Codes(f, s, {h}))]]

\* duplicateSceneRow copies everything but the scene's identity and number.
DuplicateSceneRow(f) ==
  [f EXCEPT !.scenes = PutOver(@, OneRow(f.next.scene, None)), !.next.scene = @ + 1]

\* The foreign key of the stored lines: a deleted scene's lines lose it.
UnlinkRows(rows, s) ==
  [i \in DOMAIN rows |->
     IF rows[i].scene = s THEN [rows[i] EXCEPT !.scene = None] ELSE rows[i]]

\* removeSceneCascade: the scene with its shots and memberships.  A boundary is
\* left where it is (sceneCascade leaves act and sequence out): one that has not
\* been re-anchored before starts at a scene that is gone.
RemoveSceneCascade(f, s) ==
  [f EXCEPT
     !.scenes  = [t \in DOMAIN @ \ {s} |-> @[t]],
     !.shots   = [h \in {k \in DOMAIN @ : @[k].scene # s} |-> @[h]],
     !.members = [m \in {n \in DOMAIN @ : n[1] # s} |-> @[m]],
     !.rows    = UnlinkRows(@, s)]

-----------------------------------------------------------------------------
(* Deleting a scene's record, and putting it back.                          *)

\* Slip: the capture forgets the boundaries that are about to move.
CaptureWithoutSpans(f, s) ==
  [scene   |-> s,
   number  |-> f.scenes[s],
   spans   |-> <<>>,
   shots   |-> [h \in {k \in DOMAIN f.shots : f.shots[k].scene = s} |->
                  f.shots[h]],
   members |-> [m \in {n \in DOMAIN f.members : n[1] = s} |-> f.members[m]]]

\* captureForUndo: the row, and the rows of other tables that point at it.
CaptureForUndo(f, s) ==
  [scene   |-> s,
   number  |-> f.scenes[s],
   spans   |-> [a \in {b \in DOMAIN f.spans : f.spans[b].start = s} |->
                  f.spans[a]],
   shots   |-> [h \in {k \in DOMAIN f.shots : f.shots[k].scene = s} |->
                  f.shots[h]],
   members |-> [m \in {n \in DOMAIN f.members : n[1] = s} |-> f.members[m]]]

\* The script's scenes in order, each once.
ScriptOrder(rows) ==
  LET hint == SceneOrderHint(rows)
  IN  [i \in 1..Cardinality(DOMAIN hint) |->
         CHOOSE s \in DOMAIN hint : hint[s] = i - 1]

\* deleteRecord: capture, hand its boundaries on, delete.  The rows that point
\* at it stay, except that the script's lines lose their scene.
DeleteScene(f, s) ==
  [f EXCEPT
     !.spans  = ReanchorSpans(@, s, ScriptOrder(f.rows)),
     !.scenes = [t \in DOMAIN @ \ {s} |-> @[t]],
     !.rows   = UnlinkRows(@, s)]

\* restoreFromUndo: every captured row is inserted or put over what is there.
RestoreFromUndo(f, undo) ==
  [f EXCEPT
     !.scenes  = PutOver(@, OneRow(undo.scene, undo.number)),
     !.spans   = PutOver(@, undo.spans),
     !.shots   = PutOver(@, undo.shots),
     !.members = PutOver(@, undo.members)]
=============================================================================
