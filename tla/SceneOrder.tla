------------------------------ MODULE SceneOrder ------------------------------
(***************************************************************************)
(* The order of a film's scenes and everything derived from it:            *)
(* scf-core/src/structure.ts, sceneNumbers.ts and shots.ts.                *)
(*                                                                         *)
(* Operators only.  A film's tables are functions from row ids:            *)
(*   scenes  a scene's number, None when it has none                       *)
(*   spans   an act's or sequence's [name, start, num]                     *)
(*   rows    the stored script, a sequence of [id, type, text, scene, ref] *)
(* A scene number is a label in the code; here it is a natural number, the *)
(* only labels the program itself writes, and None (NULL) is zero.         *)
(***************************************************************************)
EXTENDS Naturals, Sequences, FiniteSets

None == 0

HeadingsOf(rows) == {i \in DOMAIN rows : rows[i].type = "heading"}

\* The scenes of a script, and the first heading of each.
ScriptScenes(rows) == {rows[i].scene : i \in HeadingsOf(rows)} \ {None}

FirstHeading(rows, s) ==
  CHOOSE i \in HeadingsOf(rows) :
    /\ rows[i].scene = s
    /\ \A j \in HeadingsOf(rows) : rows[j].scene = s => i <= j

\* The script's scenes in the order of their first headings, from zero.
SceneOrderHint(rows) ==
  [s \in ScriptScenes(rows) |->
     Cardinality({t \in ScriptScenes(rows) :
                    FirstHeading(rows, t) < FirstHeading(rows, s)})]

\* compareSceneNumbers: numbered scenes first, in the order of the numbers.
NumberBefore(m, n) == m # None /\ (n = None \/ m < n)

\* Scenes the script places come first, in its order; the others follow by
\* number, then by row id.
SceneBefore(hint, scenes, s, t) ==
  \/ s \in DOMAIN hint /\ t \notin DOMAIN hint
  \/ s \in DOMAIN hint /\ t \in DOMAIN hint /\ hint[s] < hint[t]
  \/ /\ s \notin DOMAIN hint /\ t \notin DOMAIN hint
     /\ \/ NumberBefore(scenes[s], scenes[t])
        \/ scenes[s] = scenes[t] /\ s < t

\* Every scene's index in story order, from zero.
ScenePositions(hint, scenes) ==
  [s \in DOMAIN scenes |->
     Cardinality({t \in DOMAIN scenes : SceneBefore(hint, scenes, t, s)})]

-----------------------------------------------------------------------------
(* Spans: an act or sequence starts at a scene and runs to the next start. *)

Anchored(spans, pos) == {a \in DOMAIN spans : spans[a].start \in DOMAIN pos}

SpanBefore(spans, pos, a, b) ==
  \/ pos[spans[a].start] < pos[spans[b].start]
  \/ spans[a].start = spans[b].start /\ a < b

\* The scenes of an anchored span: up to the start of the next one.
SpanScenes(spans, pos, a) ==
  {s \in DOMAIN pos :
     /\ pos[s] >= pos[spans[a].start]
     /\ \A b \in Anchored(spans, pos) :
          SpanBefore(spans, pos, a, b) => pos[s] < pos[spans[b].start]}

SpanNumber(spans, pos, a) ==
  1 + Cardinality({b \in Anchored(spans, pos) : SpanBefore(spans, pos, b, a)})

SpanOf(spans, pos, s) ==
  {a \in Anchored(spans, pos) : s \in SpanScenes(spans, pos, a)}

\* The boundary of a scene that leaves goes to the scene after it in `order`;
\* a scene that is last, or not in `order`, keeps its spans.
ReanchorSpans(spans, moved, order) ==
  LET at == {i \in 1..(Len(order) - 1) : order[i] = moved}
  IN  [a \in DOMAIN spans |->
         IF spans[a].start = moved /\ at # {}
         THEN [spans[a] EXCEPT !.start = order[1 + CHOOSE i \in at : TRUE]]
         ELSE spans[a]]

-----------------------------------------------------------------------------
(* Shot codes: a scene's number and a letter; [num |-> 42, letter |-> 0] is *)
(* "42A", and num is None for the bare letter of an unnumbered scene.       *)

\* parseShotCode: a code is read by its scene's own number, or not at all.
ParsesIn(code, number) == code.num = number

Restamped(code, from, to) ==
  IF ParsesIn(code, from) THEN [code EXCEPT !.num = to] ELSE code

\* One past the highest letter the scene's codes use.
NextShotNumber(number, taken) ==
  LET letters == {c.letter : c \in {d \in taken : ParsesIn(d, number)}}
      highest == IF letters = {} THEN 0
                 ELSE 1 + CHOOSE l \in letters : \A k \in letters : k <= l
  IN  [num |-> number, letter |-> highest]
=============================================================================
