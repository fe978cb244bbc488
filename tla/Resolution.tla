------------------------------ MODULE Resolution ------------------------------
(***************************************************************************)
(* What the film says at a position: the read-only answers of the core,    *)
(* scf-core/src/resolution.ts, presence.ts and the compositions of         *)
(* canonicalQueries.ts.  Operators only; FilmAnswers.tla changes a film    *)
(* and asks again.                                                         *)
(*                                                                         *)
(* A film f is a record of tables, functions from row ids; a row that can  *)
(* be cut has a flag `cut`:                                                *)
(*   scene   [num, loc, time, weather, season, cut]                        *)
(*   script  the headings in script order, a sequence of [type, scene]     *)
(*   span    [start, cut]            acts; sequences are alike             *)
(*   subject [kind, cut]             characters, props and locations       *)
(*   variant [of, baseline, time, weather, season, cut]                    *)
(*   cast    [scene, who, role, variant]     scene_character, scene_prop   *)
(*   state   [of, scene, modality, persistence, resolved, name, keys, cut] *)
(*   keyed   [of, scene, cut]        the states of pattern 3 (latest_wins) *)
(*   shot    [scene, complete, cut]                                        *)
(*   frame   [shot, who, framing, described]   shot_character, shot_prop   *)
(*   bundle  [intent, cut]                                                 *)
(*   asset   [cut]                                                         *)
(*   member  [bundle, asset, order]                                        *)
(*   binding [of, bundle, baseline, precedence, replaces, from, to, time,  *)
(*            variant, physical, vocal, cut]                               *)
(*   anchor  [of, variant, type, status, asset, cut]                       *)
(*   override [of, shot, bundle, cut]                                      *)
(*   profile [of, modality, cut]     beat [of, scene, modality, order, cut] *)
(*   blocking [scene, cut]           staging [of, order, cut], its beats   *)
(*   relation [a, b, cut]            character_relationship                *)
(*   motif   [related, cut]                                                *)
(*   appearance [motif, scene]                                             *)
(*   intent  [entity, scene, shot, cut]      rows of the direction cascade *)
(*   theme   [theme, kind, of]       thematic_connection                   *)
(* None is NULL for ids, Blank for text.  `keyed.of` is <<table, id>>, of  *)
(* a relation, a prop or a motif.                                          *)
(***************************************************************************)
EXTENDS SceneOrder, Integers, SequencesExt

Blank == ""

\* rows(), excludeCut: a cut row is not in the film.
InFilm(table) == {r \in DOMAIN table : ~table[r].cut}

First(ids) == CHOOSE i \in ids : \A j \in ids : i <= j
ById(a, b) == a < b

\* `Before` is total on ids.
Sorted(ids, Before(_, _)) ==
  [i \in 1..Cardinality(ids) |->
     CHOOSE x \in ids : Cardinality({y \in ids : Before(y, x)}) = i - 1]

-----------------------------------------------------------------------------
(* Positions *)

\* sceneOrder: the story position of every scene in the film.
StoryOrder(f) ==
  ScenePositions(SceneOrderHint(f.script),
                 [s \in InFilm(f.scene) |-> f.scene[s].num])

\* A cut scene is a position with nothing at it.
Nowhere == -1

PositionInFilm(f, s) ==
  IF s \in DOMAIN f.scene /\ f.scene[s].cut THEN Nowhere ELSE s

\* A shot is asked about in its own scene, or not answered (sceneOfPosition).
Answerable(f, s, shot) ==
  shot # None => /\ f.shot[shot].scene # None
                 /\ s \in {None, f.shot[shot].scene}

SceneOfPosition(f, s, shot) ==
  PositionInFilm(f, IF shot = None THEN s ELSE f.shot[shot].scene)

\* Where a query about a shot is answered; at a cut scene there are no shots.
AskedAt(f, s, shot) ==
  LET position == SceneOfPosition(f, s, shot)
  IN  [scene |-> position, shot |-> IF position = Nowhere THEN None ELSE shot]

\* Slip: any row of the film, also those yet to come.
ReachedEver(pos, t, s) == t \in DOMAIN pos /\ s \in DOMAIN pos

\* Is scene t placed at or before s?
Reached(pos, t, s) ==
  t \in DOMAIN pos /\ s \in DOMAIN pos /\ pos[t] <= pos[s]

-----------------------------------------------------------------------------
(* The description cascade *)

\* Pattern 2: from its scene until it is resolved, or at its scene only.
IsInForce(pos, r, s) ==
  IF r.persistence = "until_resolved"
  THEN Reached(pos, r.scene, s) /\ ~Reached(pos, r.resolved, s)
  ELSE s \in DOMAIN pos /\ r.scene = s

\* Oldest first; `modalities` is what the caller asks for.
StatesInForce(f, pos, c, s, modalities) ==
  LET states == {r \in InFilm(f.state) :
                   /\ f.state[r].of = c /\ f.state[r].modality \in modalities
                   /\ IsInForce(pos, f.state[r], s)}
      Older(a, b) == \/ pos[f.state[a].scene] < pos[f.state[b].scene]
                     \/ f.state[a].scene = f.state[b].scene /\ a < b
  IN  Sorted(states, Older)

\* mergedModulations: each key from the last state that has it.
MergedModulations(f, states) ==
  LET With(k) == {i \in DOMAIN states : k \in f.state[states[i]].keys}
  IN  [k \in UNION {f.state[states[i]].keys : i \in DOMAIN states} |->
         states[CHOOSE i \in With(k) : \A j \in With(k) : j <= i]]

\* byBeatOrder: a beat with no order counts as 0.
Beats(table, ids) ==
  LET Earlier(a, b) == \/ table[a].order < table[b].order
                       \/ table[a].order = table[b].order /\ a < b
  IN  Sorted(ids, Earlier)

\* resolveDescription, Q05 and Q06: what is always so, what is so by now, and
\* what is so at the scene.
ResolveDescription(f, pos, c, s, modality) ==
  LET Of(table)  == {r \in InFilm(f[table]) :
                       f[table][r].of = c /\ f[table][r].modality = modality}
      states     == StatesInForce(f, pos, c, s, {modality})
  IN  [profile |-> IF Of("profile") = {} THEN None ELSE First(Of("profile")),
       states |-> states, modulations |-> MergedModulations(f, states),
       beats |-> Beats(f.beat, {b \in Of("beat") : f.beat[b].scene = s})]

\* Pattern 3: the latest of `ids` at or before s, the higher id of two.
Latest(pos, table, ids, s) ==
  LET past == {r \in ids : Reached(pos, table[r].scene, s)}
      Later(a, b) == \/ pos[table[a].scene] > pos[table[b].scene]
                     \/ table[a].scene = table[b].scene /\ a > b
  IN  IF past = {} THEN None
      ELSE CHOOSE r \in past : \A o \in past \ {r} : Later(r, o)

LatestState(f, pos, of, s) ==
  Latest(pos, f.keyed, {r \in InFilm(f.keyed) : f.keyed[r].of = of}, s)

-----------------------------------------------------------------------------
(* The direction cascade.  `chain` is root first, a sequence of [entity,    *)
(* pattern]: "latest", "global", or the column that scopes it, "scene" or   *)
(* "shot" (which has a scene as well).                                      *)

FetchLayer(f, pos, layer, s, shot) ==
  LET of  == {r \in InFilm(f.intent) : f.intent[r].entity = layer.entity}
      own == {r \in of : f.intent[r].shot = shot}
      at  == {r \in of : /\ f.intent[r].scene = s
                         /\ layer.pattern = "shot" => f.intent[r].shot = None}
      fits == IF layer.pattern = "shot" /\ shot # None /\ own # {} THEN own
              ELSE IF layer.pattern \in {"scene", "shot"} /\ s # None THEN at
              ELSE IF layer.pattern = "global" THEN of
              ELSE {}
  IN  IF layer.pattern = "latest" THEN Latest(pos, f.intent, of, s)
      ELSE IF fits = {} THEN None ELSE First(fits)

ResolveDirection(f, pos, chain, s, shot) ==
  SelectSeq([i \in DOMAIN chain |-> FetchLayer(f, pos, chain[i], s, shot)],
            LAMBDA r : r # None)

-----------------------------------------------------------------------------
(* Variants *)

Axes == <<"time", "weather", "season">>

Agrees(scene, variant, axis) ==
  /\ scene[axis] # Blank /\ variant[axis] # Blank
  /\ \/ axis = "time" /\ variant[axis] = "varies"
     \/ scene[axis] = variant[axis]

\* The axes in rank order, then being the baseline; of equals the first row.
Fit(scene, variant) ==
  [i \in 1..4 |-> IF i = 4 THEN variant.baseline
                  ELSE Agrees(scene, variant, Axes[i])]

Outfits(a, b) == \E i \in 1..4 : a[i] /\ ~b[i] /\ \A j \in 1..(i - 1) : a[j] = b[j]

Fittest(fit) ==
  CHOOSE v \in DOMAIN fit : \A w \in DOMAIN fit \ {v} :
    Outfits(fit[v], fit[w]) \/ (~Outfits(fit[w], fit[v]) /\ v < w)

\* The fittest, but the baseline if that agrees on no axis.
Selected(f, fit, best) ==
  LET baselines == {v \in DOMAIN fit : f.variant[v].baseline}
  IN  IF baselines # {} /\ \A i \in 1..3 : ~fit[best][i]
      THEN First(baselines) ELSE best

FitOf(f, s) ==
  [v \in {x \in InFilm(f.variant) : f.variant[x].of = f.scene[s].loc} |->
     Fit(f.scene[s], f.variant[v])]

SelectLocationVariant(f, s) ==
  LET Of(fit) == IF fit = << >> THEN None ELSE Selected(f, fit, Fittest(fit))
  IN  IF s \in InFilm(f.scene) THEN Of(FitOf(f, s)) ELSE None

Mismatches(f, s, v) ==
  {axis \in ToSet(Axes) :
     /\ f.scene[s][axis] # Blank /\ f.variant[v][axis] # Blank
     /\ ~Agrees(f.scene[s], f.variant[v], axis)}

\* The variant of subject c that is in force at s: for a location the one
\* selected for the scene, else the one the subject's first link there names.
VariantInForce(f, c, s) ==
  LET links == {l \in DOMAIN f.cast : f.cast[l].scene = s /\ f.cast[l].who = c}
      Its(v) == IF s # None /\ v \in InFilm(f.variant) /\ f.variant[v].of = c
                THEN v ELSE None
  IN  Its(IF f.subject[c].kind = "location" THEN SelectLocationVariant(f, s)
          ELSE IF links = {} THEN None ELSE f.cast[First(links)].variant)

-----------------------------------------------------------------------------
(* The media cascade *)

\* bindingApplies: what a binding declares and the position does not meet,
\* in the order the code asks.
Filters == <<"not_baseline", "before_scene_range", "after_scene_range",
             "time_of_day_filter", "variant_id", "physical", "vocal">>

HasState(f, pos, c, s, modality, name) ==
  LET states == StatesInForce(f, pos, c, s, {modality})
  IN  \E i \in DOMAIN states : f.state[states[i]].name = name

Fails(f, pos, b, s, filter) ==
  LET r == f.binding[b] IN
  IF s = None THEN filter = "not_baseline" /\ ~r.baseline
  ELSE \/ /\ filter = "before_scene_range" /\ r.from \in DOMAIN pos
          /\ ~Reached(pos, r.from, s)
       \/ /\ filter = "after_scene_range" /\ r.to \in DOMAIN pos
          /\ ~Reached(pos, s, r.to)
       \/ /\ filter = "time_of_day_filter" /\ r.time # Blank
          /\ s \in InFilm(f.scene) => f.scene[s].time # r.time
       \/ /\ filter = "variant_id" /\ r.variant # None
          /\ VariantInForce(f, r.of, s) # r.variant
       \/ /\ filter \in {"physical", "vocal"} /\ r[filter] # Blank
          /\ f.subject[r.of].kind = "character"
          /\ ~HasState(f, pos, r.of, s, filter, r[filter])

FailedFilters(f, pos, b, s) ==
  SelectSeq(Filters, LAMBDA filter : Fails(f, pos, b, s, filter))

\* bundleAssets: by order, rows without one last, then by row id.
BundleAssets(f, bundle) ==
  LET members == {m \in DOMAIN f.member : f.member[m].bundle = bundle}
      Before(a, b) ==
        LET x == f.member[a].order
            y == f.member[b].order
        IN  \/ x # None /\ (y = None \/ x < y)
            \/ x = y /\ a < b
      Assets(sorted) == [i \in DOMAIN sorted |-> f.member[sorted[i]].asset]
  IN  SelectSeq(Assets(Sorted(members, Before)), LAMBDA a : a \in InFilm(f.asset))

OfIntent(f, bundle, intent) ==
  bundle \in InFilm(f.bundle) /\ f.bundle[bundle].intent = intent

\* Bindings of the subject for the intent, highest precedence first.
Considered(f, c, intent) ==
  LET ids == {b \in InFilm(f.binding) :
                f.binding[b].of = c /\ OfIntent(f, f.binding[b].bundle, intent)}
      Before(a, b) ==
        LET x == f.binding[a].precedence
            y == f.binding[b].precedence
        IN  x > y \/ (x = y /\ a < b)
  IN  Sorted(ids, Before)

\* Slip: a binding replaces others also where it does not apply itself.
ReplacersAnywhere(f, bindings, applying) ==
  SelectSeq(bindings, LAMBDA b : f.binding[b].replaces)

\* The bindings in force that replace those below them.
Replacers(f, bindings, applying) ==
  SelectSeq(bindings, LAMBDA b : b \in applying /\ f.binding[b].replaces)

\* The first of them excludes what is below its precedence.
ReplacedBy(f, replacers, b) ==
  /\ replacers # <<>>
  /\ f.binding[b].precedence < f.binding[replacers[1]].precedence

\* The kind of anchor that answers an intent; Blank for an intent of no kind.
AnchorType(intent) ==
  CASE intent \in {"visual_identity", "surface", "environment"} -> "visual"
    [] intent \in {"voice_identity", "acoustic"}                -> "audio"
    [] intent \in {"motion", "performance"}                     -> "motion"
    [] OTHER                                                    -> Blank

\* entity_anchor: those of the intent's type, or of any, whose asset is not cut.
AnchorsOf(f, c, intent) ==
  {a \in InFilm(f.anchor) :
     /\ f.anchor[a].of = c /\ AnchorType(intent) \in {Blank, f.anchor[a].type}
     /\ f.anchor[a].asset \in DOMAIN f.asset => ~f.asset[f.anchor[a].asset].cut}

Verified(f, anchors) == {a \in anchors : f.anchor[a].status \in {Blank, "verified"}}

\* The anchors of the variant in force, or else the subject's own.
KeptAnchors(f, anchors, variant) ==
  LET ofVariant == {a \in anchors : variant # None /\ f.anchor[a].variant = variant}
  IN  IF ofVariant # {} THEN ofVariant
      ELSE {a \in anchors : f.anchor[a].variant = None}

Entry(layer, row, why) == [layer |-> layer, row |-> row, why |-> why]

BindingEntry(f, b, failed, replacers) ==
  Entry("binding", b, IF failed # <<>> THEN failed[1]
                      ELSE IF ReplacedBy(f, replacers, b) THEN "replaced" ELSE Blank)

AnchorEntry(f, kept, verified, a) ==
  Entry("anchor", a, IF a \notin verified THEN "canonical_status"
                     ELSE IF a \in kept THEN Blank
                     ELSE IF f.anchor[a].variant # None THEN "variant_not_in_force"
                     ELSE "displaced")

Assets(f, ids, table) ==
  FlattenSeq([i \in DOMAIN ids |-> BundleAssets(f, table[ids[i]].bundle)])

\* The bindings, highest first, what each of them fails, the overrides of the
\* shot, and the anchors, verified and kept.
ComposeMedia(f, bindings, failed, replacers, overrides, anchors, verified, kept) ==
  LET Used(b) == failed[b] = <<>> /\ ~ReplacedBy(f, replacers, b)
      Order(ids) == Sorted(ids, ById)
      left == Order(anchors \ verified) \o Order(verified \ kept) \o Order(kept)
      Answer(used) ==
        [base |-> Assets(f, used, f.binding), bindings |-> used,
         override |-> Assets(f, overrides, f.override), anchors |-> Order(kept),
         trail |-> Reverse([i \in DOMAIN bindings |->
                              BindingEntry(f, bindings[i], failed[bindings[i]], replacers)])
                   \o [i \in DOMAIN left |-> AnchorEntry(f, kept, verified, left[i])]
                   \o [i \in DOMAIN overrides |-> Entry("shot", overrides[i], Blank)]]
  IN  Answer(SelectSeq(bindings, Used))

\* The overrides of a subject at a shot, for the intent.
Overrides(f, c, intent, shot) ==
  {o \in InFilm(f.override) :
     /\ f.override[o].of = c /\ f.override[o].shot = shot
     /\ shot # None /\ OfIntent(f, f.override[o].bundle, intent)}

ResolveMedia(f, pos, c, intent, s, shot) ==
  LET Applying(failed) == {b \in DOMAIN failed : failed[b] = <<>>}
      Bound(bindings, failed, anchors, verified) ==
        ComposeMedia(f, bindings, failed, Replacers(f, bindings, Applying(failed)),
                     Sorted(Overrides(f, c, intent, shot), ById), anchors, verified,
                     KeptAnchors(f, verified, VariantInForce(f, c, s)))
      Of(bindings, anchors) ==
        Bound(bindings, [b \in ToSet(bindings) |-> FailedFilters(f, pos, b, s)],
              anchors, Verified(f, anchors))
  IN  Of(Considered(f, c, intent), AnchorsOf(f, c, intent))

\* assets_most_specific_first
MostSpecificFirst(media) ==
  media.override
  \o SelectSeq(media.base, LAMBDA a : a \notin ToSet(media.override))

-----------------------------------------------------------------------------
(* Presence *)

\* optionPresence, over the values told apart here.
ValuePresence(value) ==
  IF value \in {"voiceover", "off_screen"} THEN "heard"
  ELSE IF value = "mentioned" THEN "named" ELSE "seen"

\* presenceAtScene: each subject by its first link, cut or not.
PresenceAtScene(f, s) ==
  LET links == {l \in DOMAIN f.cast : f.cast[l].scene = s}
      Of(c) == {l \in links : f.cast[l].who = c}
  IN  [c \in {f.cast[l].who : l \in links} |-> ValuePresence(f.cast[First(Of(c))].role)]

FrameOf(f, shot) == {r \in DOMAIN f.frame : f.frame[r].shot = shot}

\* presenceAtShot: those a row names, then those of the scene unless the rows
\* are the whole frame.
PresenceAtShot(f, shot) ==
  LET atScene  == PresenceAtScene(f, f.shot[shot].scene)
      Of(c)    == {r \in FrameOf(f, shot) : f.frame[r].who = c}
      recorded == {f.frame[r].who : r \in FrameOf(f, shot)} \cap InFilm(f.subject)
      others   == IF f.shot[shot].complete THEN {}
                  ELSE (DOMAIN atScene \cap InFilm(f.subject)) \ recorded
  IN  [recorded  |-> [c \in recorded |-> ValuePresence(f.frame[First(Of(c))].framing)],
       inherited |-> [c \in others |-> atScene[c]]]

Problem(code, row) == [code |-> code, row |-> row]

\* presenceProblems with variantProblems.
PresenceProblems(f) ==
  LET shots == InFilm(f.shot)
      rows  == UNION {FrameOf(f, h) : h \in shots}
      Linked(r) == PresenceAtScene(f, f.shot[f.frame[r].shot].scene)
  IN  {Problem("shot_subject_not_in_scene", r) :
         r \in {x \in rows : f.frame[x].who \notin DOMAIN Linked(x)}}
      \cup {Problem("named_but_on_screen", r) :
         r \in {x \in rows : /\ f.frame[x].who \in DOMAIN Linked(x)
                             /\ Linked(x)[f.frame[x].who] = "named"
                             /\ ValuePresence(f.frame[x].framing) = "seen"}}
      \cup {Problem("off_screen_described", r) :
         r \in {x \in rows : f.frame[x].framing = "off_screen" /\ f.frame[x].described}}
      \cup {Problem("complete_but_empty", h) :
         h \in {x \in shots : f.shot[x].complete /\ FrameOf(f, x) = {}}}
      \cup {Problem("variant_foreign", l) :
         l \in {x \in DOMAIN f.cast :
                  /\ f.cast[x].variant \in DOMAIN f.variant
                  /\ f.variant[f.cast[x].variant].of # f.cast[x].who}}

-----------------------------------------------------------------------------
(* Queries *)

\* Slip: a join that reads the link and not what it links to.
CastOfLinks(f, scenes) == {l \in DOMAIN f.cast : f.cast[l].scene \in scenes}

\* The links at some scenes to subjects of the film.
CastOf(f, scenes) ==
  {l \in DOMAIN f.cast :
     f.cast[l].scene \in scenes /\ f.cast[l].who \in InFilm(f.subject)}

AllModalities == {"physical", "vocal"}

\* spanMembership: the scenes of a span, over the film without its cut rows.
SpanCovers(f, pos, a) ==
  LET spans == [x \in InFilm(f.span) |-> f.span[x]]
  IN  IF a \in Anchored(spans, pos) THEN SpanScenes(spans, pos, a) ELSE {}

\* Q03, what is true at a scene: a row for each link, and the motifs placed.
ComposeQ03(f, asked) ==
  LET s    == PositionInFilm(f, asked)
      pos  == StoryOrder(f)
      cast == Sorted(CastOf(f, {s}), ById)
      seen == PresenceAtScene(f, s)
      Row(c) == [who |-> c, presence |-> seen[c], variant |-> VariantInForce(f, c, s),
                 states |-> StatesInForce(f, pos, c, s, AllModalities),
                 state |-> LatestState(f, pos, <<"subject", c>>, s)]
  IN  [there  |-> s \in InFilm(f.scene),
       cast   |-> [i \in DOMAIN cast |-> Row(f.cast[cast[i]].who)],
       motifs |-> {a \in DOMAIN f.appearance :
                     /\ f.appearance[a].scene = s
                     /\ f.appearance[a].motif \in InFilm(f.motif)}]

\* Q04, the package of a scene: the spans it is in, its cast and props, its
\* place, and the beats of its blocking.  Its story beats and design rows are
\* looked up by scene as the blocking is.
ComposeQ04(f, asked) ==
  LET s     == PositionInFilm(f, asked)
      pos   == StoryOrder(f)
      cast  == Sorted(CastOf(f, {s}), ById)
      seen  == PresenceAtScene(f, s)
      place == SelectLocationVariant(f, s)
      blocked == {b \in InFilm(f.blocking) : f.blocking[b].scene = s}
      Who(c) == [who |-> c, presence |-> seen[c], variant |-> VariantInForce(f, c, s)]
  IN  [lineage  |-> {a \in InFilm(f.span) : s \in SpanCovers(f, pos, a)},
       cast     |-> [i \in DOMAIN cast |-> Who(f.cast[cast[i]].who)],
       location |-> {l \in InFilm(f.subject) : s \in InFilm(f.scene) /\ f.scene[s].loc = l},
       variant  |-> <<place, IF place = None THEN {} ELSE Mismatches(f, s, place)>>,
       beats    |-> Beats(f.staging, {b \in InFilm(f.staging) : f.staging[b].of \in blocked})]

\* Q02, a subject in context, without the dossier that is so of it anywhere;
\* its arcs are read as its relations are.
ComposeQ02(f, c, asked, shot) ==
  LET at   == AskedAt(f, asked, shot)
      s    == at.scene
      pos  == StoryOrder(f)
      kind == f.subject[c].kind
      with == {r \in InFilm(f.relation) : c \in {f.relation[r].a, f.relation[r].b}}
      intent == IF kind = "location" THEN "environment" ELSE "visual_identity"
  IN  [relations |-> {LatestState(f, pos, <<"relation", r>>, s) : r \in with} \ {None},
       states    |-> IF kind = "character"
                     THEN StatesInForce(f, pos, c, s, AllModalities) ELSE <<>>,
       beats     |-> Beats(f.beat, {b \in InFilm(f.beat) : /\ f.beat[b].of = c
                                                          /\ f.beat[b].scene = s}),
       variant   |-> IF kind # "location" THEN VariantInForce(f, c, s)
                     ELSE IF s \in InFilm(f.scene) /\ f.scene[s].loc = c
                     THEN SelectLocationVariant(f, s) ELSE None,
       state     |-> IF kind = "prop" THEN LatestState(f, pos, <<"subject", c>>, s)
                     ELSE None,
       media     |-> ResolveMedia(f, pos, c, intent, s, at.shot)]

\* One side of Q12: subject c as it is at s, with the states of its own kind.
SideOf(f, pos, c, s) ==
  LET seen == PresenceAtScene(f, s)
  IN  [presence |-> IF c \in DOMAIN seen THEN seen[c] ELSE Blank,
       variant  |-> VariantInForce(f, c, s),
       states   |-> StatesInForce(f, pos, c, s, AllModalities),
       state    |-> LatestState(f, pos, <<"subject", c>>, s)]

\* Q12, from one scene to another: the characters at either, in the order of
\* their first links, and what has a state at either.
ComposeQ12(f, askedA, askedB) ==
  LET at    == [side \in 1..2 |-> PositionInFilm(f, <<askedA, askedB>>[side])]
      pos   == StoryOrder(f)
      links == {l \in CastOf(f, {at[1], at[2]}) :
                  f.subject[f.cast[l].who].kind = "character"}
      cast  == Sorted({l \in links : \A k \in links :
                         f.cast[k].who = f.cast[l].who => l <= k}, ById)
      Sides(c) == [side \in 1..2 |-> SideOf(f, pos, c, at[side])]
      States(of) == [side \in 1..2 |-> LatestState(f, pos, of, at[side])]
      Told(table) == {r \in InFilm(f[table]) : States(<<table, r>>) # <<None, None>>}
  IN  [characters |-> [i \in DOMAIN cast |->
                         <<f.cast[cast[i]].who, Sides(f.cast[cast[i]].who)>>],
       relations  |-> [r \in Told("relation") |-> States(<<"relation", r>>)],
       props      |-> [p \in Told("subject") |-> Sides(p)]]

DensityThreshold == 3

\* Q09, the motifs that should be perceived in a scene, and their neighbours.
Q09(f, asked) ==
  LET s    == PositionInFilm(f, asked)
      pos  == StoryOrder(f)
      here == {a \in DOMAIN f.appearance : f.appearance[a].scene = s}
      present == {f.appearance[a].motif : a \in here}
      Motif(a) == IF f.appearance[a].motif \in InFilm(f.motif)
                  THEN f.appearance[a].motif ELSE None
      Related(m) == IF m = None THEN None ELSE f.motif[m].related
  IN  [manifest   |-> {<<a, Motif(a),
                         LatestState(f, pos, <<"motif", f.appearance[a].motif>>, s)>>
                         : a \in here},
       candidates |-> ({Related(Motif(a)) : a \in here} \cap InFilm(f.motif)) \ present,
       dense      |-> Cardinality(here) > DensityThreshold]

\* placedAt: how often a subject's links, or the scene itself, put it at s.
\* Two appearances of a motif in a scene, to the eye and to the ear, are two.
PlacedAt(f, kind, of, s) ==
  IF kind = "motif"
  THEN Cardinality({a \in DOMAIN f.appearance :
                      f.appearance[a].motif = of /\ f.appearance[a].scene = s})
  ELSE Cardinality({l \in DOMAIN f.cast : f.cast[l].who = of /\ f.cast[l].scene = s})
       + (IF f.scene[s].loc = of THEN 1 ELSE 0)

\* A connection to a cut row is not a carrier; one to an absent row is.
Carriers(f, theme) ==
  {k \in DOMAIN f.theme :
     /\ f.theme[k].theme = theme
     /\ f.theme[k].of \in DOMAIN f[f.theme[k].kind]
        => ~f[f.theme[k].kind][f.theme[k].of].cut}

\* How often carrier k reaches scene s of the film.
Reaches(f, pos, k, s) ==
  LET kind == f.theme[k].kind
      of   == f.theme[k].of
  IN  IF kind = "scene" THEN IF of = s THEN 1 ELSE 0
      ELSE IF kind = "span" THEN IF s \in SpanCovers(f, pos, of) THEN 1 ELSE 0
      ELSE PlacedAt(f, kind, of, s)

\* Q10: the scenes each carrier of a theme reaches, and the spine: every scene
\* with its count.
Q10(f, theme) ==
  LET pos      == StoryOrder(f)
      carriers == Carriers(f, theme)
  IN  [carriers |-> [k \in carriers |->
                       {s \in DOMAIN pos : Reaches(f, pos, k, s) > 0}],
       spine    |-> [s \in DOMAIN pos |->
                       MapThenSumSet(LAMBDA k : Reaches(f, pos, k, s), carriers)]]
=============================================================================
