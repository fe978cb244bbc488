------------------------------ MODULE ShotContext ------------------------------
(***************************************************************************)
(* The answers about a shot, made of those of the canonical queries:       *)
(* scf-core/src/shotContext.ts.  A shot that records the lines it covers   *)
(* has the flag `lines`, and `speakers`, the set of who speaks in them.    *)
(***************************************************************************)
EXTENDS Readiness

\* resolveShot: a shot that is cut, or whose scene is, has no answer.
Composable(f, h) == h \in InFilm(f.shot) /\ f.shot[h].scene \in InFilm(f.scene)

\* presenceMember and subjectsAt: the scene's location is at every shot.
PresentAt(f, h) ==
  LET present == PresenceAtShot(f, h)
      place   == {l \in InFilm(f.subject) : f.scene[f.shot[h].scene].loc = l}
  IN  present.recorded @@ present.inherited @@ [l \in place |-> "seen"]

\* What a query path asks of every subject of a kind.
DeclaredIntents(kind) ==
  IF kind = "character" THEN {"voice_identity", "motion"} ELSE {}

BoundIntents(f, c) ==
  LET bundles == {f.binding[b].bundle : b \in {x \in InFilm(f.binding) : f.binding[x].of = c}}
                 \cup {f.override[o].bundle :
                         o \in {x \in InFilm(f.override) : f.override[x].of = c}}
  IN  {f.bundle[b].intent : b \in bundles \cap InFilm(f.bundle)}

AnchoredIntents ==
  {"visual_identity", "surface", "environment", "voice_identity", "acoustic",
   "motion", "performance"}

\* intentsFor: the anchors only where nothing is declared or bound.
IntentsFor(f, c) ==
  LET known == DeclaredIntents(f.subject[c].kind) \cup BoundIntents(f, c)
      types == {f.anchor[a].type : a \in {x \in InFilm(f.anchor) : f.anchor[x].of = c}}
  IN  IF known # {} THEN known
      ELSE {i \in AnchoredIntents : AnchorType(i) \in types}

HeardIntents == {"voice_identity", "acoustic"}

IntentsAsked(f, c, presence) ==
  CASE presence = "named" -> {}
    [] presence = "heard" -> IntentsFor(f, c) \cap HeardIntents
    [] presence = "seen"  -> IntentsFor(f, c)

\* mediaReferences: an anchor stands for its asset, where it has one.
References(f, media) ==
  ToSet(media.override) \cup ToSet(media.base)
  \cup ({f.anchor[a].asset : a \in ToSet(media.anchors)} \cap DOMAIN f.asset)

\* shotMedia: a subject and an intent with nothing to say are left out.
ShotMedia(f, h) ==
  LET pos == StoryOrder(f)
      Media(x) == ResolveMedia(f, pos, x[1], x[2], f.shot[h].scene, h)
      Says(m)  == References(f, m) # {} \/ m.trail # <<>>
      Saying(media) == [x \in {y \in DOMAIN media : Says(media[y])} |-> media[x]]
      Sweep(swept)  ==
        [swept |-> swept,
         media |-> Saying([x \in UNION {{c} \X swept[c] : c \in DOMAIN swept} |->
                             Media(x)])]
      Of(present) == Sweep([c \in DOMAIN present |-> IntentsAsked(f, c, present[c])])
  IN  Of(PresentAt(f, h))

\* shotContext: the look, who is there, and physical direction for those who
\* are seen.
ShotFrame(f, h) ==
  LET s       == f.shot[h].scene
      pos     == StoryOrder(f)
      seen    == SeenAt(f, s, h)
  IN  [look     |-> {FetchLayer(f, pos, l, s, h) : l \in LookLayers},
       presence |-> PresenceAtShot(f, h),
       physical |-> [c \in seen |-> ResolveDescription(f, pos, c, s, "physical")]]

\* readinessFor: each report by its target and subject.  Without lines,
\* everyone who is seen or heard may speak.
ShotReadiness(f, h) ==
  LET s       == f.shot[h].scene
      present == PresenceAtShot(f, h)
      there   == present.recorded @@ present.inherited
      cast    == {c \in DOMAIN there :
                    there[c] # "named" /\ f.subject[c].kind = "character"}
      speak   == IF f.shot[h].lines
                 THEN f.shot[h].speakers \cap InFilm(f.subject) ELSE cast
      Report(target, c) == Q14(f, target, c, Blank, s, IF target = "Q07" THEN h ELSE None)
      asked   == {"Q07", "Q08"} \X {None} \cup {"Q02", "Q06"} \X SeenAt(f, s, h)
                 \cup {"Q05"} \X speak
  IN  [x \in asked |-> Report(x[1], x[2])]
=============================================================================
