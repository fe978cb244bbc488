------------------------------- MODULE Readiness -------------------------------
(***************************************************************************)
(* Q14, what is missing for another query to answer well:                  *)
(* scf-core/src/readiness.ts, with the rubrics of queryPaths.ts.           *)
(*                                                                         *)
(* A report is a set of findings, one for each step of the target's rubric *)
(* (and one for each character a step is about); its order and its wording *)
(* are left out.  Two tables of the film are only read here:               *)
(*   design  [entity, of, scene, cut]   any row a step asks to be there:   *)
(*           `of` is the set of subjects it names                          *)
(*   costume [of, worn, cut]            `worn`: the scenes of its rows in  *)
(*           costume_scene                                                 *)
(* and a profile has a flag `thin`: most of its columns are empty.         *)
(***************************************************************************)
EXTENDS Resolution

Finding(step, of, severity) == [step |-> step, of |-> of, severity |-> severity]

\* A step is met, or reports its absence.
Step(step, met, absent) == Finding(step, None, IF met THEN "ok" ELSE absent)
Inapplicable(step) == Finding(step, None, "ok")

Authored(f, entity, of, s) ==
  \E r \in InFilm(f.design) : /\ f.design[r].entity = entity
                              /\ f.design[r].of = of /\ f.design[r].scene = s

HasProfile(f, c, modality) ==
  \E r \in InFilm(f.profile) : f.profile[r].of = c /\ f.profile[r].modality = modality

HasBeats(f, c, s, modality) ==
  \E b \in InFilm(f.beat) : /\ f.beat[b].of = c /\ f.beat[b].scene = s
                            /\ f.beat[b].modality = modality

Located(f, s) == s \in InFilm(f.scene) /\ f.scene[s].loc # None

\* mediaStep, of Q13's answer at the position.
MediaStep(media, absent) == Step("bundle", MostSpecificFirst(media) # <<>>, absent)

\* presenceAt: a shot that is cut has nobody.
PresenceAt(f, c, s, shot) ==
  LET scene   == PresenceAtScene(f, s)
      present == PresenceAtShot(f, shot)
      there   == IF shot = None THEN scene
                 ELSE IF shot \notin InFilm(f.shot) THEN << >>
                 ELSE present.recorded @@ present.inherited
  IN  IF s # None /\ c \in DOMAIN there THEN there[c] ELSE "absent"

ReadinessQ05(f, pos, c, s, media) ==
  LET vocal    == {r \in InFilm(f.profile) :
                     f.profile[r].of = c /\ f.profile[r].modality = "vocal"}
      In(modality) == StatesInForce(f, pos, c, s, {modality})
      persists == \E i \in DOMAIN In("physical") :
                    f.state[In("physical")[i]].persistence = "until_resolved"
  IN  {Finding("vocal_profile", None,
               IF vocal = {} THEN "blocker"
               ELSE IF f.profile[First(vocal)].thin THEN "warning" ELSE "ok"),
       MediaStep(media, "blocker"),
       Finding("performance_state", None, "ok"),
       Step("performance_beat", HasBeats(f, c, s, "vocal"), "warning"),
       Step("dialogue_rhythm", Authored(f, "dialogue_rhythm", {}, s), "warning"),
       Step("sound_perspective", Authored(f, "sound_perspective", {}, s), "suggestion")}
      \cup (IF In("vocal") = <<>> /\ persists
            THEN {Finding("performance_state", c, "suggestion")} ELSE {})

ReadinessQ06(f, c, s, media) ==
  LET staged == \/ \E b \in InFilm(f.blocking) : f.blocking[b].scene = s
                \/ Authored(f, "action_sequence", {}, s)
  IN  {Step("physical_character_profile", HasProfile(f, c, "physical"), "blocker"),
       Step("scene_blocking", staged, "warning"),
       Finding("performance_state", None, "ok"),
       Finding("performance_beat", None, "ok"),
       Step("character_environment_physicality",
            Located(f, s) =>
              Authored(f, "character_environment_physicality",
                       {c, f.scene[s].loc}, None),
            "suggestion"),
       MediaStep(media, "ok")}

\* The layers of the look, root first, and what the absence of each one is.
LookLayer(entity, pattern, absent) ==
  [entity |-> entity, pattern |-> pattern, absent |-> absent]
LookLayers ==
  {LookLayer("project_color_palette", "global", "blocker"),
   LookLayer("color_script", "global", "ok"),
   LookLayer("color_script_entry", "latest", "warning"),
   LookLayer("scene_color_palette", "scene", "warning"),
   LookLayer("look_development", "global", "ok"),
   LookLayer("lighting_design", "shot", "warning"),
   LookLayer("shot_design", "shot", "suggestion")}

\* The characters seen: at the shot if there is one, or else at the scene.
SeenAt(f, s, shot) ==
  LET scene   == PresenceAtScene(f, s)
      present == PresenceAtShot(f, shot)
      there   == IF s = None THEN << >>
                 ELSE IF shot = None \/ shot \notin InFilm(f.shot) THEN scene
                 ELSE present.recorded @@ present.inherited
  IN  {c \in DOMAIN there : there[c] = "seen" /\ f.subject[c].kind = "character"}

ReadinessQ07(f, pos, s, shot) ==
  LET Look(c)    == Authored(f, "character_appearance_profile", {c}, None)
      unprofiled == {c \in SeenAt(f, s, shot) : ~Look(c)}
  IN  {Step(l.entity, \/ l.entity = "shot_design" /\ shot = None
                      \/ FetchLayer(f, pos, l, s, shot) # None, l.absent) :
         l \in LookLayers}
      \cup {Step("visual_identity", Authored(f, "visual_identity", {}, None), "blocker")}
      \cup {Finding("character_appearance_profile", c, "warning") : c \in unprofiled}
      \cup (IF unprofiled = {} THEN {Inapplicable("character_appearance_profile")} ELSE {})

ReadinessQ08(f, s) ==
  LET cued == \E e \in {"sound_cue", "music_cue"} : Authored(f, e, {}, s)
  IN  {Step("sonic_identity", Authored(f, "sonic_identity", {}, None), "blocker"),
       Step("scene_music_design", Authored(f, "scene_music_design", {}, s), "warning"),
       Step("location_sound_profile",
            Located(f, s) =>
              Authored(f, "location_sound_profile", {f.scene[s].loc}, None), "warning"),
       Finding("dialogue_sound_design", None, "ok"),
       Step("sound_cue", cued, "suggestion")}

ReadinessQ13(media) ==
  {MediaStep(media, "blocker"), Step("entity_anchor", media.anchors # <<>>, "warning"),
   Finding("shot_override", None, "ok")}

\* Q02's steps about a character, and those about how one looks.
LookSteps == {"character_appearance_profile", "physical_character_profile", "costume_scene"}
CharacterSteps ==
  LookSteps \cup {"vocal_profile", "relationship_state", "performance_state"}

\* What Q02 says of the look of a character who is seen.
LookFindings(f, c, s) ==
  LET costumes == {k \in InFilm(f.costume) : f.costume[k].of = c}
      worn     == \E k \in costumes : s \in f.costume[k].worn
  IN  {Step("character_appearance_profile",
            Authored(f, "character_appearance_profile", {c}, None), "warning"),
       Step("physical_character_profile", HasProfile(f, c, "physical"), "warning"),
       IF costumes = {} THEN Finding("costume", None, "warning")
       ELSE Step("costume_scene", worn, "warning")}

ReadinessQ02(f, c, s, shot, media) ==
  LET looks == IF f.subject[c].kind = "character" /\ PresenceAt(f, c, s, shot) = "seen"
               THEN LookFindings(f, c, s) ELSE {Inapplicable(l) : l \in LookSteps}
  IN  looks \cup {Inapplicable(x) : x \in CharacterSteps \ LookSteps}
      \cup {MediaStep(media, "blocker")}

\* The intent of a target's media step; Q13 is asked with its own.
MediaIntent(target, kind, intent) ==
  CASE target = "Q05" -> "voice_identity"
    [] target = "Q06" -> "motion"
    [] target = "Q02" -> IF kind = "location" THEN "environment" ELSE "visual_identity"
    [] OTHER          -> intent

\* readinessReport: at the position of the scene and the shot that were asked,
\* and the shot itself.
Q14(f, target, c, intent, asked, shot) ==
  LET Report(pos, s, media) ==
        CASE target = "Q02" -> ReadinessQ02(f, c, s, shot, media)
          [] target = "Q05" -> ReadinessQ05(f, pos, c, s, media)
          [] target = "Q06" -> ReadinessQ06(f, c, s, media)
          [] target = "Q07" -> ReadinessQ07(f, pos, s, shot)
          [] target = "Q08" -> ReadinessQ08(f, s)
          [] target = "Q13" -> ReadinessQ13(media)
      At(pos, s) ==
        Report(pos, s, ResolveMedia(f, pos, c,
                         MediaIntent(target, f.subject[c].kind, intent), s, shot))
  IN  At(StoryOrder(f), SceneOfPosition(f, asked, shot))
=============================================================================
