----------------------------- MODULE MCFilmAnswers -----------------------------
(***************************************************************************)
(* A film of three scenes, told in the order 2, 1, 3: a woman (1) with two *)
(* looks, her lamp (2), the house (3) by day and by night, and a neighbour *)
(* (4).  She is hurt from scene 2 until scene 3.                           *)
(***************************************************************************)
EXTENDS FilmAnswers

Scene(num, loc, time) ==
  [num |-> num, loc |-> loc, time |-> time, weather |-> Blank, season |-> Blank,
   cut |-> FALSE]
Subject(kind) == [kind |-> kind, cut |-> FALSE]
Variant(of, baseline, time) ==
  [of |-> of, baseline |-> baseline, time |-> time, weather |-> Blank,
   season |-> Blank, cut |-> FALSE]
Link(s, who, role, v) == [scene |-> s, who |-> who, role |-> role, variant |-> v]
State(of, s, persistence, resolved, name, keys) ==
  [of |-> of, scene |-> s, modality |-> "physical", persistence |-> persistence,
   resolved |-> resolved, name |-> name, keys |-> keys, cut |-> FALSE]
Keyed(of, s) == [of |-> of, scene |-> s, cut |-> FALSE]
Shot(s, complete) ==
  [scene |-> s, complete |-> complete, lines |-> complete, speakers |-> {1}, cut |-> FALSE]
Design(entity, of, s) == [entity |-> entity, of |-> of, scene |-> s, cut |-> FALSE]
Frame(h, who, framing) ==
  [shot |-> h, who |-> who, framing |-> framing, described |-> FALSE]
Bundle(intent) == [intent |-> intent, cut |-> FALSE]
Uncut == [cut |-> FALSE]
Member(bundle, asset, order) == [bundle |-> bundle, asset |-> asset, order |-> order]
Binding(of, bundle, precedence, replaces) ==
  [of |-> of, bundle |-> bundle, baseline |-> FALSE, precedence |-> precedence,
   replaces |-> replaces, from |-> None, to |-> None, time |-> Blank,
   variant |-> None, physical |-> Blank, vocal |-> Blank, cut |-> FALSE]
Anchor(of, v, status, asset) ==
  [of |-> of, variant |-> v, type |-> "visual", status |-> status, asset |-> asset,
   cut |-> FALSE]
Intent(entity, s, h) == [entity |-> entity, scene |-> s, shot |-> h, cut |-> FALSE]
Heading(s) == [type |-> "heading", scene |-> s]

TheFilm ==
  [scene    |-> <<Scene(2, 3, "night"), Scene(1, 3, "day"), Scene(3, None, "night")>>,
   script   |-> <<Heading(2), Heading(1), Heading(3)>>,
   span     |-> <<[start |-> 2, cut |-> FALSE], [start |-> 1, cut |-> FALSE]>>,
   subject  |-> <<Subject("character"), Subject("prop"), Subject("location"),
                  Subject("character")>>,
   variant  |-> <<Variant(1, TRUE, Blank), Variant(1, FALSE, Blank),
                  Variant(3, TRUE, "day"), Variant(3, FALSE, "night")>>,
   cast     |-> <<Link(2, 1, Blank, 1), Link(1, 1, Blank, 2), Link(1, 2, "mentioned", None),
                  Link(3, 1, "voiceover", None), Link(1, 4, Blank, None)>>,
   state    |-> <<State(1, 2, "until_resolved", 3, "hurt", {"gait", "reach"}),
                  State(1, 1, "scene_only", None, "tired", {"gait"})>>,
   keyed    |-> <<Keyed(<<"subject", 2>>, 2), Keyed(<<"subject", 2>>, 3),
                  Keyed(<<"relation", 1>>, 1), Keyed(<<"motif", 1>>, 2)>>,
   shot     |-> <<Shot(1, FALSE), Shot(3, TRUE)>>,
   frame    |-> <<Frame(1, 1, Blank), Frame(2, 4, "off_screen")>>,
   bundle   |-> <<Bundle("visual_identity"), Bundle("visual_identity"), Bundle("visual_identity"),
                  Bundle("environment")>>,
   asset    |-> <<Uncut, Uncut, Uncut>>,
   member   |-> <<Member(1, 1, 1), Member(2, 2, 1), Member(2, 1, None),
                  Member(3, 3, 1), Member(4, 3, 1)>>,
   binding  |-> <<[Binding(1, 1, 0, FALSE) EXCEPT !.baseline = TRUE],
                  [Binding(1, 2, 1, TRUE) EXCEPT !.physical = "hurt"],
                  [Binding(1, 3, 2, FALSE) EXCEPT !.from = 1, !.to = 3, !.time = "night"],
                  [Binding(1, 2, 2, TRUE) EXCEPT !.variant = 2],
                  [Binding(3, 4, 0, FALSE) EXCEPT !.variant = 4],
                  Binding(1, 4, 0, FALSE)>>,
   anchor   |-> <<Anchor(1, None, Blank, 1), Anchor(1, 2, "verified", 2),
                  Anchor(1, 2, "draft", 3), Anchor(4, None, Blank, 3)>>,
   override |-> <<[of |-> 1, shot |-> 1, bundle |-> 3, cut |-> FALSE]>>,
   profile  |-> <<[of |-> 1, modality |-> "physical", thin |-> FALSE, cut |-> FALSE],
                  [of |-> 1, modality |-> "vocal", thin |-> TRUE, cut |-> FALSE]>>,
   design   |-> <<Design("character_appearance_profile", {1}, None),
                  Design("dialogue_rhythm", {}, 1), Design("sonic_identity", {}, None),
                  Design("character_environment_physicality", {1, 3}, None)>>,
   costume  |-> <<[of |-> 1, worn |-> {1}, cut |-> FALSE]>>,
   beat     |-> <<[of |-> 1, scene |-> 1, modality |-> "physical", order |-> 2, cut |-> FALSE],
                  [of |-> 1, scene |-> 1, modality |-> "physical", order |-> 1, cut |-> FALSE]>>,
   blocking |-> <<[scene |-> 1, cut |-> FALSE]>>,
   staging  |-> <<[of |-> 1, order |-> 1, cut |-> FALSE]>>,
   relation |-> <<[a |-> 1, b |-> 4, cut |-> FALSE]>>,
   motif    |-> <<[related |-> 2, cut |-> FALSE], [related |-> None, cut |-> FALSE]>>,
   appearance |-> <<[motif |-> 1, scene |-> 1], [motif |-> 1, scene |-> 3],
                    [motif |-> 2, scene |-> 2]>>,
   intent   |-> <<Intent("project_color_palette", None, None), Intent("color_script_entry", 2, None),
                  Intent("color_script_entry", 1, None), Intent("lighting_design", 1, None),
                  Intent("lighting_design", 1, 1)>>,
   theme    |-> <<[theme |-> 1, kind |-> "subject", of |-> 1],
                  [theme |-> 1, kind |-> "motif", of |-> 1],
                  [theme |-> 1, kind |-> "span", of |-> 1],
                  [theme |-> 1, kind |-> "scene", of |-> 3]>>]

TheIntents == {"visual_identity", "environment"}
TheChain == <<[entity |-> "project_color_palette", pattern |-> "global"],
              [entity |-> "color_script_entry", pattern |-> "latest"],
              [entity |-> "lighting_design", pattern |-> "shot"]>>

TheCuttable ==
  UNION {{table} \X DOMAIN TheFilm[table] :
           table \in {"scene", "subject", "motif", "span"}}
  \cup {<<"shot", 1>>, <<"bundle", 2>>, <<"asset", 1>>, <<"asset", 2>>, <<"variant", 2>>,
        <<"variant", 4>>, <<"state", 1>>, <<"keyed", 1>>, <<"relation", 1>>,
        <<"binding", 2>>, <<"anchor", 2>>, <<"override", 1>>, <<"blocking", 1>>, <<"intent", 3>>}

Change(table, row, field, value) ==
  [table |-> table, row |-> row, field |-> field, value |-> value]

TheChanges ==
  {Change("scene", 3, "loc", 3), Change("scene", 1, "time", Blank),
   Change("scene", 2, "time", "night"), Change("cast", 2, "variant", 3),
   Change("cast", 4, "variant", 2), Change("state", 1, "resolved", None),
   Change("state", 1, "resolved", 1), Change("state", 2, "persistence", "until_resolved"),
   Change("binding", 2, "precedence", 3), Change("binding", 3, "to", None),
   Change("binding", 3, "replaces", TRUE), Change("binding", 4, "precedence", 0),
   Change("keyed", 1, "scene", 3), Change("shot", 2, "complete", FALSE),
   Change("appearance", 2, "scene", 1), Change("anchor", 3, "status", "verified"), Change("intent", 2, "scene", 3)}
=============================================================================
