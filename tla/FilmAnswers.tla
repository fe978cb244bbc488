------------------------------ MODULE FilmAnswers ------------------------------
(***************************************************************************)
(* A film that is edited and asked: rows are written and marked cut        *)
(* (ops/recordOps.ts), scenes move in the script, and after every edit the *)
(* film answers as Resolution.tla says.  The questions are asked of every  *)
(* scene, cut ones included, and of every subject of the film.             *)
(***************************************************************************)
EXTENDS ShotContext

CONSTANTS
  FirstFilm,   \* the film as it is opened
  Cuttable,    \* the rows that may be cut and brought back, as <<table, row>>
  Changes,     \* other writes, as [table, row, field, value]
  Intents,     \* what media is asked for
  Chain,       \* a direction cascade of the registry, root first
  MaxEdits

VARIABLES film, edits

vars == <<film, edits>>

TypeOK ==
  /\ edits \in 0..MaxEdits
  /\ DOMAIN film = DOMAIN FirstFilm
  /\ \A table \in DOMAIN film : DOMAIN film[table] = DOMAIN FirstFilm[table]

-----------------------------------------------------------------------------
(* Edits *)

\* updateRecord: one field of one row.
UpdateRecord(table, row, field, value) ==
  [film EXCEPT ![table][row][field] = value]

Edited(written) ==
  /\ edits < MaxEdits
  /\ edits' = edits + 1
  /\ film' = written

\* A row is marked cut, or is brought back.
SetStatus(table, row) ==
  Edited(UpdateRecord(table, row, "cut", ~film[table][row].cut))

Write(c) ==
  /\ film[c.table][c.row][c.field] # c.value
  /\ Edited(UpdateRecord(c.table, c.row, c.field, c.value))

\* The script is saved with two headings the other way round.
MoveScene(i) ==
  Edited([film EXCEPT !.script[i] = film.script[i + 1],
                      !.script[i + 1] = film.script[i]])

Init == film = FirstFilm /\ edits = 0

Next ==
  \/ \E at \in Cuttable : SetStatus(at[1], at[2])
  \/ \E c \in Changes : Write(c)
  \/ \E i \in 1..(Len(film.script) - 1) : MoveScene(i)

Spec == Init /\ [][Next]_vars

-----------------------------------------------------------------------------
(* What is asked *)

MediaAt(f, subjects, s, shot) ==
  LET pos == StoryOrder(f) IN
  [c \in subjects, intent \in Intents |-> ResolveMedia(f, pos, c, intent, s, shot)]

KeyedOf(f) == {f.keyed[r].of : r \in DOMAIN f.keyed}

\* Everything a film says at a scene.
AnswerAt(f, subjects, asked) ==
  LET s   == PositionInFilm(f, asked)
      pos == StoryOrder(f)
  IN  [scene  |-> ComposeQ03(f, asked),
       package |-> ComposeQ04(f, asked),
       media  |-> MediaAt(f, subjects, s, None),
       described |-> [c \in subjects, modality \in AllModalities |->
                        ResolveDescription(f, pos, c, s, modality)],
       keyed  |-> [of \in KeyedOf(FirstFilm) |-> LatestState(f, pos, of, s)],
       layers |-> ResolveDirection(f, pos, Chain, s, None)]

\* Less what it says of the rows it left out: the trail.
Contributing(answer) ==
  [answer EXCEPT !.media = [k \in DOMAIN @ |->
     [assets |-> MostSpecificFirst(@[k]), base |-> @[k].base,
      bindings |-> @[k].bindings, anchors |-> @[k].anchors]]]

\* And at a shot, asked about alone or with a scene.
AnswerAtShot(f, subjects, asked, h) ==
  LET at == AskedAt(f, asked, h)
  IN  [who    |-> IF at.shot = None THEN {} ELSE {PresenceAtShot(f, h)},
       about  |-> [c \in subjects |-> ComposeQ02(f, c, asked, h)],
       frame  |-> IF at.shot = None THEN << >>
                  ELSE <<ShotFrame(f, h), ShotMedia(f, h), ShotReadiness(f, h)>>,
       layers |-> ResolveDirection(f, StoryOrder(f), Chain, at.scene, at.shot)]

Kept(table) == [r \in InFilm(table) |-> table[r]]
Linking(table, In(_)) == [l \in {x \in DOMAIN table : In(table[x])} |-> table[l]]

\* The film with its cut rows, and the links to them, taken out for good.
Purged(f) ==
  LET Is(table, r) == r \in DOMAIN f[table] => ~f[table][r].cut IN
  [t \in DOMAIN f |->
     IF t = "script" THEN f.script
     ELSE IF t = "cast"
     THEN Linking(f.cast, LAMBDA l : Is("scene", l.scene) /\ Is("subject", l.who))
     ELSE IF t = "frame"
     THEN Linking(f.frame, LAMBDA l : Is("shot", l.shot) /\ Is("subject", l.who))
     ELSE IF t = "member"
     THEN Linking(f.member, LAMBDA l : Is("bundle", l.bundle) /\ Is("asset", l.asset))
     ELSE IF t = "appearance"
     THEN Linking(f.appearance, LAMBDA l : Is("scene", l.scene) /\ Is("motif", l.motif))
     ELSE IF t = "theme" THEN Linking(f.theme, LAMBDA l : Is(l.kind, l.of))
     ELSE IF t = "anchor"
     THEN Kept(Linking(f.anchor, LAMBDA a : Is("asset", a.asset)))
     ELSE Kept(f[t])]

Themes == {FirstFilm.theme[k].theme : k \in DOMAIN FirstFilm.theme}
Scenes == DOMAIN FirstFilm.scene

-----------------------------------------------------------------------------
(* Properties *)

\* A cut row is not in the film: scenes, the difference of two, themes, media
\* and the people in a shot are answered as if the row and the links to it
\* had been deleted, however they are reached, and a cut scene is a position
\* with nothing at it, no shot either (resolution.ts, excludeCut and positionInFilm, and every
\* join that has to ask again; spec 6.6.1, 12.1.7).
CutIsGone ==
  LET f == film
      p == Purged(film)
      subjects == InFilm(f.subject)
      At(s) == PositionInFilm(f, s)
  IN  /\ \A s \in Scenes : AnswerAt(f, subjects, s) = AnswerAt(p, subjects, At(s))
      /\ \A s, t \in Scenes : ComposeQ12(f, s, t) = ComposeQ12(p, At(s), At(t))
      /\ \A theme \in Themes : Q10(f, theme) = Q10(p, theme)
      /\ \A h \in InFilm(f.shot), s \in Scenes \cup {None} :
           Answerable(f, s, h) =>
             LET there == At(f.shot[h].scene) # Nowhere
             IN  AnswerAtShot(f, subjects, s, h)
                   = AnswerAtShot(p, subjects, IF there THEN s ELSE Nowhere,
                                  IF there THEN h ELSE None)

\* The film up to s: later scenes and bindings that start in them are cut.
UpTo(f, s) ==
  LET pos == StoryOrder(f)
      Later(t) == t \in DOMAIN pos /\ pos[t] > pos[s]
  IN  [f EXCEPT
        !.scene = [t \in DOMAIN @ |-> IF Later(t) THEN [@[t] EXCEPT !.cut = TRUE] ELSE @[t]],
        !.binding = [b \in DOMAIN @ |-> IF Later(@[b].from)
                                        THEN [@[b] EXCEPT !.cut = TRUE] ELSE @[b]]]

\* What the film says at a scene does not depend on what comes after it in
\* the story: not on states keyed or resolved later, later intent, or
\* bindings that begin later, wherever editing put the scenes, at a shot as at
\* its scene (sceneOrder, statesInForce, latestState, fetchLayer,
\* bindingApplies, shotContext, shotReadiness).
AnswersLookBack ==
  \A s \in DOMAIN StoryOrder(film) :
    LET upTo == UpTo(film, s)
        Shots == {h \in InFilm(film.shot) : film.shot[h].scene = s}
    IN  /\ Contributing(AnswerAt(film, InFilm(film.subject), s))
             = Contributing(AnswerAt(upTo, InFilm(film.subject), s))
        /\ \A h \in Shots : /\ ShotFrame(film, h) = ShotFrame(upTo, h)
                            /\ ShotReadiness(film, h) = ShotReadiness(upTo, h)

\* The rows an answer at s is made of.
UsedAt(f, s) ==
  LET pos   == StoryOrder(f)
      media == Range(MediaAt(f, DOMAIN f.subject, s, None))
      Rows(table, ids) == {table} \X ids
  IN  Rows("binding", UNION {ToSet(m.bindings) : m \in media})
      \cup Rows("anchor", UNION {ToSet(m.anchors) : m \in media})
      \cup Rows("state", UNION {ToSet(StatesInForce(f, pos, c, s, AllModalities)) :
                                  c \in DOMAIN f.subject})
      \cup Rows("keyed", {LatestState(f, pos, of, s) : of \in KeyedOf(f)})
      \cup Rows("intent", ToSet(ResolveDirection(f, pos, Chain, s, None)))
      \cup Rows("variant", {VariantInForce(f, c, s) : c \in DOMAIN f.subject}
                           \cup {SelectLocationVariant(f, s)})

\* What an answer does not use does not bear on it: a binding that does not
\* apply replaces nothing and an anchor left out displaces nothing; a variant
\* that lost, a state that is over or an intent that is overruled may be cut
\* without changing what the film says (resolveMedia, selectLocationVariant,
\* latestState, fetchLayer).
UnusedDoesNotMatter ==
  \A s \in DOMAIN StoryOrder(film) :
    LET used   == UsedAt(film, s)
        Answer(f) == Contributing(AnswerAt(f, InFilm(film.subject), s))
        answer == Answer(film)
    IN  \A table \in {"binding", "anchor", "state", "keyed", "intent", "variant"} :
          \A r \in InFilm(film[table]) :
            <<table, r>> \notin used =>
              Answer(UpdateRecord(table, r, "cut", TRUE)) = answer

-----------------------------------------------------------------------------
(* What the documents say and the code does not do *)

\* Spec 12.11: each scene of the spine "with the number of carriers reaching
\* it" (q10Result).
SpineCountsCarriers ==
  \A theme \in Themes :
    LET q == Q10(film, theme)
    IN  \A s \in DOMAIN q.spine :
          q.spine[s] = Cardinality({k \in DOMAIN q.carriers : s \in q.carriers[k]})

\* Spec 6.6.1: a link whose endpoint is cut joins nothing, so Q09 says nothing
\* of an appearance of a motif that is cut (q09Result).
CutMotifIsGone ==
  \A s \in Scenes : Q09(film, s) = Q09(Purged(film), PositionInFilm(film, s))

\* The same of the presence findings: none is about the row of a subject that
\* is cut (presenceProblems; spec 6.6.2, "a cut row is not a finding").
FindingsAreOfTheFilm ==
  \A p \in PresenceProblems(film) :
    p.code \in {"shot_subject_not_in_scene", "named_but_on_screen",
                "off_screen_described"}
      => film.frame[p.row].who \in InFilm(film.subject)

\* readinessQ07: "No one is seen at an empty position (section 12.9), a shot
\* of a cut scene included", so no step about a look applies there.
NoOneIsSeenNowhere ==
  \A h \in InFilm(film.shot) :
    PositionInFilm(film, film.shot[h].scene) = Nowhere =>
      \A c \in InFilm(film.subject) :
        \A finding \in Q14(film, "Q02", c, Blank, None, h)
                        \cup Q14(film, "Q07", None, Blank, None, h) :
          finding.step \in LookSteps \cup {"costume"} => finding.severity = "ok"

\* Spec 12.9.1: a media step is met when the subject has a reference in force,
\* "its own Q13 answer" (mediaStep).
ReferencesAreReady ==
  \A s \in DOMAIN StoryOrder(film), c \in InFilm(film.subject), intent \in Intents :
    LET media == ResolveMedia(film, StoryOrder(film), c, intent, s, None)
    IN  Finding("bundle", None, "ok") \in Q14(film, "Q13", c, intent, s, None)
          <=> References(film, media) # {}

\* Spec 6.6.1: nobody is told that someone who is cut lacks a look
\* (readinessQ07).
OnlyTheFilmIsThin ==
  \A s \in Scenes :
    \A finding \in Q14(film, "Q07", None, Blank, s, None) :
      finding.of \in InFilm(film.subject) \cup {None}

\* intentsFor: "a subject whose only media is an anchor must still be asked
\* about, under the intents that map to its anchor type".
AnchorsAreSwept ==
  \A h \in {x \in DOMAIN film.shot : Composable(film, x)} :
    LET swept == ShotMedia(film, h).swept IN
    \A c \in DOMAIN swept :
      (PresentAt(film, h)[c] = "seen" /\ BoundIntents(film, c) = {}) =>
        \A a \in InFilm(film.anchor) :
          film.anchor[a].of = c =>
            {i \in AnchoredIntents : AnchorType(i) = film.anchor[a].type} \cap swept[c] # {}
=============================================================================
