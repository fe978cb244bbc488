SPECIFICATION Spec
CONSTANTS
  FirstFilm <- TheFilm
  Cuttable <- TheCuttable
  Changes <- TheChanges
  Intents <- TheIntents
  Chain <- TheChain
  MaxEdits = 2
INVARIANTS
  OnlyTheFilmIsThin
  SpineCountsCarriers
  CutMotifIsGone
  FindingsAreOfTheFilm
  NoOneIsSeenNowhere
  ReferencesAreReady
  AnchorsAreSwept
CHECK_DEADLOCK FALSE
