SPECIFICATION Spec
CONSTANTS
  FirstFilm <- TheFilm
  Cuttable <- TheCuttable
  Changes <- TheChanges
  Intents <- TheIntents
  Chain <- TheChain
  MaxEdits = 2
INVARIANTS
  CutIsGone
  AnswersLookBack
  UnusedDoesNotMatter
CHECK_DEADLOCK FALSE
