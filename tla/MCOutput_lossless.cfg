SPECIFICATION Spec
CONSTANTS
  NumTokens = 4
  Eog = 0
  Bytes <- FourPieces
  Penalties = {0, 1, 2}
  Scores <- ThreeScores
  LAST_N = 2
  Stop <- ThreeStops
  MaxTokens = 5
CHECK_DEADLOCK FALSE
INVARIANTS
  PiecesAreLossless
