SPECIFICATION Spec
CONSTANTS
  r1 = r1
  r2 = r2
  d1 = d1
  d2 = d2
  w1 = w1
  w2 = w2
  b1 = b1
  b2 = b2
  b3 = b3
  Lanes = {r1}
  Donors = {d1, d2}
  Words = {w1, w2}
  Blocks = {b1, b2, b3}
  BlockSize = 1
  MaxTokens = 3
  Prompts <- TwoPrompts
  MaxPaused = 1
  CanFail = FALSE
  Start <- EmptyChain
  Hash <- PerfectHash
  Checked = FALSE
SYMMETRY Symmetric
INVARIANTS
  ReuseExact
