SPECIFICATION Spec
CONSTANTS
  s1 = s1
  s2 = s2
  w1 = w1
  w2 = w2
  b1 = b1
  b2 = b2
  b3 = b3
  Seqs = {s1, s2}
  Words = {w1, w2}
  Blocks = {b1, b2}
  BlockSize = 2
  MaxTokens = 4
  Start <- EmptyChain
  Hash <- CollidingHash
SYMMETRY Symmetric
INVARIANTS
  TypeOK
  BlocksAccounted
  IndexSound
  PublishedImmutable
PROPERTIES
  SharedUnlessCollision
  StoreSafety
