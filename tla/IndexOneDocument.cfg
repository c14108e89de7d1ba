SPECIFICATION Spec
CONSTANTS
  Docs = {d1}
  Gens = {g1, g2}
  Hashes = {h1, h2}
  Workers = {w1, w2}
  Tokens = {t1, t2, t3}
  NoDoc = NoDoc
  NoGen = NoGen
  NoHash = NoHash
  NoToken = NoToken
  MaxAttempts = 2
  MaxRevision = 2
SYMMETRY Symmetry
INVARIANTS
  TypeOK
  TokenFencing
  JobTracksDocument
  IndexConsistent
  InactiveIsFenced
PROPERTIES
  InactiveOnlyShrinks
  ImplementsSearch
