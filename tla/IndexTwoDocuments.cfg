SPECIFICATION Spec
CONSTANTS
  Docs = {d1, d2}
  Gens = {g1, g2}
  Hashes = {h1}
  Workers = {w1}
  Tokens = {t1, t2}
  NoDoc = NoDoc
  NoGen = NoGen
  NoHash = NoHash
  NoToken = NoToken
  MaxAttempts = 1
  MaxRevision = 1
SYMMETRY Symmetry
INVARIANTS
  SingleActiveAndBuilding
  NothingForgotten
  DeletedLeavesNothing
