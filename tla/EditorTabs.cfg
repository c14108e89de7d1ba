SPECIFICATION Spec
CONSTANTS
  Tabs = {t1, t2}
  Texts = {a, b}
  Untitled = {}
  None = None
  MaxRevision = 3
  MaxLate = 0
SYMMETRY Symmetry
INVARIANTS
  BaseIsKnown
  UnsavedIsDirty
  StatusIsHonest
PROPERTIES
  NoBlindOverwrite
