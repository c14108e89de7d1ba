SPECIFICATION Spec
CONSTANTS
  Tabs = {t1, t2}
  Texts = {a, b, c}
  Untitled = {}
  None = None
  MaxRevision = 3
  MaxLate = 0
INVARIANTS
  LeftTextIsKept
