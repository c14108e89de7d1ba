SPECIFICATION LiveSpec
CONSTANTS
  Tabs = {t1}
  Texts = {a, b, u}
  Untitled = {u}
  None = None
  MaxRevision = 4
  MaxLate = 1
INVARIANTS
  TypeOK
PROPERTIES
  EventuallySaved
