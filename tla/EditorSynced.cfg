SPECIFICATION Spec
CONSTANTS
  Tabs = {t1}
  Texts = {a, b}
  Untitled = {}
  None = None
  MaxRevision = 3
  MaxLate = 0
INVARIANTS
  SyncedIsConfirmed
