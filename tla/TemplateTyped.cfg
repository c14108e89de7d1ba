SPECIFICATION TemplateSpec
CONSTANTS
  Hashes = {"h1", "h2"}
  MaxSaves = 3
  MaxDeletes = 1
  MaxClaims = 3
  MaxSeeds = 2
  NoRow = NoRow
  Keep = Keep
  NoTx = NoTx
  NoClaim = NoClaim
INVARIANTS
  NothingTypedIsLost
CHECK_DEADLOCK FALSE
