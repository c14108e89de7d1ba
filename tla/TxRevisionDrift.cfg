SPECIFICATION TxSpec
CONSTANTS
  Hashes = {h1, h2}
  MaxSaves = 2
  MaxDeletes = 0
  MaxClaims = 1
  MaxSeeds = 0
  NoRow = NoRow
  Keep = Keep
  NoTx = NoTx
  NoClaim = NoClaim
INVARIANTS
  RevisionRecorded
