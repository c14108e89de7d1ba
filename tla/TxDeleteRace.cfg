SPECIFICATION TxSpec
CONSTANTS
  Hashes = {h1, h2}
  MaxSaves = 1
  MaxDeletes = 1
  MaxClaims = 1
  MaxSeeds = 0
  NoRow = NoRow
  Keep = Keep
  NoTx = NoTx
  NoClaim = NoClaim
INVARIANTS
  DeletedLeavesNothing
