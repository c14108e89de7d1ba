SPECIFICATION TxSpec
CONSTANTS
  Hashes = {h1, h2}
  MaxSaves = 1
  MaxDeletes = 0
  MaxClaims = 1
  MaxSeeds = 2
  NoRow = NoRow
  Keep = Keep
  NoTx = NoTx
  NoClaim = NoClaim
INVARIANTS
  PendingIsClaimable
