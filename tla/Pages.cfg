SPECIFICATION Spec
CONSTANTS
  Hashes = {"h1", "h2"}
  MaxSaves = 3
  MaxDeletes = 1
  MaxClaims = 3
  MaxSeeds = 2
  NoRow = NoRow
  Keep = Keep
  NoTx = NoTx
  NoClaim = NoClaim
INVARIANTS
  PagesTypeOK
  ServedIsCurrent
  NeverAhead
  NothingStuck
  AnswersQuestion
  UserChangesStay
  OverlaysHandBack
  NothingLostOrDoubled
  ImportedOnce
  CodeConsumedWithAccount
  OneSession
  AlwaysSignIn
  ScrollSettles
  RunIsReleased
  LanguagesApart
  PreviewIsFaithful
  TextsAreWhole
  FormsAreTruthful
  FilesAreWhole
  ProvidersSpared
  ServerStartsAndStops
PROPERTIES
  RevertIsFaithful
CHECK_DEADLOCK FALSE
