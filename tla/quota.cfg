\* Two handlers, two requests, two quota rows of one slot each.
\* Commands on one request never overlap; any await may fail.
CONSTANTS
  Handlers = {h1, h2}
  Requests = {r1, r2}
  Requesters = {alice}
  OwnerOf <- OneOwner
  Complements = {k1}
  Categories = {press, photo}
  None = None
  MaxTotal = 1
  Commands <- QuotaCommands
  PatchTargets <- PatchWithoutGrant
  AllowOverride = FALSE
  Serialised = TRUE
  Failures = TRUE
SPECIFICATION Spec
SYMMETRY RowSymmetry
INVARIANTS
  NoOversell
  SlotsAccounted
  DuplicatesFlagged
  TypeOK
PROPERTIES
  ImplementsLedger
