\* The quota instance with two commands overlapping on one request.
CONSTANTS
  Handlers = {h1, h2}
  Requests = {r1, r2}
  Requesters = {alice}
  OwnerOf <- OneOwner
  Complements = {k1}
  Categories = {press}
  None = None
  MaxTotal = 1
  Commands <- QuotaCommands
  PatchTargets <- ReviewSteps
  AllowOverride = FALSE
  Serialised = FALSE
  Failures = FALSE
SPECIFICATION Spec
SYMMETRY RowSymmetry
INVARIANTS
  NoOversell
