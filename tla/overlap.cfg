\* Three handlers that overlap freely on one request; any await may fail.
CONSTANTS
  Handlers = {h1, h2, h3}
  Requests = {r1}
  Requesters = {alice}
  OwnerOf <- OneOwner
  Complements = {k1}
  Categories = {press}
  None = None
  MaxTotal = 2
  Commands <- QuotaCommands
  PatchTargets <- ReviewSteps
  AllowOverride = FALSE
  Serialised = FALSE
  Failures = TRUE
SPECIFICATION Spec
SYMMETRY HandlerSymmetry
INVARIANTS
  WithinHighTotal
  BadgeBacksStatus
  SingleBadgeIssuer
PROPERTIES
  StatusFollowsMachine
