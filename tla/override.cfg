\* The quota instance with the override and nothing overlapping on one request.
CONSTANTS
  Handlers = {h1, h2}
  Requests = {r1, r2}
  Requesters = {alice}
  OwnerOf <- OneOwner
  Complements = {k1}
  Categories = {press}
  None = None
  MaxTotal = 1
  Commands <- QuotaCommands
  PatchTargets <- ReviewSteps
  AllowOverride = TRUE
  Serialised = TRUE
  Failures = FALSE
SPECIFICATION Spec
PROPERTIES
  OverrideCountsWhenRoom
