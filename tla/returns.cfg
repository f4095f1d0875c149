\* One request with two complements; commands on it never overlap and no await
\* fails.
CONSTANTS
  Handlers = {h1, h2}
  Requests = {r1}
  Requesters = {alice}
  OwnerOf <- OneOwner
  Complements = {k1, k2}
  Categories = {press}
  None = None
  MaxTotal = 1
  Commands <- AllCommands
  PatchTargets <- ReviewSteps
  AllowOverride = FALSE
  Serialised = TRUE
  Failures = FALSE
SPECIFICATION FairSpec
PROPERTIES
  ResolvedReturnsToReview
  ValidatedGetsBadge
