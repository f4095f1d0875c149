\* Every command on one request, one after the other, and no await fails.
CONSTANTS
  Handlers = {h1}
  Requests = {r1}
  Requesters = {alice}
  OwnerOf <- OneOwner
  Complements = {k1}
  Categories = {press}
  None = None
  MaxTotal = 1
  Commands <- AllCommands
  PatchTargets <- ReviewSteps
  AllowOverride = FALSE
  Serialised = TRUE
  Failures = FALSE
SPECIFICATION Spec
PROPERTIES
  StatusChangesLogged
