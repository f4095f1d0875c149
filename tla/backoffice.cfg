\* Two calls at once, three calls in all, after a seed that dies at most once.
CONSTANTS
  Handlers = {h1, h2}
  Users = {1, 2, 3, 4, 5}
  Emails = {admin, agent, editor, guest}
  AdminEmail = admin
  AgentEmail = agent
  EditorEmail = editor
  Media = {m1, m2}
  Names = {rts, aps}
  DemoMedia = rts
  Subjects = {s1}
  Documents = {d1, d2, d3}
  MaxCommands = 3
  MaxCrashes = 1
  None = None
  Failures = TRUE
SYMMETRY Symmetry
SPECIFICATION Spec
INVARIANTS TypeOK UniqueEmails ProfilesBacked VersionsSound DocumentsBacked SeedComplete
CHECK_DEADLOCK FALSE
