\* An account that reviewed a document is deleted.
CONSTANTS
  Handlers = {h1}
  Users = {1, 2, 3, 4, 5}
  Emails = {admin, agent, editor, guest}
  AdminEmail = admin
  AgentEmail = agent
  EditorEmail = editor
  Media = {m1, m2}
  Names = {rts, aps}
  DemoMedia = rts
  Subjects = {s1}
  Documents = {d1, d2, d3}
  MaxCommands = 3
  MaxCrashes = 0
  None = None
  Failures = FALSE
SPECIFICATION Spec
PROPERTIES ReviewersKept
CHECK_DEADLOCK FALSE
