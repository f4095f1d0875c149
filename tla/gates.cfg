\* One badge, one zone it opens and one it does not, two handlers, one device
\* with two offline scans; any await may fail.
CONSTANTS
  Handlers = {h1, h2}
  Badges = {b1}
  Zones = {lounge, pitch}
  GrantedZones <- OneZoneEach
  Devices = {d1}
  OfflineScans = {s1, s2}
  None = None
  Elsewhere = Elsewhere
  Failures = TRUE
SPECIFICATION Spec
SYMMETRY GateSymmetry
INVARIANTS
  TypeOK
  NoLateAdmission
  OneAdmission
  SyncOnce
