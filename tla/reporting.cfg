\* One report at a time over two requests of one match, with two changes meanwhile.
CONSTANTS
  r1 = r1
  r2 = r2
  m1 = m1
  m2 = m2
  Readers = {p1}
  Requests = {r1, r2}
  Matches = {m1, m2}
  MatchOf <- OneMatch
  Devices = {d1}
  Filters <- ThreeFilters
  Reports <- AllReports
  None = None
  MaxChanges = 2
  Starting <- NineStatuses
SPECIFICATION Spec
SYMMETRY RequestSymmetry
INVARIANTS GlobalFiguresAgree DayFiguresAgree
