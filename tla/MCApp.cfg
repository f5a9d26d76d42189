CONSTANTS
  u1 = u1
  e1 = e1
  t1 = t1
  p1 = p1
  Users = {u1}
  TlsConfigs = {t1}
  DefaultAddress = a0
  DefaultName = postgraph
  RecommendedSize = 3
  NoGraph = g0
  CutGraphs <- MCCutGraphs
  HandWritten <- MCHandWritten
  None = None
  Absent = Absent
  Blank = Blank
  Torn = Torn
  Procs = {p1, p2}
  Addresses = {a0, a1}
  ServerNames = {n1}
  Sizes = {4}
  Limits = {1}
  Durations = {0, 500}
  Entries = {e1}
  Rules = {r1}
  AllowAny = {r1}
  Graphs = {g0, g1}
  Sessions = {s1, s2}
SPECIFICATION MCSpec
INVARIANTS TypeOK PlainAuthIsConfirmed StoppedIsTrue
PROPERTIES OnlyOverlapUndoes IsAtomicStore StopIsFollowed
CHECK_DEADLOCK FALSE
