CONSTANTS
  t1 = t1
  t2 = t2
  r1 = r1
  o1 = o1
  h1 = h1
  h2 = h2
  h3 = h3
  h4 = h4
  Tasks = {t1, t2}
  Cpus = {0, 1}
  Channels = {Global}
  DefaultChan = Global
  NoTask = NoTask
  MaxBarrier = 1
  NoCpu = NoCpu
  Departs = FALSE
  CfsCpus = {}
  Steady = {}
  Repeating = {}
  Orphans = {}
  QoS = {0, 1}
  Reclassed = TRUE
  MaxWrites = 2
  Parts = {"edfmoves"}
SPECIFICATION Spec
CHECK_DEADLOCK FALSE
INVARIANT HeapOrdered
SYMMETRY Symmetric
