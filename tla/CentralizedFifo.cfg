CONSTANTS
  t1 = t1
  t2 = t2
  Tasks = {t1, t2}
  Cpus = {0, 1}
  Channels = {Global}
  DefaultChan = Global
  NoTask = NoTask
  MaxBarrier = 3
  NoCpu = NoCpu
  FirstGlobal = 0
  TimeSlice = TRUE
  Departs = TRUE
  Returns = TRUE
  CfsCpus = {1}
SYMMETRY Symmetric
SPECIFICATION MCSpec
INVARIANTS TypeOK NoFault QueuesMatchStates BooksAgree NothingDropped OneGlobalAgent GlobalAgentAwake
PROPERTY FifoOrder
