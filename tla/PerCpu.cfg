CONSTANTS
  t1 = t1
  t2 = t2
  v1 = v1
  Tasks = {t1, t2}
  Cpus = {0, 1}
  Channels = {0, 1}
  DefaultChan = 0
  NoTask = NoTask
  MaxBarrier = 3
  NoCpu = NoCpu
  CfsCpus = {1}
  Parts = {"fifo", "boosts", "cfs", "switchto", "masks", "ticks"}
SYMMETRY Symmetric
SPECIFICATION Spec
INVARIANTS TypesOK NoFault QueuesMatchStates BooksAgree NoSleepOnWork
