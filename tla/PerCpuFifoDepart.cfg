CONSTANTS
  t1 = t1
  t2 = t2
  Tasks = {t1}
  Cpus = {0, 1}
  Channels = {0, 1}
  DefaultChan = 0
  NoTask = NoTask
  MaxBarrier = 3
  NoCpu = NoCpu
  Departures = "any"
  Returns = FALSE
  SwitchTo = "none"
  CfsCpus = {}
  AgentPreempts = {FALSE, TRUE}
SPECIFICATION Spec
INVARIANT SafeToMigrate
CHECK_DEADLOCK FALSE
