CONSTANTS
  t1 = t1
  Global = Global
  Parts = {"fifo", "global", "cfs"}
  Tasks = {t1}
  Cpus = {0, 1}
  Channels = {0, 1}
  DefaultChan = 0
  NoTask = NoTask
  MaxBarrier = 4
  NoCpu = NoCpu
  Departures = "settled"
  Returns = TRUE
  SwitchTo = "none"
  CfsCpus = {0, 1}
  AgentPreempts = {FALSE, TRUE}
SPECIFICATION FairSpec
PROPERTY RunnableTaskRuns
