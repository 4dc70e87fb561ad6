SPECIFICATION RunnerSpec
CONSTANTS
  Processes <- MCProcesses
  Traces <- MCTraces
  Factors <- MCFactors
  ThreadCounts <- MCThreads
  Containers <- MCContainers
  PullPurge <- MCPullPurge
  Steps <- MCSteps
  CommandLines <- MCCommandLines
  MaxSessions = 2
  MaxFaults = 1
INVARIANTS
  EveryExperimentIsMade
  LogIsInOrder
CHECK_DEADLOCK FALSE
