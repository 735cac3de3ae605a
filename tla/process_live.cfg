\* Three tasks on two CPUs that run, sleep, exit and kill each other.
CONSTANTS
  NUM_MAX_TASK = 3
  NumBlockQueues = 0
  MaxPid = 3
  Calls = {"exec", "exit", "kill", "sleep"}
SPECIFICATION FairSpec
PROPERTIES ReadyTaskRuns SleeperWakes MarkedTaskDies
