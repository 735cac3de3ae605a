\* A process exits while one of its threads runs on the other CPU.
CONSTANTS
  NUM_MAX_TASK = 2
  NumBlockQueues = 0
  MaxPid = 2
  MAX_THREAD_NUM = 1
  Calls = {"exit", "thread"}
SPECIFICATION ThreadSpec
INVARIANT ExitNeverFaults
