\* A process with two child threads, or two processes with one each.
CONSTANTS
  NUM_MAX_TASK = 3
  NumBlockQueues = 0
  MaxPid = 3
  MAX_THREAD_NUM = 2
  Calls = {"fork", "exit", "kill", "thread", "thread_yield"}
SPECIFICATION ThreadSpec
INVARIANTS ThreadsPlaced ThreadHasMain JoinReapsExited
