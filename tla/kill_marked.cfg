\* The same with waitpid: a marked task can wait before it looks at its mark.
CONSTANTS
  NUM_MAX_TASK = 3
  NumBlockQueues = 0
  MaxPid = 3
  Calls = {"exec", "exit", "kill", "waitpid"}
SPECIFICATION FairSpec
PROPERTY MarkedTaskDies
