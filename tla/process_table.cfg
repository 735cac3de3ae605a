\* Four pids over three PCBs: slots and wait lists are used again.
CONSTANTS
  NUM_MAX_TASK = 3
  NumBlockQueues = 0
  MaxPid = 4
  Calls = {"exec", "kill", "exit", "waitpid"}
SPECIFICATION Spec
INVARIANTS TypeOK OnePlace StatusOfList NoOrphanedWaiter RunTasksExact
PROPERTY ProcTableHolds
