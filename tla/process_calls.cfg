\* Every system call of module Process on two PCBs and one IPC object.
CONSTANTS
  NUM_MAX_TASK = 2
  NumBlockQueues = 1
  MaxPid = 3
  Calls = {"exec", "fork", "kill", "exit", "waitpid", "ipc", "sleep", "taskset"}
SPECIFICATION Spec
INVARIANTS NoLostTask PlaceInv
PROPERTIES DispatchInOrder SleepNotCutShort
