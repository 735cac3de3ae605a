\* Three tasks, two of which may be threads of one process; one object of each kind.
CONSTANTS
  t1 = t1
  t2 = t2
  t3 = t3
  Families <- MCFamilies
  Tasks = {t1, t2, t3}
  LOCK_NUM = 1
  MutexKeys = {7}
  SEMAPHORE_NUM = 1
  InitValues = {1, 2}
  BARRIER_NUM = 1
  MaxRounds = 2
SPECIFICATION SyncSpec
INVARIANTS     BarrierTogether 
