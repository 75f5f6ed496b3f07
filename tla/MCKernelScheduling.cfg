SPECIFICATION Spec
CONSTANTS
  Threads = {main, idle, a, b}
  Main = main
  Idle = idle
  NULL = NULL
  PRI_MIN = 0
  PRI_MAX = 2
  PRI_DEFAULT = 0
  TIME_SLICE = 1
  l1 = l1
  l2 = l2
  tid_lock = tid_lock
  IdleStarted = idle_started
  Semaphores = {idle_started, s1}
  Locks <- MCLocks1
  TidLock = tid_lock
  LockRank <- MCRank
  MaxValue = 2
  Ops = {"create", "sema", "trydown", "setprio", "exit", "sleep", "trylock"}
  Priorities = {0, 1}
  Naps = {1}
INVARIANTS
  TypeOK
  NoLostWakeup
  CpuReadyCountExact
  ElemExclusive
  HighestRuns
PROPERTIES
  ImplementsSynchSpec
