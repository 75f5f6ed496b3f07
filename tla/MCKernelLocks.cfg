SPECIFICATION Spec
CONSTANTS
  Threads = {main, idle, a, b}
  Main = main
  Idle = idle
  NULL = NULL
  PRI_MIN = 0
  PRI_MAX = 2
  PRI_DEFAULT = 0
  TIME_SLICE = 1
  l1 = l1
  l2 = l2
  tid_lock = tid_lock
  IdleStarted = idle_started
  Semaphores = {idle_started}
  Locks <- MCLocks2
  TidLock = tid_lock
  LockRank <- MCRank
  MaxValue = 1
  Ops = {"create", "lock", "trylock", "exit", "setprio"}
  Priorities = {0, 1}
  Naps = {1}
INVARIANTS
  KernelInv
  LockOwnership
  WaitForOrder
  DonationFloor
  DonationReturned
