\* A program that guards x by m; y (thread ids) is unguarded.
SPECIFICATION Spec
CONSTANTS
  x = x
  y = y
  m = m
  NoMutex = NoMutex
  NoLoc = NoLoc
  MaxThread = 1
  Locs = {x, y}
  Values = {1}
  Mutexes = {m}
  Guard <- MCGuard
  LockDiscipline = TRUE
  MaxStmts <- MCStmts
  MainStmts = 5
  ThreadStmts = 3
INVARIANTS MutualExclusion GuardedReadsSeeLatest NoFalseRace LockInv
CHECK_DEADLOCK FALSE
