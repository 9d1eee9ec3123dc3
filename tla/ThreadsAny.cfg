\* Any program: no lock discipline is assumed.
SPECIFICATION FairSpec
CONSTANTS
  x = x
  y = y
  m = m
  NoMutex = NoMutex
  NoLoc = NoLoc
  MaxThread = 1
  Locs = {x}
  Values = {1}
  Mutexes = {m}
  Guard <- MCGuard
  LockDiscipline = FALSE
  MaxStmts <- MCStmts
  MainStmts = 3
  ThreadStmts = 2
INVARIANTS TypeOK RunningHasCell
PROPERTY BuffersDrain
CHECK_DEADLOCK FALSE
