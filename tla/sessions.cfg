SPECIFICATION Spec
CONSTANTS
  s1 = s1
  s2 = s2
  Free = Free
  Session <- TwoSessions
  Task <- TwoTasks
  PresetChannel = {}
  Probing = {}
  Downloading = {}
  Key = {}
  Expiring <- OneTask
  EmptyTask = {}
  InvalidTask <- SecondTask
  MaxCycles = 1
  MaxRpcs = 1
  MaxCrashes = 1
  MaxDrops = 0
  MaxStalls = 1
SYMMETRY SessionSymmetry
INVARIANTS LockHeld NoTaskLost
PROPERTIES LockKept ImplementsTaskQueue
