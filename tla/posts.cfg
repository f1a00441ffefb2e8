SPECIFICATION NbiSpec
CONSTANTS
  s1 = s1
  s2 = s2
  c1 = c1
  c2 = c2
  p1 = p1
  Free = Free
  Kinds = {"queue", "execute", "ui"}
  Session = {s1}
  Client <- TwoClients
  Task <- ThreeTasks
  Keyed <- ThreeTasks
  PresetChannel = {}
  Probing = {}
  Downloading = {}
  Key = {}
  Expiring = {}
  EmptyTask <- ThreeTasks
  InvalidTask = {}
  MaxCycles = 1
  MaxRpcs = 1
  MaxCrashes = 0
  MaxDrops = 0
  MaxStalls = 0
SYMMETRY ClientSymmetry
INVARIANTS UniqueKey
