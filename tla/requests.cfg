SPECIFICATION NbiSpec
CONSTANTS
  s1 = s1
  s2 = s2
  c1 = c1
  c2 = c2
  p1 = p1
  Free = Free
  Kinds = {"queue", "execute", "ui", "delete", "retry", "forget"}
  Session = {s1}
  Client <- TwoClients
  Task <- OneTask
  Keyed = {}
  PresetChannel = {}
  Probing = {}
  Downloading = {}
  Key = {}
  Expiring = {}
  EmptyTask = {}
  InvalidTask = {}
  MaxCycles = 1
  MaxRpcs = 1
  MaxCrashes = 1
  MaxDrops = 0
  MaxStalls = 1
SYMMETRY ClientSymmetry
INVARIANTS NbiTypeOK RequestsExclusive NoPostedTaskLost OkMeansExecuted
PROPERTIES LocksKept
