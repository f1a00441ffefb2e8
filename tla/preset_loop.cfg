SPECIFICATION Spec
CONSTANTS
  s1 = s1
  s2 = s2
  p1 = p1
  p2 = p2
  k1 = k1
  Free = Free
  Session = {s1}
  Task <- OneTask
  PresetChannel = {p1}
  Probing = {p1}
  Downloading = {}
  Key = {}
  Expiring = {}
  EmptyTask = {}
  InvalidTask = {}
  MaxCycles = 1
  MaxRpcs = 1
  MaxCrashes = 1
  MaxDrops = 1
  MaxStalls = 0
PROPERTIES FaultHasChannel
