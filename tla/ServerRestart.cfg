SPECIFICATION RestartFairSpec
CONSTANTS
  Devices = {E, W}
  Sources <- EachOther
  Tunable = {}
  Unchecked = {}
  Strangers = {}
  Data = {0, 1, 2, 3}
  Settings = {s}
  MaxEdits = 0
  MaxSteps = 3
  KeepsTime = {W}
  MaxRestarts = 1
  MaxLost = 1
  MaxServerRestarts = 2
  NoData = NoData
  Header = Header
  Empty = Empty
  NoFile = NoFile
  Unset = Unset
  Garbage = Garbage
INVARIANT ResumesCleanly
PROPERTY Progress
