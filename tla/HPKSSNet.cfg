SPECIFICATION NetSpec
CONSTANTS
  Devices = {E, W, B}
  Sources <- EachOther
  Tunable = {}
  Unchecked = {B}
  Strangers = {}
  Data = {0, 1, 2, 3}
  Settings = {s}
  MaxEdits = 0
  MaxSteps = 3
  Backlog = 5
  MaxGiveUps = 0
  NoData = NoData
  Header = Header
  Empty = Empty
  NoFile = NoFile
  Unset = Unset
  Garbage = Garbage
PROPERTY ImplementsHPKSS
