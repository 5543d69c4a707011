SPECIFICATION ServerSpec
CONSTANTS
  Devices = {E, B, R}
  Tunable = {B, R}
  Unchecked = {}
  Sources <- EachOther
  Strangers = {}
  Data = {x}
  Settings = {s}
  MaxEdits = 1
  MaxSteps = 0
  NoData = NoData
  Header = Header
  Empty = Empty
  NoFile = NoFile
  Unset = Unset
  Garbage = Garbage
\* The server may be closed, or die, and answer nothing any more.
CHECK_DEADLOCK FALSE
INVARIANT SettingsWhole
