SPECIFICATION ServerFairSpec
CONSTANTS
  Devices = {E, B, R}
  Tunable = {B, R}
  Unchecked = {B}
  Sources <- EachOther
  Strangers = {X}
  Data = {x}
  Settings = {s, t}
  MaxEdits = 1
  MaxSteps = 2
  NoData = NoData
  Header = Header
  Empty = Empty
  NoFile = NoFile
  Unset = Unset
  Garbage = Garbage
\* The server may be closed, or die, and answer nothing any more.
CHECK_DEADLOCK FALSE
INVARIANTS TypeOK BarrierDrained RowPerStep
PROPERTY SettingsArrive
