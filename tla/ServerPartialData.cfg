SPECIFICATION ServerSpec
CONSTANTS
  Devices = {E, B, R}
  Tunable = {B, R}
  Unchecked = {B}
  Sources <- EachOther
  Strangers = {}
  Data = {x}
  Settings = {s}
  MaxEdits = 0
  MaxSteps = 1
  NoData = NoData
  Header = Header
  Empty = Empty
  NoFile = NoFile
  Unset = Unset
  Garbage = Garbage
\* The server may be closed, or die, and answer nothing any more.
CHECK_DEADLOCK FALSE
INVARIANT ServerStaysUp
