SPECIFICATION Spec
CONSTANTS
  E = E
  W = W
  B = B
  R = R
  Devices <- FourDevices
  Sources <- FourSources
  Tunable <- None
  Unchecked <- JustB
  KeepsTime <- JustW
  Strangers <- None
  Data <- StepStamps
  NoData = NoData
  Header = Header
  Settings = {s}
  Empty = Empty
  NoFile = NoFile
  Unset = Unset
  Garbage = Garbage
  MaxEdits = 0
  MaxSteps = 3
  MaxRestarts = 0
  MaxLost = 0
PROPERTY LockStep
