SPECIFICATION Spec
CONSTANTS
  E = E
  W = W
  B = B
  R = R
  Devices <- FourDevices
  Sources <- FourSources
  Tunable <- JustB
  Unchecked <- JustB
  KeepsTime <- JustW
  Strangers <- None
  Data <- StepStamps
  NoData = NoData
  Header = Header
  Settings = {s}
  Empty = Empty
  NoFile = NoFile
  Unset = Unset
  Garbage = Garbage
  MaxEdits = 1
  MaxSteps = 3
  MaxRestarts = 0
  MaxLost = 0
\* A torn read of the settings may end the server.
CHECK_DEADLOCK FALSE
INVARIANTS EveryRoundIterates LogShape
PROPERTY ImplementsLagged
