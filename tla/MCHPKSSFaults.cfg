SPECIFICATION Spec
CONSTANTS
  E = E
  W = W
  B = B
  R = R
  Devices <- ThreeDevices
  Sources <- ThreeSources
  Tunable <- None
  Unchecked <- JustB
  KeepsTime <- JustW
  Strangers <- None
  Data <- StepStamps
  NoData = NoData
  Header = Header
  Settings = {s}
  Empty = Empty
  NoFile = NoFile
  Unset = Unset
  Garbage = Garbage
  MaxEdits = 0
  MaxSteps = 5
  MaxRestarts = 1
  MaxLost = 1
INVARIANTS ParamsInitialised BoundedStaleness InputSkew StepGap IInv
