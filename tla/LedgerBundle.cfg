SPECIFICATION Spec
CONSTANTS
  owner = owner
  k1 = k1
  k2 = k2
  d1 = d1
  n1 = n1
  n2 = n2
  h1 = h1
  h2 = h2
  Owner = owner
  OwnerDevice = OwnerDevice
  NoKey = NoKey
  NoNote = NoNote
  NoDevice = NoDevice
  NoTx = NoTx
  Genesis = Genesis
  Keys <- MCKeys
  Devices <- MCDevices
  Notes <- MCNotes
  TxIds <- AllIds
  Bodies <- FaultBodies
  InitialKeys = {}
  InitialKeyEpoch = 1
  PowEpochs = {0, 1}
  PowEpochLength = 2
  Handlers = {h1, h2}
  Faults = {}
  CarefulOwner = FALSE
  Watched <- None
  MaxMined = 5
SYMMETRY HandlerSymmetry
CHECK_DEADLOCK FALSE
PROPERTY RejectedLeavesNoTrace
