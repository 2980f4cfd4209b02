SPECIFICATION MCSpec
CONSTANTS
  note1 = note1
  add1 = add1
  bundle1 = bundle1
  device1 = device1
  Owner = Owner
  Genesis = Genesis
  NoNode = NoNode
  Nodes = {v1, v2, v3}
  Creates = {note1}
  Enrolments = {add1}
  Bundles = {bundle1}
  Enrols <- MCEnrols
  Revokes <- MCRevokes
  Epoch <- MCEpoch
  Author <- MCAuthor
  PowEpochLength = 4
  PageLimit = 2
  CatchUpPageSize = 3
  MaxLeaves = 8
SYMMETRY MCSymmetry
INVARIANTS
  TypeOK
  ChainsLinked
  NoteOnce
  WritersEnrolled
  EpochFollowsChain
  ProofsAgree
  AuditSound
PROPERTIES
  ExchangedWhole
  FailsOnlyBeyondAPage
CHECK_DEADLOCK FALSE
