SPECIFICATION Spec
CONSTANTS
  n1 = n1
  n2 = n2
  n3 = n3
  NoNote = NoNote
  Syncs = {s1}
  Hashes <- MCHashes
  Genesis <- MCGenesis
  Chain <- MCChain
  Total <- HeavyTotal
  BodyRoot <- MCBodyRoot
  Signed <- MCHashes
  Notes <- MCNotes
  NoteIn <- MCNoteIn
  PageSize = 2
INVARIANTS OrphansHidden
