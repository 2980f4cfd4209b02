SPECIFICATION FairSpec
CONSTANTS
  n1 = n1
  n2 = n2
  n3 = n3
  NoNote = NoNote
  Syncs = {s1, s2}
  Hashes <- MCHashes
  Genesis <- MCGenesis
  Chain <- MCChain
  Total <- EvenTotal
  BodyRoot <- MCBodyRoot
  Signed <- MCHashes
  Notes <- MCNotes
  NoteIn <- MCNoteIn
  PageSize = 2
INVARIANTS TypeOK SavedIsChain NotesComplete NotesVerified
PROPERTIES NeverWorse Settles
