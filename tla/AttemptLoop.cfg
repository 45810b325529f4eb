CONSTANTS
  Files = {lib, src, test, lock}
  Writable = {lib, src, test}
  TestFiles = {test}
  Contents = {original, edited}
  Original = original
  MaxAttempts = 3
  MaxChangedFiles = 2
  FocusedCommands = 2
SYMMETRY AlikeFiles
SPECIFICATION Spec
INVARIANTS
  TypeOK
  ValidatedTreeIsPublished
  LastOutcomeExplainsEnd
