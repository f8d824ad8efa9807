CONSTANTS
  None = None
  A = A
  B = B
  F1 = F1
  F2 = F2
  N1 = N1
  I1 = I1
  FolderIds = {F1, F2}
  NoteIds = {N1}
  ImageIds = {I1}
  Devices = {A, B}
  Starts <- PasteStarts
  Names <- TheNames
  Placeholder = "Synced space"
  Clients = {1, 2, 3}
  MaxAttempts = 3
SPECIFICATION Spec
PROPERTY RemovedOnlyIfDeleted
CHECK_DEADLOCK FALSE
