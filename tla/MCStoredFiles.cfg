SPECIFICATION Spec
CONSTANTS
  u1 = u1
  r1 = r1
  Users = {u1}
  Resources = {r1}
  Uploader <- MCUploader
  Clients = {c1, c2}
  MaxRequests = 4
  None = None
INVARIANTS
  TypeOK
  RowsNameFiles
  FilesAreOwned
SYMMETRY Symmetry
CHECK_DEADLOCK FALSE
