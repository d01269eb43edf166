SPECIFICATION Spec
CONSTANTS
  Clients = {c1}
  Chunks = 2
  BadFiles = {}
  MaxUploads = 2
INVARIANT ReceivesMessages
CHECK_DEADLOCK FALSE
