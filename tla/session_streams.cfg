SPECIFICATION FairSpec
CONSTANTS
  Clients = {c1}
  Chunks = 3
  BadFiles = {2}
  MaxUploads = 3
INVARIANT Inductive
INVARIANT RepliesInStep
INVARIANT FilesIntact
PROPERTY LeavingFreesThread
PROPERTY ServedUnlessSwallowed
CHECK_DEADLOCK FALSE
