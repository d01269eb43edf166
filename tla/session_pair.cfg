SPECIFICATION FairSpec
CONSTANTS
  Clients = {c1, c2}
  Chunks = 1
  BadFiles = {}
  MaxUploads = 1
INVARIANT EndNeedsCause
INVARIANT AbortNeedsCause
PROPERTY UsesHttp
PROPERTY ServedUnlessSwallowed
CHECK_DEADLOCK FALSE
