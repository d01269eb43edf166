SPECIFICATION FairSpec
CONSTANTS
  Families <- MCFamilies
  MaxPending = 2
  MaxSessions = 2
  MaxFaults = 2
INVARIANT Inductive
PROPERTY ComesBack
