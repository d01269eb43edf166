SPECIFICATION Spec
CONSTANTS
  s1 = s1
  s2 = s2
  Sessions = {s1, s2}
  Results <- MCResults
  UploadNames <- MCUploadNames
  MaxUploads = 3
  MaxRuns = 2
SYMMETRY MCSymmetry
CHECK_DEADLOCK FALSE
INVARIANTS
  Inductive
  BrokenNeedsCause
  OwnImageUnlessMet
PROPERTIES
  FilterRepairs
  DownloadsWhole
