SPECIFICATION FairSpec
CONSTANTS
  MaxTeam = 2
  Weights <- MCWeights
  BlurSums <- MCBlurSums
  Gradients <- MCGradients
  Rows = 4
  Cols = 4
  LowThreshold = 40
  HighThreshold = 80
  Images <- MCImages
INVARIANTS
  ProofInvariant
  QuietIsClean
  AloneIsExact
  NormalizationDefined
  CallsInBounds
  LinkingIsThreshold
  StrongestSurvives
PROPERTY
  FilterEnds
