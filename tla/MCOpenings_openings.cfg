SPECIFICATION Spec
CONSTANTS
  Nothing = Nothing
  Jobs <- MCJobs
  LengthThresholdG0s = 3
  AlphaG0 <- TwoFifths
  AlphaG1 <- TwoFifths
  DegreeG0 = 2
  DegreeG1 = 2
INVARIANTS
  RanksShareTheCodeword
  CommitsToCodewords
  PathsOpenTheirLeafOnly
  QueriesAnsweredInOrder
  ValueIsMultilinearExtension
  OpeningDecidesRightly
