SPECIFICATION PcsSpec
CONSTANTS
  P = 10007
  Red <- MCRed
  Nothing = Nothing
  Jobs <- MCJobs
INVARIANTS
  RoundsProveThePaddedSum
  MergedCommitmentsAgree
  OpeningsDecideRightly
