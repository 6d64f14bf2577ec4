CONSTANTS
  WorldSize = 1
  Recursion = TRUE
  Pcs = "kzg"
  Layers <- MCTwoClaims
  OutVars = 1
  SimdVars = 1
  NumPI = 1
  VerifierPI <- MCRootPI
  NumCoefs = 1
  GrindRounds = 1
  NProofs = 1
  Prog <- ProveCommand
  VProg <- Verify
SPECIFICATION SnarkSpec
PROPERTIES
  DecidesRightly
