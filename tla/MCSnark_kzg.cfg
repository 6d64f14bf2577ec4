CONSTANTS
  WorldSize = 2
  Recursion = FALSE
  Pcs = "kzg"
  Layers <- MCRelayed
  OutVars = 1
  SimdVars = 1
  NumPI = 0
  VerifierPI <- MCNoPI
  NumCoefs = 1
  GrindRounds = 0
  NProofs = 1
  Prog <- ProveCommand
  VProg <- Verify
SPECIFICATION SnarkSpec
INVARIANTS
  VerifierFollowsProver
  ChallengesBindTranscript
PROPERTIES
  DecidesRightly
