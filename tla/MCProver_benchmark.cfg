CONSTANTS
  WorldSize = 2
  Recursion = FALSE
  Pcs = "orion"
  Layers <- MCRelayed
  OutVars = 1
  SimdVars = 1
  NumPI = 1
  VerifierPI <- MCNoPI
  NumCoefs = 2
  GrindRounds = 1
  NProofs = 1
  Prog <- RunBenchmark
SPECIFICATION Spec
INVARIANTS
  TypeOK
  KeepsDiscipline
  CollectivesMatch
  ChallengeAgreement
  CoefReadsCurrent
PROPERTIES
  OneSharedTape
  Termination
