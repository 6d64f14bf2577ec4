CONSTANTS
  P = 31
  Jobs <- MCJobs
SPECIFICATION Spec
INVARIANTS
  ClaimsAreMle
  SequentialDecidesRightly
  VerifiersAgree
