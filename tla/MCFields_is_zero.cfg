\* Programs over BabyBear on AVX2 that use any operation.
SPECIFICATION Spec
CONSTANTS
  Careful = FALSE
  Kinds = {"babybearx16.avx256"}
INVARIANTS
  ComparisonsAreExact
CHECK_DEADLOCK FALSE
