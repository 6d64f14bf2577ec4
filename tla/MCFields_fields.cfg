\* Programs over every type that keep clear of what is known wrong.
SPECIFICATION Spec
CONSTANTS
  Careful = TRUE
  Kinds = {"m31", "m31x16.avx256", "m31x16.avx512", "m31x16.neon", "m31ext3", "m31ext3x16", "m31ext6", "babybear", "babybearx16.avx256", "babybearx16.avx512", "babybearx16.neon", "babybearext3", "babybearext3x16.neon", "goldilocks", "goldilocksx8.avx256", "goldilocksx8.avx512", "goldilocksx8.neon", "goldilocksext2", "goldilocksext2x8.avx256", "gf2", "gf2x8", "gf2x64", "gf2x128.avx", "gf2x128.neon", "gf2_128.avx", "gf2_128.neon", "gf2_128x8.avx256", "gf2_128x8.avx512", "gf2_128x8.neon"}
INVARIANTS
  ValueIsExact
  WordsInRange
  ComparisonsAreExact
  UnitsHaveInverses
  BytesSurviveTheProof
  NoUndefinedBehaviour
CHECK_DEADLOCK FALSE
