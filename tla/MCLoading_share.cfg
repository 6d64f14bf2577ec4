\* Two ranks and a verifier load a nested circuit and a witness file that
\* has just enough witnesses, too many, too few (with and without padding), or
\* witnesses for another circuit.
CONSTANTS
  WorldSize = 2
  Jobs <- MCJobs
  Objects <- MCObjects
  Base <- MCBase
SPECIFICATION Spec
INVARIANTS
  WritesInsideWindow
  ReadersFindWhatWasWritten
  FlatMeansTheFile
  WitnessesReachTheirLanes
  AllAcceptTheWitness
  SameCoefficients
