\* A layer with random gates in two segments.
CONSTANTS
  WorldSize = 2
  Jobs <- MCTwoLeaves
  Objects <- MCObjects
  Base <- MCBase
SPECIFICATION Spec
INVARIANT SameCoefficients
