SPECIFICATION FairSpec
CONSTANTS
  Inputs <- MCInputs
  MaxEpoch = 9
INVARIANTS
  AsDebVersion
  Antisymmetric
  PartsAreTheString
PROPERTY Terminates
