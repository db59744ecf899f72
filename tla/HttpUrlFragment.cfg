\* What http_parser.h asks of those who read a parsed URL.
CONSTANTS
  Targets <- MCTargets
  MaxPieces = 1
  FieldMod = 32
  MaxPort = 65535
SPECIFICATION Spec
INVARIANT IndexedIffSet
CHECK_DEADLOCK FALSE
