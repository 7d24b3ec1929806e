SPECIFICATION Spec
CONSTANTS
  Modulus = 16
  Texts <- MCTexts
  Patterns <- MCPatterns
INVARIANT SlicesExact
INVARIANT SearchesExact
INVARIANT ReadsExact
INVARIANT LinesExact
INVARIANT NoLineForgotten
PROPERTY HandlerEnds
CHECK_DEADLOCK FALSE
