SPECIFICATION MCSpec
CONSTANTS
  Load <- MCLoad
  Arithmetic <- MCArithmetic
  Texts <- MCTexts
  Ways <- MCWays
CHECK_DEADLOCK FALSE
INVARIANTS Delivered Undisturbed Exact Utf8 Conversions
PROPERTY InOrder
