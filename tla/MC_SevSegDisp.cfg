SPECIFICATION Spec
CONSTANTS
  BITS = 16
  DIVIDE = 2
  MODE = TRUE
  Values <- MCValues
PROPERTIES
  ShowsDecimal
  DigitsInTurn
  AllDigitsShown
