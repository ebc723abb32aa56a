SPECIFICATION Spec
CONSTANTS
  DIGITS = 2
  MaxLength = 5
CHECK_DEADLOCK FALSE
INVARIANTS
  AcceptsExactly
  OneFeedPerNumeral
