SPECIFICATION TestSpec
CONSTANTS
  MaxDepth = 16
  Values = {1, 2}
  MaxLen = 2
PROPERTY QsortSorts
CHECK_DEADLOCK FALSE
