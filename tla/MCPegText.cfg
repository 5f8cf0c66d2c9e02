SPECIFICATION Spec
CONSTANTS
  Calls <- AllCalls
  Width = 8
INVARIANTS FittingNumbersExact CodeBlocksKept EscapesRead UnescapeInside DecodersAgree ClassesAgree OutputNames
CHECK_DEADLOCK FALSE
