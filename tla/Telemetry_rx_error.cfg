SPECIFICATION Spec
CONSTANTS
  MaxRequests = 0
  MaxErrors = 1
INVARIANT CompleteFrame
