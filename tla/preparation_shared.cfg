\* Two goroutines lay the same struct out at once.
SPECIFICATION Spec
CONSTANTS
  Goroutines = {g1, g2}
  Descriptors <- AllDescriptors
  Declared <- AllDeclared
  Requests <- SharedRequests
  Capacity = 4
  Synchronized = FALSE
  Preparations = 1
INVARIANT SharingIsSafe
CHECK_DEADLOCK FALSE
