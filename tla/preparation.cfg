\* Two goroutines prepare, again and again, interfaces that share types.
SPECIFICATION Spec
CONSTANTS
  Goroutines = {g1, g2}
  Descriptors <- AllDescriptors
  Declared <- AllDeclared
  Requests <- AllRequests
  Capacity = 4
  Synchronized = TRUE
  Preparations = 2
INVARIANTS TypeOK Intact PreparedIsRight RefusedRightly
SYMMETRY Swaps
CHECK_DEADLOCK FALSE
