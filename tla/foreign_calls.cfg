\* Two goroutines call C, load libraries and are called back, nested, on two threads.
SPECIFICATION Spec
CONSTANTS
  Goroutines = {g1, g2}
  Threads = {m1, m2}
  Blocks = {b1, b2, b3}
  MaxDepth = 3
  MaxLoads = 1
  None = None
INVARIANTS TypeOK BlockIsExclusive ResultIsOwn HandleArrives
PROPERTIES CallsAreAtomic
SYMMETRY Symmetry
