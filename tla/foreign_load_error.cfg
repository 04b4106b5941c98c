\* Expected to fail: the text of a failed dlopen is fetched from another thread.
SPECIFICATION Spec
CONSTANTS
  Goroutines = {g1, g2}
  Threads = {m1, m2}
  Blocks = {b1}
  MaxDepth = 1
  MaxLoads = 1
  None = None
INVARIANTS LoadErrorIsOwn
