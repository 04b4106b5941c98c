\* Two goroutines load and look up on two threads, with other C code failing in between, in both builds.
SPECIFICATION Spec
CONSTANTS
  Goroutines = {g1, g2}
  Threads = {m1, m2}
  Chunks = {c1, c2, c3}
  None = None
INVARIANTS TypeOK ReportIsTrue ChunksHaveOwners
