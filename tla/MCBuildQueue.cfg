\* Two workers, two jobs, the log of the first streamed, everything failing but the
\* shutdown of a worker; a caller that goes away is covered by a Redis that fails.  One
\* answer is lost for good or the command sent again.  Only what the properties look at
\* tells states apart.
CONSTANTS
  w1 = w1
  w2 = w2
  Workers = {w1, w2}
  MaxJobs = 2
  MaxListed = 1
  MaxLost = 1
  Watched = {1}
  Faults = {"redis", "build", "push", "crash", "expire"}
SPECIFICATION Spec
SYMMETRY Symmetry
VIEW View
INVARIANTS TypeOK ShownIsResult
PROPERTIES ResultCauses KeepsBoard
