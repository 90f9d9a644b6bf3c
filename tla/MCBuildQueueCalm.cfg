\* One worker, two jobs, one of them listed; Redis answers, no process is killed, the
\* worker is shut down and started again.
CONSTANTS
  w1 = w1
  Workers = {w1}
  MaxJobs = 2
  MaxListed = 1
  MaxLost = 0
  Watched = {1}
  Faults = {"abandon", "build", "push", "sigterm", "expire"}
SPECIFICATION FairSpec
INVARIANT KeepsMaxListed
PROPERTIES ForgottenCauses LatestServed StreamEnds
