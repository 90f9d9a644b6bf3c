\* Progress: two requests, two instances, shutdown and database errors.
CONSTANTS
  h1 = h1
  h2 = h2
  i1 = i1
  i2 = i2
  Handlers = {h1, h2}
  Instances = {i1, i2}
  NumRunners = 1
  Faults = {"db", "sigterm"}
  MaxBoots = 1
SPECIFICATION FairSpec
PROPERTIES AnsweredUnlessStuck ShutdownUnlessStuck
CHECK_DEADLOCK FALSE
