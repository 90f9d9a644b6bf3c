\* Two requests at a time, three containers, two ports, every failure, one restart.
\* MIN_OPEN_PORT is unset: slot 0 asks Docker for host port 0 and gets any port, one of
\* them the port of slot 1.
CONSTANTS
  h1 = h1
  h2 = h2
  c1 = c1
  c2 = c2
  c3 = c3
  Handlers = {h1, h2}
  Containers = {c1, c2, c3}
  MinPort = 0
  MaxPort = 1
  EphemeralPorts = {1, 9}
  Requests = {"start", "stop", "destroy"}
  Faults = {"pull", "create", "start", "inspect", "stop", "remove", "exit"}
  MaxRestarts = 1
SPECIFICATION Spec
SYMMETRY Symmetry
INVARIANTS TypeOK HandlersConsistent
PROPERTIES LeakCauses UnreservedCauses
CHECK_DEADLOCK FALSE
