\* An outlook read through the seller, an aggregation cycle and a need.
SPECIFICATION Spec
CONSTANTS
  Entry = {"published", "outlook_view", "aggregate"}
  MaxConnections = 2
  MaxCalls = 6
  MaxRequests = 3
  MaxSteps = 1
INVARIANTS CannotDeadlock
CHECK_DEADLOCK FALSE
