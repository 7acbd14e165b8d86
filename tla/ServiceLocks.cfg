\* Every request but the outlook views; no read ever has to time out.
SPECIFICATION FairSpec
CONSTANTS
  Entry = {"need", "published", "book", "disclose", "publish", "advance", "aggregate", "refund", "sync", "certify"}
  MaxConnections = 1
  MaxCalls = 4
  MaxRequests = 2
  MaxSteps = 1
INVARIANTS TypeOK CannotDeadlock
PROPERTY EveryRequestAnswered
CHECK_DEADLOCK FALSE
