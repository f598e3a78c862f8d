SPECIFICATION Spec
CONSTANTS
  Clients = {a}
  Services = {s1}
  MaxStarts = 2
  MaxSends = 3
CHECK_DEADLOCK FALSE
INVARIANTS ClosedIsFinal NothingLost
PROPERTIES ReadsOwnRegistration
CONSTRAINT EntriesOrRequests
