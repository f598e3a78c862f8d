SPECIFICATION FairSpec
CONSTANTS
  Clients = {a}
  Services = {s1}
  MaxStarts = 1
  MaxSends = 2
CHECK_DEADLOCK FALSE
PROPERTIES OrderSpec Answered Stops WrittenInTheEnd
