SPECIFICATION Spec
CONSTANTS
  UDP_SOCKETS = 2
  UDP_QUEUE = 2
  EphFirst = 1
  EphLast = 7
  Attempts = 3
  DnsAttempts = 2
  MaxDisturb = 5
  Names = {1, 2}
  DnsIds = {1, 2}
  Circumstances <- Cases
INVARIANTS DemuxSound LeaseSound GivesUpLate ResolvesOwnName
CHECK_DEADLOCK FALSE
