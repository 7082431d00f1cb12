SPECIFICATION Spec
CONSTANTS
  a = a
  b = b
  n = n
  r1 = r1
  r2 = r2
  Users <- MCUsers
  Newcomer = n
  Founder = a
  Requests <- MCRequests
  Earlier = Earlier
  Attempts = 2
  Existing = {"client"}
  Mixed = FALSE
INVARIANTS OwnerRemains AccessDecisionsKept InvitationsOnce WorkTransferred DeskConsistent NumbersInOrder ChainLinked DeadlocksExplained
PROPERTY TemporaryAccessEnds RequestsAnswered
CHECK_DEADLOCK FALSE
