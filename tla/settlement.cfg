SPECIFICATION Spec
CONSTANTS
  A = A
  B = B
  x = x
  y = y
  Node = {A, B}
  None = None
  SettleTimeout = 1
  Transferred <- MCTransferred
  Pending <- MCPending
  Registered <- MCRegistered
  Tokens = 3
  ParticipantLimit = 3
  NetworkLimit = 5
  MaxNonce = 2
  Scenarios <- MCScenarios
  MaxLag = 0
  MaxDowns = 1
  Expiration = 4
INVARIANTS
  LatestProofsSettled
  NeverAttemptedIllegally
  NothingLeftBehind
SYMMETRY Swap
CHECK_DEADLOCK FALSE
