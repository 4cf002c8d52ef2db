\* Calls of a user and the synchronisation with the chain
SPECIFICATION LiveSpec
\* the chain and the calls of an instance end
CHECK_DEADLOCK FALSE
CONSTANTS
  Us = Us
  Them = Them
  None = None
  Node = {Us, Them}
  Peers = {"p", "q"}
  SettleTimeout = 1
  Transferred <- NoTransfers
  Pending <- NoLocks
  Tokens = 3
  ParticipantLimit = 3
  NetworkLimit = 4
  Confirmations = 1
  Grace = 1
  Window = 3
  MaxCalls = 2
  MinBatch = 1
  MaxBatch = 4
  InitialScale = 1
  Instances <- MCInstances
INVARIANT PreconditionsHold
PROPERTY ViewFollowsChain
PROPERTY ReturnedMeansDone
PROPERTY NothingHangs
