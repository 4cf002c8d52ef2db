SPECIFICATION LiveSpec
CONSTANTS
  c1 = c1
  c2 = c2
  c3 = c3
  s1 = s1
  s2 = s2
  None = None
  Call = {c1, c2, c3}
  Instances <- MCInstances
  MaxTx = 6
  Confirmations = 2
  MaxReorg = 1
  PollDelay = 1
  Lag = 0
  WholeLimit = 4
  WithdrawDelay = 1
  MaxNetworks = 2
INVARIANTS
  NoncesContiguous
  SuccessIsFinal
PROPERTIES
  CallsDoNotInterfere
  RevertExplained
  EveryCallReturns
