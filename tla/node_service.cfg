SPECIFICATION LiveSpec
CONSTANTS
  SnapshotCount = 1
  Instances <- MCInstances
INVARIANTS RestoreIsExact SentIsDurable NoMessageLost RestartMonitorsFirst
PROPERTY EveryTransferForwarded
CHECK_DEADLOCK FALSE
