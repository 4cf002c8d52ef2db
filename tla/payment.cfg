SPECIFICATION LiveSpec
CONSTANTS
  Channel <- MCChannel
  MaxPayments = 2
  MaxSecrets = 3
  Instances <- MCInstances
  LockTimeout = 2
  RemovalWait = 1
  SameIdentifier = TRUE
INVARIANTS
  PaidAtMostOnce
  AnswerIsRight
  TasksMatchLocks
PROPERTY PaymentResolved
CHECK_DEADLOCK FALSE
