CONSTANTS
    A = A
    Channel = {A}
    Payer = A
    Expiration = 8
    Confirmations = 2
    RevealTimeout = 5
    MaxLag = 2
    TransactionTime = 1
    MaxBlock = 16
SPECIFICATION MCSpec
INVARIANTS RevealedSecretIsPaid TaskRunsWhileLockPending
CHECK_DEADLOCK FALSE
