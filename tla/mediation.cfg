CONSTANTS
    A = A
    B = B
    C = C
    Channel = {A, B, C}
    Payer = A
    Routes <- MCTwoRoutes
    SettleTimeout <- MCSettleTimeout
    Expiration = 8
    Confirmations = 1
    RevealTimeout = 3
    MaxLag = 1
    TransactionTime = 1
    MaxBlock = 11
SPECIFICATION MCSpec
INVARIANTS PayeePaidPayerPays ExpiredPayeeCannotClaim NoOrphanedLock
CHECK_DEADLOCK FALSE
