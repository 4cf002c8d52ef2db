CONSTANTS
    Alice = Alice
    Bob = Bob
    h1 = h1
    h2 = h2
    SecretHash = {h1, h2}
    Amount = {1, 2}
    PaymentExpiration <- MCPaymentExpiration
    UINT256_MAX = 2
    MAXIMUM_PENDING_TRANSFERS = 2
    Confirmations = 1
    RevealTimeout = 1
    SettleTimeout = 3
    InitialDeposit <- MCInitialDeposit
    DepositAmount = {1}

SPECIFICATION MCSpec

INVARIANTS
    ViewsAgree
    BalancesCovered
    RegisteredLockNeverExpires
    NextMessageAcceptable

PROPERTIES
    ImplementsLedger
