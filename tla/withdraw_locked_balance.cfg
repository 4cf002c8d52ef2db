CONSTANTS
    Alice = Alice
    Bob = Bob
    h1 = h1
    SecretHash = {h1}
    Amount = {1}
    PaymentExpiration <- MCOneExpiration
    UINT256_MAX = 4
    MAXIMUM_PENDING_TRANSFERS = 2
    Confirmations = 1
    RevealTimeout = 2
    SettleTimeout = 5
    InitialDeposit <- MCTwoAndOne
    DepositAmount = {1}
    WithdrawAmount = {1, 2}

SPECIFICATION MCUnlockingSpec

CHECK_DEADLOCK FALSE

INVARIANTS
    BalanceNeverNegative
