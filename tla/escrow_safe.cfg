SPECIFICATION Spec

CONSTANTS
    ann = ann
    ben = ben
    Accounts = {ann, ben}
    Budgets <- MCBudgets
    Deposits <- MCDeposits
    Deadlines = {0, 1}
    MaxBatch = 2
    MaxProjects = 2
    InitializedOnce = TRUE
    MaxInits = 1
    MaxTime = 1

INVARIANTS
    EscrowConserved
    ReceiptIsWholePayment

PROPERTIES
    ImplementsLedger

SYMMETRY MCSymmetry
