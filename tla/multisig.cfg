SPECIFICATION Spec

CONSTANTS
    ann = ann
    ben = ben
    cat = cat
    Accounts = {ann, ben, cat}
    Timeouts = {0, 1}
    MaxSigners = 4
    MaxWallets = 1
    MaxProposals = 1
    MaxTime = 2

INVARIANTS
    TypeOK
    PaidOnce
    ExecutedHasQuorum
    OpenLacksSecondApproval

SYMMETRY MCSymmetry
