------------------------ MODULE MCAgenticPayEscrow ------------------------
(***************************************************************************)
(* AgenticPayEscrow on small instances.                                    *)
(***************************************************************************)
EXTENDS AgenticPayEscrow, TLC

CONSTANTS ann, ben

\* Budgets include one that no deposit is needed for, as nothing validates the amount.
MCBudgets == {0, 2}

\* Deposits include one that has to be refused.
MCDeposits == {-1, 1, 2}

\* Addresses are only compared with each other, also in the properties.
MCSymmetry == Permutations(Accounts)
=============================================================================
