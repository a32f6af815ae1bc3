-------------------------- MODULE MCMultisigWallet --------------------------
(***************************************************************************)
(* MultisigWallet on small instances.                                      *)
(***************************************************************************)
EXTENDS MultisigWallet, TLC

CONSTANTS ann, ben, cat

\* Addresses are only compared with each other, also in the properties.
MCSymmetry == Permutations(Accounts)
=============================================================================
