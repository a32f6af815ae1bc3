----------------------------- MODULE PayoutFunds -----------------------------
(***************************************************************************)
(* What a payout engine promises about money, with nothing of how it does  *)
(* it: a merchant has an available balance; a payout takes the whole       *)
(* balance, rounded to the minor unit of its asset, out of it; and every   *)
(* payout either reaches the merchant or goes back to the balance, never   *)
(* both and never twice.                                                   *)
(***************************************************************************)
EXTENDS Naturals, Money

CONSTANTS Merchants,    \* whose balances are paid out
          Payouts,      \* identifiers of payouts
          Assets,       \* what a payout may be denominated in
          Grain,        \* [Assets -> Nat \ {0}], the minor unit of an asset
          Amounts       \* the amounts a balance may be set to

VARIABLES available,    \* [Merchants -> Nat]
          payout        \* what is held, paid or returned under an identifier

vars == <<available, payout>>

Nothing == [state |-> "none"]
Hold(m, asset, amount) ==
    [state |-> "held", merchant |-> m, asset |-> asset, amount |-> amount]

Init == /\ available \in [Merchants -> {0}]
        /\ payout = [p \in Payouts |-> Nothing]

\* The owner of the ledger states a merchant's balance.
Deposit(m, amount) == /\ available' = [available EXCEPT ![m] = amount]
                      /\ UNCHANGED payout

\* The whole balance of a merchant leaves it for a new payout.
Reserve(p, m, asset) ==
    /\ payout[p] = Nothing
    /\ available[m] > 0
    /\ payout' = [payout EXCEPT ![p] =
                    Hold(m, asset, Quantize(available[m], Grain[asset]))]
    /\ available' = [available EXCEPT ![m] = 0]

\* A held payout reaches its merchant.
Pay(p) == /\ payout[p].state = "held"
          /\ payout' = [payout EXCEPT ![p].state = "paid"]
          /\ UNCHANGED available

\* A held payout goes back to the balance it came from.
Return(p) ==
    LET m == payout[p].merchant
    IN  /\ payout[p].state = "held"
        /\ payout' = [payout EXCEPT ![p].state = "returned"]
        /\ available' = [available EXCEPT ![m] =
                           Quantize(available[m] + payout[p].amount,
                                    Grain[payout[p].asset])]

Next == \/ \E m \in Merchants, amount \in Amounts : Deposit(m, amount)
        \/ \E p \in Payouts, m \in Merchants, asset \in Assets : Reserve(p, m, asset)
        \/ \E p \in Payouts : Pay(p) \/ Return(p)

Spec == Init /\ [][Next]_vars
=============================================================================
