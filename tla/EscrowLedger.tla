---------------------------- MODULE EscrowLedger ----------------------------
(***************************************************************************)
(* What an escrow promises about money: what is paid into an account stays *)
(* there until the account is settled, then all of it goes to one side,    *)
(* and nothing is paid in or out of the account afterwards.                *)
(***************************************************************************)
EXTENDS Naturals

CONSTANTS Ids,          \* identifiers of accounts
          Amounts       \* what may be paid in

VARIABLE account        \* [Ids -> account]

Unopened == [state |-> "none", balance |-> 0, released |-> 0, refunded |-> 0]
Settled(i) == account[i].released + account[i].refunded > 0

Init == account = [i \in Ids |-> Unopened]

\* Several accounts may be opened at once.
Open(new) ==
    /\ \A i \in new : account[i].state = "none"
    /\ account' = [i \in Ids |-> IF i \in new THEN [Unopened EXCEPT !.state = "open"]
                                 ELSE account[i]]

Deposit(i, amount) ==
    /\ account[i].state = "open" /\ ~Settled(i)
    /\ account' = [account EXCEPT ![i].balance = @ + amount]

\* The whole balance goes to the payee, or back to the payer.
Release(i) ==
    /\ account[i].balance > 0
    /\ account' = [account EXCEPT ![i].balance = 0, ![i].released = account[i].balance]

Refund(i) ==
    /\ account[i].balance > 0
    /\ account' = [account EXCEPT ![i].balance = 0, ![i].refunded = account[i].balance]

Next == \/ \E new \in SUBSET Ids : Open(new)
        \/ \E i \in Ids, amount \in Amounts : Deposit(i, amount)
        \/ \E i \in Ids : Release(i) \/ Refund(i)

Spec == Init /\ [][Next]_account
=============================================================================
