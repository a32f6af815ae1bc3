---------------------------- MODULE MultisigWallet ----------------------------
(***************************************************************************)
(* The multisig wallets of the Soroban contract AgenticPayContract         *)
(* (contracts/src/lib.rs): wallets with signers and a threshold, and       *)
(* proposals that signers approve, reject and cancel, or that expire.      *)
(*                                                                         *)
(* Every entry point is one transaction and a panic undoes it, so an       *)
(* action is a call that returns.  The reentrancy latch is closed and      *)
(* opened within each call, and AgenticPayEscrow shows it open between     *)
(* calls.  Amounts, recipients, texts and the flag active, which nothing   *)
(* ever clears, are left out, and so are calls that find their work done.  *)
(***************************************************************************)
EXTENDS Integers, Sequences, FiniteSets, SequencesExt

CONSTANTS
    Accounts,       \* addresses that call the contract
    Timeouts,       \* timeout_ledgers of a wallet; 0 for none
    MaxSigners,     \* bound: signers of a wallet
    MaxWallets,     \* bound: wallets
    MaxProposals,   \* bound: proposals
    MaxTime         \* bound: the ledger's clock

ASSUME MultisigAssumption ==
    /\ Timeouts \subseteq Nat
    /\ MaxSigners \in Nat /\ MaxWallets \in Nat /\ MaxProposals \in Nat /\ MaxTime \in Nat

VARIABLES
    paused,         \* DataKey::Paused
    wallets,        \* DataKey::MultisigWallet; the id is the index
    proposals,      \* DataKey::MultisigProposal; the id is the index
    now,            \* the ledger's clock
    ledger          \* history: for every proposal, who backed it in time as a signer of
                    \* its wallet, and how often its payment was announced

vars == <<paused, wallets, proposals, now, ledger>>

Status   == {"Pending", "Executed", "Rejected", "Expired", "Cancelled"}
Wallet   == [signers: Seq(Accounts), threshold: Nat, timeout: Timeouts]
Proposal == [wallet: Nat, status: Status, approvals: Seq(Accounts),
             rejections: Seq(Accounts), expires: Nat]

Init ==
    /\ paused = FALSE
    /\ wallets = << >>
    /\ proposals = << >>
    /\ now = 0
    /\ ledger = << >>

\* pause and unpause, by the admin; initialize also unpauses.
set_paused(on) ==
    /\ paused' = on
    /\ UNCHANGED <<wallets, proposals, now, ledger>>

-----------------------------------------------------------------------------
(* Wallets *)

Member(list, a) == \E i \in DOMAIN list : list[i] = a

IsSigner(w, a) == Member(wallets[w].signers, a)

\* A signer may be named twice.
create_multisig_wallet(signers, threshold, timeout) ==
    /\ ~paused
    /\ Len(wallets) < MaxWallets                                        \* bound
    /\ Len(signers) >= 2
    /\ threshold >= 1 /\ threshold <= Len(signers)
    /\ wallets' = Append(wallets, [signers |-> signers, threshold |-> threshold,
                                   timeout |-> timeout])
    /\ UNCHANGED <<paused, proposals, now, ledger>>

\* One signer suffices, and the new one may be a signer already.
add_multisig_signer(authorizer, w, new) ==
    /\ ~paused
    /\ IsSigner(w, authorizer)
    /\ Len(wallets[w].signers) < MaxSigners                             \* bound
    /\ wallets' = [wallets EXCEPT ![w].signers = Append(@, new)]
    /\ UNCHANGED <<paused, proposals, now, ledger>>

\* Mutant: the threshold is compared with the signers before the removal.
MutCanShrink(wallet) ==
    Len(wallet.signers) - 1 >= 2 /\ wallet.threshold <= Len(wallet.signers)
CanShrink(wallet) ==
    Len(wallet.signers) - 1 >= 2 /\ wallet.threshold <= Len(wallet.signers) - 1

\* The last entry of the signer goes; what the signer approved stays approved.
remove_multisig_signer(authorizer, w, gone) ==
    LET signers == wallets[w].signers
    IN  /\ ~paused
        /\ IsSigner(w, authorizer)
        /\ CanShrink(wallets[w])
        /\ \E i \in DOMAIN signers :
              /\ signers[i] = gone
              /\ \A k \in DOMAIN signers : signers[k] = gone => k <= i
              /\ wallets' = [wallets EXCEPT ![w].signers = RemoveAt(@, i)]
        /\ UNCHANGED <<paused, proposals, now, ledger>>

-----------------------------------------------------------------------------
(* Proposals *)

Late(p) == p.expires > 0 /\ now >= p.expires

CanApprove(p) == p.status = "Pending" /\ ~Late(p)

\* Mutant: an executed proposal can still be cancelled.
MutCanCancel(p) == p.status \in {"Pending", "Executed"}
CanCancel(p) == p.status = "Pending"

\* Mutant: one approval too many is waited for.
MutIsQuorum(votes, wallet) == Len(votes) > wallet.threshold
IsQuorum(votes, wallet) == Len(votes) >= wallet.threshold

\* So many rejections that the other signers are too few.
IsBlocked(votes, wallet) == Len(votes) >= Len(wallet.signers) - wallet.threshold + 1

\* Mutant: a vote is not looked for.
MutHasVoted(votes, signer) == FALSE
HasVoted(votes, signer) == Member(votes, signer)

\* The proposer approves; that this may be all it takes is not looked at.
create_multisig_proposal(proposer, w) ==
    /\ ~paused
    /\ Len(proposals) < MaxProposals                                    \* bound
    /\ IsSigner(w, proposer)
    /\ proposals' = Append(proposals,
          [wallet |-> w, status |-> "Pending", approvals |-> <<proposer>>, rejections |-> << >>,
           expires |-> IF wallets[w].timeout > 0 THEN now + wallets[w].timeout ELSE 0])
    /\ ledger' = Append(ledger, [backers |-> {proposer}, paid |-> 0])
    /\ UNCHANGED <<paused, wallets, now>>

\* The history after an approval of proposal n.
Backed(n, signer, executes) ==
    LET p == proposals[n]
        counts == ~Late(p) /\ Member(wallets[p.wallet].signers, signer)
    IN  [ledger EXCEPT ![n] = [backers |-> @.backers \cup (IF counts THEN {signer} ELSE {}),
                               paid |-> @.paid + (IF executes THEN 1 ELSE 0)]]

\* A late approval marks the proposal Expired and panics, which undoes the mark.
approve_multisig_proposal(signer, n) ==
    LET p == proposals[n]
        approvals == Append(p.approvals, signer)
        executes  == IsQuorum(approvals, wallets[p.wallet])
    IN  /\ ~paused
        /\ CanApprove(p)
        /\ IsSigner(p.wallet, signer)
        /\ ~HasVoted(p.approvals, signer)
        /\ proposals' = [proposals EXCEPT ![n].approvals = approvals,
                                          ![n].status = IF executes THEN "Executed" ELSE @]
        /\ ledger' = Backed(n, signer, executes)
        /\ UNCHANGED <<paused, wallets, now>>

\* Also a signer who approved may reject, and also after the timeout.
reject_multisig_proposal(signer, n) ==
    LET p == proposals[n]
        rejections == Append(p.rejections, signer)
    IN  /\ ~paused
        /\ p.status = "Pending"
        /\ IsSigner(p.wallet, signer)
        /\ ~HasVoted(p.rejections, signer)
        /\ proposals' = [proposals EXCEPT
              ![n].rejections = rejections,
              ![n].status = IF IsBlocked(rejections, wallets[p.wallet]) THEN "Rejected" ELSE @]
        /\ UNCHANGED <<paused, wallets, now, ledger>>

cancel_multisig_proposal(signer, n) ==
    /\ ~paused
    /\ CanCancel(proposals[n])
    /\ IsSigner(proposals[n].wallet, signer)
    /\ proposals' = [proposals EXCEPT ![n].status = "Cancelled"]
    /\ UNCHANGED <<paused, wallets, now, ledger>>

\* By anyone, also while the contract is paused.
check_multisig_expiry(n) ==
    /\ proposals[n].status = "Pending"
    /\ Late(proposals[n])
    /\ proposals' = [proposals EXCEPT ![n].status = "Expired"]
    /\ UNCHANGED <<paused, wallets, now, ledger>>

-----------------------------------------------------------------------------

Tick ==
    /\ now < MaxTime                                                    \* bound
    /\ now' = now + 1
    /\ UNCHANGED <<paused, wallets, proposals, ledger>>

\* What a caller may name as the signers of a new wallet.
SignerLists == UNION {[1..n -> Accounts] : n \in 2..MaxSigners}

Next ==
    \/ \E on \in BOOLEAN : set_paused(on)
    \/ \E signers \in SignerLists, threshold \in 1..MaxSigners, timeout \in Timeouts :
          create_multisig_wallet(signers, threshold, timeout)
    \/ \E w \in DOMAIN wallets, a, b \in Accounts :
          add_multisig_signer(a, w, b) \/ remove_multisig_signer(a, w, b)
    \/ \E w \in DOMAIN wallets, a \in Accounts : create_multisig_proposal(a, w)
    \/ \E n \in DOMAIN proposals, a \in Accounts :
          \/ approve_multisig_proposal(a, n)
          \/ reject_multisig_proposal(a, n)
          \/ cancel_multisig_proposal(a, n)
    \/ \E n \in DOMAIN proposals : check_multisig_expiry(n)
    \/ Tick

Spec == Init /\ [][Next]_vars

-----------------------------------------------------------------------------
(* Correctness *)

\* Also, a wallet has as many signers as its threshold asks for, without which the
\* subtraction in reject_multisig_proposal underflows.
TypeOK ==
    /\ paused \in BOOLEAN
    /\ wallets \in Seq(Wallet)
    /\ \A w \in DOMAIN wallets : wallets[w].threshold \in 1..Len(wallets[w].signers)
    /\ proposals \in Seq(Proposal)
    /\ \A n \in DOMAIN proposals : proposals[n].wallet \in DOMAIN wallets
    /\ now \in Nat
    /\ ledger \in Seq([backers: SUBSET Accounts, paid: Nat])
    /\ Len(ledger) = Len(proposals)

\* A payment is announced once for a proposal that was executed, and never for another,
\* however approvals, rejections, cancellations and the timeout follow each other.
PaidOnce ==
    \A n \in DOMAIN proposals :
        ledger[n].paid = IF proposals[n].status = "Executed" THEN 1 ELSE 0

\* An executed proposal was backed by as many different accounts as the threshold asks
\* for, each a signer of this very wallet when it approved, and in time, although
\* signers come and go while the proposal is open and one signer may be named twice.
ExecutedHasQuorum ==
    \A n \in DOMAIN proposals :
        proposals[n].status = "Executed" =>
            Cardinality(ledger[n].backers) >= wallets[proposals[n].wallet].threshold

\* approve_multisig_proposal's comment: when the approval count reaches the wallet threshold the
\* proposal is marked Executed.  So an open proposal lacks an approval, unless the proposer's own
\* is enough.
OpenLacksSecondApproval ==
    \A n \in DOMAIN proposals :
        LET threshold == wallets[proposals[n].wallet].threshold
        IN  proposals[n].status = "Pending" /\ threshold > 1 =>
                Cardinality(ledger[n].backers) < threshold
=============================================================================
