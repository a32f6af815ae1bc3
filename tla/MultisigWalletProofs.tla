------------------------ MODULE MultisigWalletProofs ------------------------
(***************************************************************************)
(* Theorems about MultisigWallet, for every value of its constants.        *)
(***************************************************************************)
EXTENDS MultisigWallet, FiniteSetTheorems, TLAPS

-----------------------------------------------------------------------------
(* Types *)

WalletType(wallet) == wallet \in Wallet /\ wallet.threshold \in 1..Len(wallet.signers)

ProposalType(p, count) == p \in Proposal /\ p.wallet \in 1..count

Entry == [backers: SUBSET Accounts, paid: Nat]

(* A signer is removed without touching the others. *)
LEMMA RemoveAtType ==
    ASSUME NEW s \in Seq(Accounts), NEW i \in DOMAIN s
    PROVE  RemoveAt(s, i) \in Seq(Accounts) /\ Len(RemoveAt(s, i)) = Len(s) - 1
<1>1. i \in 1..Len(s)
  OBVIOUS
<1> DEFINE front == SubSeq(s, 1, i - 1)
           back  == SubSeq(s, i + 1, Len(s))
<1>2. front \in Seq(Accounts) /\ Len(front) = i - 1
  BY <1>1
<1>3. back \in Seq(Accounts) /\ Len(back) = Len(s) - i
  BY <1>1
<1>4. RemoveAt(s, i) = front \o back
  BY DEF RemoveAt
<1> HIDE DEF front, back
<1>5. front \o back \in Seq(Accounts) /\ Len(front \o back) = Len(front) + Len(back)
  BY <1>2, <1>3
<1> QED
  BY <1>1, <1>2, <1>3, <1>4, <1>5

(* Wallets are added, and keep their threshold, which their signers can meet. *)
LEMMA WalletSteps ==
    ASSUME TypeOK, [Next]_vars
    PROVE  /\ wallets' \in Seq(Wallet)
           /\ \A w \in DOMAIN wallets' : wallets'[w].threshold \in 1..Len(wallets'[w].signers)
           /\ \A w \in DOMAIN wallets :
                 w \in DOMAIN wallets' /\ wallets'[w].threshold = wallets[w].threshold
<1> USE MultisigAssumption
<1> DEFINE Goal == /\ wallets' \in Seq(Wallet)
                   /\ \A w \in DOMAIN wallets' :
                         wallets'[w].threshold \in 1..Len(wallets'[w].signers)
                   /\ \A w \in DOMAIN wallets :
                         w \in DOMAIN wallets' /\ wallets'[w].threshold = wallets[w].threshold
<1>1. UNCHANGED wallets => Goal
  BY DEF TypeOK
<1>2. ASSUME NEW signers \in SignerLists, NEW threshold \in 1..MaxSigners, NEW timeout \in Timeouts,
             create_multisig_wallet(signers, threshold, timeout)
      PROVE  Goal
  <2>1. signers \in Seq(Accounts)
    BY DEF SignerLists
  <2> DEFINE new == [signers |-> signers, threshold |-> threshold, timeout |-> timeout]
  <2>2. new \in Wallet /\ new.threshold \in 1..Len(new.signers)
    BY <1>2, <2>1 DEF create_multisig_wallet, Wallet
  <2>3. wallets' = Append(wallets, new)
    BY <1>2 DEF create_multisig_wallet
  <2> HIDE DEF new
  <2> QED
    BY <2>2, <2>3 DEF TypeOK
<1>3. ASSUME NEW w \in DOMAIN wallets, NEW list \in Seq(Accounts),
             wallets' = [wallets EXCEPT ![w].signers = list],
             wallets[w].threshold <= Len(list)
      PROVE  Goal
  <2>1. wallets[w] \in Wallet /\ wallets[w].threshold \in 1..Len(wallets[w].signers)
    BY DEF TypeOK
  <2> DEFINE new == [wallets[w] EXCEPT !.signers = list]
  <2>2. /\ new \in Wallet /\ new.threshold = wallets[w].threshold
        /\ new.signers = list
    BY <2>1 DEF Wallet
  <2>3. wallets' = [wallets EXCEPT ![w] = new]
    BY <1>3
  <2>4. new.threshold \in 1..Len(new.signers)
    BY <1>3, <2>1, <2>2
  <2> HIDE DEF new
  <2> QED
    BY <2>2, <2>3, <2>4 DEF TypeOK
<1>4. ASSUME NEW w \in DOMAIN wallets, NEW a \in Accounts, NEW b \in Accounts,
             add_multisig_signer(a, w, b)
      PROVE  Goal
  <2>1. wallets[w] \in Wallet /\ wallets[w].threshold \in 1..Len(wallets[w].signers)
    BY DEF TypeOK
  <2>2. wallets[w].signers \in Seq(Accounts) /\ wallets[w].threshold \in Nat
    BY <2>1 DEF Wallet
  <2>3. /\ Append(wallets[w].signers, b) \in Seq(Accounts)
        /\ Len(Append(wallets[w].signers, b)) = Len(wallets[w].signers) + 1
    BY <2>2
  <2>4. wallets' = [wallets EXCEPT ![w].signers = Append(wallets[w].signers, b)]
    BY <1>4 DEF add_multisig_signer
  <2>5. wallets[w].threshold <= Len(Append(wallets[w].signers, b))
    BY <2>1, <2>2, <2>3
  <2> QED
    BY <1>3, <2>3, <2>4, <2>5
<1>5. ASSUME NEW w \in DOMAIN wallets, NEW a \in Accounts, NEW b \in Accounts,
             remove_multisig_signer(a, w, b)
      PROVE  Goal
  <2>1. wallets[w] \in Wallet
    BY DEF TypeOK
  <2>2. wallets[w].signers \in Seq(Accounts)
    BY <2>1 DEF Wallet
  <2>3. PICK i \in DOMAIN wallets[w].signers :
           wallets' = [wallets EXCEPT ![w].signers = RemoveAt(wallets[w].signers, i)]
    BY <1>5 DEF remove_multisig_signer
  <2>4. wallets[w].threshold <= Len(wallets[w].signers) - 1
    BY <1>5 DEF remove_multisig_signer, CanShrink
  <2> QED
    BY <1>3, <2>2, <2>3, <2>4, RemoveAtType
<1>6. ASSUME NEW n \in DOMAIN proposals, NEW a \in Accounts
      PROVE  /\ approve_multisig_proposal(a, n) => UNCHANGED wallets
             /\ reject_multisig_proposal(a, n) => UNCHANGED wallets
             /\ cancel_multisig_proposal(a, n) => UNCHANGED wallets
             /\ check_multisig_expiry(n) => UNCHANGED wallets
  BY DEF approve_multisig_proposal, reject_multisig_proposal, cancel_multisig_proposal,
         check_multisig_expiry
<1>7. /\ \A n \in DOMAIN proposals : check_multisig_expiry(n) => UNCHANGED wallets
      /\ \A w \in DOMAIN wallets, a \in Accounts :
            create_multisig_proposal(a, w) => UNCHANGED wallets
      /\ \A on \in BOOLEAN : set_paused(on) => UNCHANGED wallets
      /\ Tick \/ UNCHANGED vars => UNCHANGED wallets
  BY DEF check_multisig_expiry, create_multisig_proposal, set_paused, Tick, vars
<1> QED
  BY <1>1, <1>2, <1>4, <1>5, <1>6, <1>7 DEF Next

-----------------------------------------------------------------------------
(* What a step does to the proposals *)

Kept == UNCHANGED <<proposals, ledger>>

Proposed ==
    \E a \in Accounts, w \in DOMAIN wallets, expires \in Nat :
        /\ proposals' = Append(proposals, [wallet |-> w, status |-> "Pending",
              approvals |-> <<a>>, rejections |-> << >>, expires |-> expires])
        /\ ledger' = Append(ledger, [backers |-> {a}, paid |-> 0])

Approved(n) ==
    \E a \in Accounts :
        LET p == proposals[n]
            approvals == Append(p.approvals, a)
            executes  == Len(approvals) >= wallets[p.wallet].threshold
        IN  /\ p.status = "Pending"
            /\ \A i \in DOMAIN p.approvals : p.approvals[i] # a
            /\ proposals' = [proposals EXCEPT
                  ![n] = [p EXCEPT !.approvals = approvals,
                                   !.status = IF executes THEN "Executed" ELSE "Pending"]]
            /\ ledger' = [ledger EXCEPT
                  ![n] = [backers |-> @.backers \cup {a},
                          paid |-> @.paid + (IF executes THEN 1 ELSE 0)]]

\* Rejected, cancelled or expired, or one rejection more.
Closed(n) ==
    \E status \in Status \ {"Executed"}, rejections \in Seq(Accounts) :
        /\ proposals[n].status = "Pending"
        /\ proposals' = [proposals EXCEPT
              ![n] = [proposals[n] EXCEPT !.status = status, !.rejections = rejections]]
        /\ UNCHANGED ledger

LEMMA ProposalSteps ==
    ASSUME TypeOK, [Next]_vars
    PROVE  Kept \/ Proposed \/ \E n \in DOMAIN proposals : Approved(n) \/ Closed(n)
<1> USE MultisigAssumption
<1> DEFINE Goal == Kept \/ Proposed \/ \E n \in DOMAIN proposals : Approved(n) \/ Closed(n)
<1>1. \A n \in DOMAIN proposals :
         /\ proposals[n] \in Proposal
         /\ proposals[n].wallet \in DOMAIN wallets
         /\ proposals[n].approvals \in Seq(Accounts)
         /\ proposals[n].rejections \in Seq(Accounts)
  <2>1. \A n \in DOMAIN proposals : proposals[n] \in Proposal
    BY DEF TypeOK
  <2>2. \A n \in DOMAIN proposals : proposals[n].wallet \in DOMAIN wallets
    BY DEF TypeOK
  <2> QED
    BY <2>1, <2>2 DEF Proposal
<1>2. ASSUME NEW w \in DOMAIN wallets, NEW a \in Accounts, create_multisig_proposal(a, w)
      PROVE  Goal
  <2> DEFINE expires == IF wallets[w].timeout > 0 THEN now + wallets[w].timeout ELSE 0
  <2>1. wallets[w] \in Wallet /\ now \in Nat
    BY DEF TypeOK
  <2>2. wallets[w].timeout \in Nat
    BY <2>1 DEF Wallet, MultisigAssumption
  <2>5. expires \in Nat
    BY <2>1, <2>2
  <2>3. proposals' = Append(proposals, [wallet |-> w, status |-> "Pending",
              approvals |-> <<a>>, rejections |-> << >>, expires |-> expires])
    BY <1>2 DEF create_multisig_proposal
  <2>4. ledger' = Append(ledger, [backers |-> {a}, paid |-> 0])
    BY <1>2 DEF create_multisig_proposal
  <2> HIDE DEF expires
  <2> QED
    BY <2>3, <2>4, <2>5 DEF Proposed
<1>3. ASSUME NEW n \in DOMAIN proposals, NEW a \in Accounts, approve_multisig_proposal(a, n)
      PROVE  Goal
  <2> DEFINE p == proposals[n]
             approvals == Append(p.approvals, a)
             executes == Len(approvals) >= wallets[p.wallet].threshold
  <2>1. p.status = "Pending" /\ ~Late(p)
    BY <1>3 DEF approve_multisig_proposal, CanApprove
  <2>2. Member(wallets[p.wallet].signers, a)
    BY <1>3 DEF approve_multisig_proposal, IsSigner
  <2>3. \A i \in DOMAIN p.approvals : p.approvals[i] # a
    BY <1>3 DEF approve_multisig_proposal, HasVoted, Member
  <2>4. proposals' = [proposals EXCEPT ![n].approvals = approvals,
                                       ![n].status = IF executes THEN "Executed" ELSE @]
    BY <1>3 DEF approve_multisig_proposal, IsQuorum
  <2>5. proposals' = [proposals EXCEPT
                  ![n] = [p EXCEPT !.approvals = approvals,
                                   !.status = IF executes THEN "Executed" ELSE "Pending"]]
    BY <2>1, <2>4, <1>1 DEF TypeOK, Proposal
  <2>6. ledger' = Backed(n, a, executes)
    BY <1>3 DEF approve_multisig_proposal, IsQuorum
  <2>7. ledger' = [ledger EXCEPT
                  ![n] = [backers |-> @.backers \cup {a},
                          paid |-> @.paid + (IF executes THEN 1 ELSE 0)]]
    BY <2>1, <2>2, <2>6 DEF Backed
  <2> QED
    BY <2>1, <2>3, <2>5, <2>7 DEF Approved
<1>4. ASSUME NEW n \in DOMAIN proposals, NEW status \in Status \ {"Executed"},
             NEW rejections \in Seq(Accounts), proposals[n].status = "Pending",
             proposals' = [proposals EXCEPT
                ![n] = [proposals[n] EXCEPT !.status = status, !.rejections = rejections]],
             UNCHANGED ledger
      PROVE  Goal
  BY <1>4 DEF Closed
<1>5. ASSUME NEW n \in DOMAIN proposals, NEW a \in Accounts, reject_multisig_proposal(a, n)
      PROVE  Goal
  <2> DEFINE p == proposals[n]
             rejections == Append(p.rejections, a)
             status == IF IsBlocked(rejections, wallets[p.wallet]) THEN "Rejected" ELSE "Pending"
  <2>1. p.status = "Pending" /\ UNCHANGED ledger
    BY <1>5 DEF reject_multisig_proposal
  <2>2. rejections \in Seq(Accounts) /\ status \in Status \ {"Executed"}
    BY <1>1 DEF Status
  <2>3. proposals' = [proposals EXCEPT
              ![n].rejections = rejections,
              ![n].status = IF IsBlocked(rejections, wallets[p.wallet]) THEN "Rejected" ELSE @]
    BY <1>5 DEF reject_multisig_proposal
  <2>4. proposals' = [proposals EXCEPT
                ![n] = [p EXCEPT !.status = status, !.rejections = rejections]]
    BY <2>1, <2>3, <1>1 DEF TypeOK, Proposal
  <2> HIDE DEF rejections, status
  <2> QED
    BY <1>4, <2>1, <2>2, <2>4
<1>6. ASSUME NEW n \in DOMAIN proposals, NEW status \in {"Cancelled", "Expired"},
             proposals[n].status = "Pending", UNCHANGED ledger,
             proposals' = [proposals EXCEPT ![n].status = status]
      PROVE  Goal
  <2>1. [proposals[n] EXCEPT !.status = status]
           = [proposals[n] EXCEPT !.status = status, !.rejections = proposals[n].rejections]
    BY <1>1 DEF Proposal
  <2>2. proposals' = [proposals EXCEPT ![n] =
              [proposals[n] EXCEPT !.status = status, !.rejections = proposals[n].rejections]]
    BY <1>6, <2>1
  <2> QED
    BY <1>1, <1>4, <1>6, <2>2 DEF Status
<1>7. \A n \in DOMAIN proposals, a \in Accounts : cancel_multisig_proposal(a, n) => Goal
  BY <1>6 DEF cancel_multisig_proposal, CanCancel
<1>8. \A n \in DOMAIN proposals : check_multisig_expiry(n) => Goal
  BY <1>6 DEF check_multisig_expiry
<1>9. /\ \A signers \in SignerLists, threshold \in 1..MaxSigners, timeout \in Timeouts :
            create_multisig_wallet(signers, threshold, timeout) => Kept
      /\ \A w \in DOMAIN wallets, a, b \in Accounts :
            add_multisig_signer(a, w, b) \/ remove_multisig_signer(a, w, b) => Kept
      /\ \A on \in BOOLEAN : set_paused(on) => Kept
      /\ Tick \/ UNCHANGED vars => Kept
  BY DEF create_multisig_wallet, add_multisig_signer, remove_multisig_signer, set_paused,
         Tick, vars, Kept
<1> QED
  BY <1>2, <1>3, <1>5, <1>7, <1>8, <1>9 DEF Next

-----------------------------------------------------------------------------
(* Type correctness *)

LEMMA TypeInit == Init => TypeOK
<1> SUFFICES ASSUME Init PROVE TypeOK
  OBVIOUS
<1>1. wallets \in Seq(Wallet) /\ DOMAIN wallets = {}
  BY DEF Init
<1>2. proposals \in Seq(Proposal) /\ DOMAIN proposals = {}
  BY DEF Init
<1>3. ledger \in Seq(Entry) /\ Len(ledger) = Len(proposals)
  BY DEF Init
<1> QED
  BY <1>1, <1>2, <1>3 DEF Init, TypeOK, Entry

LEMMA TypeStep == TypeOK /\ [Next]_vars => TypeOK'
<1> SUFFICES ASSUME TypeOK, [Next]_vars PROVE TypeOK'
  OBVIOUS
<1> USE MultisigAssumption
<1> DEFINE ProposalsOK ==
              /\ proposals \in Seq(Proposal)
              /\ \A n \in DOMAIN proposals : proposals[n].wallet \in DOMAIN wallets
              /\ ledger \in Seq(Entry)
              /\ Len(ledger) = Len(proposals)
<1>1. paused' \in BOOLEAN
  BY DEF TypeOK, Next, vars, set_paused, create_multisig_wallet, add_multisig_signer,
         remove_multisig_signer, create_multisig_proposal, approve_multisig_proposal,
         reject_multisig_proposal, cancel_multisig_proposal, check_multisig_expiry, Tick
<1>2. now' = now \/ now' = now + 1
  BY DEF Next, vars, set_paused, create_multisig_wallet, add_multisig_signer,
         remove_multisig_signer, create_multisig_proposal, approve_multisig_proposal,
         reject_multisig_proposal, cancel_multisig_proposal, check_multisig_expiry, Tick
<1>3. \A w \in DOMAIN wallets : w \in DOMAIN wallets'
  BY WalletSteps
<1>4. ProposalsOK
  BY DEF TypeOK, Entry
<1>5. Kept => ProposalsOK'
  BY <1>3, <1>4 DEF Kept
<1>6. ASSUME Proposed PROVE ProposalsOK'
  <2>1. PICK a \in Accounts, w \in DOMAIN wallets, expires \in Nat :
        /\ proposals' = Append(proposals, [wallet |-> w, status |-> "Pending",
              approvals |-> <<a>>, rejections |-> << >>, expires |-> expires])
        /\ ledger' = Append(ledger, [backers |-> {a}, paid |-> 0])
    BY <1>6 DEF Proposed
  <2> DEFINE new == [wallet |-> w, status |-> "Pending",
              approvals |-> <<a>>, rejections |-> << >>, expires |-> expires]
             entry == [backers |-> {a}, paid |-> 0]
  <2>2. w \in Nat
    BY DEF TypeOK
  <2>3. new \in Proposal /\ new.wallet = w
    BY <2>2 DEF Proposal, Status
  <2>4. entry \in Entry
    BY DEF Entry
  <2>5. proposals' = Append(proposals, new) /\ ledger' = Append(ledger, entry)
    BY <2>1
  <2> HIDE DEF new, entry
  <2>6. proposals' \in Seq(Proposal) /\ ledger' \in Seq(Entry) /\ Len(ledger') = Len(proposals')
    BY <1>4, <2>3, <2>4, <2>5
  <2>7. \A n \in DOMAIN proposals' : proposals'[n].wallet \in DOMAIN wallets'
    BY <1>3, <1>4, <2>3, <2>5
  <2> QED
    BY <2>6, <2>7
<1>7. ASSUME NEW n \in DOMAIN proposals, NEW p \in Proposal, NEW entry \in Entry,
             p.wallet = proposals[n].wallet,
             proposals' = [proposals EXCEPT ![n] = p],
             ledger' = [ledger EXCEPT ![n] = entry]
      PROVE  ProposalsOK'
  <2>1. proposals' \in Seq(Proposal) /\ Len(proposals') = Len(proposals)
    BY <1>4, <1>7
  <2>2. ledger' \in Seq(Entry) /\ Len(ledger') = Len(ledger)
    BY <1>4, <1>7
  <2>3. \A k \in DOMAIN proposals' : proposals'[k].wallet \in DOMAIN wallets'
    BY <1>3, <1>4, <1>7
  <2> QED
    BY <1>4, <2>1, <2>2, <2>3
<1>8. ASSUME NEW n \in DOMAIN proposals, Approved(n) PROVE ProposalsOK'
  <2>1. proposals[n] \in Proposal /\ ledger[n] \in Entry
    BY <1>4
  <2> DEFINE p == proposals[n]
             executes(list) == Len(list) >= wallets[p.wallet].threshold
             new(list) == [p EXCEPT !.approvals = list,
                              !.status = IF executes(list) THEN "Executed" ELSE "Pending"]
             entry(list, a) == [backers |-> ledger[n].backers \cup {a},
                                paid |-> ledger[n].paid + (IF executes(list) THEN 1 ELSE 0)]
  <2>2. PICK a \in Accounts :
           /\ proposals' = [proposals EXCEPT ![n] = new(Append(p.approvals, a))]
           /\ ledger' = [ledger EXCEPT ![n] = entry(Append(p.approvals, a), a)]
    BY <1>8 DEF Approved
  <2>3. Append(p.approvals, a) \in Seq(Accounts)
    BY <2>1 DEF Proposal
  <2>4. \A list \in Seq(Accounts) : new(list) \in Proposal /\ new(list).wallet = p.wallet
    BY <2>1 DEF Proposal, Status
  <2>5. \A list \in Seq(Accounts) : entry(list, a) \in Entry
    BY <2>1 DEF Entry
  <2> HIDE DEF new, entry
  <2> QED
    BY <1>7, <2>2, <2>3, <2>4, <2>5
<1>9. ASSUME NEW n \in DOMAIN proposals, Closed(n) PROVE ProposalsOK'
  <2>1. proposals[n] \in Proposal /\ ledger[n] \in Entry
    BY <1>4
  <2>2. PICK status \in Status, rejections \in Seq(Accounts) :
        /\ proposals' = [proposals EXCEPT
              ![n] = [proposals[n] EXCEPT !.status = status, !.rejections = rejections]]
        /\ UNCHANGED ledger
    BY <1>9 DEF Closed
  <2> DEFINE new == [proposals[n] EXCEPT !.status = status, !.rejections = rejections]
  <2>3. new \in Proposal /\ new.wallet = proposals[n].wallet
    BY <2>1 DEF Proposal
  <2>4. ledger' = [ledger EXCEPT ![n] = ledger[n]]
    BY <1>4, <2>2
  <2>5. proposals' = [proposals EXCEPT ![n] = new]
    BY <2>2
  <2> HIDE DEF new
  <2> QED
    BY <1>7, <2>1, <2>3, <2>4, <2>5
<1>10. ProposalsOK'
  BY <1>5, <1>6, <1>8, <1>9, ProposalSteps
<1> QED
  <2>1. now' \in Nat
    BY <1>2 DEF TypeOK
  <2> QED
    BY <1>1, <1>10, <2>1, WalletSteps DEF TypeOK, Entry

(* Every variable keeps its type, and every wallet has as many signers as its threshold,   *)
(* so that the unsigned subtraction in reject_multisig_proposal never underflows.          *)
THEOREM TypeCorrect == Spec => []TypeOK
BY TypeInit, TypeStep, PTL DEF Spec

-----------------------------------------------------------------------------
(* The approvals of a proposal are its backers, each of them once, and the status says     *)
(* whether they are enough.  The wallet's threshold never changes, so what was enough      *)
(* when the proposal was executed is enough ever after.                                    *)

Agrees(p, entry, threshold) ==
    /\ entry.backers = {p.approvals[i] : i \in DOMAIN p.approvals}
    /\ IsFiniteSet(entry.backers)
    /\ Cardinality(entry.backers) = Len(p.approvals)
    /\ p.status = "Executed" => Len(p.approvals) >= threshold
    /\ p.status = "Pending" /\ threshold > 1 => Len(p.approvals) < threshold
    /\ entry.paid = IF p.status = "Executed" THEN 1 ELSE 0

(* Appending to a list adds the element to those it has. *)
LEMMA AppendRange ==
    ASSUME NEW s \in Seq(Accounts), NEW a \in Accounts
    PROVE  /\ Append(s, a) \in Seq(Accounts) /\ Len(Append(s, a)) = Len(s) + 1
           /\ {Append(s, a)[i] : i \in DOMAIN Append(s, a)} = {s[i] : i \in DOMAIN s} \cup {a}
<1> DEFINE t == Append(s, a)
<1>1. t \in Seq(Accounts) /\ Len(t) = Len(s) + 1 /\ t[Len(s) + 1] = a
  OBVIOUS
<1>2. DOMAIN t = 1..Len(s) + 1 /\ DOMAIN s = 1..Len(s) /\ Len(s) \in Nat
  BY <1>1
<1>3. \A i \in 1..Len(s) : t[i] = s[i]
  OBVIOUS
<1> HIDE DEF t
<1>4. \A i \in 1..Len(s) + 1 : i \in 1..Len(s) \/ i = Len(s) + 1
  BY <1>2
<1>5. Len(s) + 1 \in 1..Len(s) + 1 /\ 1..Len(s) \subseteq 1..Len(s) + 1
  BY <1>2
<1>6. {t[i] : i \in DOMAIN t} = {s[i] : i \in DOMAIN s} \cup {a}
  BY <1>1, <1>2, <1>3, <1>4, <1>5
<1> QED
  BY <1>1, <1>6 DEF t

IInv ==
    \A n \in DOMAIN proposals :
        Agrees(proposals[n], ledger[n], wallets[proposals[n].wallet].threshold)

LEMMA IInvInit == Init => IInv
BY DEF Init, IInv

LEMMA IInvStep == TypeOK /\ IInv /\ [Next]_vars => IInv'
<1> SUFFICES ASSUME TypeOK, IInv, [Next]_vars PROVE IInv'
  OBVIOUS
<1> DEFINE Threshold(w) == wallets[w].threshold
           After(w) == wallets'[w].threshold
<1>1. /\ proposals \in Seq(Proposal) /\ ledger \in Seq(Entry)
      /\ Len(ledger) = Len(proposals)
      /\ \A n \in DOMAIN proposals : proposals[n].wallet \in DOMAIN wallets
  BY DEF TypeOK, Entry
<1>2. \A w \in DOMAIN wallets : After(w) = Threshold(w) /\ Threshold(w) \in Nat \ {0}
  BY WalletSteps DEF TypeOK, Wallet
<1>3. \A n \in DOMAIN proposals : Agrees(proposals[n], ledger[n], Threshold(proposals[n].wallet))
  BY DEF IInv
<1>4. ASSUME \A n \in DOMAIN proposals' :
                Agrees(proposals'[n], ledger'[n], After(proposals'[n].wallet))
      PROVE  IInv'
  BY <1>4 DEF IInv
<1> HIDE DEF Threshold, After
<1>5. Kept => IInv'
  BY <1>1, <1>2, <1>3, <1>4 DEF Kept
<1>6. ASSUME Proposed PROVE IInv'
  <2>1. PICK a \in Accounts, w \in DOMAIN wallets, expires \in Nat :
        /\ proposals' = Append(proposals, [wallet |-> w, status |-> "Pending",
              approvals |-> <<a>>, rejections |-> << >>, expires |-> expires])
        /\ ledger' = Append(ledger, [backers |-> {a}, paid |-> 0])
    BY <1>6 DEF Proposed
  <2> DEFINE new == [wallet |-> w, status |-> "Pending",
              approvals |-> <<a>>, rejections |-> << >>, expires |-> expires]
             entry == [backers |-> {a}, paid |-> 0]
  <2>2. new.wallet = w /\ Agrees(new, entry, Threshold(w))
    <3>1. {new.approvals[i] : i \in DOMAIN new.approvals} = {a}
      OBVIOUS
    <3>2. IsFiniteSet({a}) /\ Cardinality({a}) = 1
      BY FS_Singleton
    <3>3. Len(new.approvals) = 1
      OBVIOUS
    <3> QED
      BY <1>2, <3>1, <3>2, <3>3 DEF Agrees
  <2>3. proposals' = Append(proposals, new) /\ ledger' = Append(ledger, entry)
    BY <2>1
  <2> HIDE DEF new, entry
  <2> QED
    BY <1>1, <1>2, <1>3, <1>4, <2>2, <2>3
<1>7. ASSUME NEW n \in DOMAIN proposals, NEW p, NEW entry,
             p.wallet = proposals[n].wallet,
             Agrees(p, entry, Threshold(p.wallet)),
             proposals' = [proposals EXCEPT ![n] = p],
             ledger' = [ledger EXCEPT ![n] = entry]
      PROVE  IInv'
  <2>1. proposals'[n] = p /\ ledger'[n] = entry
    BY <1>1, <1>7
  <2>2. \A k \in DOMAIN proposals \ {n} : proposals'[k] = proposals[k] /\ ledger'[k] = ledger[k]
    BY <1>1, <1>7
  <2>3. DOMAIN proposals' = DOMAIN proposals
    BY <1>7
  <2> QED
    BY <1>1, <1>2, <1>3, <1>4, <1>7, <2>1, <2>2, <2>3
<1>8. ASSUME NEW n \in DOMAIN proposals, Approved(n) PROVE IInv'
  <2>1. proposals[n] \in Proposal /\ ledger[n] \in Entry
    BY <1>1
  <2> DEFINE p == proposals[n]
             threshold == Threshold(p.wallet)
             executes(list) == Len(list) >= threshold
             new(list) == [p EXCEPT !.approvals = list,
                              !.status = IF executes(list) THEN "Executed" ELSE "Pending"]
             entry(list, a) == [backers |-> ledger[n].backers \cup {a},
                                paid |-> ledger[n].paid + (IF executes(list) THEN 1 ELSE 0)]
  <2>2. PICK a \in Accounts :
           /\ p.status = "Pending"
           /\ \A i \in DOMAIN p.approvals : p.approvals[i] # a
           /\ proposals' = [proposals EXCEPT ![n] = new(Append(p.approvals, a))]
           /\ ledger' = [ledger EXCEPT ![n] = entry(Append(p.approvals, a), a)]
    BY <1>8 DEF Approved, Threshold
  <2> DEFINE list == Append(p.approvals, a)
  <2>3. p.approvals \in Seq(Accounts)
    BY <2>1 DEF Proposal
  <2>4. /\ list \in Seq(Accounts) /\ Len(list) = Len(p.approvals) + 1
        /\ {list[i] : i \in DOMAIN list} = {p.approvals[i] : i \in DOMAIN p.approvals} \cup {a}
    BY <2>3, AppendRange
  <2>5. /\ new(list).wallet = p.wallet /\ new(list).approvals = list
        /\ new(list).status = IF executes(list) THEN "Executed" ELSE "Pending"
    BY <2>1 DEF Proposal
  <2>6. Agrees(p, ledger[n], threshold) /\ threshold \in Nat \ {0}
    BY <1>1, <1>2, <1>3
  <2>7. /\ entry(list, a).backers = ledger[n].backers \cup {a}
        /\ entry(list, a).paid = IF executes(list) THEN 1 ELSE 0
    BY <2>2, <2>6 DEF Agrees
  <2>8. entry(list, a).backers = {list[i] : i \in DOMAIN list}
    BY <2>4, <2>6, <2>7 DEF Agrees
  <2>9. a \notin ledger[n].backers
    BY <2>2, <2>6 DEF Agrees
  <2>10. IsFiniteSet(entry(list, a).backers) /\ Cardinality(entry(list, a).backers) = Len(list)
    <3>1. IsFiniteSet(ledger[n].backers) /\ Cardinality(ledger[n].backers) = Len(p.approvals)
      BY <2>6 DEF Agrees
    <3> QED
      BY <2>4, <2>7, <2>9, <3>1, FS_AddElement
  <2>11. /\ new(list).status = "Executed" => Len(list) >= threshold
         /\ new(list).status = "Pending" => Len(list) < threshold
         /\ entry(list, a).paid = IF new(list).status = "Executed" THEN 1 ELSE 0
    BY <2>4, <2>5, <2>6, <2>7
  <2> HIDE DEF new, entry, list, executes
  <2>12. Agrees(new(list), entry(list, a), threshold)
    BY <2>5, <2>8, <2>10, <2>11 DEF Agrees
  <2>13. proposals' = [proposals EXCEPT ![n] = new(list)] /\ ledger' = [ledger EXCEPT ![n] = entry(list, a)]
    BY <2>2 DEF list
  <2> QED
    BY <1>7, <2>5, <2>12, <2>13
<1>9. ASSUME NEW n \in DOMAIN proposals, Closed(n) PROVE IInv'
  <2>1. proposals[n] \in Proposal /\ ledger[n] \in Entry
    BY <1>1
  <2>2. PICK status \in Status \ {"Executed"}, rejections \in Seq(Accounts) :
        /\ proposals[n].status = "Pending"
        /\ proposals' = [proposals EXCEPT
              ![n] = [proposals[n] EXCEPT !.status = status, !.rejections = rejections]]
        /\ UNCHANGED ledger
    BY <1>9 DEF Closed
  <2> DEFINE new == [proposals[n] EXCEPT !.status = status, !.rejections = rejections]
  <2>3. /\ new.wallet = proposals[n].wallet /\ new.approvals = proposals[n].approvals
        /\ new.status = status
    BY <2>1 DEF Proposal
  <2>4. ledger' = [ledger EXCEPT ![n] = ledger[n]]
    BY <1>1, <2>2
  <2>5. proposals' = [proposals EXCEPT ![n] = new]
    BY <2>2
  <2> HIDE DEF new
  <2>6. Agrees(new, ledger[n], Threshold(new.wallet))
    BY <1>3, <2>2, <2>3 DEF Agrees
  <2> QED
    BY <1>7, <2>3, <2>4, <2>5, <2>6
<1> QED
  BY <1>5, <1>6, <1>8, <1>9, ProposalSteps

THEOREM Invariance == Spec => [](TypeOK /\ IInv)
BY TypeInit, TypeStep, IInvInit, IInvStep, PTL DEF Spec

-----------------------------------------------------------------------------
(* What the invariant says *)

LEMMA Consequences ==
    TypeOK /\ IInv => PaidOnce /\ ExecutedHasQuorum /\ OpenLacksSecondApproval
<1> SUFFICES ASSUME TypeOK, IInv, NEW n \in DOMAIN proposals
             PROVE  LET threshold == wallets[proposals[n].wallet].threshold
                    IN  /\ ledger[n].paid = IF proposals[n].status = "Executed" THEN 1 ELSE 0
                        /\ proposals[n].status = "Executed" =>
                              Cardinality(ledger[n].backers) >= threshold
                        /\ proposals[n].status = "Pending" /\ threshold > 1 =>
                              Cardinality(ledger[n].backers) < threshold
  BY DEF PaidOnce, ExecutedHasQuorum, OpenLacksSecondApproval
<1> QED
  BY DEF IInv, Agrees

(* A payment is announced once for every executed proposal and for no other. *)
THEOREM PaidOnceHolds == Spec => []PaidOnce
BY Invariance, Consequences, PTL

(* Whoever signs for the wallet when, an executed proposal had as many different backers   *)
(* as the threshold asks for, each a signer of the wallet and in time when it approved.    *)
THEOREM ExecutedHasQuorumHolds == Spec => []ExecutedHasQuorum
BY Invariance, Consequences, PTL

(* An open proposal lacks an approval, unless the wallet asks for one only. *)
THEOREM OpenLacksSecondApprovalHolds == Spec => []OpenLacksSecondApproval
BY Invariance, Consequences, PTL
=============================================================================
