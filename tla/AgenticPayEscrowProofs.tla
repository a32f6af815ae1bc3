----------------------- MODULE AgenticPayEscrowProofs -----------------------
(***************************************************************************)
(* Theorems about AgenticPayEscrow, for every value of its constants.      *)
(***************************************************************************)
EXTENDS AgenticPayEscrow, TLAPS

\* What a call did to the projects: it created some, it updated one, or it left them alone.
Creates ==
    \E n \in Nat : \E new \in [1..n -> Project] :
        /\ projectCount + n <= MaxProjects
        /\ projectCount' = projectCount + n
        /\ projects' = Put(projects, [i \in projectCount + 1 .. projectCount + n |->
                                        new[i - projectCount]])
        /\ books' = Put(books, [i \in (projectCount + 1 .. projectCount + n) \ DOMAIN books |->
                                  NewEntry])
        /\ \A i \in 1..n : new[i].status = "Created" /\ new[i].deposited = 0
        /\ UNCHANGED <<receipts, receiptCount>>

Restarts ==
    /\ projectCount' = 0 /\ receiptCount' = 0
    /\ InitializedOnce => projectCount = 0
    /\ UNCHANGED <<projects, receipts, books>>

\* The updates of one project.
Funds(p) ==
    \E amount \in Deposits :
        /\ projects[p].status = "Created" /\ amount > 0
        /\ Update(p, Funded(projects[p], amount), [books[p] EXCEPT !.paidIn = @ + amount])
Submits(p) ==
    /\ projects[p].status \in {"Funded", "InProgress"}
    /\ Update(p, [projects[p] EXCEPT !.status = "WorkSubmitted"], books[p])
Approves(p) ==
    /\ projects[p].status \in {"WorkSubmitted", "Verified"}
    /\ Update(p, Emptied(projects[p], "Completed"), Release(p))
Disputes(p) == Update(p, [projects[p] EXCEPT !.status = "Disputed"], books[p])
Completes(p) ==
    /\ projects[p].status = "Disputed"
    /\ Update(p, Emptied(projects[p], "Completed"), Release(p))
Cancels(p) ==
    /\ projects[p].status \notin {"Completed", "Cancelled"}
    /\ Update(p, Emptied(projects[p], "Cancelled"), Refund(p))

Quiet == UNCHANGED <<receipts, receiptCount>>

(* A project is created empty. *)
LEMMA NewProjectType ==
    ASSUME NEW client \in Accounts, NEW input \in ProjectInput, NEW deadline \in Nat
    PROVE  LET r == NewProject(client, input.freelancer, input.amount, deadline)
           IN  r \in Project /\ r.status = "Created" /\ r.deposited = 0
<1>1. input.freelancer \in Accounts /\ input.amount \in Int
  BY EscrowAssumption DEF ProjectInput
<1> QED
  BY <1>1 DEF NewProject, Project, ProjectStatus

(* Every step of the contract is one of these. *)
LEMMA Steps ==
    ASSUME TypeOK, [Next]_vars
    PROVE  \/ Creates
           \/ Restarts
           \/ UNCHANGED <<storage, books>>
           \/ \E p \in DOMAIN projects :
                 \/ Approves(p) /\ record_receipt(p)
                 \/ Quiet /\ (Funds(p) \/ Submits(p) \/ Disputes(p) \/ Completes(p) \/ Cancels(p))
<1> USE EscrowAssumption
<1> DEFINE Goal == \/ Creates
                   \/ Restarts
                   \/ UNCHANGED <<storage, books>>
                   \/ \E p \in DOMAIN projects :
                         \/ Approves(p) /\ record_receipt(p)
                         \/ Quiet /\ (Funds(p) \/ Submits(p) \/ Disputes(p) \/ Completes(p)
                                        \/ Cancels(p))
<1>1. ASSUME NEW a \in Accounts, initialize(a)
      PROVE  Goal
  BY <1>1 DEF initialize, Restarts
<1>2. ASSUME NEW a \in Accounts, NEW on \in BOOLEAN, set_paused(a, on)
      PROVE  Goal
  BY <1>2 DEF set_paused, storage
<1>3. ASSUME NEW n \in Nat, NEW new \in [1..n -> Project], create(n, new),
             \A i \in 1..n : new[i].status = "Created" /\ new[i].deposited = 0
      PROVE  Goal
  BY <1>3 DEF create, Creates
<1>4. ASSUME NEW client \in Accounts, NEW input \in ProjectInput, NEW deadline \in Deadlines,
             create_project(client, input, deadline)
      PROVE  Goal
  <2> DEFINE r == NewProject(client, input.freelancer, input.amount, deadline)
             new == [i \in 1..1 |-> r]
  <2>1. r \in Project /\ r.status = "Created" /\ r.deposited = 0
    BY NewProjectType
  <2>2. create(1, new)
    BY <1>4 DEF create_project
  <2>3. new \in [1..1 -> Project] /\ \A i \in 1..1 : new[i] = r
    BY <2>1
  <2> HIDE DEF new, r
  <2> QED
    BY <1>3, <2>1, <2>2, <2>3
<1>5. ASSUME NEW client \in Accounts, NEW n \in 0..MaxBatch, NEW inputs \in [1..n -> ProjectInput],
             batch_create_projects(client, n, inputs)
      PROVE  Goal
  <2> DEFINE new == [i \in 1..n |-> NewProject(client, inputs[i].freelancer,
                                              inputs[i].amount, 0)]
  <2>1. \A i \in 1..n : /\ new[i] \in Project
                        /\ new[i].status = "Created" /\ new[i].deposited = 0
    BY NewProjectType
  <2>2. create(n, new)
    BY <1>5 DEF batch_create_projects
  <2>3. new \in [1..n -> Project]
    BY <2>1
  <2> HIDE DEF new
  <2> QED
    BY <1>3, <2>1, <2>2, <2>3
<1>6. ASSUME NEW p \in DOMAIN projects
      PROVE  /\ (\E client \in Accounts, amount \in Deposits : fund_project(p, client, amount)) => Goal
             /\ (\E freelancer \in Accounts : submit_work(p, freelancer)) => Goal
             /\ (\E client \in Accounts : approve_work(p, client)) => Goal
             /\ (\E caller \in Accounts : raise_dispute(p, caller)) => Goal
             /\ (\E a \in Accounts, release \in BOOLEAN : resolve_dispute(p, a, release)) => Goal
             /\ check_deadline(p) => Goal
  <2>1. (\E client \in Accounts, amount \in Deposits : fund_project(p, client, amount))
           => Quiet /\ Funds(p)
    BY DEF fund_project, ValidDeposit, CanFund, Funds, Quiet
  <2>2. (\E freelancer \in Accounts : submit_work(p, freelancer)) => Quiet /\ Submits(p)
    BY DEF submit_work, CanSubmit, Submits, Quiet
  <2>3. (\E client \in Accounts : approve_work(p, client)) => Approves(p) /\ record_receipt(p)
    BY DEF approve_work, Approves
  <2>4. (\E caller \in Accounts : raise_dispute(p, caller)) => Quiet /\ Disputes(p)
    BY DEF raise_dispute, Disputes, Quiet
  <2>5. (\E a \in Accounts, release \in BOOLEAN : resolve_dispute(p, a, release))
           => Quiet /\ (Completes(p) \/ Cancels(p))
    BY DEF resolve_dispute, Completes, Cancels, Quiet
  <2>6. check_deadline(p) => (Quiet /\ Cancels(p)) \/ UNCHANGED <<storage, books>>
    BY DEF check_deadline, Expired, Cancels, Quiet, storage
  <2> QED
    BY <2>1, <2>2, <2>3, <2>4, <2>5, <2>6
<1>7. Tick \/ UNCHANGED vars => Goal
  BY DEF Tick, vars, storage
<1> QED
  BY <1>1, <1>2, <1>4, <1>5, <1>6, <1>7 DEF Next

-----------------------------------------------------------------------------
(* Types, and what one project and its books have to do with each other *)

(* A project remains one when its status or its deposit is replaced. *)
LEMMA FieldUpdates ==
    ASSUME NEW r \in Project, NEW status \in ProjectStatus, NEW deposited \in Nat
    PROVE  /\ [r EXCEPT !.status = status] \in Project
           /\ [r EXCEPT !.deposited = deposited, !.status = status] \in Project
<1>1. \A s \in Project : [s EXCEPT !.status = status] \in Project
  BY DEF Project
<1>2. [r EXCEPT !.deposited = deposited] \in Project
  BY DEF Project
<1>3. [r EXCEPT !.deposited = deposited, !.status = status] \in Project
  BY <1>1, <1>2
<1> QED
  BY <1>1, <1>3

(* What the updates of a project and its books make of them. *)
LEMMA ProjectUpdates ==
    ASSUME TypeOK, NEW p \in DOMAIN projects
    PROVE  LET r == projects[p]
               b == books[p]
           IN  /\ r \in Project /\ b \in Entry
               /\ \A status \in ProjectStatus :
                     /\ [r EXCEPT !.status = status] \in Project
                     /\ Emptied(r, status) \in Project
                     /\ Emptied(r, status).deposited = 0
                     /\ Emptied(r, status).status = status
                     /\ Emptied(r, status).amount = r.amount
                     /\ Emptied(r, status).client = r.client
                     /\ Emptied(r, status).freelancer = r.freelancer
               /\ Release(p) \in Entry /\ Refund(p) \in Entry
               /\ Release(p).paidIn = b.paidIn /\ Refund(p).paidIn = b.paidIn
               /\ Release(p).released = b.released + r.deposited
               /\ Release(p).refunded = b.refunded
               /\ Refund(p).released = b.released
               /\ Refund(p).refunded = b.refunded + r.deposited
<1>1. projects[p] \in Project /\ books[p] \in Entry
  BY DEF TypeOK
<1>2. \A status \in ProjectStatus :
         /\ [projects[p] EXCEPT !.status = status] \in Project
         /\ Emptied(projects[p], status) \in Project
  <2>1. ASSUME NEW status \in ProjectStatus
        PROVE  /\ [projects[p] EXCEPT !.status = status] \in Project
               /\ [projects[p] EXCEPT !.deposited = 0, !.status = status] \in Project
    <3>1. 0 \in Int
      OBVIOUS
    <3> QED
      BY <1>1, <3>1, FieldUpdates
  <2> QED
    BY <2>1 DEF Emptied
<1>3. \A status \in ProjectStatus :
         LET e == Emptied(projects[p], status)
         IN  /\ e.deposited = 0 /\ e.status = status
             /\ e.amount = projects[p].amount
             /\ e.client = projects[p].client /\ e.freelancer = projects[p].freelancer
  BY <1>1 DEF Emptied, Project
<1>4. /\ Release(p) \in Entry /\ Refund(p) \in Entry
      /\ Release(p).paidIn = books[p].paidIn /\ Refund(p).paidIn = books[p].paidIn
      /\ Release(p).released = books[p].released + projects[p].deposited
      /\ Release(p).refunded = books[p].refunded
      /\ Refund(p).released = books[p].released
      /\ Refund(p).refunded = books[p].refunded + projects[p].deposited
  BY <1>1 DEF Release, Refund, Entry, Project
<1> QED
  BY <1>1, <1>2, <1>3, <1>4

(* A deposit, and the status it may bring. *)
LEMMA FundedFields ==
    ASSUME NEW r \in Project, NEW b \in Entry, NEW amount \in Nat
    PROVE  /\ Funded(r, amount) \in Project
           /\ Funded(r, amount).deposited = r.deposited + amount
           /\ Funded(r, amount).status =
                IF r.deposited + amount >= r.amount THEN "Funded" ELSE r.status
           /\ Funded(r, amount).amount = r.amount
           /\ Funded(r, amount).client = r.client
           /\ Funded(r, amount).freelancer = r.freelancer
           /\ [b EXCEPT !.paidIn = @ + amount] \in Entry
           /\ [b EXCEPT !.paidIn = @ + amount].paidIn = b.paidIn + amount
           /\ [b EXCEPT !.paidIn = @ + amount].released = b.released
           /\ [b EXCEPT !.paidIn = @ + amount].refunded = b.refunded
<1>1. \A status \in ProjectStatus :
         [r EXCEPT !.deposited = r.deposited + amount, !.status = status] \in Project
  <2>1. r.deposited + amount \in Nat
    BY DEF Project
  <2> QED
    BY <2>1, FieldUpdates
<1>2. r.status \in ProjectStatus /\ "Funded" \in ProjectStatus
  BY DEF Project, ProjectStatus
<1>3. Funded(r, amount) \in Project
  BY <1>1, <1>2 DEF Funded
<1>4. /\ Funded(r, amount).deposited = r.deposited + amount
      /\ Funded(r, amount).status =
           IF r.deposited + amount >= r.amount THEN "Funded" ELSE r.status
      /\ Funded(r, amount).amount = r.amount
      /\ Funded(r, amount).client = r.client
      /\ Funded(r, amount).freelancer = r.freelancer
  BY DEF Funded, Project
<1> QED
  BY <1>3, <1>4 DEF Entry

\* What relates a project r and its books b in every deployment: an escrow is backed by what
\* was paid in, it is empty in the final states and full from Funded to the approval.
Solvent(r, b) ==
    /\ r.deposited + b.released + b.refunded <= b.paidIn
    /\ r.deposited >= 0 /\ b.released >= 0 /\ b.refunded >= 0
    /\ r.status \in {"Completed", "Cancelled"} => r.deposited = 0
    /\ r.status \in {"Funded", "InProgress", "WorkSubmitted", "Verified"} =>
          r.deposited > 0 /\ r.deposited >= r.amount

\* What relates them while ids are given out once: an escrow is paid out once, whole.
Settles(r, b) ==
    /\ b.paidIn = r.deposited + b.released + b.refunded
    /\ b.released = 0 \/ b.refunded = 0
    /\ r.deposited > 0 \/ r.status = "Created" => b.released = 0 /\ b.refunded = 0

EscrowInv(p) == /\ Solvent(projects[p], books[p])
                /\ InitializedOnce => Settles(projects[p], books[p])

Stored == /\ projects \in [DOMAIN projects -> Project]
          /\ books \in [DOMAIN projects -> Entry]
          /\ DOMAIN projects \subseteq Nat
          /\ InitializedOnce => DOMAIN projects = 1..projectCount
          /\ \A p \in DOMAIN projects : EscrowInv(p)

(* An update of one project keeps the others. *)
LEMMA OneUpdate ==
    ASSUME TypeOK, Stored, NEW p \in DOMAIN projects, NEW r \in Project, NEW b \in Entry,
           Update(p, r, b), EscrowInv(p)'
    PROVE  /\ Stored'
           /\ DOMAIN projects' = DOMAIN projects
           /\ projects'[p] = r /\ books'[p] = b
           /\ \A q \in DOMAIN projects : q # p => projects'[q] = projects[q] /\ books'[q] = books[q]
<1>1. /\ DOMAIN projects' = DOMAIN projects
      /\ projects' \in [DOMAIN projects -> Project] /\ books' \in [DOMAIN projects -> Entry]
      /\ projects'[p] = r /\ books'[p] = b
      /\ \A q \in DOMAIN projects : q # p => projects'[q] = projects[q] /\ books'[q] = books[q]
  BY DEF Update, TypeOK
<1>2. \A q \in DOMAIN projects : q # p => EscrowInv(q)'
  BY <1>1 DEF Stored, EscrowInv, Solvent, Settles
<1>3. projectCount' = projectCount
  BY DEF Update
<1> QED
  BY <1>1, <1>2, <1>3 DEF Stored

(* What every update of a project keeps, and what it leaves behind. *)
LEMMA UpdateStep ==
    ASSUME TypeOK, Stored, NEW p \in DOMAIN projects,
           Funds(p) \/ Submits(p) \/ Approves(p) \/ Disputes(p) \/ Completes(p) \/ Cancels(p)
    PROVE  /\ Stored'
           /\ DOMAIN projects' = DOMAIN projects
           /\ projects'[p].amount = projects[p].amount
           /\ projects'[p].client = projects[p].client
           /\ projects'[p].freelancer = projects[p].freelancer
           /\ \A q \in DOMAIN projects : q # p => projects'[q] = projects[q] /\ books'[q] = books[q]
           /\ projectCount' = projectCount
<1> DEFINE r == projects[p]
           b == books[p]
           Goal == /\ Stored'
                   /\ DOMAIN projects' = DOMAIN projects
                   /\ projects'[p].amount = r.amount
                   /\ projects'[p].client = r.client
                   /\ projects'[p].freelancer = r.freelancer
                   /\ \A q \in DOMAIN projects :
                         q # p => projects'[q] = projects[q] /\ books'[q] = books[q]
                   /\ projectCount' = projectCount
<1>1. /\ r \in Project /\ b \in Entry
      /\ r.deposited \in Int /\ r.amount \in Int /\ r.status \in ProjectStatus
      /\ b.paidIn \in Int /\ b.released \in Int /\ b.refunded \in Int
      /\ "Completed" \in ProjectStatus /\ "Cancelled" \in ProjectStatus
      /\ "Disputed" \in ProjectStatus /\ "WorkSubmitted" \in ProjectStatus
  BY DEF TypeOK, Project, Entry, ProjectStatus
<1>2. Solvent(r, b) /\ (InitializedOnce => Settles(r, b))
  BY DEF Stored, EscrowInv
<1>3. ASSUME NEW u \in Project, NEW e \in Entry, Update(p, u, e),
             u.amount = r.amount, u.client = r.client, u.freelancer = r.freelancer,
             Solvent(u, e), InitializedOnce => Settles(u, e)
      PROVE  Goal
  <2>1. projects'[p] = u /\ books'[p] = e
    BY <1>3 DEF Update, TypeOK
  <2>2. EscrowInv(p)'
    BY <1>3, <2>1 DEF EscrowInv
  <2> QED
    BY <1>3, <2>1, <2>2, OneUpdate DEF Update
<1>4. ASSUME Funds(p)
      PROVE  Goal
  <2>1. PICK amount \in Deposits :
           /\ r.status = "Created" /\ amount > 0
           /\ Update(p, Funded(r, amount), [b EXCEPT !.paidIn = @ + amount])
    BY <1>4 DEF Funds
  <2>2. amount \in Nat
    BY <2>1, EscrowAssumption
  <2> DEFINE u == Funded(r, amount)
             e == [b EXCEPT !.paidIn = @ + amount]
  <2>3. /\ u \in Project /\ e \in Entry
        /\ u.deposited = r.deposited + amount
        /\ u.status = IF r.deposited + amount >= r.amount THEN "Funded" ELSE r.status
        /\ u.amount = r.amount /\ u.client = r.client /\ u.freelancer = r.freelancer
        /\ e.paidIn = b.paidIn + amount /\ e.released = b.released /\ e.refunded = b.refunded
    BY <1>1, <2>2, FundedFields
  <2>4. Update(p, u, e)
    BY <2>1
  <2> HIDE DEF u, e, r, b, Goal
  <2>5. Solvent(u, e) /\ (InitializedOnce => Settles(u, e))
    BY <1>1, <1>2, <2>1, <2>2, <2>3 DEF Solvent, Settles
  <2> QED
    BY <1>3, <2>3, <2>4, <2>5
<1>5. ASSUME NEW status \in ProjectStatus, Update(p, [r EXCEPT !.status = status], b),
             \/ status = "WorkSubmitted" /\ r.status \in {"Funded", "InProgress"}
             \/ status = "Disputed"
      PROVE  Goal
  <2> DEFINE u == [r EXCEPT !.status = status]
  <2>1. /\ u \in Project /\ u.status = status /\ u.deposited = r.deposited
        /\ u.amount = r.amount /\ u.client = r.client /\ u.freelancer = r.freelancer
    BY <1>1 DEF Project
  <2>2. Update(p, u, b)
    BY <1>5
  <2> HIDE DEF u, r, b, Goal
  <2>3. Solvent(u, b) /\ (InitializedOnce => Settles(u, b))
    BY <1>1, <1>2, <1>5, <2>1 DEF Solvent, Settles
  <2> QED
    BY <1>1, <1>3, <2>1, <2>2, <2>3
<1>6. Submits(p) => Goal
  BY <1>1, <1>5 DEF Submits
<1>7. Disputes(p) => Goal
  BY <1>1, <1>5 DEF Disputes
<1>8. ASSUME NEW status \in {"Completed", "Cancelled"}, NEW e \in {Release(p), Refund(p)},
             Update(p, Emptied(r, status), e)
      PROVE  Goal
  <2> DEFINE u == Emptied(r, status)
  <2>1. /\ u \in Project /\ u.deposited = 0 /\ u.status = status
        /\ u.amount = r.amount /\ u.client = r.client /\ u.freelancer = r.freelancer
    BY <1>1, ProjectUpdates
  <2>2. /\ e \in Entry /\ e.paidIn = b.paidIn
        /\ \/ e.released = b.released + r.deposited /\ e.refunded = b.refunded
           \/ e.released = b.released /\ e.refunded = b.refunded + r.deposited
    BY ProjectUpdates
  <2>3. Update(p, u, e)
    BY <1>8
  <2> HIDE DEF u, r, b, Goal
  <2>4. Solvent(u, e)
    BY <1>1, <1>2, <2>1, <2>2 DEF Solvent
  <2>5. ASSUME InitializedOnce
        PROVE  Settles(u, e)
    BY <1>1, <1>2, <2>1, <2>2, <2>5 DEF Solvent, Settles
  <2> QED
    BY <1>3, <2>1, <2>2, <2>3, <2>4, <2>5
<1>9. Approves(p) => Goal
  BY <1>8 DEF Approves
<1>10. Completes(p) => Goal
  BY <1>8 DEF Completes
<1>11. Cancels(p) => Goal
  BY <1>8 DEF Cancels
<1> QED
  BY <1>4, <1>6, <1>7, <1>9, <1>10, <1>11

(* A created project is empty, and so are the books of an id that was not used before. *)
LEMMA CreateStep ==
    ASSUME TypeOK, Stored, Creates
    PROVE  /\ Stored'
           /\ \E n \in Nat : /\ projectCount' = projectCount + n
                             /\ projectCount + n <= MaxProjects
                             /\ DOMAIN projects' =
                                  DOMAIN projects \cup (projectCount + 1 .. projectCount + n)
                             /\ \A i \in projectCount + 1 .. projectCount + n :
                                   /\ projects'[i].deposited = 0
                                   /\ i \notin DOMAIN projects => books'[i] = NewEntry
                             /\ \A p \in DOMAIN projects :
                                   p \notin projectCount + 1 .. projectCount + n =>
                                      projects'[p] = projects[p] /\ books'[p] = books[p]
<1> DEFINE Created(n, new) ==
             /\ projectCount + n <= MaxProjects
             /\ projectCount' = projectCount + n
             /\ projects' = Put(projects, [i \in projectCount + 1 .. projectCount + n |->
                                             new[i - projectCount]])
             /\ books' = Put(books, [i \in (projectCount + 1 .. projectCount + n) \ DOMAIN books |->
                                       NewEntry])
             /\ \A i \in 1..n : new[i].status = "Created" /\ new[i].deposited = 0
<1>0. PICK n \in Nat : \E new \in [1..n -> Project] : Created(n, new)
  BY DEF Creates
<1>1. PICK new \in [1..n -> Project] : Created(n, new)
  BY <1>0
<1> DEFINE ids == projectCount + 1 .. projectCount + n
<1>2. /\ projectCount \in Nat /\ ids \subseteq Nat /\ DOMAIN books = DOMAIN projects
      /\ \A i \in ids : i - projectCount \in 1..n
  BY DEF TypeOK
<1>3. /\ projects' = [k \in DOMAIN projects \cup ids |->
                        IF k \in ids THEN new[k - projectCount] ELSE projects[k]]
      /\ books' = [k \in DOMAIN projects \cup ids |->
                     IF k \in ids \ DOMAIN projects THEN NewEntry ELSE books[k]]
  BY <1>1, <1>2 DEF Put
<1> HIDE DEF ids
<1>4. /\ DOMAIN projects' = DOMAIN projects \cup ids
      /\ \A k \in ids : projects'[k] = new[k - projectCount]
      /\ \A k \in ids \ DOMAIN projects : books'[k] = NewEntry
      /\ \A k \in DOMAIN projects : books'[k] = books[k]
      /\ \A k \in DOMAIN projects \ ids : projects'[k] = projects[k]
  BY <1>3
<1>5. NewEntry \in Entry
  BY DEF NewEntry, Entry
<1>6. /\ projects' \in [DOMAIN projects' -> Project]
      /\ books' \in [DOMAIN projects' -> Entry]
      /\ DOMAIN projects' \subseteq Nat
  BY <1>1, <1>2, <1>3, <1>4, <1>5 DEF TypeOK
<1>7. ASSUME NEW k \in ids
      PROVE  EscrowInv(k)'
  <2>1. /\ projects'[k].status = "Created" /\ projects'[k].deposited = 0
    BY <1>1, <1>2, <1>4
  <2>2. CASE k \notin DOMAIN projects
    <3>1. /\ books'[k].paidIn = 0 /\ books'[k].released = 0 /\ books'[k].refunded = 0
      BY <1>4, <2>2 DEF NewEntry
    <3> QED
      BY <2>1, <3>1 DEF EscrowInv, Solvent, Settles
  <2>3. CASE k \in DOMAIN projects
    <3>1. ~InitializedOnce
      BY <1>2, <2>3 DEF Stored, ids
    <3>2. Solvent(projects[k], books[k]) /\ projects[k] \in Project /\ books[k] \in Entry
      BY <2>3 DEF Stored, EscrowInv
    <3>3. books'[k] = books[k]
      BY <1>4, <2>3
    <3> QED
      BY <2>1, <3>1, <3>2, <3>3 DEF EscrowInv, Solvent, Project, Entry
  <2> QED
    BY <2>2, <2>3
<1>8. \A k \in DOMAIN projects \ ids : EscrowInv(k)'
  BY <1>4 DEF EscrowInv, Solvent, Settles, Stored
<1>9. ASSUME InitializedOnce
      PROVE  DOMAIN projects' = 1..projectCount'
  <2>1. DOMAIN projects = 1..projectCount
    BY <1>9 DEF Stored
  <2>2. projectCount' = projectCount + n /\ projectCount \in Nat
    BY <1>1, <1>2
  <2>3. 1..projectCount' = (1..projectCount) \cup ids
    BY <2>2 DEF ids
  <2> QED
    BY <1>4, <2>1, <2>3
<1>10. Stored'
  BY <1>4, <1>6, <1>7, <1>8, <1>9 DEF Stored
<1> QED
  BY <1>1, <1>2, <1>4, <1>10 DEF ids

(* The books and the escrows agree after every step. *)
LEMMA StoredStep == ASSUME TypeOK, Stored, [Next]_vars PROVE Stored'
<1>1. CASE Creates
  BY <1>1, CreateStep
<1>2. CASE Restarts
  BY <1>2 DEF Restarts, Stored, EscrowInv, Solvent, Settles
<1>3. CASE UNCHANGED <<storage, books>>
  BY <1>3 DEF storage, Stored, EscrowInv, Solvent, Settles
<1>4. ASSUME NEW p \in DOMAIN projects,
             Funds(p) \/ Submits(p) \/ Approves(p) \/ Disputes(p) \/ Completes(p) \/ Cancels(p)
      PROVE  Stored'
  BY <1>4, UpdateStep
<1> QED
  BY <1>1, <1>2, <1>3, <1>4, Steps

(* What a receipt says. *)
LEMMA ReceiptStep ==
    ASSUME TypeOK, NEW p \in DOMAIN projects, record_receipt(p)
    PROVE  /\ receiptCount' = receiptCount + 1
           /\ DOMAIN receipts' = DOMAIN receipts \cup {receiptCount + 1}
           /\ receipts'[receiptCount + 1].project = p
           /\ receipts'[receiptCount + 1].amount = projects[p].deposited
           /\ receipts'[receiptCount + 1].sender = projects[p].client
           /\ receipts'[receiptCount + 1].recipient = projects[p].freelancer
           /\ \A r \in DOMAIN receipts : r # receiptCount + 1 => receipts'[r] = receipts[r]
           /\ receipts' \in [DOMAIN receipts' -> Receipt]
<1> DEFINE new == [project |-> p, amount |-> projects[p].deposited,
                   sender |-> projects[p].client, recipient |-> projects[p].freelancer]
<1>1. new \in Receipt
  BY DEF TypeOK, Project, Receipt
<1>2. /\ new.project = p /\ new.amount = projects[p].deposited
      /\ new.sender = projects[p].client /\ new.recipient = projects[p].freelancer
  OBVIOUS
<1>3. /\ receiptCount' = receiptCount + 1
      /\ receipts' = [k \in DOMAIN receipts \cup {receiptCount + 1} |->
                        IF k = receiptCount + 1 THEN new ELSE receipts[k]]
  BY DEF record_receipt, Put
<1> HIDE DEF new
<1> QED
  BY <1>1, <1>2, <1>3 DEF TypeOK

(* A step keeps every type. *)
LEMMA TypeStep == ASSUME TypeOK, Stored, [Next]_vars PROVE TypeOK'
<1> USE EscrowAssumption
<1>1. Stored'
  BY StoredStep
<1>2. /\ projectCount' \in Nat /\ receiptCount' \in Nat
      /\ DOMAIN receipts' \subseteq Nat /\ receipts' \in [DOMAIN receipts' -> Receipt]
  <2>1. CASE Creates
    BY <2>1 DEF Creates, TypeOK
  <2>2. CASE Restarts
    BY <2>2 DEF Restarts, TypeOK
  <2>3. CASE UNCHANGED <<storage, books>>
    BY <2>3 DEF storage, TypeOK
  <2>4. ASSUME NEW p \in DOMAIN projects, Quiet,
               Funds(p) \/ Submits(p) \/ Disputes(p) \/ Completes(p) \/ Cancels(p)
        PROVE  /\ projectCount' \in Nat /\ receiptCount' \in Nat
               /\ DOMAIN receipts' \subseteq Nat /\ receipts' \in [DOMAIN receipts' -> Receipt]
    BY <2>4, UpdateStep DEF Quiet, TypeOK
  <2>5. ASSUME NEW p \in DOMAIN projects, Approves(p), record_receipt(p)
        PROVE  /\ projectCount' \in Nat /\ receiptCount' \in Nat
               /\ DOMAIN receipts' \subseteq Nat /\ receipts' \in [DOMAIN receipts' -> Receipt]
    BY <2>5, ReceiptStep, UpdateStep DEF TypeOK
  <2> QED
    BY <2>1, <2>2, <2>3, <2>4, <2>5, Steps
<1>3. /\ admin' \in Accounts \cup {None} /\ paused' \in BOOLEAN /\ locked' \in BOOLEAN
      /\ now' \in Nat /\ inits' \in Nat
  <2> DEFINE Goal == /\ admin' \in Accounts \cup {None} /\ paused' \in BOOLEAN
                     /\ locked' \in BOOLEAN /\ now' \in Nat /\ inits' \in Nat
  <2>1. ASSUME UNCHANGED <<admin, paused, now, inits>>, locked' \in BOOLEAN
        PROVE  Goal
    BY <2>1 DEF TypeOK
  <2>2. ASSUME NEW a \in Accounts
        PROVE  initialize(a) \/ (\E on \in BOOLEAN : set_paused(a, on)) => Goal
    <3>1. initialize(a) => Goal
      <4>1. initialize(a) => locked' \in BOOLEAN /\ paused' \in BOOLEAN
        BY Zenon DEF initialize
      <4>2. initialize(a) => admin' \in Accounts \cup {None} /\ now' \in Nat /\ inits' \in Nat
        BY DEF TypeOK, initialize
      <4> QED
        BY <4>1, <4>2
    <3>2. ASSUME NEW on \in BOOLEAN, set_paused(a, on)
          PROVE  Goal
      BY <3>2 DEF TypeOK, set_paused, Guarded
    <3> QED
      BY <3>1, <3>2
  <2>3. ASSUME NEW n, NEW new, create(n, new)
        PROVE  Goal
    BY <2>1, <2>3 DEF create, Running, Guarded
  <2>4. ASSUME NEW p \in DOMAIN projects
        PROVE  /\ \A client, amount : fund_project(p, client, amount) => Goal
               /\ \A freelancer : submit_work(p, freelancer) => Goal
               /\ \A client : approve_work(p, client) => Goal
               /\ \A caller : raise_dispute(p, caller) => Goal
               /\ \A a, release : resolve_dispute(p, a, release) => Goal
               /\ check_deadline(p) => Goal
    BY <2>1 DEF fund_project, ValidDeposit, submit_work, approve_work, raise_dispute, resolve_dispute,
                check_deadline, Update, Running, Guarded
  <2>5. Tick => Goal
    BY DEF TypeOK, Tick
  <2>6. UNCHANGED vars => Goal
    BY DEF TypeOK, vars
  <2> QED
    BY <2>2, <2>3, <2>4, <2>5, <2>6 DEF Next, create_project, batch_create_projects
<1> QED
  BY <1>1, <1>2, <1>3 DEF TypeOK, Stored

(* Types and books together, from the start. *)
LEMMA StoredInvariant == Spec => [](TypeOK /\ Stored)
<1>1. Init => TypeOK /\ Stored
  <2>1. DOMAIN << >> = {}
    BY SMT
  <2>2. << >> = [k \in {} |-> k]
    BY <2>1, SMT
  <2>3. << >> \in [{} -> Project] /\ << >> \in [{} -> Entry] /\ << >> \in [{} -> Receipt]
    BY <2>2
  <2>4. Init => TypeOK
    <3>1. Init => /\ DOMAIN projects \subseteq Nat /\ DOMAIN receipts \subseteq Nat
                  /\ projects \in [DOMAIN projects -> Project]
                  /\ books \in [DOMAIN projects -> Entry]
                  /\ receipts \in [DOMAIN receipts -> Receipt]
      BY <2>1, <2>3, Zenon DEF Init
    <3>2. Init => /\ admin \in Accounts \cup {None}
                  /\ projectCount \in Nat /\ receiptCount \in Nat
                  /\ now \in Nat /\ inits \in Nat
      BY DEF Init
    <3>3. Init => paused \in BOOLEAN /\ locked \in BOOLEAN
      BY Zenon DEF Init
    <3> QED
      BY <3>1, <3>2, <3>3 DEF TypeOK
  <2>5. Init => Stored
    BY <2>1, <2>3 DEF Init, Stored
  <2> QED
    BY <2>4, <2>5
<1>2. TypeOK /\ Stored /\ [Next]_vars => (TypeOK /\ Stored)'
  BY TypeStep, StoredStep
<1> QED
  BY <1>1, <1>2, PTL DEF Spec

(* Every variable keeps its type: what is stored under an id is always a whole project
   with whole books, also after initialize let ids be used again. *)
THEOREM TypeCorrect == Spec => []TypeOK
  BY StoredInvariant, PTL

(* Whatever sequence of deposits, disputes, resolutions and deadlines a project goes
   through, its money is in the escrow or went to one side, if the contract is initialized
   once: a second initialize lets create overwrite an escrow that is not empty. *)
THEOREM EscrowConservedHolds == ASSUME InitializedOnce PROVE Spec => []EscrowConserved
<1>1. TypeOK /\ Stored => EscrowConserved
  BY DEF Stored, EscrowInv, Settles, EscrowConserved
<1> QED
  BY <1>1, StoredInvariant, PTL

(* However often the contract is initialized again and ids are given out anew, nothing is
   held or paid out under an id beyond what was paid in under it. *)
THEOREM NeverOverpaidHolds == Spec => []NeverOverpaid
<1>1. TypeOK /\ Stored => NeverOverpaid
  BY DEF Stored, EscrowInv, Solvent, NeverOverpaid
<1> QED
  BY <1>1, StoredInvariant, PTL

-----------------------------------------------------------------------------
(* Receipts, if the contract is initialized once *)

\* What a receipt says of its project, which is settled and stays so.
ReceiptOf(r) ==
    LET p == receipts[r].project
    IN  /\ p \in DOMAIN projects
        /\ projects[p].status \in {"Completed", "Disputed", "Cancelled"}
        /\ projects[p].deposited = 0
        /\ receipts[r].amount = books[p].paidIn
        /\ receipts[r].amount >= projects[p].amount
        /\ receipts[r].sender = projects[p].client
        /\ receipts[r].recipient = projects[p].freelancer

Numbered ==
    /\ DOMAIN projects = 1..projectCount
    /\ projectCount <= MaxProjects
    /\ DOMAIN receipts = 1..receiptCount
    /\ \A r \in DOMAIN receipts : ReceiptOf(r)
    /\ \A r, q \in DOMAIN receipts : receipts[r].project = receipts[q].project => r = q

(* An update of a settled project leaves it settled, with the same books. *)
LEMMA SettledStep ==
    ASSUME TypeOK, Stored, NEW p \in DOMAIN projects,
           projects[p].status \in {"Completed", "Disputed", "Cancelled"},
           projects[p].deposited = 0,
           Funds(p) \/ Submits(p) \/ Disputes(p) \/ Completes(p) \/ Cancels(p)
    PROVE  /\ projects'[p].status \in {"Completed", "Disputed", "Cancelled"}
           /\ projects'[p].deposited = 0
           /\ books'[p].paidIn = books[p].paidIn
<1>1. projects[p] \in Project /\ books[p] \in Entry /\ projects \in [DOMAIN projects -> Project]
      /\ books \in [DOMAIN projects -> Entry]
  BY DEF TypeOK
<1>2. ~Funds(p) /\ ~Submits(p)
  BY DEF Funds, Submits
<1>3. ASSUME NEW status \in {"Completed", "Cancelled"}, NEW e \in {Release(p), Refund(p)},
             Update(p, Emptied(projects[p], status), e)
      PROVE  /\ projects'[p].status = status /\ projects'[p].deposited = 0
             /\ books'[p].paidIn = books[p].paidIn
  <2>1. "Completed" \in ProjectStatus /\ "Cancelled" \in ProjectStatus
    BY DEF ProjectStatus
  <2>2. projects'[p] = Emptied(projects[p], status) /\ books'[p] = e
    BY <1>1, <1>3 DEF Update
  <2>3. /\ Emptied(projects[p], status).status = status
        /\ Emptied(projects[p], status).deposited = 0
    BY <2>1, ProjectUpdates
  <2>4. e.paidIn = books[p].paidIn
    BY ProjectUpdates
  <2> QED
    BY <2>2, <2>3, <2>4
<1>4. CASE Disputes(p)
  <2>1. projects'[p] = [projects[p] EXCEPT !.status = "Disputed"] /\ books'[p] = books[p]
    BY <1>1, <1>4 DEF Disputes, Update
  <2> QED
    BY <1>1, <2>1 DEF Project
<1>5. CASE Completes(p)
  BY <1>3, <1>5 DEF Completes
<1>6. CASE Cancels(p)
  BY <1>3, <1>6 DEF Cancels
<1> QED
  BY <1>2, <1>4, <1>5, <1>6

(* An approval settles a project that has no receipt yet, with all that was paid in. *)
LEMMA ApprovalStep ==
    ASSUME InitializedOnce, TypeOK, Stored, NEW p \in DOMAIN projects, Approves(p)
    PROVE  /\ projects[p].status \notin {"Completed", "Disputed", "Cancelled"}
           /\ projects'[p].status = "Completed"
           /\ projects'[p].deposited = 0
           /\ books'[p].paidIn = books[p].paidIn
           /\ projects[p].deposited = books[p].paidIn
           /\ projects[p].deposited >= projects[p].amount
<1>1. /\ projects[p] \in Project /\ books[p] \in Entry
      /\ projects \in [DOMAIN projects -> Project] /\ books \in [DOMAIN projects -> Entry]
      /\ projects[p].deposited \in Int
      /\ books[p].paidIn \in Int /\ books[p].released \in Int /\ books[p].refunded \in Int
  BY DEF TypeOK, Project, Entry
<1>2. projects'[p] = Emptied(projects[p], "Completed") /\ books'[p] = Release(p)
  BY <1>1 DEF Approves, Update
<1>3. "Completed" \in ProjectStatus
  BY DEF ProjectStatus
<1>4. /\ projects'[p].status = "Completed" /\ projects'[p].deposited = 0
      /\ books'[p].paidIn = books[p].paidIn
  BY <1>2, <1>3, ProjectUpdates
<1>5. projects[p].status \in {"WorkSubmitted", "Verified"}
  BY DEF Approves
<1>6. /\ projects[p].deposited = books[p].paidIn
      /\ projects[p].deposited >= projects[p].amount
  BY <1>1, <1>5 DEF Stored, EscrowInv, Solvent, Settles
<1> QED
  BY <1>4, <1>5, <1>6

(* Ids are given out once, and a project gets one receipt. *)
LEMMA NumberedStep ==
    ASSUME InitializedOnce, TypeOK, Stored, Numbered, [Next]_vars
    PROVE  Numbered'
<1> USE EscrowAssumption
<1>1. projectCount \in Nat /\ receiptCount \in Nat
  BY DEF TypeOK
<1>2. CASE Creates
  <2>1. PICK n \in Nat :
           /\ projectCount' = projectCount + n
           /\ projectCount + n <= MaxProjects
           /\ DOMAIN projects' = DOMAIN projects \cup (projectCount + 1 .. projectCount + n)
           /\ \A p \in DOMAIN projects :
                 p \notin projectCount + 1 .. projectCount + n =>
                    projects'[p] = projects[p] /\ books'[p] = books[p]
    BY <1>2, CreateStep
  <2>2. \A p \in DOMAIN projects : projects'[p] = projects[p] /\ books'[p] = books[p]
    BY <1>1, <2>1 DEF Numbered
  <2>3. UNCHANGED <<receipts, receiptCount>>
    BY <1>2 DEF Creates
  <2>4. DOMAIN projects' = 1..projectCount'
    BY <1>1, <2>1 DEF Numbered
  <2>5. DOMAIN projects \subseteq DOMAIN projects'
    BY <2>1
  <2>6. ASSUME NEW r \in DOMAIN receipts
        PROVE  ReceiptOf(r)'
    BY <2>2, <2>3, <2>5 DEF Numbered, ReceiptOf
  <2> QED
    BY <2>1, <2>3, <2>4, <2>6 DEF Numbered
<1>3. CASE Restarts
  <2>1. projectCount = 0 /\ projectCount' = 0 /\ receiptCount' = 0
        /\ UNCHANGED <<projects, receipts, books>>
    BY <1>3 DEF Restarts
  <2>2. DOMAIN receipts = {}
    BY <1>1, <2>1 DEF Numbered, ReceiptOf
  <2> QED
    BY <1>1, <2>1, <2>2 DEF Numbered
<1>4. CASE UNCHANGED <<storage, books>>
  BY <1>4 DEF storage, Numbered, ReceiptOf
<1>5. ASSUME NEW p \in DOMAIN projects, Quiet,
             Funds(p) \/ Submits(p) \/ Disputes(p) \/ Completes(p) \/ Cancels(p)
      PROVE  Numbered'
  <2>1. /\ DOMAIN projects' = DOMAIN projects
        /\ projects'[p].amount = projects[p].amount
        /\ projects'[p].client = projects[p].client
        /\ projects'[p].freelancer = projects[p].freelancer
        /\ \A q \in DOMAIN projects : q # p => projects'[q] = projects[q] /\ books'[q] = books[q]
        /\ projectCount' = projectCount
    BY <1>5, UpdateStep
  <2>2. UNCHANGED <<receipts, receiptCount>>
    BY <1>5 DEF Quiet
  <2>3. ASSUME NEW r \in DOMAIN receipts
        PROVE  ReceiptOf(r)'
    <3>1. CASE receipts[r].project # p
      BY <2>1, <2>2, <3>1 DEF Numbered, ReceiptOf
    <3>2. CASE receipts[r].project = p
      <4>1. /\ projects[p].status \in {"Completed", "Disputed", "Cancelled"}
            /\ projects[p].deposited = 0
        BY <3>2 DEF Numbered, ReceiptOf
      <4>2. /\ projects'[p].status \in {"Completed", "Disputed", "Cancelled"}
            /\ projects'[p].deposited = 0
            /\ books'[p].paidIn = books[p].paidIn
        BY <1>5, <4>1, SettledStep
      <4> QED
        BY <2>1, <2>2, <3>2, <4>2 DEF Numbered, ReceiptOf
    <3> QED
      BY <3>1, <3>2
  <2> QED
    BY <2>1, <2>2, <2>3 DEF Numbered
<1>6. ASSUME NEW p \in DOMAIN projects, Approves(p), record_receipt(p)
      PROVE  Numbered'
  <2>1. /\ DOMAIN projects' = DOMAIN projects
        /\ projects'[p].amount = projects[p].amount
        /\ projects'[p].client = projects[p].client
        /\ projects'[p].freelancer = projects[p].freelancer
        /\ \A q \in DOMAIN projects : q # p => projects'[q] = projects[q] /\ books'[q] = books[q]
        /\ projectCount' = projectCount
    BY <1>6, UpdateStep
  <2>0. PICK new \in Nat : new = receiptCount + 1
    BY <1>1
  <2>2. /\ receiptCount' = new
        /\ DOMAIN receipts' = DOMAIN receipts \cup {new}
        /\ receipts'[new].project = p
        /\ receipts'[new].amount = projects[p].deposited
        /\ receipts'[new].sender = projects[p].client
        /\ receipts'[new].recipient = projects[p].freelancer
        /\ \A r \in DOMAIN receipts : r # new => receipts'[r] = receipts[r]
    BY <1>6, <2>0, ReceiptStep
  <2>3. /\ projects[p].status \notin {"Completed", "Disputed", "Cancelled"}
        /\ projects'[p].status = "Completed"
        /\ projects'[p].deposited = 0
        /\ books'[p].paidIn = books[p].paidIn
        /\ projects[p].deposited = books[p].paidIn
        /\ projects[p].deposited >= projects[p].amount
    BY <1>6, ApprovalStep
  <2>4. new \notin DOMAIN receipts /\ DOMAIN receipts' = 1..receiptCount'
    BY <1>1, <2>0, <2>2 DEF Numbered
  <2>5. \A r \in DOMAIN receipts : receipts'[r] = receipts[r] /\ receipts[r].project # p
    BY <2>2, <2>3, <2>4 DEF Numbered, ReceiptOf
  <2>6. ASSUME NEW r \in DOMAIN receipts
        PROVE  ReceiptOf(r)'
    BY <2>1, <2>5 DEF Numbered, ReceiptOf
  <2>7. ReceiptOf(new)'
    <3>1. /\ receipts'[new].project = p /\ p \in DOMAIN projects'
          /\ receipts'[new].amount = books'[p].paidIn
          /\ receipts'[new].amount >= projects'[p].amount
          /\ receipts'[new].sender = projects'[p].client
          /\ receipts'[new].recipient = projects'[p].freelancer
      BY <2>1, <2>2, <2>3
    <3> QED
      BY <2>3, <3>1 DEF ReceiptOf
  <2> QED
    BY <2>1, <2>2, <2>4, <2>5, <2>6, <2>7 DEF Numbered
<1> QED
  BY <1>2, <1>3, <1>4, <1>5, <1>6, Steps

(* With ids that are given out once, receipts are too. *)
LEMMA NumberedInvariant ==
    ASSUME InitializedOnce PROVE Spec => [](TypeOK /\ Stored /\ Numbered)
<1>1. Init => Numbered
  <2>1. DOMAIN << >> = {}
    BY SMT
  <2>2. 1..0 = {} /\ 0 <= MaxProjects
    BY EscrowAssumption
  <2> QED
    BY <2>1, <2>2 DEF Init, Numbered
<1>2. TypeOK /\ Stored /\ Numbered /\ [Next]_vars => Numbered'
  BY NumberedStep
<1> QED
  BY <1>1, <1>2, StoredInvariant, PTL DEF Spec

(* If the contract is initialized once, a project is paid by one receipt, for all that was
   paid in, which is at least what was agreed. *)
THEOREM ReceiptIsWholePaymentHolds ==
    ASSUME InitializedOnce PROVE Spec => []ReceiptIsWholePayment
<1>1. Numbered => ReceiptIsWholePayment
  BY DEF Numbered, ReceiptOf, ReceiptIsWholePayment
<1> QED
  BY <1>1, NumberedInvariant, PTL

-----------------------------------------------------------------------------
(* The contract implements EscrowLedger *)

(* An update of one project changes the ledger at one account. *)
LEMMA LedgerUpdate ==
    ASSUME TypeOK, Numbered, NEW p \in DOMAIN projects,
           DOMAIN projects' = DOMAIN projects,
           \A q \in DOMAIN projects : q # p => projects'[q] = projects[q] /\ books'[q] = books[q]
    PROVE  /\ p \in 1..MaxProjects
           /\ Escrows[p] = [state |-> "open", balance |-> projects[p].deposited,
                            released |-> books[p].released, refunded |-> books[p].refunded]
           /\ Escrows' = [Escrows EXCEPT ![p] =
                            [state |-> "open", balance |-> projects'[p].deposited,
                             released |-> books'[p].released, refunded |-> books'[p].refunded]]
<1>1. p \in 1..MaxProjects
  BY EscrowAssumption DEF TypeOK, Numbered
<1>2. \A i \in 1..MaxProjects : i # p => Account(i)' = Account(i)
  BY DEF Account
<1>3. Account(p)' = [state |-> "open", balance |-> projects'[p].deposited,
                     released |-> books'[p].released, refunded |-> books'[p].refunded]
  BY DEF Account
<1> QED
  BY <1>1, <1>2, <1>3 DEF Escrows, Account

(* The account of an escrow that is settled, field by field. *)
LEMMA SettledAccount ==
    ASSUME NEW x,
           NEW a, a = [state |-> "open", balance |-> x, released |-> 0, refunded |-> 0]
    PROVE  /\ [a EXCEPT !.balance = 0, !.released = a.balance]
                = [state |-> "open", balance |-> 0, released |-> x, refunded |-> 0]
           /\ [a EXCEPT !.balance = 0, !.refunded = a.balance]
                = [state |-> "open", balance |-> 0, released |-> 0, refunded |-> x]
<1> DEFINE c == [a EXCEPT !.balance = 0]
<1>1. c = [state |-> "open", balance |-> 0, released |-> 0, refunded |-> 0]
  OBVIOUS
<1> HIDE DEF c
<1>2. /\ [c EXCEPT !.released = x]
           = [state |-> "open", balance |-> 0, released |-> x, refunded |-> 0]
      /\ [c EXCEPT !.refunded = x]
           = [state |-> "open", balance |-> 0, released |-> 0, refunded |-> x]
  BY <1>1
<1> QED
  BY <1>2 DEF c

(* Every step is a step of the ledger or leaves it alone. *)
LEMMA LedgerStep ==
    ASSUME InitializedOnce, TypeOK, Stored, Numbered, [Next]_vars
    PROVE  [Ledger!Next]_Escrows
<1> USE EscrowAssumption
<1>1. projectCount \in Nat
  BY DEF TypeOK
<1>2. CASE Creates
  <2>1. PICK n \in Nat :
           /\ projectCount' = projectCount + n
           /\ projectCount + n <= MaxProjects
           /\ DOMAIN projects' = DOMAIN projects \cup (projectCount + 1 .. projectCount + n)
           /\ \A i \in projectCount + 1 .. projectCount + n :
                 /\ projects'[i].deposited = 0
                 /\ i \notin DOMAIN projects => books'[i] = NewEntry
           /\ \A p \in DOMAIN projects :
                 p \notin projectCount + 1 .. projectCount + n =>
                    projects'[p] = projects[p] /\ books'[p] = books[p]
    BY <1>2, CreateStep
  <2>2. PICK ids \in SUBSET (1..MaxProjects) : ids = projectCount + 1 .. projectCount + n
    BY <1>1, <2>1
  <2>3. \A i \in 1..MaxProjects : i \notin ids => Account(i)' = Account(i)
    BY <2>1, <2>2 DEF Account
  <2>4. \A i \in ids : i \notin DOMAIN projects
    BY <1>1, <2>2 DEF Numbered
  <2>5. \A i \in ids : Account(i)' = [Ledger!Unopened EXCEPT !.state = "open"]
    BY <2>1, <2>2, <2>4 DEF Account, Ledger!Unopened, NewEntry
  <2>6. \A i \in ids : Escrows[i].state = "none"
    BY <2>2, <2>4 DEF Escrows, Account
  <2>7. Ledger!Open(ids)
    BY <2>2, <2>3, <2>5, <2>6 DEF Ledger!Open, Escrows
  <2> QED
    BY <2>7 DEF Ledger!Next
<1>3. CASE Restarts
  BY <1>3 DEF Restarts, Escrows, Account
<1>4. CASE UNCHANGED <<storage, books>>
  BY <1>4 DEF storage, Escrows, Account
<1>5. ASSUME NEW p \in DOMAIN projects,
             Funds(p) \/ Submits(p) \/ Approves(p) \/ Disputes(p) \/ Completes(p) \/ Cancels(p)
      PROVE  [Ledger!Next]_Escrows
  <2> DEFINE r == projects[p]
             b == books[p]
  <2>1. /\ r \in Project /\ b \in Entry
        /\ projects \in [DOMAIN projects -> Project] /\ books \in [DOMAIN projects -> Entry]
        /\ r.deposited \in Int
        /\ b.paidIn \in Int /\ b.released \in Int /\ b.refunded \in Int
    BY DEF TypeOK, Project, Entry
  <2>2. /\ r.deposited >= 0
        /\ r.deposited > 0 \/ r.status = "Created" => b.released = 0 /\ b.refunded = 0
    BY DEF Stored, EscrowInv, Solvent, Settles
  <2>3. /\ p \in 1..MaxProjects
        /\ Escrows[p] = [state |-> "open", balance |-> r.deposited,
                         released |-> b.released, refunded |-> b.refunded]
        /\ Escrows' = [Escrows EXCEPT ![p] =
                         [state |-> "open", balance |-> projects'[p].deposited,
                          released |-> books'[p].released, refunded |-> books'[p].refunded]]
    BY <1>5, UpdateStep, LedgerUpdate
  <2>4. ASSUME projects'[p].deposited = r.deposited, books'[p] = b
        PROVE  UNCHANGED Escrows
    BY <2>3, <2>4 DEF Escrows
  <2>5. CASE Submits(p)
    <3>1. projects'[p] = [r EXCEPT !.status = "WorkSubmitted"] /\ books'[p] = b
      BY <2>1, <2>5 DEF Submits, Update
    <3> QED
      BY <2>1, <2>4, <3>1 DEF Project
  <2>6. CASE Disputes(p)
    <3>1. projects'[p] = [r EXCEPT !.status = "Disputed"] /\ books'[p] = b
      BY <2>1, <2>6 DEF Disputes, Update
    <3> QED
      BY <2>1, <2>4, <3>1 DEF Project
  <2>7. CASE Funds(p)
    <3>1. PICK amount \in Deposits :
             /\ r.status = "Created" /\ amount > 0
             /\ projects'[p] = Funded(r, amount)
             /\ books'[p] = [b EXCEPT !.paidIn = @ + amount]
      BY <2>1, <2>7 DEF Funds, Update
    <3>2. amount \in Nat
      BY <3>1
    <3>3. /\ projects'[p].deposited = r.deposited + amount
          /\ books'[p].released = b.released /\ books'[p].refunded = b.refunded
      BY <2>1, <3>1, <3>2, FundedFields
    <3>4. Ledger!Deposit(p, amount)
      <4> HIDE DEF r, b
      <4>3. [Escrows[p] EXCEPT !.balance = @ + amount]
               = [state |-> "open", balance |-> r.deposited + amount,
                  released |-> b.released, refunded |-> b.refunded]
        BY <2>3
      <4>1. Escrows' = [Escrows EXCEPT ![p].balance = @ + amount]
        BY <2>3, <3>3, <4>3
      <4>2. Escrows[p].state = "open" /\ ~Ledger!Settled(p)
        BY <2>2, <2>3, <3>1 DEF Ledger!Settled
      <4> QED
        BY <4>1, <4>2 DEF Ledger!Deposit
    <3> QED
      BY <2>3, <3>1, <3>4 DEF Ledger!Next, ValidDeposit
  <2>8. ASSUME NEW status \in {"Completed", "Cancelled"}, NEW e \in {Release(p), Refund(p)},
               Update(p, Emptied(r, status), e)
        PROVE  [Ledger!Next]_Escrows
    <3>1. projects'[p] = Emptied(r, status) /\ books'[p] = e
      BY <2>1, <2>8 DEF Update
    <3>2. projects'[p].deposited = 0
      <4>1. status \in ProjectStatus
        BY DEF ProjectStatus
      <4>2. Emptied(r, status).deposited = 0
        BY <2>1, <4>1, ProjectUpdates
      <4> QED
        BY <3>1, <4>2
    <3>3. /\ Release(p).released = b.released + r.deposited /\ Release(p).refunded = b.refunded
          /\ Refund(p).released = b.released /\ Refund(p).refunded = b.refunded + r.deposited
      BY ProjectUpdates
    <3> HIDE DEF r, b
    <3>4. CASE r.deposited = 0
      <4>1. books'[p].released = b.released /\ books'[p].refunded = b.refunded
        BY <2>1, <3>1, <3>3, <3>4
      <4>2. Escrows' = [Escrows EXCEPT ![p] = Escrows[p]]
        BY <2>3, <3>2, <3>4, <4>1
      <4> QED
        BY <4>2 DEF Escrows
    <3>5. CASE r.deposited > 0
      <4>1. b.released = 0 /\ b.refunded = 0
        BY <2>2, <3>5
      <4>2. CASE e = Release(p)
        <5>1. books'[p].released = r.deposited /\ books'[p].refunded = 0
          BY <2>1, <3>1, <3>3, <4>1, <4>2
        <5>2. Ledger!Release(p)
          <6>1. [Escrows[p] EXCEPT !.balance = 0, !.released = Escrows[p].balance]
                   = [state |-> "open", balance |-> 0, released |-> r.deposited, refunded |-> 0]
            BY <2>3, <4>1, SettledAccount
          <6>2. Escrows' = [Escrows EXCEPT ![p] =
                   [Escrows[p] EXCEPT !.balance = 0, !.released = Escrows[p].balance]]
            BY <2>3, <3>2, <5>1, <6>1
          <6>3. Escrows' = [Escrows EXCEPT ![p].balance = 0,
                                           ![p].released = Escrows[p].balance]
            BY <6>2
          <6>4. Escrows[p].balance > 0
            BY <2>3, <3>5
          <6> QED
            BY <6>3, <6>4 DEF Ledger!Release
        <5> QED
          BY <2>3, <5>2 DEF Ledger!Next
      <4>3. CASE e = Refund(p)
        <5>1. books'[p].refunded = r.deposited /\ books'[p].released = 0
          BY <2>1, <3>1, <3>3, <4>1, <4>3
        <5>2. Ledger!Refund(p)
          <6>1. [Escrows[p] EXCEPT !.balance = 0, !.refunded = Escrows[p].balance]
                   = [state |-> "open", balance |-> 0, released |-> 0, refunded |-> r.deposited]
            BY <2>3, <4>1, SettledAccount
          <6>2. Escrows' = [Escrows EXCEPT ![p] =
                   [Escrows[p] EXCEPT !.balance = 0, !.refunded = Escrows[p].balance]]
            BY <2>3, <3>2, <5>1, <6>1
          <6>3. Escrows' = [Escrows EXCEPT ![p].balance = 0,
                                           ![p].refunded = Escrows[p].balance]
            BY <6>2
          <6>4. Escrows[p].balance > 0
            BY <2>3, <3>5
          <6> QED
            BY <6>3, <6>4 DEF Ledger!Refund
        <5> QED
          BY <2>3, <5>2 DEF Ledger!Next
      <4> QED
        BY <4>2, <4>3
    <3> QED
      BY <2>1, <2>2, <3>4, <3>5
  <2>9. CASE Approves(p) \/ Completes(p) \/ Cancels(p)
    BY <2>8, <2>9 DEF Approves, Completes, Cancels
  <2> QED
    BY <1>5, <2>4, <2>5, <2>6, <2>7, <2>9
<1> QED
  BY <1>2, <1>3, <1>4, <1>5, Steps

(* If the contract is initialized once, its escrows behave as EscrowLedger says: each is
   filled, settled whole to one side and then left alone, for any number of projects. *)
THEOREM ImplementsLedgerHolds == ASSUME InitializedOnce PROVE Spec => ImplementsLedger
<1>1. Init => Ledger!Init
  <2>1. DOMAIN << >> = {}
    BY SMT
  <2> QED
    BY <2>1 DEF Init, Ledger!Init, Escrows, Account, Ledger!Unopened
<1>2. TypeOK /\ Stored /\ Numbered /\ [Next]_vars => [Ledger!Next]_Escrows
  BY LedgerStep
<1> QED
  BY <1>1, <1>2, NumberedInvariant, PTL DEF Spec, ImplementsLedger, Ledger!Spec
=============================================================================
