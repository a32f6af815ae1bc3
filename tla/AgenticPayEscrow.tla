-------------------------- MODULE AgenticPayEscrow --------------------------
(***************************************************************************)
(* The project escrow of the Soroban contract AgenticPayContract           *)
(* (contracts/src/lib.rs): projects that a client funds and a freelancer   *)
(* works on, disputes, deadlines, receipts, the pause switch and the       *)
(* reentrancy latch.                                                       *)
(*                                                                         *)
(* Every entry point is one transaction: it runs alone, and a panic undoes *)
(* it, so an action is a call that returns.  The token transfers are not   *)
(* in the contract yet; books records what its calls say is paid in,       *)
(* released and refunded.  Texts, events and timestamps of records are     *)
(* left out, and so are metadata and upgrade, which touch none of this.    *)
(***************************************************************************)
EXTENDS Integers

CONSTANTS
    Accounts,       \* addresses that call the contract
    Budgets,        \* the amount of a project, which nothing validates
    Deposits,       \* what fund_project may be called with
    Deadlines,      \* deadline of a project; 0 for none
    MaxBatch,       \* bound: projects of one batch_create_projects
    MaxProjects,    \* bound: the project counter
    InitializedOnce,\* initialize is called once, before anything else
    MaxInits,       \* bound: calls of initialize
    MaxTime         \* bound: the ledger's clock

None == "none"      \* no admin is stored

ASSUME EscrowAssumption ==
    /\ None \notin Accounts
    /\ Budgets \subseteq Int
    /\ Deposits \subseteq Int
    /\ Deadlines \subseteq Nat
    /\ InitializedOnce \in BOOLEAN
    /\ MaxBatch \in Nat /\ MaxProjects \in Nat /\ MaxInits \in Nat /\ MaxTime \in Nat

VARIABLES
    admin,          \* DataKey::Admin
    paused,         \* DataKey::Paused
    locked,         \* DataKey::ReentrancyLock
    projects,       \* DataKey::Project, from ids to projects
    projectCount,   \* DataKey::ProjectCount
    receipts,       \* DataKey::Receipt, from ids to receipts
    receiptCount,   \* DataKey::ReceiptCount
    now,            \* the ledger's clock
    inits,          \* history: calls of initialize
    books           \* history: what was paid in, released and refunded under each id

vars == <<admin, paused, locked, projects, projectCount, receipts, receiptCount, now,
          inits, books>>
storage == <<projects, projectCount, receipts, receiptCount>>

\* InProgress and Verified exist in the type, and no entry point sets them.
ProjectStatus == {"Created", "Funded", "InProgress", "WorkSubmitted", "Verified",
                  "Completed", "Disputed", "Cancelled"}
Project == [client: Accounts, freelancer: Accounts, amount: Int, deposited: Nat,
            status: ProjectStatus, deadline: Nat]
ProjectInput == [freelancer: Accounts, amount: Budgets]
Receipt == [project: Nat, amount: Int, sender: Accounts, recipient: Accounts]
Entry   == [paidIn: Int, released: Int, refunded: Int]
NewEntry == [paidIn |-> 0, released |-> 0, refunded |-> 0]

Init ==
    /\ admin = None
    /\ paused = FALSE
    /\ locked = FALSE
    /\ projects = << >>
    /\ projectCount = 0
    /\ receipts = << >>
    /\ receiptCount = 0
    /\ now = 0
    /\ inits = 0
    /\ books = << >>

\* The map f with the values of g put into it.
Put(f, g) == [k \in DOMAIN f \cup DOMAIN g |-> IF k \in DOMAIN g THEN g[k] ELSE f[k]]

-----------------------------------------------------------------------------
(* The latch, the pause switch and the admin *)

\* _acquire_lock, then the body, then _release_lock, on every way out of a call.
Guarded == ~locked /\ locked' = FALSE

Running == Guarded /\ ~paused       \* _require_not_paused as well

\* Callable at any time, by anyone: the counters start again, what is stored stays.
initialize(a) ==
    /\ inits < MaxInits             \* bound
    /\ InitializedOnce => inits = 0 /\ projectCount = 0
    /\ inits' = inits + 1
    /\ admin' = a
    /\ projectCount' = 0
    /\ receiptCount' = 0
    /\ locked' = FALSE
    /\ paused' = FALSE
    /\ UNCHANGED <<projects, receipts, now, books>>

\* pause and unpause.
set_paused(a, on) ==
    /\ Guarded
    /\ a = admin
    /\ paused' = on
    /\ UNCHANGED <<admin, storage, now, inits, books>>

-----------------------------------------------------------------------------
(* Projects *)

NewProject(client, freelancer, budget, deadline) ==
    [client |-> client, freelancer |-> freelancer, amount |-> budget, deposited |-> 0,
     status |-> "Created", deadline |-> deadline]

\* The next ids go to new projects; what is stored under them is overwritten, and what
\* was paid in and out under them stays on their books.
create(n, new) ==
    LET ids == projectCount + 1 .. projectCount + n
    IN  /\ Running
        /\ projectCount + n <= MaxProjects          \* bound
        /\ projectCount' = projectCount + n
        /\ projects' = Put(projects, [i \in ids |-> new[i - projectCount]])
        /\ books' = Put(books, [i \in ids \ DOMAIN books |-> NewEntry])
        /\ UNCHANGED <<admin, paused, receipts, receiptCount, now, inits>>

create_project(client, input, deadline) ==
    create(1, [i \in 1..1 |-> NewProject(client, input.freelancer, input.amount, deadline)])

\* The projects of a batch have no deadline.
batch_create_projects(client, n, inputs) ==
    create(n, [i \in 1..n |-> NewProject(client, inputs[i].freelancer, inputs[i].amount, 0)])

\* The rest of a call that updates one project.
Update(p, project, entry) ==
    /\ projects' = [projects EXCEPT ![p] = project]
    /\ books' = [books EXCEPT ![p] = entry]
    /\ UNCHANGED <<admin, paused, projectCount, now, inits>>

Funded(project, amount) ==
    LET total == project.deposited + amount
    IN  [project EXCEPT !.deposited = total,
                        !.status = IF total >= project.amount THEN "Funded" ELSE @]

\* Mutant: a funded project takes further deposits while its work is under way.
MutCanFund(project) == project.status \in {"Created", "Disputed"}
CanFund(project) == project.status = "Created"

\* Mutant: the amount of a deposit is not looked at.
MutValidDeposit(amount) == TRUE
ValidDeposit(amount) == amount > 0

fund_project(p, client, amount) ==
    /\ Running
    /\ projects[p].client = client
    /\ CanFund(projects[p])
    /\ ValidDeposit(amount)
    /\ Update(p, Funded(projects[p], amount), [books[p] EXCEPT !.paidIn = @ + amount])
    /\ UNCHANGED <<receipts, receiptCount>>

\* Mutant: work is accepted before the escrow is full.
MutCanSubmit(project) == project.status \in {"Created", "Funded", "InProgress"}
CanSubmit(project) == project.status \in {"Funded", "InProgress"}

submit_work(p, freelancer) ==
    /\ Running
    /\ projects[p].freelancer = freelancer
    /\ CanSubmit(projects[p])
    /\ Update(p, [projects[p] EXCEPT !.status = "WorkSubmitted"], books[p])
    /\ UNCHANGED <<receipts, receiptCount>>

\* Mutant: the deposit stays on the books of a project that is paid out.
MutEmptied(project, status) == [project EXCEPT !.status = status]

\* What is left of a project whose escrow is paid out.
Emptied(project, status) == [project EXCEPT !.deposited = 0, !.status = status]

Release(p) == [books[p] EXCEPT !.released = @ + projects[p].deposited]
Refund(p)  == [books[p] EXCEPT !.refunded = @ + projects[p].deposited]

record_receipt(p) ==
    /\ receiptCount' = receiptCount + 1
    /\ receipts' = Put(receipts, [r \in {receiptCount + 1} |->
                       [project |-> p, amount |-> projects[p].deposited,
                        sender |-> projects[p].client, recipient |-> projects[p].freelancer]])

approve_work(p, client) ==
    /\ Running
    /\ projects[p].client = client
    /\ projects[p].status \in {"WorkSubmitted", "Verified"}
    /\ Update(p, Emptied(projects[p], "Completed"), Release(p))
    /\ record_receipt(p)

\* No status is asked for: a project is disputed also when it is completed or cancelled.
raise_dispute(p, caller) ==
    /\ Running
    /\ caller \in {projects[p].client, projects[p].freelancer}
    /\ Update(p, [projects[p] EXCEPT !.status = "Disputed"], books[p])
    /\ UNCHANGED <<receipts, receiptCount>>

resolve_dispute(p, a, release_to_freelancer) ==
    /\ Running
    /\ a = admin
    /\ projects[p].status = "Disputed"
    /\ IF release_to_freelancer
       THEN Update(p, Emptied(projects[p], "Completed"), Release(p))
       ELSE Update(p, Emptied(projects[p], "Cancelled"), Refund(p))
    /\ UNCHANGED <<receipts, receiptCount>>

Expired(project) ==
    /\ project.deadline # 0
    /\ project.status \notin {"Completed", "Cancelled", "Disputed"}
    /\ now >= project.deadline

\* Callable while paused.
check_deadline(p) ==
    \/ /\ Guarded
       /\ Expired(projects[p])
       /\ Update(p, Emptied(projects[p], "Cancelled"), Refund(p))
       /\ UNCHANGED <<receipts, receiptCount>>
    \/ /\ Guarded
       /\ ~Expired(projects[p])
       /\ UNCHANGED <<admin, paused, storage, now, inits, books>>

Tick ==
    /\ now < MaxTime
    /\ now' = now + 1
    /\ UNCHANGED <<admin, paused, locked, storage, inits, books>>

Next ==
    \/ \E a \in Accounts : initialize(a)
    \/ \E a \in Accounts, on \in BOOLEAN : set_paused(a, on)
    \/ \E client \in Accounts, input \in ProjectInput, deadline \in Deadlines :
          create_project(client, input, deadline)
    \/ \E client \in Accounts, n \in 0..MaxBatch : \E inputs \in [1..n -> ProjectInput] :
          batch_create_projects(client, n, inputs)
    \/ \E p \in DOMAIN projects :
          \/ \E client \in Accounts, amount \in Deposits : fund_project(p, client, amount)
          \/ \E freelancer \in Accounts : submit_work(p, freelancer)
          \/ \E client \in Accounts : approve_work(p, client)
          \/ \E caller \in Accounts : raise_dispute(p, caller)
          \/ \E a \in Accounts, release \in BOOLEAN : resolve_dispute(p, a, release)
          \/ check_deadline(p)
    \/ Tick

Spec == Init /\ [][Next]_vars

-----------------------------------------------------------------------------
(* Correctness *)

TypeOK ==
    /\ admin \in Accounts \cup {None}
    /\ paused \in BOOLEAN /\ locked \in BOOLEAN
    /\ projectCount \in Nat /\ receiptCount \in Nat
    /\ DOMAIN projects \subseteq Nat /\ DOMAIN receipts \subseteq Nat
    /\ projects \in [DOMAIN projects -> Project]
    /\ books \in [DOMAIN projects -> Entry]
    /\ receipts \in [DOMAIN receipts -> Receipt]
    /\ now \in Nat /\ inits \in Nat

\* What was paid in under a project is in its escrow or was paid out, to one side only.
EscrowConserved ==
    \A p \in DOMAIN projects :
        LET book == books[p]
        IN  /\ book.paidIn = projects[p].deposited + book.released + book.refunded
            /\ book.released = 0 \/ book.refunded = 0

\* Under no id more is held and paid out than was paid in, also when initialize was called
\* again and a new project has taken the id: such a reuse loses money and makes none.
NeverOverpaid ==
    \A p \in DOMAIN projects :
        projects[p].deposited + books[p].released + books[p].refunded <= books[p].paidIn

\* A receipt stands for the one payment of its project: it carries all that the client
\* ever paid in, at least the agreed amount, from the client to the freelancer.
ReceiptIsWholePayment ==
    \A r \in DOMAIN receipts :
        LET p == receipts[r].project
        IN  /\ receipts[r].amount = books[p].paidIn
            /\ receipts[r].amount >= projects[p].amount
            /\ receipts[r].sender = projects[p].client
            /\ receipts[r].recipient = projects[p].freelancer
            /\ \A q \in DOMAIN receipts : receipts[q].project = p => q = r

\* The escrow of a project, as EscrowLedger sees it.
Account(i) ==
    IF i \in DOMAIN projects
    THEN [state |-> "open", balance |-> projects[i].deposited,
          released |-> books[i].released, refunded |-> books[i].refunded]
    ELSE [state |-> "none", balance |-> 0, released |-> 0, refunded |-> 0]

Escrows == [i \in 1..MaxProjects |-> Account(i)]

Ledger == INSTANCE EscrowLedger WITH
    Ids <- 1..MaxProjects,
    Amounts <- {d \in Deposits : ValidDeposit(d)},
    account <- Escrows

\* Through disputes, deadlines and repeated disputes of settled projects, every escrow is
\* filled, settled whole to one side and then left alone.
ImplementsLedger == Ledger!Spec
=============================================================================
