--------------------------- MODULE ImprestAccounts ---------------------------
(***************************************************************************)
(* Site cash and staff imprest (controllers/imprest.controller.js,         *)
(* models/Imprest.model.js, controllers/approval.controller.js and the     *)
(* functions and triggers of migrations 125, 195 and 207).                 *)
(*                                                                         *)
(* One site.  Its cash is the Admin's to distribute; a member of staff     *)
(* holds a float.  Handovers, refill requests, claims, returns and         *)
(* expenses are papers: written by one request, decided by another.  Every *)
(* request is a transaction that locks the paper's row, the site's         *)
(* advisory lock and the users' rows in the order of their ids, checks     *)
(* what is available, writes, and lets the foreign keys of what it wrote   *)
(* lock the rows of other users.  A handler's own check and the trigger's  *)
(* check of the same amount are one check here.                            *)
(*                                                                         *)
(* Left out: zero amounts, rounding and dates; the cap of the Admin's cash *)
(* wallet; handovers escrowed by older versions; edits of an expense; the  *)
(* rejection of the expense an approved claim became; references of        *)
(* columns whose declaration is not in the repository.                     *)
(***************************************************************************)
EXTENDS Integers, Sequences, FiniteSets, FiniteSums

CONSTANTS
  Staff,       \* ids of the sub-admins
  Admin,       \* id of the admin, whose account is the site's cash
  Nobody,      \* no user
  Reviewers,   \* users with the permission to review: papers are assigned to them
  Amounts,     \* amounts of money
  Transactions,
  Cash,        \* bound: cash recorded at the site
  Float,       \* what every member of staff holds at first
  Requests,    \* bound: requests that are made
  Removals     \* bound: cash receipts deleted by other modules

Users == Staff \cup {Admin}

ASSUME UsersAssumption ==
  /\ Staff \subseteq Nat /\ Admin \in Nat \ Staff /\ Nobody \notin Users
  /\ Reviewers \subseteq Users
ASSUME AmountsAssumption ==
  /\ Amounts \subseteq Nat \ {0} /\ Cash \in Nat /\ Float \in Nat
  /\ Cardinality(Staff) * Float <= Cash /\ Requests \in Nat /\ Removals \in Nat
ASSUME TablesAssumption == IsFiniteSet(Staff) /\ IsFiniteSet(Transactions)

VARIABLES
  cash,       \* posted cash of the site (ledger_entries, bucket cash)
  posted,     \* imprest_ledger, summed per member of staff
  papers,     \* handovers, requests, returns and expenses, in order of id
  tx,         \* the transactions in progress; history: seen, removed at the check
  requests, removals,  \* still allowed
  removed     \* history: cash deleted by other modules

vars == <<cash, posted, papers, tx, requests, removals, removed>>
books == <<cash, posted, papers>>
bounds == <<requests, removals, removed>>

-----------------------------------------------------------------------------
(* Papers and what a request does to one.                                   *)

Papers == {"handover", "refill", "claim", "return", "expense"}
Direct == {"transfer", "credit", "debit"}

\* from: who gives, asks, returns or spends; held: its reservation.
Paper ==
  [kind : Papers \cup Direct, from : Users, to : Users \cup {Nobody}, amount : Amounts,
   assigned : Reviewers \cup {Nobody}, status : {"pending", "done", "refused"},
   held : Amounts \cup {0}]

\* What may be written: nobody hands over to himself, the Admin issues to
\* staff only and asks for nothing, nobody reviews his own request.
Writable(p) ==
  /\ p.status = "pending" /\ p.held = 0
  /\ p.kind \in {"handover", "transfer"} =>
       p.to \in Users \ {p.from}
  /\ p.kind \in {"refill", "claim", "return"} =>
       p.from \in Staff /\ p.to = Nobody /\ p.assigned # p.from
  /\ p.kind = "expense" => p.to = Nobody
  /\ p.kind \in {"credit", "debit"} => p.from = Admin /\ p.to \in Staff
  /\ p.kind \in Direct => p.assigned = Nobody

Drafts == {p \in Paper : Writable(p)}

\* Who may make a request: staff for themselves, the Admin for anybody.
MayWrite(u, p) == u = p.from \/ (p.kind = "transfer" /\ u = Admin)

\* confirmReceipt; the roles of the routes; approveEntry and rejectEntry, which
\* let the assignee decide, or a sub-admin with the permission if there is none,
\* be it his own expense; canReviewImprestRequest.
MayAccept(u, p) ==
  CASE p.kind = "handover" -> u = p.to
    [] p.kind = "return" -> u = Admin
    [] p.kind = "expense" ->
         u \in {Admin, p.assigned} \/ (p.assigned = Nobody /\ u \in Reviewers)
    [] OTHER -> u = Admin \/ (u = p.assigned /\ u # p.from)

\* A handover is cancelled by its giver or the Admin, declined by its recipient.
MayRefuse(u, p) ==
  IF p.kind = "handover" THEN u \in {p.from, p.to, Admin} ELSE MayAccept(u, p)

\* Mutant: a handover is declined without looking at its status again.
DecidableLate(op, p) ==
  p.status = "pending" \/ (op = "refuse" /\ p.kind \in {"handover", "expense"})

\* Only what is pending is decided; an approved expense may still be rejected.
Decidable(op, p) ==
  \/ p.status = "pending"
  \/ op = "refuse" /\ p.kind = "expense" /\ p.status = "done"

\* A request: op is write, accept or refuse; id is 0 for a new paper.
Job == [op : {"write", "accept", "refuse"}, by : Users, id : 0..Requests, paper : Paper]

\* Whose money is checked: a member of staff's float or the site's cash.
Payer(j) ==
  LET p == j.paper IN
  IF j.op = "refuse" THEN Nobody ELSE
  CASE p.kind = "refill" ->
         IF j.op = "accept" THEN j.by ELSE IF p.assigned \in Staff THEN p.assigned ELSE Admin
    [] p.kind = "claim" /\ j.op = "write" -> Nobody
    [] p.kind = "debit" -> p.to
    [] OTHER -> p.from

\* Who receives it when it moves; Nobody when it is spent.
Receiver(j) ==
  LET p == j.paper IN
  CASE p.kind \in {"handover", "transfer", "credit"} -> p.to
    [] p.kind = "refill" -> p.from
    [] p.kind \in {"return", "debit"} -> Admin
    [] OTHER -> Nobody

MovesMoney(j) == j.op = "accept" \/ j.paper.kind \in Direct
Spends(j) == j.paper.kind \in {"claim", "expense"} /\ j.op = "accept"

-----------------------------------------------------------------------------
(* What is available.                                                       *)

Held(u) ==
  SumOver([i \in DOMAIN papers |-> IF papers[i].from = u THEN papers[i].held ELSE 0], DOMAIN papers)

Promised(p) == p.kind = "handover" /\ p.from = Admin /\ p.status = "pending"
PendingHandovers ==
  SumOver([i \in DOMAIN papers |-> IF Promised(papers[i]) THEN papers[i].amount ELSE 0], DOMAIN papers)

\* A float below zero counts as none.
Floats == SumOver([u \in Staff |-> IF posted[u] > 0 THEN posted[u] ELSE 0], Staff)

\* Mutant: what is reserved by pending expenses may be spent again.
BalancePosted(u) == posted[u]

\* getBalance: the posted float less the reservations.
Balance(u) == posted[u] - Held(u)

\* Mutant: the site's spending reservations are not deducted.
AvailableUnheld == cash - Floats - PendingHandovers

\* siteDistributable, imprest_available_site_cash.
Available == cash - Floats - PendingHandovers - Held(Admin)

\* The paper's own reservation, given back before it is checked.
Own(j) ==
  LET p == j.paper IN
  IF p.kind = "handover" /\ p.from = Admin /\ j.op = "accept" THEN p.amount ELSE p.held

\* spare: what is left out of the comparison.
CoveredBut(j, spare) ==
  CASE Payer(j) = Nobody -> TRUE
    [] Payer(j) = Admin -> j.paper.amount <= Available + Own(j) + spare
    [] OTHER -> j.paper.amount <= Balance(Payer(j)) + Own(j)
Covered(j) == CoveredBut(j, 0)

-----------------------------------------------------------------------------
(* Locks.                                                                   *)

RowOf(i) == <<"paper", i>>
Site == <<"site", 0>>
UserRow(u) == <<"user", u>>
Resources == {RowOf(i) : i \in 1..Requests} \cup {Site} \cup {UserRow(u) : u \in Users}

ForUpdate(r) == [on |-> r, mode |-> "update"]
KeyShare(r) == [on |-> r, mode |-> "key share"]
Locks == [on : Resources, mode : {"update", "key share"}]

\* The users whose rows the request locks for update.
Accounts(j) ==
  LET p == j.paper IN
  IF j.op = "refuse" THEN {u \in {p.from} \cap Staff : p.kind = "expense"} ELSE
  CASE p.kind \in {"transfer", "credit", "debit"} -> {p.from, p.to} \cap Staff
    [] p.kind = "handover" /\ j.op = "write" -> {p.from} \cap Staff
    [] p.kind = "handover" /\ j.op = "accept" -> ({p.from} \cap Staff) \cup {p.to}
    [] p.kind = "refill" /\ j.op = "write" -> {Payer(j)} \cap Staff
    [] p.kind = "refill" /\ j.op = "accept" -> ({j.by} \cap Staff) \cup {p.from}
    [] p.kind = "claim" /\ j.op = "write" -> {}
    [] OTHER -> {p.from}

\* Mutant: an expense of the Admin is recorded without the site lock.
LocksSiteToIssue(j) == Payer(j) = Admin /\ j.paper.kind # "expense"

\* reconcile_imprest_debit also takes the site lock to release a reservation.
LocksSite(j) == Payer(j) = Admin \/ (j.paper.from = Admin /\ j.paper.held > 0)

\* Foreign keys of the rows written before the accounts are locked: the
\* reviewer of a return, the assignee of an expense of the Admin.
EarlyReferences(j) ==
  LET p == j.paper IN
  CASE p.kind = "return" /\ j.op # "write" -> {j.by}
    [] p.kind = "expense" /\ p.from = Admin /\ j.op = "write" -> {p.assigned}
    [] OTHER -> {}

\* ... and of those written after the check.
LateReferences(j) ==
  LET p == j.paper
      written == CASE p.kind = "transfer" -> {p.from, p.to, j.by}
                   [] \/ p.kind \in Papers /\ j.op = "write"
                      \/ p.kind \in {"refill", "claim"} /\ j.op = "accept" -> {p.assigned}
                   [] OTHER -> {}
  IN written \ (Accounts(j) \cup {Nobody})

RowLock(j) == {ForUpdate(RowOf(i)) : i \in {j.id} \ {0}}
SiteLock(j) == IF LocksSite(j) THEN {ForUpdate(Site)} ELSE {}
Shares(S) == {KeyShare(UserRow(u)) : u \in S \ {Nobody}}
LockPlan(j) ==
  RowLock(j) \cup Shares(EarlyReferences(j)) \cup SiteLock(j)
    \cup {ForUpdate(UserRow(u)) : u \in Accounts(j)}

\* The paper's row, what its row refers to, the site, the accounts.
Class(l) ==
  CASE l.on[1] = "paper"    -> 1
    [] l.mode = "key share" -> 2
    [] l.on[1] = "site"     -> 3
    [] OTHER                -> 4

\* Mutant: the accounts are locked in any order.
BeforeUnsorted(l, m) == Class(l) < Class(m)

\* The accounts are locked in the order of their ids.
Before(l, m) ==
  Class(l) < Class(m) \/ (Class(l) = 4 /\ Class(m) = 4 /\ l.on[2] < m.on[2])

Firsts(locks) == {l \in locks : \A m \in locks : ~Before(m, l)}

Conflict(a, b) == a.on = b.on /\ "update" \in {a.mode, b.mode}

\* Nobody else holds a lock that t could not take l beside.
Free(t, l) == \A u \in Transactions \ {t} : \A m \in tx[u].held : ~Conflict(m, l)

\* t waits for a lock u holds.
WaitsFor(t, u) ==
  t # u /\ \E l \in Firsts(tx[t].todo), m \in tx[u].held : Conflict(m, l)

-----------------------------------------------------------------------------
(* One transaction per request.                                             *)

NoTransaction == [phase |-> "idle", job |-> <<>>, todo |-> {}, held |-> {}, seen |-> 0]

\* A request waits for its first lock, if it takes any, holding none, as if it
\* had not come yet; the status of a paper is looked at with its row locked.
Begin(t, job) ==
  LET plan == LockPlan(job) IN
  /\ tx[t] = NoTransaction /\ requests > 0 /\ requests' = requests - 1
  /\ \E first \in {{l} : l \in Firsts(plan)} \cup {{}} :
       /\ first = {} => plan = {}
       /\ \A l \in first : Free(t, l)
       /\ tx' = [tx EXCEPT ![t] = [phase |-> "locking", job |-> job, held |-> first,
                                   todo |-> plan \ first, seen |-> 0]]
  /\ UNCHANGED <<books, removals, removed>>

\* createAllocation, createTransfer, createExpenseRequest,
\* createExpenseFromImprest, adjustBalance, createReturn, an Admin's expense.
Write(t, u, p) ==
  /\ MayWrite(u, p)
  /\ Begin(t, [op |-> "write", by |-> u, id |-> 0, paper |-> p])

\* confirmReceipt, approveExpenseRequest, acceptReturn, approveEntry.
Accept(t, u, i) ==
  /\ MayAccept(u, papers[i]) /\ Decidable("accept", papers[i])
  /\ Begin(t, [op |-> "accept", by |-> u, id |-> i, paper |-> papers[i]])

\* cancelAllocation, declineReceipt, rejectExpenseRequest, rejectReturn, rejectEntry.
Refuse(t, u, i) ==
  /\ MayRefuse(u, papers[i]) /\ Decidable("refuse", papers[i])
  /\ Begin(t, [op |-> "refuse", by |-> u, id |-> i, paper |-> papers[i]])

Acquire(t) ==
  /\ \E l \in Firsts(tx[t].todo) :
       /\ Free(t, l)
       /\ tx' = [tx EXCEPT ![t].todo = @ \ {l}, ![t].held = @ \cup {l}]
  /\ UNCHANGED <<books, bounds>>

Rollback(t) == tx' = [tx EXCEPT ![t] = NoTransaction] /\ UNCHANGED <<books, bounds>>

\* All accounts are locked: the balances are read and compared, the rows are
\* written and wait for what they refer to.
Check(t) ==
  /\ tx[t].phase = "locking" /\ tx[t].todo = {} /\ Covered(tx[t].job)
  /\ LateReferences(tx[t].job) # {}
  /\ tx' = [tx EXCEPT ![t].phase = "writing", ![t].seen = removed,
                      ![t].todo = Shares(LateReferences(tx[t].job))]
  /\ UNCHANGED <<books, bounds>>

TurnDown(t) ==
  /\ tx[t].phase = "locking" /\ tx[t].todo = {} /\ ~Covered(tx[t].job)
  /\ Rollback(t)

\* The paper after the request; the reservation follows the expense's status.
After(j) ==
  [j.paper EXCEPT
     !.status = CASE j.op = "write" -> "pending" [] j.op = "accept" -> "done"
                  [] j.op = "refuse" -> "refused",
     !.held = IF j.op = "write" /\ j.paper.kind = "expense" THEN j.paper.amount ELSE 0]

\* Rejecting an approved expense gives back what it took.
Restores(j) == j.op = "refuse" /\ j.paper.kind = "expense" /\ j.paper.status = "done"

Posted(j) ==
  LET gain(u) == IF \/ MovesMoney(j) /\ u = Receiver(j)
                    \/ Restores(j) /\ u = j.paper.from
                 THEN j.paper.amount ELSE 0
      loss(u) == IF MovesMoney(j) /\ u = Payer(j) THEN j.paper.amount ELSE 0
  IN [u \in Staff |-> posted[u] + gain(u) - loss(u)]

Commit(t) ==
  LET j == tx[t].job IN
  /\ tx[t].todo = {}
  /\ \/ tx[t].phase = "writing"
     \/ tx[t].phase = "locking" /\ Covered(j) /\ LateReferences(j) = {}
  /\ posted' = Posted(j)
  /\ cash' = cash + (IF Restores(j) THEN j.paper.amount ELSE 0)
                  - (IF Spends(j) THEN j.paper.amount ELSE 0)
  /\ papers' = CASE j.id # 0 -> [papers EXCEPT ![j.id] = After(j)]
                 [] j.id = 0 /\ j.paper.kind \in Papers -> Append(papers, After(j))
                 [] OTHER -> papers
  /\ tx' = [tx EXCEPT ![t] = NoTransaction]
  /\ UNCHANGED bounds

\* Transactions that wait for one another; PostgreSQL aborts one of them.
Deadlocked(S) == S # {} /\ \A t \in S : \E u \in S : WaitsFor(t, u)
DeadlockVictim(t) == (\E S \in SUBSET Transactions : t \in S /\ Deadlocked(S)) /\ Rollback(t)

\* Another module deletes a cash receipt of the site.
RemoveReceipt(a) ==
  /\ removals > 0 /\ removals' = removals - 1
  /\ cash' = cash - a /\ removed' = removed + a
  /\ UNCHANGED <<posted, papers, tx, requests>>

-----------------------------------------------------------------------------
Init ==
  /\ cash = Cash /\ posted = [u \in Staff |-> Float] /\ papers = <<>>
  /\ tx = [t \in Transactions |-> NoTransaction]
  /\ requests = Requests /\ removals = Removals /\ removed = 0

Step(t) == Acquire(t) \/ Check(t) \/ TurnDown(t) \/ Commit(t)

Next ==
  \/ \E t \in Transactions, u \in Users :
       \/ \E p \in Drafts : Write(t, u, p)
       \/ \E i \in DOMAIN papers : Accept(t, u, i) \/ Refuse(t, u, i)
  \/ \E t \in Transactions : Step(t) \/ DeadlockVictim(t)
  \/ \E a \in Amounts : RemoveReceipt(a)

Spec == Init /\ [][Next]_vars

-----------------------------------------------------------------------------
\* Every variable stays in its domain; a rejected expense never returns more
\* cash than the site had.
TypeOK ==
  /\ cash \in Int /\ cash <= Cash /\ posted \in [Staff -> Int] /\ papers \in Seq(Paper)
  /\ tx \in [Transactions -> [phase : {"idle", "locking", "writing"}, job : Job \cup {<<>>},
                              todo : SUBSET Locks, held : SUBSET Locks, seen : 0..removed]]
  /\ \A t \in Transactions : tx[t].phase # "idle" => tx[t].job \in Job
  /\ requests \in 0..Requests /\ removals \in 0..Removals /\ removed \in Nat

\* The cash that staff hold, that is on its way to staff and that is reserved
\* for the Admin's expenses never exceeds the cash of the site, except by cash
\* whose receipt another module deleted (lockSiteDistribution and the checks
\* of siteDistributable and require_imprest_site_cash).
SiteNotOverIssued == Floats + PendingHandovers + Held(Admin) <= cash + removed

\* A member of staff can always pay what his pending expenses reserved,
\* whatever he hands over, returns or is debited meanwhile
\* (reconcile_imprest_debit and the checks of getBalance).
StaffCovered == \A u \in Staff : posted[u] >= Held(u)
AccountsSound == TypeOK /\ StaffCovered

\* What a request checked is still true when its rows are written: nobody else
\* takes the money while it waits for the rows it refers to, save cash whose
\* receipt another module deletes (the locks taken before every check).
CheckStillHolds ==
  \A t \in Transactions : tx[t].phase = "writing" =>
    CoveredBut(tx[t].job, removed - tx[t].seen)

\* What was accepted, declined or cancelled stays so, except that an approved
\* expense may be rejected ("acceptance is final", declineReceipt).
AcceptanceIsFinal ==
  [][\A i \in DOMAIN papers : papers[i].status # "pending" =>
       \/ papers'[i] = papers[i]
       \/ papers[i].kind = "expense" /\ papers[i].status = "done"]_vars

\* t waits, for a lock the code takes for update, for one u holds that way.
ExplicitlyWaitsFor(t, u) ==
  t # u /\ \E l \in Firsts(tx[t].todo) \cap tx[u].held : l.mode = "update"

\* The locks the code takes for update are ordered: in a cycle somebody always
\* waits for, or is kept waiting by, a lock of a foreign key, whatever such
\* locks the transactions hold besides (lockImprestAccounts, the order of site
\* before accounts in createTransfer and reconcile_imprest_debit).
ExplicitLocksOrdered ==
  \A S \in (SUBSET Transactions) \ {{}} :
    \E t \in S : \A u \in S : ~ExplicitlyWaitsFor(t, u)

\* Transactions never wait for one another ("serializes simultaneous debits,
\* allocations, transfers, returns and adjustments without deadlocks",
\* migration 125).
WithoutDeadlocks == \A S \in SUBSET Transactions : ~Deadlocked(S)
=============================================================================
