---------------------------- MODULE ImprestProofs ----------------------------
(***************************************************************************)
(* Proofs about imprest: the cash of a site and the floats of its staff,   *)
(* for any staff, requests and amounts, and the signals of the inbox where *)
(* imprest is decided, for any servers, job slots, rows and faults.        *)
(*                                                                         *)
(* Accounts: what a request may still spend is what it compared, because   *)
(* nobody else can lower it.  A commit lowers the cash of the site by what *)
(* its payer, the Admin, has checked under the site lock, and a float by   *)
(* what its owner has checked under the lock of his row.                   *)
(* Signals: a row is locked from its claim to the end of its transaction,  *)
(* and whoever must hear of it is still to do while it is.                 *)
(***************************************************************************)
EXTENDS ImprestAccounts, WalletImprestOutbox, FiniteSetFacts

-----------------------------------------------------------------------------
(*                     Site cash and staff imprest                          *)

(* What a paper counts for: the reservations of a user, what is on its way  *)
(* to staff, what was spent and can still be given back.                    *)
HeldBy(u) == [p \in Paper |-> IF p.from = u THEN p.held ELSE 0]
PromisedAmount == [p \in Paper |-> IF Promised(p) THEN p.amount ELSE 0]
SpentAmount == [p \in Paper |-> IF p.kind = "expense" /\ p.status = "done" THEN p.amount ELSE 0]
Total(W, s) == SumOver([i \in DOMAIN s |-> W[s[i]]], DOMAIN s)

(* A paper in the books: only a pending expense reserves its amount.        *)
Filed(p) ==
  /\ p.kind \in Papers
  /\ p.kind = "handover" => p.to \in Users \ {p.from}
  /\ p.kind \in {"refill", "claim", "return"} => p.from \in Staff
  /\ p.held = IF p.kind = "expense" /\ p.status = "pending" THEN p.amount ELSE 0
PapersFiled == \A i \in DOMAIN papers : Filed(papers[i])

(* A request works on a new paper, or on the paper as it is in the books.   *)
Prepared(j) ==
  /\ j.op = "write" <=> j.id = 0
  /\ j.op = "write" => Writable(j.paper)
  /\ j.op # "write" => /\ j.id \in DOMAIN papers /\ j.paper = papers[j.id]
                       /\ Decidable(j.op, j.paper)

(* A transaction has taken the locks of its plan in order, its paper's row  *)
(* before anything else; when it checks it has taken them all.              *)
Locking(t) ==
  LET j == tx[t].job
      held == tx[t].held
      todo == tx[t].todo IN
  /\ LockPlan(j) \subseteq held \cup todo
  /\ tx[t].phase = "locking" => held \cup todo \subseteq LockPlan(j)
  /\ tx[t].phase = "writing" => LockPlan(j) \subseteq held /\ \A l \in todo : l.mode = "key share"
  /\ RowLock(j) \subseteq held
  /\ \A l \in held, m \in todo : l.mode = "update" /\ m.mode = "update" => Before(l, m)

Underway(t) ==
  IF tx[t].phase = "idle" THEN tx[t] = NoTransaction ELSE Prepared(tx[t].job) /\ Locking(t)

NoConflict ==
  \A t, u \in Transactions : t # u =>
    \A l \in tx[t].held, m \in tx[u].held : ~Conflict(l, m)

Busy == [t \in Transactions |-> IF tx[t] = NoTransaction THEN 0 ELSE 1]

(* Every request writes one paper at most.                                  *)
Counted == Len(papers) + SumOver(Busy, Transactions) + requests <= Requests

(* What rejected expenses may give back never exceeds what was spent.       *)
GivenBack == cash + Total(SpentAmount, papers) <= Cash

LockInv ==
  /\ TypeOK
  /\ PapersFiled
  /\ \A t \in Transactions : Underway(t)
  /\ NoConflict
  /\ Counted

IInv == LockInv /\ GivenBack /\ StaffCovered /\ SiteNotOverIssued /\ CheckStillHolds

-----------------------------------------------------------------------------
(* Sums over papers.                                                        *)

LEMMA PaperTypes ==
  \A p \in Paper : /\ p.amount \in Nat /\ p.amount > 0 /\ p.held \in Nat
                    /\ p.from \in Users /\ p.to \in Users \cup {Nobody}
                    /\ p.assigned \in Users \cup {Nobody}
<1>1. \A a \in Amounts : a \in Nat /\ a > 0
  BY AmountsAssumption
<1>2. Reviewers \subseteq Users
  BY UsersAssumption
<1>3. \A p \in Paper : /\ p.amount \in Amounts /\ p.held \in Amounts \cup {0}
                        /\ p.from \in Users /\ p.to \in Users \cup {Nobody}
                        /\ p.assigned \in Reviewers \cup {Nobody}
  BY DEF Paper
<1> TAKE p \in Paper
<1>4. p.amount \in Nat /\ p.amount > 0 /\ p.held \in Nat
  BY <1>1, <1>3
<1>5. p.assigned \in Users \cup {Nobody}
  BY <1>2, <1>3
<1> QED
  BY <1>3, <1>4, <1>5

LEMMA WeightTypes ==
  /\ \A u : HeldBy(u) \in [Paper -> Nat]
  /\ PromisedAmount \in [Paper -> Nat] /\ SpentAmount \in [Paper -> Nat]
<1>1. \A p \in Paper : p.amount \in Nat /\ p.held \in Nat
  BY PaperTypes
<1> QED
  BY <1>1 DEF HeldBy, PromisedAmount, SpentAmount

LEMMA TotalType ==
  ASSUME NEW s \in Seq(Paper), NEW W \in [Paper -> Nat]
  PROVE  Total(W, s) \in Nat /\ IsFiniteSet(DOMAIN s)
<1> DEFINE f == [i \in DOMAIN s |-> W[s[i]]]
<1>1. IsFiniteSet(DOMAIN s)
  BY FS_Interval
<1>2. \A i \in DOMAIN s : f[i] \in Nat
  OBVIOUS
<1> HIDE DEF f
<1>3. SumOver(f, DOMAIN s) \in Nat
  BY <1>1, <1>2, SumNatural
<1> QED
  BY <1>1, <1>3 DEF f, Total

(* Rewriting a paper replaces what it counts for.                           *)
LEMMA TotalOfRewritten ==
  ASSUME NEW s \in Seq(Paper), NEW W \in [Paper -> Nat], NEW k \in DOMAIN s, NEW p \in Paper
  PROVE  Total(W, [s EXCEPT ![k] = p]) = Total(W, s) - W[s[k]] + W[p]
<1> DEFINE r == [s EXCEPT ![k] = p]
           D == DOMAIN s
           f == [i \in D |-> W[s[i]]]
           g == [i \in D |-> W[r[i]]]
<1>1. IsFiniteSet(D) /\ k \in D
  BY TotalType
<1>2. DOMAIN r = D
  OBVIOUS
<1>3. f[k] = W[s[k]] /\ g[k] = W[p]
  OBVIOUS
<1>4. DifferAt(k, f, g, D)
  BY <1>1 DEF DifferAt
<1>5. Total(W, s) = SumOver(f, D) /\ Total(W, r) = SumOver(g, D)
  BY <1>2 DEF Total
<1> HIDE DEF f, g, r, D
<1>6. SumOver(g, D) = SumOver(f, D) - f[k] + g[k]
  BY <1>4, SumDiffers, Zenon
<1> QED
  BY <1>3, <1>5, <1>6 DEF r

(* A new paper adds what it counts for.                                     *)
LEMMA TotalOfFiled ==
  ASSUME NEW s \in Seq(Paper), NEW W \in [Paper -> Nat], NEW p \in Paper
  PROVE  Total(W, Append(s, p)) = Total(W, s) + W[p]
<1> DEFINE r == Append(s, p)
           k == Len(s) + 1
           D == DOMAIN s
           f == [i \in D |-> W[s[i]]]
           g == [i \in DOMAIN r |-> W[r[i]]]
<1>1. IsFiniteSet(D)
  BY TotalType
<1>2. DOMAIN r = D \cup {k} /\ k \notin D
  OBVIOUS
<1>3. \A i \in D : f[i] \in Int /\ g[i] = f[i]
  BY <1>2
<1>4. g[k] = W[p] /\ g[k] \in Int
  <2>1. r[k] = p /\ k \in DOMAIN r
    OBVIOUS
  <2>2. W[p] \in Int
    OBVIOUS
  <2> HIDE DEF r, k
  <2> QED
    BY <2>1, <2>2
<1>5. Total(W, s) = SumOver(f, D) /\ Total(W, r) = SumOver(g, D \cup {k})
  BY <1>2 DEF Total
<1> HIDE DEF f, g, r, k, D
<1>6. SumOver(g, D \cup {k}) = SumOver(f, D) + g[k]
  BY <1>1, <1>2, <1>3, <1>4, SumAdd
<1> QED
  BY <1>4, <1>5, <1>6 DEF r

(* The model's sums are such sums.                                          *)
LEMMA Readings ==
  ASSUME NEW s \in Seq(Paper)
  PROVE  /\ \A u : SumOver([i \in DOMAIN s |-> IF s[i].from = u THEN s[i].held ELSE 0], DOMAIN s)
                  = Total(HeldBy(u), s)
         /\ SumOver([i \in DOMAIN s |-> IF Promised(s[i]) THEN s[i].amount ELSE 0], DOMAIN s)
              = Total(PromisedAmount, s)
<1>1. \A i \in DOMAIN s : s[i] \in Paper
  OBVIOUS
<1>2. \A u : [i \in DOMAIN s |-> IF s[i].from = u THEN s[i].held ELSE 0]
             = [i \in DOMAIN s |-> HeldBy(u)[s[i]]]
  BY <1>1 DEF HeldBy
<1>3. [i \in DOMAIN s |-> IF Promised(s[i]) THEN s[i].amount ELSE 0]
        = [i \in DOMAIN s |-> PromisedAmount[s[i]]]
  BY <1>1 DEF PromisedAmount
<1> QED
  BY <1>2, <1>3 DEF Total

LEMMA Reserved ==
  ASSUME papers \in Seq(Paper)
  PROVE  /\ \A u : Held(u) = Total(HeldBy(u), papers) /\ Held(u) \in Nat
         /\ PendingHandovers = Total(PromisedAmount, papers) /\ PendingHandovers \in Nat
<1>1. \A u : Total(HeldBy(u), papers) \in Nat
  BY WeightTypes, TotalType
<1>2. Total(PromisedAmount, papers) \in Nat
  BY WeightTypes, TotalType
<1> QED
  BY <1>1, <1>2, Readings DEF Held, PendingHandovers

(* Floats that are covered are counted in full.                             *)
LEMMA CoveredFloats ==
  ASSUME NEW f \in [Staff -> Int], \A u \in Staff : f[u] >= 0
  PROVE  SumOver([u \in Staff |-> IF f[u] > 0 THEN f[u] ELSE 0], Staff) = SumOver(f, Staff)
<1> DEFINE g == [u \in Staff |-> IF f[u] > 0 THEN f[u] ELSE 0]
<1>1. \A u \in Staff : g[u] = f[u]
  OBVIOUS
<1> HIDE DEF g
<1>2. SumOver(g, Staff) = SumOver(f, Staff)
  BY <1>1, TablesAssumption, SumAgree
<1> QED
  BY <1>2 DEF g

-----------------------------------------------------------------------------
(* What is known of a request that is in progress, and of its locks.        *)

Proper(j) ==
  LET p == j.paper IN
  /\ j \in Job
  /\ j.op = "write" <=> j.id = 0
  /\ j.op = "write" => p.status = "pending"
  /\ j.op # "write" => /\ p.kind \in Papers
                       /\ \/ p.status = "pending"
                          \/ j.op = "refuse" /\ p.kind = "expense" /\ p.status = "done"
  /\ p.kind \in {"handover", "transfer"} => p.to \in Users \ {p.from}
  /\ p.kind \in {"refill", "claim", "return"} => p.from \in Staff
  /\ p.kind \in {"credit", "debit"} => p.from = Admin /\ p.to \in Staff
  /\ p.held = IF j.op # "write" /\ p.kind = "expense" /\ p.status = "pending" THEN p.amount ELSE 0

LEMMA PreparedIsProper ==
  ASSUME papers \in Seq(Paper), PapersFiled, NEW j \in Job, Prepared(j)
  PROVE  Proper(j)
<1>1. CASE j.op = "write"
  BY <1>1 DEF Proper, Prepared, Writable
<1>2. CASE j.op # "write"
  <2>1. j.id \in DOMAIN papers /\ j.paper = papers[j.id] /\ Decidable(j.op, j.paper) /\ Filed(j.paper)
    BY <1>2 DEF Prepared, PapersFiled
  <2>2. j.paper.kind \in Papers
    BY <2>1 DEF Filed
  <2>3. j.id # 0
    BY <1>2 DEF Prepared
  <2> QED
    BY <1>2, <2>1, <2>2, <2>3 DEF Proper, Filed, Decidable, Papers
<1> QED
  BY <1>1, <1>2

LEMMA RequestTypes ==
  \A j \in Job : /\ j.op \in {"write", "accept", "refuse"} /\ j.by \in Users
                 /\ j.id \in 0..Requests /\ j.paper \in Paper
                 /\ j.paper.kind \in Papers \cup Direct
  BY DEF Job, Paper

(* Whoever pays is locked: the site for the Admin, his row for the others.  *)
LEMMA PayerIsLocked ==
  ASSUME NEW j, Proper(j)
  PROVE  /\ Payer(j) \in Users \cup {Nobody}
         /\ Payer(j) \in Staff => Payer(j) \in Accounts(j)
         /\ Payer(j) = Admin => LocksSite(j)
<1>1. /\ j.op \in {"write", "accept", "refuse"} /\ j.by \in Users
      /\ j.paper.kind \in Papers \cup Direct
      /\ j.paper.from \in Users /\ j.paper.to \in Users \cup {Nobody}
  BY RequestTypes, PaperTypes DEF Proper
<1>2. Users = Staff \cup {Admin} /\ Nobody \notin Users /\ Admin \notin Staff
  BY UsersAssumption DEF Users
<1>3. Payer(j) = Admin => LocksSite(j)
  BY DEF LocksSite
<1>4. Payer(j) \in Users \cup {Nobody}
  BY <1>1, <1>2 DEF Payer, Proper, Papers, Direct
<1>5. Payer(j) \in Staff => Payer(j) \in Accounts(j)
  BY <1>1, <1>2 DEF Payer, Accounts, Proper, Papers, Direct
<1> QED
  BY <1>3, <1>4, <1>5

LEMMA AccountsAreUsers ==
  ASSUME NEW j, Proper(j)
  PROVE  /\ Accounts(j) \subseteq Users
         /\ EarlyReferences(j) \subseteq Users \cup {Nobody}
         /\ LateReferences(j) \subseteq Users
<1>1. /\ j.op \in {"write", "accept", "refuse"} /\ j.by \in Users
      /\ j.paper.kind \in Papers \cup Direct
      /\ j.paper.from \in Users /\ j.paper.to \in Users \cup {Nobody}
      /\ j.paper.assigned \in Users \cup {Nobody}
  BY RequestTypes, PaperTypes DEF Proper
<1>2. Users = Staff \cup {Admin}
  BY DEF Users
<1>3. Accounts(j) \subseteq Users
  BY <1>1, <1>2 DEF Accounts, Proper
<1>4. EarlyReferences(j) \subseteq Users \cup {Nobody}
  BY <1>1 DEF EarlyReferences
<1>5. LateReferences(j) \subseteq Users
  BY <1>1 DEF LateReferences
<1> QED
  BY <1>3, <1>4, <1>5

(* The locks of a plan, one by one.                                         *)
LEMMA PlanLocks ==
  ASSUME NEW j, Proper(j), NEW l \in LockPlan(j)
  PROVE  /\ l \in Locks
         /\ \/ l = ForUpdate(RowOf(j.id)) /\ j.id # 0
            \/ \E u \in Users : l = KeyShare(UserRow(u))
            \/ l = ForUpdate(Site)
            \/ \E u \in Users : l = ForUpdate(UserRow(u))
<1>1. /\ Accounts(j) \subseteq Users
      /\ EarlyReferences(j) \subseteq Users \cup {Nobody}
      /\ j.id \in 0..Requests /\ Requests \in Nat
  BY AccountsAreUsers, RequestTypes, AmountsAssumption DEF Proper
<1>2. \/ l = ForUpdate(RowOf(j.id)) /\ j.id # 0
      \/ \E u \in Users : l = KeyShare(UserRow(u))
      \/ l = ForUpdate(Site)
      \/ \E u \in Users : l = ForUpdate(UserRow(u))
  BY <1>1 DEF LockPlan, RowLock, SiteLock, Shares
<1>3. j.id # 0 => RowOf(j.id) \in Resources
  BY <1>1 DEF Resources
<1>4. Site \in Resources /\ \A u \in Users : UserRow(u) \in Resources
  BY DEF Resources
<1>5. \A r \in Resources : ForUpdate(r) \in Locks /\ KeyShare(r) \in Locks
  BY DEF Locks, ForUpdate, KeyShare
<1>6. l \in Locks
  BY <1>2, <1>3, <1>4, <1>5
<1> QED
  BY <1>2, <1>6

(* The classes of locks, and the order of those that are taken for update.  *)
LEMMA LockClasses ==
  /\ \A i : Class(ForUpdate(RowOf(i))) = 1 /\ ForUpdate(RowOf(i)).mode = "update"
  /\ \A u : Class(KeyShare(UserRow(u))) = 2 /\ KeyShare(UserRow(u)).mode = "key share"
  /\ Class(ForUpdate(Site)) = 3 /\ ForUpdate(Site).mode = "update"
  /\ \A u : /\ Class(ForUpdate(UserRow(u))) = 4 /\ ForUpdate(UserRow(u)).mode = "update"
            /\ ForUpdate(UserRow(u)).on[2] = u
  BY DEF Class, ForUpdate, KeyShare, RowOf, Site, UserRow

LEMMA PlanOrdered ==
  ASSUME NEW j, Proper(j)
  PROVE  /\ \A l, m \in LockPlan(j) : l.mode = "update" /\ m.mode = "update" =>
              l = m \/ Before(l, m) \/ Before(m, l)
         /\ \A r \in RowLock(j), l \in LockPlan(j) : l = r \/ Before(r, l)
<1> DEFINE row == ForUpdate(RowOf(j.id))
           Kind(l) == \/ l = row \/ l = ForUpdate(Site)
                      \/ \E u \in Users : l = ForUpdate(UserRow(u))
<1>1. Users \subseteq Nat
  BY UsersAssumption DEF Users
<1>2. \A l \in LockPlan(j) : Kind(l) \/ \E u \in Users : l = KeyShare(UserRow(u))
  BY PlanLocks
<1>3. \A l \in LockPlan(j) : l.mode = "update" => Kind(l)
  <2> TAKE l \in LockPlan(j)
  <2>1. ASSUME NEW u \in Users, l = KeyShare(UserRow(u)) PROVE l.mode # "update"
    <3>1. KeyShare(UserRow(u)).mode = "key share"
      BY LockClasses
    <3> QED
      BY <2>1, <3>1
  <2> HIDE DEF Kind
  <2> QED
    BY <1>2, <2>1
<1>4. \A l : Kind(l) => \/ Class(l) = 1 /\ l = row
                        \/ Class(l) = 3 /\ l = ForUpdate(Site)
                        \/ Class(l) = 4 /\ \E u \in Users : l = ForUpdate(UserRow(u))
  BY LockClasses
<1>5. \A l, m : Kind(l) /\ Kind(m) /\ Class(l) = Class(m) =>
        \/ l = m
        \/ \E u, v \in Users : l = ForUpdate(UserRow(u)) /\ m = ForUpdate(UserRow(v))
  <2> HIDE DEF Kind, row
  <2> QED
    BY <1>4
<1>6. \A u, v \in Users : LET l == ForUpdate(UserRow(u))
                             m == ForUpdate(UserRow(v))
                         IN l = m \/ Before(l, m) \/ Before(m, l)
  <2> TAKE u, v \in Users
  <2> DEFINE l == ForUpdate(UserRow(u))
             m == ForUpdate(UserRow(v))
  <2>1. Class(l) = 4 /\ Class(m) = 4 /\ l.on[2] = u /\ m.on[2] = v
    BY LockClasses
  <2>2. u = v \/ u < v \/ v < u
    BY <1>1
  <2> HIDE DEF l, m
  <2>3. u # v => Before(l, m) \/ Before(m, l)
    BY <2>1, <2>2 DEF Before
  <2> QED
    BY <2>3 DEF l, m
<1> HIDE DEF Kind
<1>7. \A l, m : Class(l) \in {1, 3, 4} /\ Class(m) \in {1, 3, 4} /\ Class(l) # Class(m) =>
        Before(l, m) \/ Before(m, l)
  BY DEF Before
<1>8. \A l, m \in LockPlan(j) : l.mode = "update" /\ m.mode = "update" =>
        l = m \/ Before(l, m) \/ Before(m, l)
  BY <1>3, <1>4, <1>5, <1>6, <1>7
<1>9. ASSUME NEW r \in RowLock(j), NEW l \in LockPlan(j)
      PROVE  l = r \/ Before(r, l)
  <2>1. r = row /\ Class(r) = 1
    BY LockClasses DEF RowLock
  <2>2. l = row \/ Class(l) \in {2, 3, 4}
    <3>1. \/ l = row \/ l = ForUpdate(Site)
          \/ \E u \in Users : l = ForUpdate(UserRow(u))
          \/ \E u \in Users : l = KeyShare(UserRow(u))
      BY <1>2 DEF Kind
    <3> HIDE DEF row
    <3> QED
      BY <3>1, LockClasses
  <2> QED
    BY <2>1, <2>2 DEF Before
<1> QED
  BY <1>8, <1>9

-----------------------------------------------------------------------------
(* Steps of one transaction that leave the books alone.                     *)

TxRecords == [phase : {"idle", "locking", "writing"}, job : Job \cup {<<>>},
              todo : SUBSET Locks, held : SUBSET Locks, seen : 0..removed]
Load(x) == IF x = NoTransaction THEN 0 ELSE 1

(* The number of transactions in progress follows the one that moves.       *)
LEMMA BusyStep ==
  ASSUME TypeOK, NEW t \in Transactions, NEW x, tx' = [tx EXCEPT ![t] = x]
  PROVE  /\ SumOver(Busy, Transactions) \in Nat
         /\ SumOver(Busy', Transactions) = SumOver(Busy, Transactions) - Load(tx[t]) + Load(x)
<1> DEFINE f == Busy
           g == Busy'
<1>1. f[t] = Load(tx[t]) /\ g[t] = Load(x)
  BY DEF TypeOK, Busy, Load
<1>2. \A u \in Transactions : f[u] \in Nat /\ f[u] \in Int /\ g[u] \in Int
  BY DEF Busy
<1>3. \A u \in Transactions \ {t} : g[u] = f[u]
  BY DEF TypeOK, Busy
<1> HIDE DEF f, g
<1>4. DifferAt(t, f, g, Transactions)
  BY <1>2, <1>3, TablesAssumption DEF DifferAt
<1>5. SumOver(g, Transactions) = SumOver(f, Transactions) - f[t] + g[t]
  BY <1>4, SumDiffers, Zenon
<1>6. SumOver(f, Transactions) \in Nat
  BY <1>2, TablesAssumption, SumNatural
<1> QED
  BY <1>1, <1>5, <1>6 DEF f, g

LEMMA OneMoves ==
  ASSUME LockInv, NEW t \in Transactions, NEW x \in TxRecords, tx' = [tx EXCEPT ![t] = x],
         UNCHANGED <<books, removals, removed>>, requests' \in 0..Requests,
         x.phase # "idle" => x.job \in Job,
         Underway(t)',
         \A u \in Transactions \ {t} : \A l \in x.held, m \in tx[u].held : ~Conflict(l, m),
         requests' + Load(x) <= requests + Load(tx[t])
  PROVE  LockInv'
<1>1. /\ TypeOK /\ PapersFiled /\ NoConflict /\ Counted
      /\ \A u \in Transactions : Underway(u)
  BY DEF LockInv
<1>2. tx'[t] = x /\ \A u \in Transactions \ {t} : tx'[u] = tx[u]
  BY <1>1 DEF TypeOK
<1>3. TypeOK'
  <2>1. tx' \in [Transactions -> TxRecords']
    BY <1>1 DEF TypeOK, TxRecords
  <2>2. \A u \in Transactions : tx'[u].phase # "idle" => tx'[u].job \in Job
    BY <1>1, <1>2 DEF TypeOK
  <2> QED
    BY <1>1, <2>1, <2>2 DEF TypeOK, TxRecords, books
<1>4. PapersFiled'
  BY <1>1 DEF PapersFiled, books
<1>5. ASSUME NEW u \in Transactions PROVE Underway(u)'
  <2>1. CASE u # t
    <3>1. Underway(u) /\ tx'[u] = tx[u] /\ papers' = papers
      BY <1>1, <1>2, <2>1 DEF books
    <3>2. Prepared(tx[u].job)' <=> Prepared(tx[u].job)
      BY <3>1 DEF Prepared
    <3>3. Locking(u)' <=> Locking(u)
      BY <3>1 DEF Locking
    <3> QED
      BY <3>1, <3>2, <3>3 DEF Underway
  <2> QED
    BY <2>1
<1>6. NoConflict'
  BY <1>1, <1>2 DEF NoConflict, Conflict
<1>7. Counted'
  <2>1. SumOver(Busy', Transactions) = SumOver(Busy, Transactions) - Load(tx[t]) + Load(x)
        /\ SumOver(Busy, Transactions) \in Nat
    BY <1>1, BusyStep
  <2>2. Load(x) \in {0, 1} /\ Load(tx[t]) \in {0, 1}
    BY DEF Load
  <2>3. Len(papers) \in Nat /\ requests \in Nat /\ Requests \in Nat /\ papers' = papers
    BY <1>1, AmountsAssumption DEF TypeOK, books
  <2>4. Len(papers) + SumOver(Busy, Transactions) + requests <= Requests
    BY <1>1 DEF Counted
  <2> QED
    BY <2>1, <2>2, <2>3, <2>4 DEF Counted
<1> QED
  BY <1>3, <1>4, <1>5, <1>6, <1>7 DEF LockInv

(* A request takes its paper's row first, if it has one.                    *)
LEMMA BeginKeeps ==
  ASSUME LockInv, NEW t \in Transactions, NEW j \in Job, Prepared(j), Begin(t, j)
  PROVE  LockInv'
<1> DEFINE plan == LockPlan(j)
<1>1. /\ TypeOK /\ PapersFiled /\ tx[t] = NoTransaction
      /\ requests > 0 /\ requests' = requests - 1
      /\ UNCHANGED <<books, removals, removed>>
  BY DEF Begin, LockInv
<1>2. Proper(j)
  BY <1>1, PreparedIsProper DEF TypeOK
<1>3. PICK first \in {{l} : l \in Firsts(plan)} \cup {{}} :
        /\ first = {} => plan = {}
        /\ \A l \in first : Free(t, l)
        /\ tx' = [tx EXCEPT ![t] = [phase |-> "locking", job |-> j, held |-> first,
                                    todo |-> plan \ first, seen |-> 0]]
  BY DEF Begin
<1> DEFINE x == [phase |-> "locking", job |-> j, held |-> first, todo |-> plan \ first, seen |-> 0]
<1>4. plan \subseteq Locks
  BY <1>2, PlanLocks
<1>5. first \subseteq plan /\ \A l \in first, m \in plan : ~Before(m, l)
  BY <1>3 DEF Firsts
<1>6. RowLock(j) \subseteq first
  <2> SUFFICES ASSUME NEW r \in RowLock(j) PROVE r \in first
    OBVIOUS
  <2>1. r \in plan
    BY DEF LockPlan
  <2>2. PICK l \in first : l \in plan
    BY <1>3, <1>5, <2>1
  <2>3. l = r \/ Before(r, l)
    BY <1>2, <2>2, PlanOrdered
  <2> QED
    BY <1>5, <2>1, <2>2, <2>3
<1>7. \A l \in first, m \in plan \ first : l.mode = "update" /\ m.mode = "update" => Before(l, m)
  BY <1>2, <1>5, PlanOrdered
<1>8. x \in TxRecords
  BY <1>1, <1>4, <1>5 DEF TxRecords, TypeOK
<1>9. Underway(t)'
  <2>1. tx'[t] = x
    BY <1>1, <1>3 DEF TypeOK
  <2>2. Prepared(j)'
    BY <1>1 DEF Prepared, books
  <2>3. Locking(t)'
    BY <1>5, <1>6, <1>7, <2>1 DEF Locking
  <2> QED
    BY <2>1, <2>2, <2>3 DEF Underway
<1>10. \A u \in Transactions \ {t} : \A l \in x.held, m \in tx[u].held : ~Conflict(l, m)
  BY <1>3 DEF Free, Conflict
<1>11. Load(x) = 1 /\ Load(tx[t]) = 0
  BY <1>1 DEF Load, NoTransaction
<1>12. requests' \in 0..Requests /\ requests' + 1 <= requests + 0
  BY <1>1, AmountsAssumption DEF TypeOK
<1>13. tx' = [tx EXCEPT ![t] = x] /\ x.phase # "idle" /\ x.job \in Job
  BY <1>3
<1> HIDE DEF x, plan
<1> QED
  BY <1>1, <1>8, <1>9, <1>10, <1>11, <1>12, <1>13, OneMoves

(* The first lock that is missing is taken when nobody else stands in the   *)
(* way.                                                                     *)
LEMMA AcquireKeeps ==
  ASSUME LockInv, NEW t \in Transactions, Acquire(t)
  PROVE  LockInv'
<1>1. /\ TypeOK /\ PapersFiled /\ Underway(t)
      /\ UNCHANGED <<books, bounds>>
  BY DEF Acquire, LockInv
<1>2. PICK l \in Firsts(tx[t].todo) :
        /\ Free(t, l)
        /\ tx' = [tx EXCEPT ![t].todo = @ \ {l}, ![t].held = @ \cup {l}]
  BY DEF Acquire
<1> DEFINE old == tx[t]
           x == [old EXCEPT !.todo = @ \ {l}, !.held = @ \cup {l}]
           j == old.job
<1>3. tx' = [tx EXCEPT ![t] = x] /\ tx'[t] = x /\ old \in TxRecords
  BY <1>1, <1>2 DEF TypeOK, TxRecords
<1>4. l \in old.todo /\ \A m \in old.todo : ~Before(m, l)
  BY <1>2 DEF Firsts
<1>5. old # NoTransaction /\ old.phase # "idle" /\ Prepared(j) /\ Locking(t) /\ j \in Job
  BY <1>1, <1>4 DEF Underway, NoTransaction, TypeOK
<1>6. Proper(j)
  BY <1>1, <1>5, PreparedIsProper DEF TypeOK
<1>7. x \in TxRecords /\ x.phase = old.phase /\ x.job = j
      /\ x.held = old.held \cup {l} /\ x.todo = old.todo \ {l}
  BY <1>3, <1>4 DEF TxRecords
<1>8. \A h \in x.held, m \in x.todo : h.mode = "update" /\ m.mode = "update" => Before(h, m)
  <2> SUFFICES ASSUME NEW m \in old.todo \ {l}, l.mode = "update", m.mode = "update"
               PROVE  Before(l, m)
    BY <1>5, <1>7 DEF Locking
  <2>1. old.phase = "locking"
    BY <1>3, <1>5 DEF Locking, TxRecords
  <2>2. l \in LockPlan(j) /\ m \in LockPlan(j)
    BY <1>4, <1>5, <2>1 DEF Locking
  <2> QED
    BY <1>4, <1>6, <2>2, PlanOrdered
<1> HIDE DEF x
<1>9. Underway(t)'
  <2>1. Prepared(j)'
    BY <1>1, <1>3, <1>5, <1>7 DEF Prepared, books
  <2>2. Locking(t)'
    <3>1. RowLock(j) \subseteq x.held
      BY <1>5, <1>7 DEF Locking
    <3>2. x.held \cup x.todo = old.held \cup old.todo
      BY <1>4, <1>7
    <3>3. x.phase = "writing" => LockPlan(j) \subseteq x.held /\ \A m \in x.todo : m.mode = "key share"
      BY <1>5, <1>7 DEF Locking
    <3>4. LockPlan(j) \subseteq x.held \cup x.todo /\ (x.phase = "locking" => x.held \cup x.todo \subseteq LockPlan(j))
      BY <1>5, <1>7, <3>2 DEF Locking
    <3>5. tx'[t] = x /\ x.job = j
      BY <1>3, <1>7
    <3> HIDE DEF j
    <3> QED
      BY <1>8, <3>1, <3>3, <3>4, <3>5 DEF Locking
  <2> QED
    BY <1>3, <1>5, <1>7, <2>1, <2>2 DEF Underway
<1>10. \A u \in Transactions \ {t} : \A h \in x.held, m \in tx[u].held : ~Conflict(h, m)
  BY <1>2, <1>7 DEF Free, Conflict, LockInv, NoConflict
<1>11. Load(x) = 1 /\ Load(tx[t]) = 1
  BY <1>5, <1>7 DEF Load, NoTransaction
<1>12. requests' \in 0..Requests /\ requests' + 1 <= requests + 1
  BY <1>1, AmountsAssumption DEF TypeOK, bounds
<1>13. UNCHANGED <<books, removals, removed>>
  BY <1>1 DEF bounds
<1> QED
  BY <1>3, <1>5, <1>7, <1>9, <1>10, <1>11, <1>12, <1>13, OneMoves

(* What is written waits for rows of other users, which it only shares.     *)
LEMMA CheckKeeps ==
  ASSUME LockInv, NEW t \in Transactions, Check(t)
  PROVE  LockInv'
<1> DEFINE old == tx[t]
           j == old.job
           late == Shares(LateReferences(j))
           x == [old EXCEPT !.phase = "writing", !.seen = removed, !.todo = late]
<1>1. /\ TypeOK /\ PapersFiled /\ Underway(t) /\ old.phase = "locking" /\ old.todo = {}
      /\ UNCHANGED <<books, bounds>>
  BY DEF Check, LockInv
<1>2. tx' = [tx EXCEPT ![t] = x] /\ tx'[t] = x /\ old \in TxRecords
  BY <1>1 DEF Check, TypeOK, TxRecords
<1>3. old # NoTransaction /\ old.phase # "idle" /\ Prepared(j) /\ Locking(t) /\ j \in Job
  BY <1>1 DEF Underway, NoTransaction, TypeOK
<1>4. Proper(j)
  BY <1>1, <1>3, PreparedIsProper DEF TypeOK
<1>5. late \subseteq Locks /\ \A l \in late : l.mode = "key share"
  <2>1. LateReferences(j) \subseteq Users
    BY <1>4, AccountsAreUsers
  <2>2. \A u \in Users : KeyShare(UserRow(u)) \in Locks /\ KeyShare(UserRow(u)).mode = "key share"
    BY DEF Locks, KeyShare, Resources
  <2> QED
    BY <2>1, <2>2 DEF Shares
<1> HIDE DEF late
<1>6. x \in TxRecords /\ x.phase = "writing" /\ x.job = j /\ x.held = old.held /\ x.todo = late
  <2>1. removed \in 0..removed
    BY <1>1 DEF TypeOK
  <2> QED
    BY <1>2, <1>5, <2>1 DEF TxRecords
<1> HIDE DEF x
<1>7. LockPlan(j) \subseteq x.held /\ RowLock(j) \subseteq x.held
  BY <1>1, <1>3, <1>6 DEF Locking
<1>8. Underway(t)'
  <2>1. Prepared(j)'
    BY <1>1, <1>2, <1>3, <1>6 DEF Prepared, books
  <2>2. tx'[t].job = j /\ tx'[t].held = x.held /\ tx'[t].todo = late /\ tx'[t].phase = "writing"
    BY <1>2, <1>6
  <2>3. \A l \in x.held, m \in late : ~(l.mode = "update" /\ m.mode = "update")
    BY <1>5
  <2>4. Locking(t)'
    <3> HIDE DEF j
    <3> QED
      BY <1>5, <1>7, <2>2, <2>3 DEF Locking
  <2> QED
    BY <2>1, <2>2, <2>4 DEF Underway
<1>9. \A u \in Transactions \ {t} : \A h \in x.held, m \in tx[u].held : ~Conflict(h, m)
  BY <1>6 DEF LockInv, NoConflict
<1>10. Load(x) = 1 /\ Load(tx[t]) = 1
  BY <1>3, <1>6 DEF Load, NoTransaction
<1>11. requests' \in 0..Requests /\ requests' + 1 <= requests + 1
  BY <1>1, AmountsAssumption DEF TypeOK, bounds
<1>12. UNCHANGED <<books, removals, removed>>
  BY <1>1 DEF bounds
<1> QED
  BY <1>2, <1>3, <1>6, <1>8, <1>9, <1>10, <1>11, <1>12, OneMoves

(* A request that is turned down or aborted lets go of everything.          *)
LEMMA RollbackKeeps ==
  ASSUME LockInv, NEW t \in Transactions, Rollback(t)
  PROVE  LockInv'
<1>1. TypeOK /\ tx' = [tx EXCEPT ![t] = NoTransaction] /\ UNCHANGED <<books, bounds>>
  BY DEF Rollback, LockInv
<1>2. NoTransaction \in TxRecords /\ NoTransaction.phase = "idle" /\ NoTransaction.held = {}
  BY <1>1 DEF NoTransaction, TxRecords, TypeOK
<1>3. Underway(t)'
  BY <1>1, <1>2 DEF Underway, TypeOK
<1>4. Load(NoTransaction) = 0 /\ Load(tx[t]) \in {0, 1}
  BY DEF Load
<1>5. requests' \in 0..Requests /\ requests' + 0 <= requests + Load(tx[t])
  BY <1>1, <1>4, AmountsAssumption DEF TypeOK, bounds
<1>6. UNCHANGED <<books, removals, removed>>
  BY <1>1 DEF bounds
<1> QED
  BY <1>1, <1>2, <1>3, <1>4, <1>5, <1>6, OneMoves

LEMMA RemovalKeeps ==
  ASSUME LockInv, NEW a \in Amounts, RemoveReceipt(a)
  PROVE  LockInv'
<1>1. /\ TypeOK /\ PapersFiled /\ NoConflict /\ Counted
      /\ \A t \in Transactions : Underway(t)
      /\ removals > 0 /\ removals' = removals - 1
      /\ cash' = cash - a /\ removed' = removed + a
      /\ UNCHANGED <<posted, papers, tx, requests>>
  BY DEF LockInv, RemoveReceipt
<1>2. a \in Nat
  BY AmountsAssumption
<1>3. TypeOK'
  <2>1. cash' \in Int /\ cash' <= Cash /\ removed' \in Nat /\ 0..removed \subseteq 0..removed'
    BY <1>1, <1>2, AmountsAssumption DEF TypeOK
  <2>2. tx \in [Transactions -> [phase : {"idle", "locking", "writing"}, job : Job \cup {<<>>},
                                 todo : SUBSET Locks, held : SUBSET Locks, seen : 0..removed']]
    <3>1. TxRecords \subseteq [phase : {"idle", "locking", "writing"}, job : Job \cup {<<>>},
                                 todo : SUBSET Locks, held : SUBSET Locks, seen : 0..removed']
      BY <2>1 DEF TxRecords
    <3>2. tx \in [Transactions -> TxRecords]
      BY <1>1 DEF TypeOK, TxRecords
    <3> QED
      BY <3>1, <3>2
  <2>3. removals' \in 0..Removals
    BY <1>1, AmountsAssumption DEF TypeOK
  <2> QED
    BY <1>1, <2>1, <2>2, <2>3 DEF TypeOK
<1>4. PapersFiled' /\ NoConflict' /\ Counted'
  BY <1>1 DEF PapersFiled, NoConflict, Counted, Busy
<1>5. ASSUME NEW t \in Transactions PROVE Underway(t)'
  BY <1>1 DEF Underway, Prepared, Locking
<1> QED
  BY <1>3, <1>4, <1>5 DEF LockInv

-----------------------------------------------------------------------------
(* What a request changes when it commits.                                  *)

Gain(j, u) ==
  IF \/ MovesMoney(j) /\ u = Receiver(j)
     \/ Restores(j) /\ u = j.paper.from
  THEN j.paper.amount ELSE 0
Loss(j, u) == IF MovesMoney(j) /\ u = Payer(j) THEN j.paper.amount ELSE 0
FloatGain(j) ==
  IF \/ MovesMoney(j) /\ Receiver(j) \in Staff
     \/ Restores(j) /\ j.paper.from \in Staff
  THEN j.paper.amount ELSE 0
FloatLoss(j) == IF MovesMoney(j) /\ Payer(j) \in Staff THEN j.paper.amount ELSE 0
CashChange(j) ==
  (IF Restores(j) THEN j.paper.amount ELSE 0) - (IF Spends(j) THEN j.paper.amount ELSE 0)

(* What is counted of its paper, after and before.                          *)
Change(W, j) ==
  (IF j.paper.kind \in Papers THEN W[After(j)] ELSE 0) - (IF j.id # 0 THEN W[j.paper] ELSE 0)

(* What it takes from u beyond what it had reserved.                        *)
Owed(j, u) == IF Payer(j) = u THEN j.paper.amount - Own(j) ELSE 0

LEMMA AfterIsFiled ==
  ASSUME NEW j, Proper(j)
  PROVE  /\ After(j) \in Paper
         /\ j.paper.kind \in Papers => Filed(After(j))
         /\ After(j).kind = j.paper.kind /\ After(j).from = j.paper.from
         /\ After(j).amount = j.paper.amount
         /\ After(j).status = CASE j.op = "write" -> "pending" [] j.op = "accept" -> "done"
                                [] j.op = "refuse" -> "refused"
         /\ After(j).held = IF j.op = "write" /\ j.paper.kind = "expense" THEN j.paper.amount ELSE 0
<1> DEFINE p == j.paper
           state == CASE j.op = "write" -> "pending" [] j.op = "accept" -> "done"
                      [] j.op = "refuse" -> "refused"
           hold == IF j.op = "write" /\ p.kind = "expense" THEN p.amount ELSE 0
           q == [p EXCEPT !.status = state, !.held = hold]
<1>1. p \in Paper /\ j.op \in {"write", "accept", "refuse"}
  BY RequestTypes DEF Proper
<1>2. state \in {"pending", "done", "refused"}
      /\ (state = "pending" <=> j.op = "write")
  BY <1>1
<1>3. hold \in Amounts \cup {0}
  BY <1>1 DEF Paper
<1>4. After(j) = q
  BY DEF After
<1>5. state = CASE j.op = "write" -> "pending" [] j.op = "accept" -> "done"
                [] j.op = "refuse" -> "refused"
  OBVIOUS
<1>6. hold = IF j.op = "write" /\ j.paper.kind = "expense" THEN j.paper.amount ELSE 0
  OBVIOUS
<1> HIDE DEF state, hold
<1>7. /\ q \in Paper /\ q.kind = p.kind /\ q.from = p.from /\ q.to = p.to
      /\ q.amount = p.amount /\ q.status = state /\ q.held = hold
  BY <1>1, <1>2, <1>3 DEF Paper
<1> HIDE DEF q
<1>8. p.kind \in Papers => Filed(q)
  BY <1>2, <1>6, <1>7 DEF Filed, Proper
<1> QED
  BY <1>4, <1>5, <1>6, <1>7, <1>8

(* ... as plain arithmetic on the amount of the paper.                      *)
LEMMA ChangeReadings ==
  ASSUME NEW j, Proper(j)
  PROVE  LET p == j.paper
             a == j.paper.amount
         IN
         /\ \A u : Change(HeldBy(u), j) =
              IF p.from # u \/ p.kind # "expense" THEN 0 ELSE
              IF j.op = "write" THEN a ELSE IF p.status = "pending" THEN -a ELSE 0
         /\ Change(PromisedAmount, j) =
              IF p.kind # "handover" \/ p.from # Admin THEN 0 ELSE
              IF j.op = "write" THEN a ELSE -a
         /\ Change(SpentAmount, j) =
              IF p.kind # "expense" THEN 0 ELSE
              (IF j.op = "accept" THEN a ELSE 0) - (IF Restores(j) THEN a ELSE 0)
<1> DEFINE p == j.paper
           q == After(j)
<1>1. p \in Paper /\ j.op \in {"write", "accept", "refuse"} /\ p.kind \in Papers \cup Direct
      /\ (j.op = "write" <=> j.id = 0)
      /\ p.amount \in Nat /\ p.held \in Nat
  BY RequestTypes, PaperTypes DEF Proper
<1>2. q \in Paper /\ q.kind = p.kind /\ q.from = p.from /\ q.amount = p.amount
  BY AfterIsFiled
<1>3. /\ j.op = "write" => q.status = "pending"
      /\ j.op = "accept" => q.status = "done"
      /\ j.op = "refuse" => q.status = "refused"
      /\ q.held = IF j.op = "write" /\ p.kind = "expense" THEN p.amount ELSE 0
  BY AfterIsFiled
<1>4. /\ p.held = IF j.op # "write" /\ p.kind = "expense" /\ p.status = "pending" THEN p.amount ELSE 0
      /\ j.op # "write" => /\ p.kind \in Papers
                           /\ \/ p.status = "pending"
                              \/ j.op = "refuse" /\ p.kind = "expense" /\ p.status = "done"
      /\ j.op = "write" => p.status = "pending"
  BY DEF Proper
<1>5. \A u : /\ HeldBy(u)[q] = IF q.from = u THEN q.held ELSE 0
             /\ HeldBy(u)[p] = IF p.from = u THEN p.held ELSE 0
  BY <1>1, <1>2 DEF HeldBy
<1>6. /\ PromisedAmount[q] = IF q.kind = "handover" /\ q.from = Admin /\ q.status = "pending" THEN q.amount ELSE 0
      /\ PromisedAmount[p] = IF p.kind = "handover" /\ p.from = Admin /\ p.status = "pending" THEN p.amount ELSE 0
  BY <1>1, <1>2 DEF PromisedAmount, Promised
<1>7. /\ SpentAmount[q] = IF q.kind = "expense" /\ q.status = "done" THEN q.amount ELSE 0
      /\ SpentAmount[p] = IF p.kind = "expense" /\ p.status = "done" THEN p.amount ELSE 0
  BY <1>1, <1>2 DEF SpentAmount
<1>8. \A W : Change(W, j) = (IF p.kind \in Papers THEN W[q] ELSE 0) - (IF j.id # 0 THEN W[p] ELSE 0)
  BY DEF Change
<1>9. Restores(j) <=> j.op = "refuse" /\ p.kind = "expense" /\ p.status = "done"
  BY DEF Restores
<1> HIDE DEF p, q
<1>10. "expense" \in Papers /\ "handover" \in Papers
  BY DEF Papers
<1>11. \A u : Change(HeldBy(u), j) =
         IF p.from # u \/ p.kind # "expense" THEN 0 ELSE
         IF j.op = "write" THEN p.amount ELSE IF p.status = "pending" THEN -p.amount ELSE 0
  BY <1>1, <1>2, <1>3, <1>4, <1>5, <1>8, <1>10
<1>12. Change(PromisedAmount, j) =
         IF p.kind # "handover" \/ p.from # Admin THEN 0 ELSE
         IF j.op = "write" THEN p.amount ELSE -p.amount
  BY <1>1, <1>2, <1>3, <1>4, <1>6, <1>8, <1>10
<1>13. Change(SpentAmount, j) =
         IF p.kind # "expense" THEN 0 ELSE
         (IF j.op = "accept" THEN p.amount ELSE 0) - (IF Restores(j) THEN p.amount ELSE 0)
  BY <1>1, <1>2, <1>3, <1>4, <1>7, <1>8, <1>9, <1>10
<1> QED
  BY <1>11, <1>12, <1>13 DEF p

(* A request takes no more from a float and from the cash of the site than  *)
(* what its payer is due, and never gives back what was not spent.          *)
LEMMA Effects ==
  ASSUME NEW j, Proper(j)
  PROVE  /\ \A u \in Staff : Gain(j, u) - Loss(j, u) - Change(HeldBy(u), j) >= -Owed(j, u)
         /\ CashChange(j) - FloatGain(j) + FloatLoss(j)
              - Change(PromisedAmount, j) - Change(HeldBy(Admin), j) >= -Owed(j, Admin)
         /\ CashChange(j) + Change(SpentAmount, j) <= 0
<1> DEFINE p == j.paper
           a == p.amount
<1>1. /\ j.op \in {"write", "accept", "refuse"} /\ j.by \in Users
      /\ p.kind \in {"handover", "refill", "claim", "return", "expense", "transfer", "credit", "debit"}
      /\ a \in Nat /\ a > 0
      /\ p.from \in Users /\ p.to \in Users \cup {Nobody}
  BY RequestTypes, PaperTypes DEF Proper, Papers, Direct
<1>2. Users = Staff \cup {Admin} /\ Nobody \notin Users /\ Admin \notin Staff
  BY UsersAssumption DEF Users
<1>3. /\ p.held = IF j.op # "write" /\ p.kind = "expense" /\ p.status = "pending" THEN a ELSE 0
      /\ j.op # "write" => /\ p.kind \notin Direct
                           /\ \/ p.status = "pending"
                              \/ j.op = "refuse" /\ p.kind = "expense" /\ p.status = "done"
      /\ j.op = "write" => p.status = "pending"
      /\ p.kind \in {"handover", "transfer"} => p.to \in Users \ {p.from}
      /\ p.kind \in {"refill", "claim", "return"} => p.from \in Staff
      /\ p.kind \in {"credit", "debit"} => p.from = Admin /\ p.to \in Staff
  BY DEF Proper, Papers, Direct
<1>4. /\ \A u : Change(HeldBy(u), j) =
           IF p.from # u \/ p.kind # "expense" THEN 0 ELSE
           IF j.op = "write" THEN a ELSE IF p.status = "pending" THEN -a ELSE 0
      /\ Change(PromisedAmount, j) =
           IF p.kind # "handover" \/ p.from # Admin THEN 0 ELSE
           IF j.op = "write" THEN a ELSE -a
      /\ Change(SpentAmount, j) =
           IF p.kind # "expense" THEN 0 ELSE
           (IF j.op = "accept" THEN a ELSE 0) - (IF Restores(j) THEN a ELSE 0)
  BY ChangeReadings
<1>5. Payer(j) =
        IF j.op = "refuse" THEN Nobody ELSE
        CASE p.kind = "refill" ->
               IF j.op = "accept" THEN j.by ELSE IF p.assigned \in Staff THEN p.assigned ELSE Admin
          [] p.kind = "claim" /\ j.op = "write" -> Nobody
          [] p.kind = "debit" -> p.to
          [] OTHER -> p.from
  BY DEF Payer
<1>6. Receiver(j) =
        CASE p.kind \in {"handover", "transfer", "credit"} -> p.to
          [] p.kind = "refill" -> p.from
          [] p.kind \in {"return", "debit"} -> Admin
          [] OTHER -> Nobody
  BY DEF Receiver
<1>7. Own(j) = IF p.kind = "handover" /\ p.from = Admin /\ j.op = "accept" THEN a ELSE p.held
  BY DEF Own
<1>8. /\ MovesMoney(j) <=> j.op = "accept" \/ p.kind \in {"transfer", "credit", "debit"}
      /\ Spends(j) <=> p.kind \in {"claim", "expense"} /\ j.op = "accept"
      /\ Restores(j) <=> j.op = "refuse" /\ p.kind = "expense" /\ p.status = "done"
  BY DEF MovesMoney, Spends, Restores, Direct
<1> HIDE DEF p, a
<1>9. CashChange(j) + Change(SpentAmount, j) <= 0
  BY <1>1, <1>4, <1>8 DEF CashChange, a, p
<1>10. ASSUME NEW u \in Staff
       PROVE  Gain(j, u) - Loss(j, u) - Change(HeldBy(u), j) >= -Owed(j, u)
  <2> DEFINE G == Gain(j, u)
             L == Loss(j, u)
             H == Change(HeldBy(u), j)
             D == Owed(j, u)
  <2>1. G = IF (MovesMoney(j) /\ u = Receiver(j)) \/ (Restores(j) /\ u = p.from) THEN a ELSE 0
    BY DEF Gain, p, a
  <2>2. L = IF MovesMoney(j) /\ u = Payer(j) THEN a ELSE 0
    BY DEF Loss, p, a
  <2>3. H = IF p.from # u \/ p.kind # "expense" THEN 0 ELSE
            IF j.op = "write" THEN a ELSE IF p.status = "pending" THEN -a ELSE 0
    BY <1>4
  <2>4. D = IF Payer(j) = u THEN a - Own(j) ELSE 0
    BY DEF Owed, p, a
  <2> HIDE DEF G, L, H, D
  <2>5. G - L - H >= -D
    <3>1. CASE p.kind = "expense"
      BY <1>1, <1>2, <1>3, <1>5, <1>6, <1>7, <1>8, <2>1, <2>2, <2>3, <2>4, <3>1
    <3>2. CASE p.kind # "expense"
      BY <1>1, <1>2, <1>3, <1>5, <1>7, <1>8, <2>1, <2>2, <2>3, <2>4, <3>2
    <3> QED
      BY <3>1, <3>2
  <2> QED
    BY <2>5 DEF G, L, H, D
<1>11. CashChange(j) - FloatGain(j) + FloatLoss(j)
         - Change(PromisedAmount, j) - Change(HeldBy(Admin), j) >= -Owed(j, Admin)
  <2> DEFINE C == CashChange(j)
             G == FloatGain(j)
             L == FloatLoss(j)
             P == Change(PromisedAmount, j)
             H == Change(HeldBy(Admin), j)
             D == Owed(j, Admin)
  <2>1. G = IF (MovesMoney(j) /\ Receiver(j) \in Staff) \/ (Restores(j) /\ p.from \in Staff) THEN a ELSE 0
    BY DEF FloatGain, p, a
  <2>2. L = IF MovesMoney(j) /\ Payer(j) \in Staff THEN a ELSE 0
    BY DEF FloatLoss, p, a
  <2>3. H = IF p.from # Admin \/ p.kind # "expense" THEN 0 ELSE
            IF j.op = "write" THEN a ELSE IF p.status = "pending" THEN -a ELSE 0
    BY <1>4
  <2>4. P = IF p.kind # "handover" \/ p.from # Admin THEN 0 ELSE
            IF j.op = "write" THEN a ELSE -a
    BY <1>4
  <2>5. D = IF Payer(j) = Admin THEN a - Own(j) ELSE 0
    BY DEF Owed, p, a
  <2>6. C = (IF Restores(j) THEN a ELSE 0) - (IF Spends(j) THEN a ELSE 0)
    BY DEF CashChange, p, a
  <2> HIDE DEF C, G, L, P, H, D
  <2>7. C - G + L - P - H >= -D
    <3>1. CASE p.kind = "expense"
      BY <1>1, <1>2, <1>3, <1>5, <1>6, <1>7, <1>8, <2>1, <2>2, <2>3, <2>4, <2>5, <2>6, <3>1
    <3>2. CASE p.kind = "handover"
      BY <1>1, <1>2, <1>3, <1>5, <1>6, <1>7, <1>8, <2>1, <2>2, <2>3, <2>4, <2>5, <2>6, <3>2
    <3>3. CASE p.kind \in {"refill", "claim", "return"}
      BY <1>1, <1>2, <1>3, <1>5, <1>6, <1>7, <1>8, <2>1, <2>2, <2>3, <2>4, <2>5, <2>6, <3>3
    <3>4. CASE p.kind = "transfer"
      <4>1. j.op = "write" /\ p.to \in Users \ {p.from} /\ p.held = 0
        BY <1>1, <1>3, <3>4 DEF Direct
      <4>2. Payer(j) = p.from /\ Receiver(j) = p.to /\ Own(j) = 0
        BY <1>5, <1>6, <1>7, <3>4, <4>1
      <4>3. C = 0 /\ P = 0 /\ H = 0 /\ MovesMoney(j) /\ ~Restores(j)
        BY <1>8, <2>3, <2>4, <2>6, <3>4, <4>1
      <4> QED
        BY <1>1, <1>2, <2>1, <2>2, <2>5, <4>1, <4>2, <4>3
    <3>5. CASE p.kind = "credit"
      <4>1. j.op = "write" /\ p.from = Admin /\ p.to \in Staff /\ p.held = 0
        BY <1>1, <1>3, <3>5 DEF Direct
      <4>2. Payer(j) = Admin /\ Receiver(j) = p.to /\ Own(j) = 0
        BY <1>5, <1>6, <1>7, <3>5, <4>1
      <4>3. C = 0 /\ P = 0 /\ H = 0 /\ MovesMoney(j) /\ ~Restores(j)
        BY <1>8, <2>3, <2>4, <2>6, <3>5, <4>1
      <4> QED
        BY <1>1, <1>2, <2>1, <2>2, <2>5, <4>1, <4>2, <4>3
    <3>6. CASE p.kind = "debit"
      BY <1>1, <1>2, <1>3, <1>5, <1>6, <1>7, <1>8, <2>1, <2>2, <2>3, <2>4, <2>5, <2>6, <3>6
    <3> QED
      BY <1>1, <3>1, <3>2, <3>3, <3>4, <3>5, <3>6
  <2> QED
    BY <2>7 DEF C, G, L, P, H, D
<1> QED
  BY <1>9, <1>10, <1>11

(* What is known of a request that commits: it holds every lock of its      *)
(* plan, and what it checked is still true.                                 *)
LEMMA CommitsCovered ==
  ASSUME LockInv, CheckStillHolds, NEW v \in Transactions, Commit(v)
  PROVE  LET j == tx[v].job IN
         /\ Proper(j) /\ Prepared(j) /\ j \in Job /\ LockPlan(j) \subseteq tx[v].held
         /\ tx[v] # NoTransaction
         /\ \E spare \in 0..removed : CoveredBut(j, spare)
<1> DEFINE j == tx[v].job
<1>1. /\ TypeOK /\ PapersFiled /\ Underway(v) /\ removed \in Nat
      /\ tx[v].seen \in 0..removed
  BY DEF LockInv, TypeOK
<1>2. /\ tx[v].todo = {}
      /\ \/ tx[v].phase = "writing"
         \/ tx[v].phase = "locking" /\ Covered(j)
  BY DEF Commit
<1>3. tx[v].phase # "idle" /\ j \in Job /\ Prepared(j) /\ Locking(v)
  BY <1>1, <1>2 DEF TypeOK, Underway
<1>4. Proper(j)
  BY <1>1, <1>3, PreparedIsProper DEF TypeOK
<1>5. LockPlan(j) \subseteq tx[v].held
  BY <1>2, <1>3 DEF Locking
<1>6. \E spare \in 0..removed : CoveredBut(j, spare)
  <2>1. CASE tx[v].phase = "writing"
    <3>1. CoveredBut(j, removed - tx[v].seen)
      BY <2>1 DEF CheckStillHolds
    <3>2. removed - tx[v].seen \in 0..removed
      BY <1>1
    <3> QED
      BY <3>1, <3>2
  <2>2. CASE tx[v].phase = "locking" /\ Covered(j)
    <3>1. 0 \in 0..removed
      BY <1>1
    <3> QED
      BY <2>2, <3>1 DEF Covered
  <2> QED
    BY <1>2, <2>1, <2>2
<1>7. tx[v] # NoTransaction
  BY <1>3 DEF NoTransaction
<1> QED
  BY <1>3, <1>4, <1>5, <1>6, <1>7

(* The papers after a commit.                                               *)
LEMMA PapersAfter ==
  ASSUME papers \in Seq(Paper), PapersFiled, NEW j, Proper(j), Prepared(j),
         papers' = CASE j.id # 0 -> [papers EXCEPT ![j.id] = After(j)]
                     [] j.id = 0 /\ j.paper.kind \in Papers -> Append(papers, After(j))
                     [] OTHER -> papers
  PROVE  /\ papers' \in Seq(Paper) /\ PapersFiled'
         /\ Len(papers') \in Nat /\ Len(papers') <= Len(papers) + (IF j.id = 0 THEN 1 ELSE 0)
         /\ \A i \in DOMAIN papers : i \in DOMAIN papers' /\ (i # j.id => papers'[i] = papers[i])
         /\ \A W \in [Paper -> Nat] : Total(W, papers') = Total(W, papers) + Change(W, j)
<1> DEFINE q == After(j)
           p == j.paper
<1>1. q \in Paper /\ (p.kind \in Papers => Filed(q)) /\ p \in Paper
  BY AfterIsFiled, RequestTypes DEF Proper
<1>2. j.id # 0 => j.id \in DOMAIN papers /\ p = papers[j.id] /\ p.kind \in Papers
  BY DEF Prepared, PapersFiled, Filed
<1>3. \A W \in [Paper -> Nat] : Total(W, papers) \in Nat /\ W[p] \in Nat /\ W[q] \in Nat
  BY <1>1, TotalType
<1> HIDE DEF q, p
<1>4. CASE j.id # 0
  <2>1. papers' = [papers EXCEPT ![j.id] = q]
    BY <1>4 DEF q
  <2>2. papers' \in Seq(Paper) /\ PapersFiled' /\ Len(papers') = Len(papers)
        /\ \A i \in DOMAIN papers : i \in DOMAIN papers' /\ (i # j.id => papers'[i] = papers[i])
    BY <1>1, <1>2, <1>4, <2>1 DEF PapersFiled
  <2>3. ASSUME NEW W \in [Paper -> Nat]
        PROVE  Total(W, papers') = Total(W, papers) + Change(W, j)
    <3> DEFINE k == j.id
    <3>0. k \in DOMAIN papers /\ p = papers[k]
      BY <1>2, <1>4
    <3>1. Total(W, papers') = Total(W, papers) - W[p] + W[q]
      <4> HIDE DEF k
      <4>1. Total(W, [papers EXCEPT ![k] = q]) = Total(W, papers) - W[papers[k]] + W[q]
        BY <1>1, <3>0, TotalOfRewritten
      <4> QED
        BY <2>1, <3>0, <4>1 DEF k
    <3>2. Change(W, j) = W[q] - W[p]
      BY <1>2, <1>4 DEF Change, p, q
    <3> QED
      BY <1>3, <3>1, <3>2
  <2>4. Len(papers) \in Nat
    OBVIOUS
  <2>5. Len(papers') \in Nat /\ Len(papers') <= Len(papers) + (IF j.id = 0 THEN 1 ELSE 0)
    BY <1>4, <2>2, <2>4
  <2> QED
    BY ONLY <2>2, <2>3, <2>5
<1>5. CASE j.id = 0 /\ p.kind \in Papers
  <2>1. papers' = Append(papers, q)
    BY <1>5 DEF p, q
  <2>2. papers' \in Seq(Paper) /\ PapersFiled' /\ Len(papers') = Len(papers) + 1
        /\ \A i \in DOMAIN papers : i \in DOMAIN papers' /\ (i # j.id => papers'[i] = papers[i])
    BY <1>1, <1>5, <2>1 DEF PapersFiled
  <2>3. ASSUME NEW W \in [Paper -> Nat]
        PROVE  Total(W, papers') = Total(W, papers) + Change(W, j)
    <3>1. Total(W, papers') = Total(W, papers) + W[q]
      BY <1>1, <2>1, TotalOfFiled
    <3>2. Change(W, j) = W[q] - 0
      BY <1>5 DEF Change, p, q
    <3> QED
      BY <1>3, <3>1, <3>2
  <2> QED
    BY <1>5, <2>2, <2>3
<1>6. CASE j.id = 0 /\ p.kind \notin Papers
  <2>1. papers' = papers
    BY <1>6 DEF p
  <2>2. \A W \in [Paper -> Nat] : Change(W, j) = 0
    BY <1>6 DEF Change, p
  <2>3. PapersFiled'
    BY <2>1 DEF PapersFiled
  <2> QED
    BY <1>3, <1>6, <2>1, <2>2, <2>3
<1> QED
  BY <1>4, <1>5, <1>6

(* The floats after a commit: one may gain, one may lose.                   *)
LEMMA FloatsAfter ==
  ASSUME posted \in [Staff -> Int], NEW j, Proper(j)
  PROVE  /\ Posted(j) \in [Staff -> Int]
         /\ \A u \in Staff : Posted(j)[u] = posted[u] + Gain(j, u) - Loss(j, u)
         /\ SumOver(posted, Staff) \in Int
         /\ SumOver(Posted(j), Staff) = SumOver(posted, Staff) + FloatGain(j) - FloatLoss(j)
<1> DEFINE f == posted
           g == [u \in Staff |-> posted[u] + Gain(j, u)]
           h == [u \in Staff |-> posted[u] + Gain(j, u) - Loss(j, u)]
           a == j.paper.amount
           w == IF Restores(j) THEN j.paper.from ELSE IF MovesMoney(j) THEN Receiver(j) ELSE Nobody
           z == IF MovesMoney(j) THEN Payer(j) ELSE Nobody
<1>1. a \in Nat /\ IsFiniteSet(Staff) /\ Nobody \notin Staff
  BY RequestTypes, PaperTypes, TablesAssumption, UsersAssumption DEF Proper, Users
<1>2. Posted(j) = h
  BY DEF Posted, Gain, Loss
<1>3. ~(Restores(j) /\ MovesMoney(j))
  BY DEF Restores, MovesMoney, Direct
<1>4. /\ \A u \in Staff : Gain(j, u) = IF u = w THEN a ELSE 0
      /\ FloatGain(j) = IF w \in Staff THEN a ELSE 0
  BY <1>1, <1>3 DEF Gain, FloatGain
<1>5. /\ \A u \in Staff : Loss(j, u) = IF u = z THEN a ELSE 0
      /\ FloatLoss(j) = IF z \in Staff THEN a ELSE 0
  BY <1>1 DEF Loss, FloatLoss
<1> HIDE DEF a, w, z
<1>6. /\ \A u \in Staff : f[u] \in Int /\ g[u] \in Int /\ h[u] \in Int
      /\ \A u \in Staff : g[u] = f[u] + (IF u = w THEN a ELSE 0)
      /\ \A u \in Staff : h[u] = g[u] - (IF u = z THEN a ELSE 0)
  BY <1>1, <1>4, <1>5
<1>7. h \in [Staff -> Int] /\ \A u \in Staff : h[u] = posted[u] + Gain(j, u) - Loss(j, u)
  BY <1>6
<1> HIDE DEF f, g, h
<1>8. SumOver(f, Staff) \in Int /\ SumOver(g, Staff) \in Int
  BY <1>1, <1>6, SumType
<1>9. SumOver(g, Staff) = SumOver(f, Staff) + FloatGain(j)
  <2>1. CASE w \in Staff
    <3>1. DifferAt(w, f, g, Staff) /\ g[w] = f[w] + a /\ f[w] \in Int
      BY <1>1, <1>6, <2>1 DEF DifferAt
    <3>2. SumOver(g, Staff) = SumOver(f, Staff) - f[w] + g[w]
      BY <3>1, SumDiffers, Zenon
    <3> QED
      BY <1>1, <1>4, <1>8, <2>1, <3>1, <3>2
  <2>2. CASE w \notin Staff
    <3>1. \A u \in Staff : g[u] = f[u]
      BY <1>6, <2>2
    <3>2. SumOver(g, Staff) = SumOver(f, Staff)
      BY <1>1, <3>1, SumAgree
    <3> QED
      BY <1>4, <1>8, <2>2, <3>2
  <2> QED
    BY <2>1, <2>2
<1>10. SumOver(h, Staff) = SumOver(g, Staff) - FloatLoss(j)
  <2>1. CASE z \in Staff
    <3>1. DifferAt(z, g, h, Staff) /\ h[z] = g[z] - a /\ g[z] \in Int
      BY <1>1, <1>6, <2>1 DEF DifferAt
    <3>2. SumOver(h, Staff) = SumOver(g, Staff) - g[z] + h[z]
      BY <3>1, SumDiffers, Zenon
    <3> QED
      BY <1>1, <1>5, <1>8, <2>1, <3>1, <3>2
  <2>2. CASE z \notin Staff
    <3>1. \A u \in Staff : h[u] = g[u]
      BY <1>6, <2>2
    <3>2. SumOver(h, Staff) = SumOver(g, Staff)
      BY <1>1, <3>1, SumAgree
    <3> QED
      BY <1>5, <1>8, <2>2, <3>2
  <2> QED
    BY <2>1, <2>2
<1>11. SumOver(h, Staff) = SumOver(f, Staff) + FloatGain(j) - FloatLoss(j)
  <2>1. FloatGain(j) \in Int /\ FloatLoss(j) \in Int
    BY <1>1, <1>4, <1>5
  <2> QED
    BY <1>8, <1>9, <1>10, <2>1
<1> QED
  BY <1>2, <1>7, <1>8, <1>11 DEF f

(* What can be spent falls by what the payer is due, and nobody else's does.*)
LEMMA CommitEffects ==
  ASSUME IInv, NEW v \in Transactions, Commit(v)
  PROVE  LET j == tx[v].job IN
         /\ papers' \in Seq(Paper) /\ posted' \in [Staff -> Int] /\ cash' \in Int
         /\ GivenBack' /\ StaffCovered'
         /\ \A u \in Staff : /\ Balance(u) \in Int /\ Balance(u)' \in Int /\ Owed(j, u) \in Int
                             /\ Balance(u)' >= Balance(u) - Owed(j, u)
         /\ Available \in Int /\ Available' \in Int /\ Owed(j, Admin) \in Int
         /\ Available' >= Available - Owed(j, Admin)
<1> DEFINE j == tx[v].job
           a == j.paper.amount
<1>1. /\ LockInv /\ TypeOK /\ PapersFiled /\ CheckStillHolds /\ StaffCovered /\ GivenBack
      /\ cash \in Int /\ posted \in [Staff -> Int] /\ papers \in Seq(Paper) /\ Cash \in Nat
  BY AmountsAssumption DEF IInv, LockInv, TypeOK
<1>2. Proper(j) /\ Prepared(j) /\ \E spare \in 0..removed : CoveredBut(j, spare)
  BY <1>1, CommitsCovered
<1>3. /\ posted' = Posted(j)
      /\ cash' = cash + CashChange(j)
      /\ papers' = CASE j.id # 0 -> [papers EXCEPT ![j.id] = After(j)]
                     [] j.id = 0 /\ j.paper.kind \in Papers -> Append(papers, After(j))
                     [] OTHER -> papers
  <2>1. Commit(v)
    OBVIOUS
  <2>2. /\ posted' = Posted(j)
        /\ cash' = cash + (IF Restores(j) THEN a ELSE 0) - (IF Spends(j) THEN a ELSE 0)
        /\ papers' = CASE j.id # 0 -> [papers EXCEPT ![j.id] = After(j)]
                       [] j.id = 0 /\ j.paper.kind \in Papers -> Append(papers, After(j))
                       [] OTHER -> papers
    BY <2>1 DEF Commit
  <2>3. a \in Nat
    BY <1>2, RequestTypes, PaperTypes DEF Proper
  <2>4. CashChange(j) = (IF Restores(j) THEN a ELSE 0) - (IF Spends(j) THEN a ELSE 0)
    BY DEF CashChange
  <2> HIDE DEF a, j
  <2>5. cash' = cash + CashChange(j)
    BY <1>1, <2>2, <2>3, <2>4
  <2> QED
    BY <2>2, <2>5
<1> HIDE DEF j, a
<1>4. a \in Nat /\ a = j.paper.amount /\ j.paper.held \in Nat
  BY <1>2, RequestTypes, PaperTypes DEF Proper, a
<1>5. CashChange(j) \in Int /\ FloatGain(j) \in Int /\ FloatLoss(j) \in Int
      /\ \A u : Gain(j, u) \in Int /\ Loss(j, u) \in Int /\ Owed(j, u) \in Int
  BY <1>4 DEF CashChange, FloatGain, FloatLoss, Gain, Loss, Owed, Own
<1>6. papers' \in Seq(Paper) /\ \A W \in [Paper -> Nat] : Total(W, papers') = Total(W, papers) + Change(W, j)
  BY <1>1, <1>2, <1>3, PapersAfter
<1>7. \A W \in [Paper -> Nat] : Total(W, papers) \in Nat /\ Total(W, papers') \in Nat /\ Change(W, j) \in Int
  <2> TAKE W \in [Paper -> Nat]
  <2>1. Total(W, papers) \in Nat /\ Total(W, papers') \in Nat
    BY <1>1, <1>6, TotalType
  <2>2. j.paper \in Paper /\ After(j) \in Paper
    BY <1>2, AfterIsFiled, RequestTypes DEF Proper
  <2>3. W[j.paper] \in Int /\ W[After(j)] \in Int
    BY <2>2
  <2>4. Change(W, j) \in Int
    BY <2>3 DEF Change
  <2> QED
    BY <2>1, <2>4
<1>8. \A u : /\ Held(u) \in Nat /\ Held(u)' \in Nat /\ Change(HeldBy(u), j) \in Int
             /\ Held(u)' = Held(u) + Change(HeldBy(u), j)
  <2> TAKE u
  <2>1. HeldBy(u) \in [Paper -> Nat]
    BY WeightTypes
  <2>2. Held(u) = Total(HeldBy(u), papers)
    BY <1>1, Reserved
  <2>3. Held(u)' = Total(HeldBy(u), papers')
    BY <1>6, Readings DEF Held
  <2> QED
    BY <1>6, <1>7, <2>1, <2>2, <2>3
<1>9. /\ PendingHandovers \in Nat /\ PendingHandovers' \in Nat /\ Change(PromisedAmount, j) \in Int
      /\ PendingHandovers' = PendingHandovers + Change(PromisedAmount, j)
  <2>1. PromisedAmount \in [Paper -> Nat]
    BY WeightTypes
  <2>2. PendingHandovers = Total(PromisedAmount, papers)
    BY <1>1, Reserved
  <2>3. PendingHandovers' = Total(PromisedAmount, papers')
    BY <1>6, Readings DEF PendingHandovers
  <2> QED
    BY <1>6, <1>7, <2>1, <2>2, <2>3
<1>10. /\ posted' \in [Staff -> Int]
       /\ \A u \in Staff : posted'[u] = posted[u] + Gain(j, u) - Loss(j, u)
       /\ SumOver(posted, Staff) \in Int
       /\ SumOver(posted', Staff) = SumOver(posted, Staff) + FloatGain(j) - FloatLoss(j)
  BY <1>1, <1>2, <1>3, FloatsAfter
<1>11. /\ \A u \in Staff : Gain(j, u) - Loss(j, u) - Change(HeldBy(u), j) >= -Owed(j, u)
       /\ CashChange(j) - FloatGain(j) + FloatLoss(j)
            - Change(PromisedAmount, j) - Change(HeldBy(Admin), j) >= -Owed(j, Admin)
       /\ CashChange(j) + Change(SpentAmount, j) <= 0
  BY <1>2, Effects
<1>12. cash' \in Int /\ GivenBack'
  <2>1. SpentAmount \in [Paper -> Nat]
    BY WeightTypes
  <2>2. /\ Total(SpentAmount, papers) \in Nat /\ Total(SpentAmount, papers') \in Nat
        /\ Total(SpentAmount, papers') = Total(SpentAmount, papers) + Change(SpentAmount, j)
        /\ Change(SpentAmount, j) \in Int
    BY <1>6, <1>7, <2>1
  <2>3. cash' \in Int
    BY <1>1, <1>3, <1>5
  <2>4. /\ cash' = cash + CashChange(j) /\ CashChange(j) \in Int
        /\ CashChange(j) + Change(SpentAmount, j) <= 0
    BY <1>3, <1>5, <1>11
  <2>5. cash \in Int /\ Cash \in Nat /\ cash + Total(SpentAmount, papers) <= Cash
    BY <1>1 DEF GivenBack
  <2>6. cash' + Total(SpentAmount, papers') <= Cash
    BY ONLY <2>2, <2>3, <2>4, <2>5
  <2> QED
    BY <2>3, <2>6 DEF GivenBack
<1>13. ASSUME NEW u \in Staff
       PROVE  /\ Balance(u) \in Int /\ Balance(u)' \in Int /\ Balance(u) >= 0
              /\ Balance(u)' >= Balance(u) - Owed(j, u)
  <2>1. posted[u] \in Int /\ posted'[u] \in Int /\ posted'[u] = posted[u] + Gain(j, u) - Loss(j, u)
    BY <1>1, <1>10
  <2>2. Gain(j, u) - Loss(j, u) - Change(HeldBy(u), j) >= -Owed(j, u)
    BY <1>11
  <2>3. Balance(u) = posted[u] - Held(u) /\ Balance(u)' = posted'[u] - Held(u)'
    BY DEF Balance
  <2>4. posted[u] >= Held(u)
    BY <1>1 DEF StaffCovered
  <2>5. /\ Held(u) \in Nat /\ Held(u)' \in Nat /\ Change(HeldBy(u), j) \in Int
        /\ Held(u)' = Held(u) + Change(HeldBy(u), j)
    BY <1>8
  <2>6. Gain(j, u) \in Int /\ Loss(j, u) \in Int /\ Owed(j, u) \in Int
    BY <1>5
  <2> QED
    BY <2>1, <2>2, <2>3, <2>4, <2>5, <2>6
<1>14. StaffCovered'
  <2> SUFFICES ASSUME NEW u \in Staff PROVE posted'[u] >= Held(u)'
    BY DEF StaffCovered
  <2>1. posted'[u] \in Int /\ Held(u)' \in Int /\ Balance(u)' = posted'[u] - Held(u)'
    BY <1>8, <1>10 DEF Balance
  <2>2. Balance(u)' >= 0
    <3>1. CASE Payer(j) = u
      <4>1. Balance(u) + Own(j) >= a
        <5>1. Payer(j) # Nobody /\ Payer(j) # Admin
          BY <3>1, UsersAssumption DEF Users
        <5>2. a <= Balance(Payer(j)) + Own(j)
          BY <1>2, <1>4, <5>1 DEF CoveredBut
        <5>3. Own(j) \in Nat
          BY <1>4 DEF Own
        <5> QED
          BY <1>4, <1>13, <3>1, <5>2, <5>3
      <4>2. Owed(j, u) = a - Own(j) /\ Own(j) \in Nat
        BY <1>4, <3>1 DEF Owed, Own
      <4> QED
        BY <1>4, <1>13, <4>1, <4>2
    <3>2. CASE Payer(j) # u
      <4>1. Owed(j, u) = 0
        BY <3>2 DEF Owed
      <4> QED
        BY <1>13, <4>1
    <3> QED
      BY <3>1, <3>2
  <2> QED
    BY <2>1, <2>2
<1>15. Floats = SumOver(posted, Staff) /\ Floats' = SumOver(posted', Staff)
  <2>1. \A u \in Staff : posted[u] >= 0
    BY <1>1, <1>8 DEF StaffCovered
  <2>2. \A u \in Staff : posted'[u] >= 0
    BY <1>8, <1>10, <1>14 DEF StaffCovered
  <2>3. Floats = SumOver(posted, Staff)
    BY <1>1, <2>1, CoveredFloats DEF Floats
  <2>4. Floats' = SumOver(posted', Staff)
    BY <1>10, <2>2, CoveredFloats DEF Floats
  <2> QED
    BY <2>3, <2>4
<1>16. /\ Available \in Int /\ Available' \in Int
       /\ Available' >= Available - Owed(j, Admin)
  <2>1. /\ Available = cash - Floats - PendingHandovers - Held(Admin)
        /\ Available' = cash' - Floats' - PendingHandovers' - Held(Admin)'
    BY DEF Available
  <2>2. /\ Held(Admin) \in Nat /\ Held(Admin)' = Held(Admin) + Change(HeldBy(Admin), j)
        /\ Change(HeldBy(Admin), j) \in Int
    BY <1>8
  <2>3. /\ cash \in Int /\ cash' = cash + CashChange(j)
        /\ CashChange(j) \in Int /\ FloatGain(j) \in Int /\ FloatLoss(j) \in Int /\ Owed(j, Admin) \in Int
    BY <1>1, <1>3, <1>5
  <2>4. CashChange(j) - FloatGain(j) + FloatLoss(j)
          - Change(PromisedAmount, j) - Change(HeldBy(Admin), j) >= -Owed(j, Admin)
    BY <1>11
  <2>5. Floats \in Int /\ Floats' = Floats + FloatGain(j) - FloatLoss(j)
    BY <1>10, <1>15
  <2> QED
    BY ONLY <1>9, <2>1, <2>2, <2>3, <2>4, <2>5
<1> QED
  BY <1>5, <1>6, <1>10, <1>12, <1>13, <1>14, <1>16 DEF j

(* The papers of the others stay as they were, for their rows are locked.   *)
LEMMA CommitKeeps ==
  ASSUME IInv, NEW v \in Transactions, Commit(v)
  PROVE  LockInv'
<1> DEFINE j == tx[v].job
<1>1. /\ TypeOK /\ PapersFiled /\ NoConflict /\ Counted /\ papers \in Seq(Paper)
      /\ \A u \in Transactions : Underway(u)
      /\ LockInv /\ CheckStillHolds
  BY DEF IInv, LockInv, TypeOK
<1>2. Proper(j) /\ Prepared(j) /\ LockPlan(j) \subseteq tx[v].held /\ tx[v] # NoTransaction
  BY <1>1, CommitsCovered
<1>3. /\ papers' \in Seq(Paper) /\ posted' \in [Staff -> Int] /\ cash' \in Int /\ GivenBack'
  BY CommitEffects
<1>4. /\ tx' = [tx EXCEPT ![v] = NoTransaction]
      /\ UNCHANGED bounds
      /\ papers' = CASE j.id # 0 -> [papers EXCEPT ![j.id] = After(j)]
                     [] j.id = 0 /\ j.paper.kind \in Papers -> Append(papers, After(j))
                     [] OTHER -> papers
  BY DEF Commit
<1> HIDE DEF j
<1>5. /\ PapersFiled'
      /\ Len(papers') \in Nat /\ Len(papers') <= Len(papers) + (IF j.id = 0 THEN 1 ELSE 0)
      /\ \A i \in DOMAIN papers : i \in DOMAIN papers' /\ (i # j.id => papers'[i] = papers[i])
  BY <1>1, <1>2, <1>4, PapersAfter
<1>6. tx'[v] = NoTransaction /\ \A u \in Transactions \ {v} : tx'[u] = tx[u]
  BY <1>1, <1>4 DEF TypeOK
<1>7. TypeOK'
  <2>1. cash' <= Cash
    <3>1. Total(SpentAmount, papers') \in Nat
      BY <1>3, WeightTypes, TotalType
    <3>2. cash' + Total(SpentAmount, papers') <= Cash /\ Cash \in Nat
      BY <1>3, AmountsAssumption DEF GivenBack
    <3> QED
      BY ONLY <1>3, <3>1, <3>2
  <2>2. NoTransaction \in TxRecords /\ NoTransaction.phase = "idle"
    BY <1>1 DEF NoTransaction, TxRecords, TypeOK
  <2>3. tx' \in [Transactions -> TxRecords']
    BY <1>1, <1>4, <2>2 DEF TypeOK, TxRecords, bounds
  <2>4. \A u \in Transactions : tx'[u].phase # "idle" => tx'[u].job \in Job
    BY <1>1, <1>6, <2>2 DEF TypeOK
  <2> QED
    BY <1>1, <1>3, <1>4, <2>1, <2>3, <2>4 DEF TypeOK, TxRecords, bounds
<1>8. ASSUME NEW u \in Transactions PROVE Underway(u)'
  <2>1. CASE u = v
    BY <1>6, <2>1 DEF Underway, NoTransaction
  <2>2. CASE u # v
    <3>1. Underway(u) /\ tx'[u] = tx[u]
      BY <1>1, <1>6, <2>2
    <3>2. CASE tx[u].phase = "idle"
      BY <3>1, <3>2 DEF Underway
    <3>3. CASE tx[u].phase # "idle"
      <4> DEFINE k == tx[u].job
      <4>1. Prepared(k) /\ Locking(u)
        BY <3>1, <3>3 DEF Underway
      <4>2. Locking(u)'
        BY <3>1, <4>1 DEF Locking
      <4>3. k.op # "write" => k.id # j.id
        <5> SUFFICES ASSUME k.op # "write", k.id = j.id PROVE FALSE
          OBVIOUS
        <5>1. k.id # 0
          BY <4>1 DEF Prepared
        <5> DEFINE r == ForUpdate(RowOf(k.id))
        <5>2. r \in RowLock(k) /\ r \in RowLock(j)
          BY <5>1 DEF RowLock
        <5>3. r \in tx[u].held /\ r \in tx[v].held
          BY <1>2, <4>1, <5>2 DEF Locking, LockPlan
        <5>4. Conflict(r, r)
          BY LockClasses DEF Conflict
        <5> QED
          BY <1>1, <2>2, <5>3, <5>4 DEF NoConflict
      <4>4. Prepared(k)'
        <5>1. k' = k
          BY <3>1
        <5> HIDE DEF k
        <5>2. k.op # "write" => k.id \in DOMAIN papers' /\ k.paper = papers'[k.id]
          BY <1>5, <4>1, <4>3 DEF Prepared
        <5> QED
          BY <4>1, <5>1, <5>2 DEF Prepared
      <4> QED
        BY <3>1, <3>3, <4>2, <4>4 DEF Underway
    <3> QED
      BY <3>2, <3>3
  <2> QED
    BY <2>1, <2>2
<1>9. NoConflict'
  BY <1>1, <1>6 DEF NoConflict, NoTransaction
<1>10. Counted'
  <2>1. SumOver(Busy', Transactions) = SumOver(Busy, Transactions) - Load(tx[v]) + Load(NoTransaction)
        /\ SumOver(Busy, Transactions) \in Nat
    BY <1>1, <1>4, BusyStep
  <2>2. Load(NoTransaction) = 0 /\ Load(tx[v]) = 1
    BY <1>2 DEF Load
  <2>3. Len(papers) \in Nat /\ requests \in Nat /\ requests' = requests /\ Requests \in Nat
    BY <1>1, <1>4, AmountsAssumption DEF TypeOK, bounds
  <2>4. Len(papers) + SumOver(Busy, Transactions) + requests <= Requests
    BY <1>1 DEF Counted
  <2>5. Len(papers') + SumOver(Busy', Transactions) + requests' <= Requests
    BY <1>5, <2>1, <2>2, <2>3, <2>4
  <2> QED
    BY <2>5 DEF Counted
<1> QED
  BY <1>5, <1>7, <1>8, <1>9, <1>10 DEF LockInv

(* The site is not issued twice: its payer had what it took, or lacked no   *)
(* more than receipts that were deleted.                                    *)
LEMMA CommitKeepsSite ==
  ASSUME IInv, NEW v \in Transactions, Commit(v)
  PROVE  SiteNotOverIssued'
<1> DEFINE j == tx[v].job
           a == j.paper.amount
<1>1. /\ LockInv /\ CheckStillHolds /\ SiteNotOverIssued /\ TypeOK /\ StaffCovered
      /\ cash \in Int /\ removed \in Nat /\ papers \in Seq(Paper) /\ posted \in [Staff -> Int]
  BY DEF IInv, LockInv, TypeOK
<1>2. Proper(j) /\ \E spare \in 0..removed : CoveredBut(j, spare)
  BY <1>1, CommitsCovered
<1>3. /\ Available \in Int /\ Available' \in Int /\ Owed(j, Admin) \in Int
      /\ Available' >= Available - Owed(j, Admin)
      /\ cash' \in Int /\ papers' \in Seq(Paper) /\ posted' \in [Staff -> Int]
  BY CommitEffects
<1>4. removed' = removed
  BY DEF Commit, bounds
<1> HIDE DEF j, a
<1>5. a = j.paper.amount /\ a \in Nat /\ Own(j) \in Nat
  BY <1>2, RequestTypes, PaperTypes DEF Proper, Own, a
<1>6. \A s \in {posted, posted'} : s \in [Staff -> Int] =>
        SumOver([u \in Staff |-> IF s[u] > 0 THEN s[u] ELSE 0], Staff) \in Int
  <2> TAKE s \in {posted, posted'}
  <2> HAVE s \in [Staff -> Int]
  <2> DEFINE f == [u \in Staff |-> IF s[u] > 0 THEN s[u] ELSE 0]
  <2>1. \A u \in Staff : f[u] \in Int
    OBVIOUS
  <2> HIDE DEF f
  <2>2. SumOver(f, Staff) \in Int
    BY <2>1, TablesAssumption, SumType
  <2> QED
    BY <2>2 DEF f
<1>7. Floats \in Int /\ Floats' \in Int
  BY <1>1, <1>3, <1>6 DEF Floats
<1>8. PendingHandovers \in Int /\ PendingHandovers' \in Int
      /\ Held(Admin) \in Int /\ Held(Admin)' \in Int
  <2>1. PendingHandovers \in Int /\ Held(Admin) \in Int
    BY <1>1, Reserved
  <2>2. PendingHandovers' = Total(PromisedAmount, papers') /\ Held(Admin)' = Total(HeldBy(Admin), papers')
    BY <1>3, Readings DEF PendingHandovers, Held
  <2>3. Total(PromisedAmount, papers') \in Nat /\ Total(HeldBy(Admin), papers') \in Nat
    BY <1>3, WeightTypes, TotalType
  <2> QED
    BY <2>1, <2>2, <2>3
<1>9. Available + removed >= 0
  BY <1>1, <1>7, <1>8 DEF Available, SiteNotOverIssued
<1>10. Available' >= -removed
  <2>1. CASE Payer(j) = Admin
    <3>1. PICK spare \in 0..removed : CoveredBut(j, spare)
      BY <1>2
    <3>2. a <= Available + Own(j) + spare
      BY <1>5, <2>1, <3>1, UsersAssumption DEF CoveredBut, Users
    <3>3. Owed(j, Admin) = a - Own(j)
      BY <1>5, <2>1 DEF Owed
    <3>4. spare \in Nat /\ spare <= removed /\ removed \in Nat
      BY <1>1
    <3>5. /\ Available \in Int /\ Available' \in Int
          /\ Available' >= Available - Owed(j, Admin)
      BY <1>3
    <3>6. Available' >= Available - (a - Own(j))
      BY <3>3, <3>5
    <3>7. Available - (a - Own(j)) + removed >= 0
      BY ONLY <1>5, <3>2, <3>4, <3>5
    <3> QED
      BY ONLY <1>5, <3>4, <3>5, <3>6, <3>7
  <2>2. CASE Payer(j) # Admin
    <3>1. Owed(j, Admin) = 0
      BY <2>2 DEF Owed
    <3>2. /\ Available \in Int /\ Available' \in Int /\ removed \in Nat
          /\ Available' >= Available - Owed(j, Admin)
      BY <1>1, <1>3
    <3>3. Available' >= Available
      BY ONLY <3>1, <3>2
    <3> QED
      BY ONLY <1>9, <3>2, <3>3
  <2> QED
    BY <2>1, <2>2
<1>11. Available' = cash' - Floats' - PendingHandovers' - Held(Admin)'
  BY DEF Available
<1>12. Floats' + PendingHandovers' + Held(Admin)' <= cash' + removed'
  <2>1. cash' \in Int /\ removed \in Int /\ removed' = removed
    BY <1>1, <1>3, <1>4
  <2> QED
    BY ONLY <1>7, <1>8, <1>10, <1>11, <2>1
<1> QED
  BY <1>12 DEF SiteNotOverIssued

(* Nobody else pays from the account a request has checked: its lock is     *)
(* held until the request ends.                                             *)
LEMMA CommitKeepsChecks ==
  ASSUME IInv, NEW v \in Transactions, Commit(v)
  PROVE  CheckStillHolds'
<1> DEFINE j == tx[v].job
<1>1. /\ LockInv /\ CheckStillHolds /\ TypeOK /\ PapersFiled /\ NoConflict
      /\ \A u \in Transactions : Underway(u)
      /\ papers \in Seq(Paper) /\ removed \in Nat
  BY DEF IInv, LockInv, TypeOK
<1>2. Proper(j) /\ LockPlan(j) \subseteq tx[v].held
  BY <1>1, CommitsCovered
<1>3. /\ \A u \in Staff : /\ Balance(u) \in Int /\ Balance(u)' \in Int /\ Owed(j, u) \in Int
                          /\ Balance(u)' >= Balance(u) - Owed(j, u)
      /\ Available \in Int /\ Available' \in Int /\ Owed(j, Admin) \in Int
      /\ Available' >= Available - Owed(j, Admin)
  BY CommitEffects
<1>4. tx' = [tx EXCEPT ![v] = NoTransaction] /\ removed' = removed
  BY DEF Commit, bounds
<1> HIDE DEF j
<1> SUFFICES ASSUME NEW u \in Transactions, tx'[u].phase = "writing"
             PROVE  CoveredBut(tx[u].job, removed - tx[u].seen)' 
  BY DEF CheckStillHolds
<1> DEFINE k == tx[u].job
           b == k.paper.amount
           spare == removed - tx[u].seen
<1>5. u # v /\ tx'[u] = tx[u]
  BY <1>1, <1>4 DEF TypeOK, NoTransaction
<1>6. Underway(u) /\ tx[u].phase = "writing" /\ k \in Job /\ tx[u].seen \in 0..removed
  BY <1>1, <1>5 DEF TypeOK
<1>7. Prepared(k) /\ LockPlan(k) \subseteq tx[u].held /\ CoveredBut(k, spare)
  BY <1>1, <1>6 DEF Underway, Locking, CheckStillHolds
<1>8. Proper(k)
  BY <1>1, <1>6, <1>7, PreparedIsProper
<1>9. k' = k /\ spare' = spare
  BY <1>4, <1>5
<1>10. spare \in Nat
  BY <1>1, <1>6
<1> HIDE DEF k, spare
<1>11. b \in Nat /\ Own(k) \in Nat
  BY <1>8, RequestTypes, PaperTypes DEF Proper, Own
<1>12. ASSUME NEW l, l \in LockPlan(j), l \in LockPlan(k), l.mode = "update" PROVE FALSE
  <2>1. l \in tx[v].held /\ l \in tx[u].held
    BY <1>2, <1>7, <1>12
  <2>2. Conflict(l, l)
    BY <1>12 DEF Conflict
  <2> QED
    BY <1>1, <1>5, <2>1, <2>2 DEF NoConflict
<1>13. Payer(k) = Admin => Payer(j) # Admin
  <2> SUFFICES ASSUME Payer(k) = Admin, Payer(j) = Admin PROVE FALSE
    OBVIOUS
  <2>1. LocksSite(j) /\ LocksSite(k)
    BY DEF LocksSite
  <2>2. ForUpdate(Site) \in LockPlan(j) /\ ForUpdate(Site) \in LockPlan(k) /\ ForUpdate(Site).mode = "update"
    BY <2>1, LockClasses DEF LockPlan, SiteLock
  <2> QED
    BY <1>12, <2>2
<1>14. Payer(k) \in Staff => Payer(j) # Payer(k)
  <2> SUFFICES ASSUME Payer(k) \in Staff, Payer(j) = Payer(k) PROVE FALSE
    OBVIOUS
  <2>1. Payer(k) \in Accounts(j) /\ Payer(k) \in Accounts(k)
    BY <1>2, <1>8, PayerIsLocked
  <2> DEFINE l == ForUpdate(UserRow(Payer(k)))
  <2>2. l \in LockPlan(j) /\ l \in LockPlan(k) /\ l.mode = "update"
    BY <2>1, LockClasses DEF LockPlan
  <2> HIDE DEF l
  <2> QED
    BY <1>12, <2>2
<1>15. Payer(k) \in Staff \cup {Admin, Nobody} /\ Admin # Nobody /\ Nobody \notin Staff /\ Admin \notin Staff
  BY <1>8, PayerIsLocked, UsersAssumption DEF Users
<1>16. Own(k)' = Own(k) /\ Payer(k)' = Payer(k) /\ b' = b
  BY <1>9 DEF Own, Payer
<1>17. CASE Payer(k) = Nobody
  <2>1. CoveredBut(k, spare)'
    BY <1>15, <1>16, <1>17 DEF CoveredBut
  <2> QED
    BY <2>1 DEF k, spare
<1>18. CASE Payer(k) = Admin
  <2>1. b <= Available + Own(k) + spare
    BY <1>7, <1>15, <1>18 DEF CoveredBut
  <2>2. Owed(j, Admin) = 0
    BY <1>13, <1>18 DEF Owed
  <2>3. b <= Available' + Own(k) + spare
    BY <1>3, <1>10, <1>11, <2>1, <2>2
  <2>4. CoveredBut(k, spare)'
    BY <1>9, <1>15, <1>16, <1>18, <2>3 DEF CoveredBut
  <2> QED
    BY <2>4 DEF k, spare
<1>19. CASE Payer(k) \in Staff
  <2>1. PICK q \in Staff : q = Payer(k)
    BY <1>19
  <2>2. b <= Balance(q) + Own(k)
    BY <1>7, <1>15, <2>1 DEF CoveredBut
  <2>3. Owed(j, q) = 0
    BY <1>14, <2>1 DEF Owed
  <2>4. /\ Balance(q) \in Int /\ Balance(q)' \in Int
        /\ Balance(q)' >= Balance(q) - Owed(j, q)
    BY <1>3
  <2>5. b <= Balance(q)' + Own(k)
    BY ONLY <1>11, <2>2, <2>3, <2>4
  <2>6. CoveredBut(k, spare)'
    <3>1. Payer(k)' = q /\ q # Admin /\ q # Nobody
      BY <1>15, <1>16, <2>1
    <3>2. Balance(Payer(k))' = Balance(q)'
      BY <3>1 DEF Balance, Held
    <3>3. (k.paper.amount <= Balance(Payer(k)) + Own(k))'
      BY <1>16, <2>5, <3>2
    <3> QED
      BY <3>1, <3>3 DEF CoveredBut
  <2> QED
    BY <2>6 DEF k, spare
<1> QED
  BY <1>15, <1>17, <1>18, <1>19

-----------------------------------------------------------------------------
(* Steps that leave the books alone, and the removal of a receipt.          *)

LEMMA BooksStay ==
  ASSUME UNCHANGED <<posted, papers>>
  PROVE  /\ \A u : Held(u)' = Held(u) /\ Balance(u)' = Balance(u)
         /\ PendingHandovers' = PendingHandovers /\ Floats' = Floats
         /\ StaffCovered' <=> StaffCovered
<1>1. \A u : Held(u)' = Held(u)
  BY DEF Held
<1>2. \A u : Balance(u)' = Balance(u)
  BY <1>1 DEF Balance
<1>3. PendingHandovers' = PendingHandovers
  BY DEF PendingHandovers
<1>4. Floats' = Floats
  BY DEF Floats
<1>5. StaffCovered' <=> StaffCovered
  BY <1>1 DEF StaffCovered
<1> QED
  BY <1>1, <1>2, <1>3, <1>4, <1>5

LEMMA BooksKept ==
  ASSUME IInv, LockInv', UNCHANGED <<books, removed>>,
         \A u \in Transactions : tx'[u].phase = "writing" =>
           \/ tx[u].phase = "writing" /\ tx'[u].job = tx[u].job /\ tx'[u].seen = tx[u].seen
           \/ tx'[u].seen = removed /\ Covered(tx'[u].job)
  PROVE  IInv'
<1>1. /\ StaffCovered /\ SiteNotOverIssued /\ GivenBack /\ CheckStillHolds
      /\ removed \in Nat /\ UNCHANGED <<posted, papers>> /\ cash' = cash /\ removed' = removed
  BY DEF IInv, LockInv, TypeOK, books
<1>2. /\ \A u : Held(u)' = Held(u) /\ Balance(u)' = Balance(u)
      /\ PendingHandovers' = PendingHandovers /\ Floats' = Floats
      /\ StaffCovered' <=> StaffCovered
  BY <1>1, BooksStay
<1>3. Available' = Available
  BY <1>1, <1>2 DEF Available
<1>4. SiteNotOverIssued'
  BY <1>1, <1>2 DEF SiteNotOverIssued
<1>5. GivenBack'
  BY <1>1 DEF GivenBack
<1>6. \A j, s : CoveredBut(j, s)' <=> CoveredBut(j, s)
  <2> TAKE j, s
  <2>1. Payer(j)' = Payer(j) /\ Own(j)' = Own(j)
    BY DEF Payer, Own
  <2>2. Balance(Payer(j))' = Balance(Payer(j))
    BY <1>2, <2>1
  <2> QED
    BY <1>3, <2>1, <2>2 DEF CoveredBut
<1>7. CheckStillHolds'
  <2> SUFFICES ASSUME NEW u \in Transactions, tx'[u].phase = "writing"
               PROVE  CoveredBut(tx[u].job, removed - tx[u].seen)'
    BY DEF CheckStillHolds
  <2>1. CASE tx[u].phase = "writing" /\ tx'[u].job = tx[u].job /\ tx'[u].seen = tx[u].seen
    <3> DEFINE j == tx[u].job
               s == removed - tx[u].seen
    <3>1. CoveredBut(j, s)
      BY <1>1, <2>1 DEF CheckStillHolds
    <3>2. j' = j /\ s' = s
      BY <1>1, <2>1
    <3>3. PICK k, r : k = j /\ r = s
      OBVIOUS
    <3>4. CoveredBut(k, r)'
      BY <1>6, <3>1, <3>3
    <3> HIDE DEF j, s
    <3>5. CoveredBut(j, s)'
      BY <3>2, <3>3, <3>4
    <3> QED
      BY <3>5 DEF j, s
  <2>2. CASE tx'[u].seen = removed /\ Covered(tx'[u].job)
    <3>1. PICK k, r : k = tx'[u].job /\ r = 0
      OBVIOUS
    <3>2. CoveredBut(k, r)'
      BY <1>6, <2>2, <3>1 DEF Covered
    <3>3. removed' - tx'[u].seen = r
      BY <1>1, <2>2, <3>1
    <3> QED
      BY <3>1, <3>2, <3>3
  <2> QED
    BY <2>1, <2>2
<1> QED
  BY <1>1, <1>2, <1>4, <1>5, <1>7 DEF IInv

(* A receipt that is deleted is counted on both sides of every comparison   *)
(* with the cash of the site.                                               *)
LEMMA RemovalKeepsAll ==
  ASSUME IInv, NEW a \in Amounts, RemoveReceipt(a)
  PROVE  IInv'
<1>1. /\ StaffCovered /\ SiteNotOverIssued /\ GivenBack /\ CheckStillHolds /\ LockInv /\ TypeOK
      /\ cash \in Int /\ removed \in Nat /\ papers \in Seq(Paper) /\ posted \in [Staff -> Int]
  BY DEF IInv, LockInv, TypeOK
<1>2. /\ cash' = cash - a /\ removed' = removed + a /\ UNCHANGED <<posted, papers>> /\ tx' = tx
  BY DEF RemoveReceipt
<1>3. a \in Nat
  BY AmountsAssumption
<1>4. LockInv'
  BY <1>1, RemovalKeeps
<1>5. /\ \A u : Held(u)' = Held(u) /\ Balance(u)' = Balance(u)
      /\ PendingHandovers' = PendingHandovers /\ Floats' = Floats
      /\ StaffCovered' <=> StaffCovered
  BY <1>2, BooksStay
<1>6. PendingHandovers \in Nat /\ Held(Admin) \in Nat
  BY <1>1, Reserved
<1>7. Floats \in Int
  <2> DEFINE f == [u \in Staff |-> IF posted[u] > 0 THEN posted[u] ELSE 0]
  <2>1. \A u \in Staff : f[u] \in Int
    BY <1>1
  <2> HIDE DEF f
  <2>2. SumOver(f, Staff) \in Int
    BY <2>1, TablesAssumption, SumType
  <2> QED
    BY <2>2 DEF f, Floats
<1>8. Available \in Int /\ Available' = Available - a
  <2>1. Available = cash - Floats - PendingHandovers - Held(Admin)
        /\ Available' = cash' - Floats' - PendingHandovers' - Held(Admin)'
    BY DEF Available
  <2>2. Held(Admin)' = Held(Admin)
    BY <1>5
  <2>3. Floats' = Floats /\ PendingHandovers' = PendingHandovers
    BY <1>5
  <2> QED
    BY <1>1, <1>2, <1>3, <1>6, <1>7, <2>1, <2>2, <2>3
<1>9. SiteNotOverIssued'
  <2>1. Floats' + PendingHandovers' + Held(Admin)' = Floats + PendingHandovers + Held(Admin)
    BY <1>5
  <2>2. Floats + PendingHandovers + Held(Admin) <= cash + removed
    BY <1>1 DEF SiteNotOverIssued
  <2>3. cash' + removed' = cash + removed
    BY <1>1, <1>2, <1>3
  <2> QED
    BY <2>1, <2>2, <2>3 DEF SiteNotOverIssued
<1>10. GivenBack'
  <2>1. Total(SpentAmount, papers) \in Nat
    BY <1>1, WeightTypes, TotalType
  <2>2. cash + Total(SpentAmount, papers) <= Cash /\ Cash \in Nat
    BY <1>1, AmountsAssumption DEF GivenBack
  <2>3. cash' + Total(SpentAmount, papers) <= Cash
    BY <1>1, <1>2, <1>3, <2>1, <2>2
  <2> QED
    BY <1>2, <2>3 DEF GivenBack
<1>11. CheckStillHolds'
  <2> SUFFICES ASSUME NEW u \in Transactions, tx[u].phase = "writing"
               PROVE  CoveredBut(tx[u].job, removed - tx[u].seen)'
    BY <1>2 DEF CheckStillHolds
  <2> DEFINE j == tx[u].job
             s == removed - tx[u].seen
             r == removed' - tx'[u].seen
  <2>1. CoveredBut(j, s) /\ j \in Job /\ tx[u].seen \in 0..removed
    BY <1>1 DEF CheckStillHolds, TypeOK
  <2>2. s \in Nat /\ r = s + a /\ j' = j
    BY <1>1, <1>2, <1>3, <2>1
  <2>3. /\ Admin # Nobody
        /\ j.paper.amount \in Nat /\ Own(j) \in Nat
    BY <2>1, RequestTypes, PaperTypes, UsersAssumption DEF Own, Users
  <2>4. PICK k, q : k = j /\ q = r
    OBVIOUS
  <2> HIDE DEF j, s, r
  <2>5. CoveredBut(k, s) /\ k.paper.amount \in Nat /\ Own(k) \in Nat /\ s \in Nat /\ q = s + a
    BY <2>1, <2>2, <2>3, <2>4
  <2>6. Payer(k)' = Payer(k) /\ Own(k)' = Own(k)
    BY DEF Payer, Own
  <2>7. CoveredBut(k, q)'
    <3>1. CASE Payer(k) = Nobody
      BY <2>3, <2>6, <3>1 DEF CoveredBut
    <3>2. CASE Payer(k) = Admin
      <4>1. k.paper.amount <= Available + Own(k) + s
        BY <2>3, <2>5, <3>2 DEF CoveredBut
      <4>2. k.paper.amount <= (Available - a) + Own(k) + q
        BY ONLY <1>3, <1>8, <2>5, <4>1
      <4>3. (k.paper.amount <= Available + Own(k) + q)'
        BY <1>8, <2>6, <4>2
      <4> QED
        BY <2>3, <2>6, <3>2, <4>3 DEF CoveredBut
    <3>3. CASE Payer(k) # Admin /\ Payer(k) # Nobody
      <4>1. k.paper.amount <= Balance(Payer(k)) + Own(k)
        BY <2>5, <3>3 DEF CoveredBut
      <4>2. Balance(Payer(k))' = Balance(Payer(k))
        BY <1>5, <2>6
      <4> QED
        BY <2>6, <3>3, <4>1, <4>2 DEF CoveredBut
    <3> QED
      BY <3>1, <3>2, <3>3
  <2>8. CoveredBut(j, s)'
    <3>1. j' = k /\ s' = q
      BY <2>2, <2>4 DEF s, r
    <3> QED
      BY <2>7, <3>1
  <2> QED
    BY <2>8 DEF j, s
<1> QED
  BY <1>1, <1>4, <1>5, <1>9, <1>10, <1>11 DEF IInv

-----------------------------------------------------------------------------
(* The invariant holds at first, and every step keeps it.                   *)

LEMMA Initially == Init => IInv
<1> SUFFICES ASSUME Init PROVE IInv
  OBVIOUS
<1>1. /\ cash = Cash /\ posted = [u \in Staff |-> Float] /\ papers = <<>>
      /\ tx = [t \in Transactions |-> NoTransaction]
      /\ requests = Requests /\ removals = Removals /\ removed = 0
  BY DEF Init
<1>2. /\ Cash \in Nat /\ Float \in Nat /\ Requests \in Nat /\ Removals \in Nat
      /\ Cardinality(Staff) * Float <= Cash
  BY AmountsAssumption
<1>3. papers \in Seq(Paper) /\ Len(papers) = 0 /\ DOMAIN papers = {}
  BY <1>1
<1>4. TypeOK
  <2>1. NoTransaction \in TxRecords /\ NoTransaction.phase = "idle"
    BY <1>1 DEF NoTransaction, TxRecords
  <2>2. tx \in [Transactions -> TxRecords]
    BY <1>1, <2>1
  <2>3. \A t \in Transactions : tx[t].phase = "idle"
    BY <1>1, <2>1
  <2>4. /\ requests \in 0..Requests /\ removals \in 0..Removals /\ removed \in Nat
        /\ cash \in Int /\ cash <= Cash /\ posted \in [Staff -> Int]
    BY ONLY <1>1, <1>2
  <2> QED
    BY <1>3, <2>2, <2>3, <2>4 DEF TypeOK, TxRecords
<1>5. PapersFiled
  BY <1>3 DEF PapersFiled
<1>6. \A t \in Transactions : Underway(t)
  BY <1>1 DEF Underway, NoTransaction
<1>7. NoConflict
  BY <1>1 DEF NoConflict, NoTransaction
<1>8. Counted
  <2>1. \A t \in Transactions : Busy[t] = 0
    BY <1>1 DEF Busy
  <2> DEFINE f == Busy
  <2> HIDE DEF f
  <2>2. SumOver(f, Transactions) = 0
    BY <2>1, TablesAssumption, SumZero DEF f
  <2>3. SumOver(Busy, Transactions) = 0
    BY <2>2 DEF f
  <2>4. Len(papers) + SumOver(Busy, Transactions) + requests <= Requests
    BY ONLY <1>1, <1>2, <1>3, <2>3
  <2> QED
    BY <2>4 DEF Counted
<1>9. \A W : Total(W, papers) = 0
  <2> TAKE W
  <2> DEFINE f == [i \in DOMAIN papers |-> W[papers[i]]]
  <2>1. SumOver(f, {}) = 0
    BY SumEmpty
  <2> QED
    BY <1>3, <2>1 DEF Total
<1>10. GivenBack
  <2>1. Total(SpentAmount, papers) = 0
    BY <1>9
  <2>2. cash + Total(SpentAmount, papers) <= Cash
    BY ONLY <1>1, <1>2, <2>1
  <2> QED
    BY <2>2 DEF GivenBack
<1>11. PendingHandovers = 0 /\ \A u : Held(u) = 0
  BY <1>3, <1>9, Reserved
<1>12. StaffCovered
  BY <1>1, <1>2, <1>11 DEF StaffCovered
<1>13. SiteNotOverIssued
  <2> DEFINE f == [u \in Staff |-> IF posted[u] > 0 THEN posted[u] ELSE 0]
  <2>1. \A u \in Staff : f[u] = Float
    BY ONLY <1>1, <1>2
  <2> HIDE DEF f
  <2>2. SumOver(f, Staff) = Cardinality(Staff) * Float
    BY <1>2, <2>1, TablesAssumption, SumConstant
  <2>3. Floats = Cardinality(Staff) * Float
    BY <2>2 DEF Floats, f
  <2>4. Floats <= cash
    BY <1>1, <1>2, <2>3
  <2>5. Floats \in Int
    BY <1>2, <2>3, TablesAssumption, FS_CardinalityType
  <2>6. Floats + PendingHandovers + Held(Admin) = Floats
    BY <1>11, <2>5
  <2>7. cash + removed = cash
    BY ONLY <1>1, <1>2
  <2> QED
    BY <2>4, <2>6, <2>7 DEF SiteNotOverIssued
<1>14. CheckStillHolds
  BY <1>1 DEF CheckStillHolds, NoTransaction
<1> QED
  BY <1>4, <1>5, <1>6, <1>7, <1>8, <1>10, <1>12, <1>13, <1>14 DEF IInv, LockInv

(* A request for a new paper, or on a paper that may still be decided.      *)
LEMMA RequestsArePrepared ==
  ASSUME LockInv, NEW u \in Users
  PROVE  /\ \A p \in Drafts : LET j == [op |-> "write", by |-> u, id |-> 0, paper |-> p]
                              IN j \in Job /\ Prepared(j)
         /\ \A o \in {"accept", "refuse"}, i \in DOMAIN papers : Decidable(o, papers[i]) =>
              LET j == [op |-> o, by |-> u, id |-> i, paper |-> papers[i]]
              IN j \in Job /\ Prepared(j)
<1>1. papers \in Seq(Paper) /\ Requests \in Nat
  BY AmountsAssumption DEF LockInv, TypeOK
<1>2. ASSUME NEW p \in Drafts
      PROVE  LET j == [op |-> "write", by |-> u, id |-> 0, paper |-> p]
             IN j \in Job /\ Prepared(j)
  <2>1. p \in Paper /\ Writable(p) /\ 0 \in 0..Requests
    BY <1>1 DEF Drafts
  <2> QED
    BY <2>1 DEF Job, Prepared
<1>3. ASSUME NEW o \in {"accept", "refuse"}, NEW i \in DOMAIN papers, Decidable(o, papers[i])
      PROVE  LET j == [op |-> o, by |-> u, id |-> i, paper |-> papers[i]]
             IN j \in Job /\ Prepared(j)
  <2>1. papers[i] \in Paper /\ i \in Nat /\ i <= Len(papers) /\ i # 0 /\ Len(papers) \in Nat
    BY <1>1
  <2>2. Len(papers) <= Requests
    <3>1. SumOver(Busy, Transactions) \in Nat
      <4>1. \A t \in Transactions : Busy[t] \in Nat
        BY DEF Busy
      <4> DEFINE f == Busy
      <4> HIDE DEF f
      <4>2. SumOver(f, Transactions) \in Nat
        BY <4>1, TablesAssumption, SumNatural DEF f
      <4> QED
        BY <4>2 DEF f
    <3>2. Len(papers) + SumOver(Busy, Transactions) + requests <= Requests /\ requests \in Nat
      BY DEF LockInv, Counted, TypeOK
    <3> QED
      BY ONLY <1>1, <2>1, <3>1, <3>2
  <2>3. i \in 0..Requests
    BY <1>1, <2>1, <2>2
  <2> QED
    BY <1>3, <2>1, <2>3 DEF Job, Prepared
<1> QED
  BY <1>2, <1>3

LEMMA BeginKeepsAll ==
  ASSUME IInv, NEW t \in Transactions, NEW j \in Job, Prepared(j), Begin(t, j)
  PROVE  IInv'
<1>1. LockInv /\ LockInv' /\ UNCHANGED <<books, removed>>
  BY BeginKeeps DEF IInv, Begin
<1>2. \A u \in Transactions : tx'[u].phase = "writing" => tx'[u] = tx[u]
  <2>1. \A u \in Transactions \ {t} : tx'[u] = tx[u]
    BY <1>1 DEF Begin, LockInv, TypeOK
  <2>2. tx'[t].phase = "locking"
    BY <1>1 DEF Begin, LockInv, TypeOK
  <2> QED
    BY <2>1, <2>2
<1> QED
  BY <1>1, <1>2, BooksKept

LEMMA StepKeepsAll ==
  ASSUME IInv, NEW t \in Transactions, Step(t) \/ DeadlockVictim(t)
  PROVE  IInv'
<1>1. LockInv /\ TypeOK
  BY DEF IInv, LockInv
<1>2. CASE Acquire(t)
  <2>1. LockInv' /\ UNCHANGED <<books, removed>>
    BY <1>1, <1>2, AcquireKeeps DEF Acquire, bounds
  <2>2. \A u \in Transactions :
          tx'[u].phase = tx[u].phase /\ tx'[u].job = tx[u].job /\ tx'[u].seen = tx[u].seen
    <3>1. tx \in [Transactions -> TxRecords]
      BY <1>1 DEF TypeOK, TxRecords
    <3> QED
      BY <1>2, <3>1 DEF Acquire, TxRecords
  <2> QED
    BY <2>1, <2>2, BooksKept
<1>3. CASE Check(t)
  <2>1. LockInv' /\ UNCHANGED <<books, removed>>
    BY <1>1, <1>3, CheckKeeps DEF Check, bounds
  <2>2. \A u \in Transactions \ {t} : tx'[u] = tx[u]
    BY <1>1, <1>3 DEF Check, TypeOK
  <2>3. tx'[t].seen = removed /\ tx'[t].job = tx[t].job /\ Covered(tx[t].job)
    <3>1. tx[t] \in TxRecords /\ tx \in [Transactions -> TxRecords]
      BY <1>1 DEF TypeOK, TxRecords
    <3> QED
      BY <1>3, <3>1 DEF Check, TxRecords
  <2>4. Covered(tx'[t].job)
    BY <2>3
  <2> QED
    BY <2>1, <2>2, <2>3, <2>4, BooksKept
<1>4. CASE Rollback(t)
  <2>1. LockInv' /\ UNCHANGED <<books, removed>>
    BY <1>1, <1>4, RollbackKeeps DEF Rollback, bounds
  <2>2. \A u \in Transactions : tx'[u].phase = "writing" => tx'[u] = tx[u]
    BY <1>1, <1>4 DEF Rollback, TypeOK, NoTransaction
  <2> QED
    BY <2>1, <2>2, BooksKept
<1>5. CASE Commit(t)
  <2>1. GivenBack' /\ StaffCovered'
    BY <1>5, CommitEffects
  <2> QED
    BY <1>5, <2>1, CommitKeeps, CommitKeepsSite, CommitKeepsChecks DEF IInv
<1> QED
  BY <1>2, <1>3, <1>4, <1>5 DEF Step, TurnDown, DeadlockVictim

LEMMA AccountsStep == IInv /\ [Next]_vars => IInv'
<1> SUFFICES ASSUME IInv, [Next]_vars PROVE IInv'
  OBVIOUS
<1>1. LockInv
  BY DEF IInv
<1>2. ASSUME NEW t \in Transactions, NEW u \in Users, NEW p \in Drafts, Write(t, u, p)
      PROVE  IInv'
  <2> DEFINE j == [op |-> "write", by |-> u, id |-> 0, paper |-> p]
  <2>1. j \in Job /\ Prepared(j)
    BY <1>1, RequestsArePrepared
  <2>2. Begin(t, j)
    BY <1>2 DEF Write
  <2> HIDE DEF j
  <2> QED
    BY <2>1, <2>2, BeginKeepsAll
<1>3. ASSUME NEW t \in Transactions, NEW u \in Users, NEW i \in DOMAIN papers,
             Accept(t, u, i) \/ Refuse(t, u, i)
      PROVE  IInv'
  <2>1. PICK o \in {"accept", "refuse"} :
          /\ Decidable(o, papers[i])
          /\ Begin(t, [op |-> o, by |-> u, id |-> i, paper |-> papers[i]])
    BY <1>3 DEF Accept, Refuse
  <2>2. PICK j : j = [op |-> o, by |-> u, id |-> i, paper |-> papers[i]]
    OBVIOUS
  <2>3. j \in Job /\ Prepared(j) /\ Begin(t, j)
    BY <1>1, <2>1, <2>2, RequestsArePrepared
  <2> QED
    BY <2>3, BeginKeepsAll
<1>4. CASE UNCHANGED vars
  <2> USE <1>4 DEF vars
  <2>1. LockInv'
    <3>1. TypeOK' <=> TypeOK
      BY DEF TypeOK
    <3>2. PapersFiled' <=> PapersFiled
      BY DEF PapersFiled
    <3>3. \A t \in Transactions : Underway(t)' <=> Underway(t)
      BY DEF Underway, Prepared, Locking
    <3>4. NoConflict' <=> NoConflict
      BY DEF NoConflict
    <3>5. Counted' <=> Counted
      BY DEF Counted, Busy
    <3> QED
      BY <1>1, <3>1, <3>2, <3>3, <3>4, <3>5 DEF LockInv
  <2>2. UNCHANGED <<books, removed>> /\ tx' = tx
    BY <1>4 DEF vars, books
  <2> QED
    BY <2>1, <2>2, BooksKept
<1> QED
  BY <1>2, <1>3, <1>4, StepKeepsAll, RemovalKeepsAll DEF Next

LEMMA Invariance == Spec => []IInv
<1>1. Init => IInv
  BY Initially
<1>2. IInv /\ [Next]_vars => IInv'
  BY AccountsStep
<1> QED
  BY <1>1, <1>2, PTL DEF Spec

-----------------------------------------------------------------------------
(* The locks that are taken for update are ordered, with rows of one class  *)
(* that are not accounts alike.                                             *)

Explicit(l) == l \in Locks /\ l.mode = "update"

LEMMA ExplicitOrder ==
  /\ \A l : Explicit(l) => Class(l) \in {1, 3, 4} /\ (Class(l) = 4 => l.on[2] \in Nat)
  /\ \A l : Explicit(l) => ~Before(l, l)
  /\ \A k, l, m, n : /\ Explicit(k) /\ Explicit(l) /\ Explicit(m) /\ Explicit(n)
                     /\ Before(k, l) /\ ~Before(l, m) /\ ~Before(m, l) /\ Before(m, n)
                     => Before(k, n)
<1>1. ASSUME NEW l, Explicit(l)
      PROVE  Class(l) \in {1, 3, 4} /\ (Class(l) = 4 => l.on[2] \in Nat)
  <2>1. l.on \in Resources /\ l.mode = "update"
    BY <1>1 DEF Explicit, Locks
  <2>2. l.on[1] \in {"paper", "site"} \/ l.on[2] \in Users
    BY <2>1 DEF Resources, RowOf, Site, UserRow
  <2>3. Users \subseteq Nat
    BY UsersAssumption DEF Users
  <2> QED
    BY <2>1, <2>2, <2>3 DEF Class
<1>2. \A l : Explicit(l) => ~Before(l, l)
  BY <1>1 DEF Before
<1>3. ASSUME NEW k, NEW l, NEW m, NEW n, Explicit(k), Explicit(l), Explicit(m), Explicit(n),
             Before(k, l), ~Before(l, m), ~Before(m, l), Before(m, n)
      PROVE  Before(k, n)
  <2>1. /\ Class(k) \in {1, 3, 4} /\ (Class(k) = 4 => k.on[2] \in Nat)
        /\ Class(l) \in {1, 3, 4} /\ (Class(l) = 4 => l.on[2] \in Nat)
        /\ Class(m) \in {1, 3, 4} /\ (Class(m) = 4 => m.on[2] \in Nat)
        /\ Class(n) \in {1, 3, 4} /\ (Class(n) = 4 => n.on[2] \in Nat)
    BY <1>1, <1>3
  <2> QED
    BY <1>3, <2>1 DEF Before
<1> QED
  BY <1>1, <1>2, <1>3

LEMMA WaitingIsOrdered == LockInv => ExplicitLocksOrdered
<1> SUFFICES ASSUME LockInv, NEW S \in SUBSET Transactions, S # {},
                    \A t \in S : \E u \in S : ExplicitlyWaitsFor(t, u)
             PROVE  FALSE
  BY DEF ExplicitLocksOrdered
<1> DEFINE F(t) == {l \in Firsts(tx[t].todo) : l.mode = "update"}
           R == {p \in S \X S : \E l \in F(p[1]), m \in F(p[2]) : Before(l, m)}
<1>1. \A t \in S : /\ F(t) \subseteq tx[t].todo
                   /\ \A l \in F(t) : Explicit(l)
                   /\ \A l, m \in F(t) : ~Before(l, m)
  <2> TAKE t \in S
  <2>1. tx[t].todo \subseteq Locks
    BY DEF LockInv, TypeOK
  <2>2. F(t) \subseteq tx[t].todo /\ \A l, m \in F(t) : ~Before(l, m)
    BY DEF Firsts
  <2>3. \A l \in F(t) : l.mode = "update"
    OBVIOUS
  <2> HIDE DEF F
  <2>4. \A l \in F(t) : Explicit(l)
    BY <2>1, <2>2, <2>3 DEF Explicit
  <2> QED
    BY <2>2, <2>4
<1>2. ASSUME NEW t \in S
      PROVE  \E u \in S : <<t, u>> \in R
  <2>1. PICK u \in S : ExplicitlyWaitsFor(t, u)
    OBVIOUS
  <2>2. PICK l \in F(t) : l \in tx[u].held
    BY <2>1 DEF ExplicitlyWaitsFor
  <2>3. PICK v \in S : ExplicitlyWaitsFor(u, v)
    OBVIOUS
  <2>4. PICK n : n \in F(u)
    BY <2>3 DEF ExplicitlyWaitsFor
  <2>5. Explicit(l) /\ Explicit(n) /\ n \in tx[u].todo
    BY <1>1, <2>2, <2>4
  <2>6. Locking(u)
    <3>1. u \in Transactions /\ tx[u].todo # {}
      BY <2>5
    <3>2. Underway(u)
      BY <3>1 DEF LockInv
    <3> QED
      BY ONLY <3>1, <3>2 DEF Underway, NoTransaction
  <2>7. Before(l, n)
    BY <2>2, <2>5, <2>6 DEF Locking, Explicit
  <2> QED
    BY <2>2, <2>4, <2>7
<1>3. \A x \in S : <<x, x>> \notin R
  BY <1>1
<1>4. \A x, y, z \in S : <<x, y>> \in R /\ <<y, z>> \in R => <<x, z>> \in R
  <2> SUFFICES ASSUME NEW x \in S, NEW y \in S, NEW z \in S, <<x, y>> \in R, <<y, z>> \in R
               PROVE  <<x, z>> \in R
    OBVIOUS
  <2>1. PICK k \in F(x), l \in F(y) : Before(k, l)
    OBVIOUS
  <2>2. PICK m \in F(y), n \in F(z) : Before(m, n)
    OBVIOUS
  <2>3. Explicit(k) /\ Explicit(l) /\ Explicit(m) /\ Explicit(n)
        /\ ~Before(l, m) /\ ~Before(m, l)
    BY <1>1, <2>1, <2>2
  <2>4. Before(k, n)
    BY <2>1, <2>2, <2>3, ExplicitOrder
  <2> QED
    BY <2>1, <2>2, <2>4
<1>5. IsFiniteSet(S) /\ S # {}
  BY TablesAssumption, FS_Subset
<1> HIDE DEF R
<1>6. \E x \in S : \A y \in S : <<x, y>> \notin R
  BY <1>3, <1>4, <1>5, MaximalElement
<1> QED
  BY <1>2, <1>6

-----------------------------------------------------------------------------
(* What the requests on the site's cash and the staff's floats guarantee.   *)

(* The cash of the site covers the floats of its staff, the handovers that  *)
(* wait for them and the Admin's reservations, but for receipts that were   *)
(* deleted: the amount that siteDistributable compares, for any number of   *)
(* staff, papers and requests.                                              *)
THEOREM SiteIsCovered == Spec => []SiteNotOverIssued
<1>1. IInv => SiteNotOverIssued
  BY DEF IInv
<1> QED
  BY <1>1, Invariance, PTL

(* Every float covers the pending expenses of its owner, which              *)
(* reconcile_imprest_debit keeps true whatever else he pays.                *)
THEOREM FloatsAreCovered == Spec => []AccountsSound
<1>1. IInv => AccountsSound
  BY DEF IInv, LockInv, AccountsSound
<1> QED
  BY <1>1, Invariance, PTL

(* What a handler compared under its locks holds until its rows are         *)
(* written, however many requests wait for other rows meanwhile.            *)
THEOREM ChecksStayTrue == Spec => []CheckStillHolds
<1>1. IInv => CheckStillHolds
  BY DEF IInv
<1> QED
  BY <1>1, Invariance, PTL

(* lockImprestAccounts and the order of the handlers' locks: no cycle of    *)
(* requests each of which waits, for a lock the code takes for update, for  *)
(* one the next holds that way, whatever locks of foreign keys they hold.   *)
THEOREM ExplicitLocksNeverCycle == Spec => []ExplicitLocksOrdered
<1>1. IInv => ExplicitLocksOrdered
  BY WaitingIsOrdered DEF IInv
<1> QED
  BY <1>1, Invariance, PTL

(* A decision is made on the row as it is under its lock, so a handover     *)
(* that was accepted, declined or cancelled is never decided again.         *)
THEOREM DecisionsAreFinal == Spec => AcceptanceIsFinal
<1> DEFINE Final == \A i \in DOMAIN papers : papers[i].status # "pending" =>
                      \/ papers'[i] = papers[i]
                      \/ papers[i].kind = "expense" /\ papers[i].status = "done"
<1>1. ASSUME IInv, [Next]_vars
      PROVE  [Final]_vars
  <2>1. CASE \E v \in Transactions : Commit(v)
    <3>1. PICK v \in Transactions : Commit(v)
      BY <2>1
    <3> DEFINE j == tx[v].job
    <3>2. LockInv /\ CheckStillHolds /\ papers \in Seq(Paper) /\ PapersFiled
      BY <1>1 DEF IInv, LockInv, TypeOK
    <3>3. Proper(j) /\ Prepared(j)
      BY <3>1, <3>2, CommitsCovered
    <3>4. papers' = CASE j.id # 0 -> [papers EXCEPT ![j.id] = After(j)]
                      [] j.id = 0 /\ j.paper.kind \in Papers -> Append(papers, After(j))
                      [] OTHER -> papers
      BY <3>1 DEF Commit
    <3> HIDE DEF j
    <3>5. \A i \in DOMAIN papers : i # j.id => papers'[i] = papers[i]
      BY <3>2, <3>3, <3>4, PapersAfter
    <3>6. \A i \in DOMAIN papers : i = j.id =>
            papers[i].status = "pending" \/ (papers[i].kind = "expense" /\ papers[i].status = "done")
      <4>1. \A i \in DOMAIN papers : i # 0
        BY <3>2
      <4> QED
        BY <3>3, <4>1 DEF Prepared, Decidable
    <3> QED
      BY <3>5, <3>6
  <2>2. CASE ~\E v \in Transactions : Commit(v)
    <3>1. papers' = papers
      <4>1. \A t \in Transactions : Step(t) \/ DeadlockVictim(t) => papers' = papers
        BY <2>2 DEF Step, Acquire, Check, TurnDown, DeadlockVictim, Rollback, books
      <4>2. \A t, k : Begin(t, k) => papers' = papers
        BY DEF Begin, books
      <4>3. \A t, u, p : Write(t, u, p) => papers' = papers
        BY <4>2 DEF Write
      <4>4. \A t, u, i : Accept(t, u, i) \/ Refuse(t, u, i) => papers' = papers
        BY <4>2 DEF Accept, Refuse
      <4>5. \A a : RemoveReceipt(a) => papers' = papers
        BY DEF RemoveReceipt
      <4> QED
        BY <1>1, <4>1, <4>3, <4>4, <4>5 DEF Next, vars
    <3> QED
      BY <3>1
  <2> QED
    BY <2>1, <2>2
<1> QED
  BY <1>1, Invariance, PTL DEF Spec, AcceptanceIsFinal

-----------------------------------------------------------------------------
(*                        Imprest inbox signals                             *)

Staying == members \ Movers

(* No two deliveries of any servers have the same row locked.               *)
Exclusive ==
  \A d, e \in Lanes :
    lane[d].phase = "signalling" /\ lane[e].phase = "signalling" /\ lane[d].row = lane[e].row
      => d = e

(* Whoever stays on the site has heard of a claimed row or is still to hear *)
(* of it from the delivery that claimed it.                                 *)
NobodySkipped ==
  \A d \in Lanes :
    lane[d].phase = "signalling" => Staying \subseteq heard[lane[d].row] \cup lane[d].todo

(* A drain loop's delivery runs under that server's pump, which has room.   *)
DrainHasRoom ==
  \A p \in Servers :
    lane[DrainOf(p)] # FreeLane => pump[p].phase = "drain" /\ pump[p].delivered < BatchSize

(* A waiting job has a run left.                                            *)
RunsLeft == \A r \in Rows : jobs[r].state = "waiting" => jobs[r].runs < JobAttempts

(* The inductive invariant.  AtLeastOnce needs NobodySkipped at the moment  *)
(* a row is marked, QuietOnceDelivered needs Exclusive at that moment, and  *)
(* the type of a counter needs the two bounds.                              *)
OutboxInv ==
  /\ OutboxTypeOK
  /\ AtLeastOnce
  /\ QuietOnceDelivered
  /\ Exclusive
  /\ NobodySkipped
  /\ DrainHasRoom
  /\ RunsLeft

-----------------------------------------------------------------------------
(* A lane is free or works on an outbox row.                                *)
LEMMA LaneTypes ==
  ASSUME OutboxTypeOK, NEW d \in Lanes
  PROVE  /\ lane[d] \in LaneStates
         /\ lane[d].phase = "free" <=> lane[d] = FreeLane
         /\ lane[d].phase # "free" =>
              /\ lane[d].row \in Rows
              /\ lane[d].todo \in SUBSET Participants
              /\ lane[d].phase \in {"fetched", "signalling", "failed", "done", "threw"}
  BY DEF OutboxTypeOK, LaneStates, FreeLane

(* What deliverOne makes of a lane is a lane state.                         *)
LEMMA DoingTypes ==
  ASSUME NEW phase \in {"fetched", "signalling", "failed", "done", "threw"},
         NEW r \in Rows, NEW todo \in SUBSET Participants
  PROVE  /\ Doing(phase, r, todo) \in LaneStates
         /\ Doing(phase, r, todo) # FreeLane
         /\ Doing(phase, r, todo).phase = phase
         /\ Doing(phase, r, todo).row = r
         /\ Doing(phase, r, todo).todo = todo
         /\ FreeLane \in LaneStates /\ FreeLane.phase = "free"
<1>1. FreeLane.phase = "free" /\ FreeLane \in LaneStates
  BY DEF FreeLane, LaneStates
<1>2. Doing(phase, r, todo) \in LaneStates
  BY DEF Doing, LaneStates
<1>3. /\ Doing(phase, r, todo).phase = phase
      /\ Doing(phase, r, todo).row = r
      /\ Doing(phase, r, todo).todo = todo
  BY DEF Doing
<1> QED
  BY <1>1, <1>2, <1>3

(* A server's drain loop and its job slots are different lanes.             *)
LEMMA LaneNames ==
  /\ \A p \in Servers : DrainOf(p) \in Lanes /\ DrainOf(p)[1] = p
  /\ \A d \in Workers : d \in Lanes /\ \A p \in Servers : d # DrainOf(p)
  /\ \A p, q \in Servers : DrainOf(p) = DrainOf(q) => p = q
  BY NamesAssumption DEF DrainOf, Lanes, Workers

(* A step that claims no row and marks none keeps what was promised: it may *)
(* end deliveries and signal participants.                                  *)
LEMMA QuietStep ==
  ASSUME OutboxInv,
         members' \ Movers = members \ Movers,
         \A r \in Rows : heard[r] \subseteq heard'[r],
         \A r \in Rows : outbox'[r].state = "delivered" => outbox[r].state = "delivered",
         \A r \in Rows : outbox[r].state = "pending" => outbox'[r].state = "pending",
         \A d \in Lanes : lane'[d].phase = "signalling" =>
           /\ lane[d].phase = "signalling"
           /\ lane'[d].row = lane[d].row
           /\ lane[d].todo \subseteq lane'[d].todo \cup heard'[lane[d].row]
  PROVE  AtLeastOnce' /\ QuietOnceDelivered' /\ Exclusive' /\ NobodySkipped'
<1>1. \A d \in Lanes : lane[d].phase = "signalling" => lane[d].row \in Rows
  BY LaneTypes DEF OutboxInv
<1>2. AtLeastOnce'
  BY DEF OutboxInv, AtLeastOnce
<1>3. QuietOnceDelivered'
  BY <1>1 DEF OutboxInv, QuietOnceDelivered
<1>4. Exclusive'
  BY DEF OutboxInv, Exclusive
<1>5. NobodySkipped'
  BY <1>1 DEF OutboxInv, NobodySkipped, Staying
<1> QED
  BY <1>2, <1>3, <1>4, <1>5

(* When the lanes, the rows, the signals and the members stay as they are,  *)
(* so does what was promised.                                               *)
LEMMA StillStep ==
  ASSUME OutboxInv, UNCHANGED <<outbox, heard, members, lane>>
  PROVE  AtLeastOnce' /\ QuietOnceDelivered' /\ Exclusive' /\ NobodySkipped'
  BY DEF OutboxInv, AtLeastOnce, QuietOnceDelivered, Exclusive, NobodySkipped, Staying

(* A delivery that stops signalling without a mark keeps what was promised. *)
LEMMA LaneEnds ==
  ASSUME OutboxInv, NEW d \in Lanes, NEW next \in LaneStates, next.phase # "signalling",
         lane' = [lane EXCEPT ![d] = next],
         UNCHANGED <<outbox, heard, members>>
  PROVE  AtLeastOnce' /\ QuietOnceDelivered' /\ Exclusive' /\ NobodySkipped'
<1>1. \A e \in Lanes : lane'[e] = IF e = d THEN next ELSE lane[e]
  BY DEF OutboxInv, OutboxTypeOK
<1> QED
  BY <1>1, QuietStep

(* The claim of a due row that nobody has locked: FOR UPDATE SKIP LOCKED.   *)
LEMMA ClaimKeeps ==
  ASSUME OutboxInv, NEW d \in Lanes, NEW r \in Deliverable,
         lane' = [lane EXCEPT ![d] = Claimed(r)],
         UNCHANGED <<outbox, heard, members>>
  PROVE  AtLeastOnce' /\ QuietOnceDelivered' /\ Exclusive' /\ NobodySkipped'
<1>1. /\ r \in Rows /\ outbox[r].state = "pending"
      /\ \A e \in Lanes : ~(lane[e].phase = "signalling" /\ lane[e].row = r)
  BY DEF Deliverable, Due, Locked
<1>2. members \cap Participants = members
  BY DEF OutboxInv, OutboxTypeOK
<1>3. /\ Claimed(r).phase = "signalling" /\ Claimed(r).row = r
      /\ Claimed(r).todo = members
  BY <1>2 DEF Claimed, Doing
<1>4. \A e \in Lanes : lane'[e] = IF e = d THEN Claimed(r) ELSE lane[e]
  BY DEF OutboxInv, OutboxTypeOK
<1>5. AtLeastOnce'
  BY DEF OutboxInv, AtLeastOnce
<1>6. QuietOnceDelivered'
  BY <1>1, <1>3, <1>4 DEF OutboxInv, QuietOnceDelivered
<1>7. Exclusive'
  BY <1>1, <1>3, <1>4 DEF OutboxInv, Exclusive
<1>8. NobodySkipped'
  BY <1>1, <1>3, <1>4 DEF OutboxInv, NobodySkipped, Staying
<1> QED
  BY <1>5, <1>6, <1>7, <1>8

(* The mark of deliverOne: every lasting member has heard by now, and       *)
(* nobody else is signalling for the row.                                   *)
LEMMA DeliverKeeps ==
  ASSUME OutboxInv, NEW d \in Lanes, Deliver(d)
  PROVE  AtLeastOnce' /\ QuietOnceDelivered' /\ Exclusive' /\ NobodySkipped'
<1> DEFINE r == lane[d].row
<1>1. /\ lane[d].phase = "signalling" /\ lane[d].todo = {} /\ r \in Rows
      /\ heard' = heard /\ members' = members
  BY LaneTypes DEF OutboxInv, Deliver, LaneStep
<1>2. \A q \in Rows : outbox'[q] = IF q = r THEN Attempted(outbox[r], "delivered") ELSE outbox[q]
  BY <1>1 DEF Deliver, OutboxInv, OutboxTypeOK
<1>3. PICK phase \in {"done", "failed"} : lane' = [lane EXCEPT ![d] = Doing(phase, r, {})]
  BY DEF Deliver, LaneStep
<1>4. \A e \in Lanes : lane'[e] = IF e = d THEN Doing(phase, r, {}) ELSE lane[e]
  BY <1>3 DEF OutboxInv, OutboxTypeOK
<1>5. \A e \in Lanes : lane'[e].phase = "signalling" =>
        /\ e # d /\ lane'[e] = lane[e] /\ lane[e].row \in Rows /\ lane[e].row # r
  BY <1>1, <1>4, LaneTypes DEF Doing, OutboxInv, Exclusive
<1>6. AtLeastOnce'
  <2>1. members \ Movers \subseteq heard[r]
    BY <1>1 DEF OutboxInv, NobodySkipped, Staying
  <2> QED
    BY <1>1, <1>2, <2>1 DEF OutboxInv, AtLeastOnce, Attempted
<1>7. QuietOnceDelivered'
  BY <1>2, <1>5 DEF OutboxInv, QuietOnceDelivered
<1>8. Exclusive'
  BY <1>5 DEF OutboxInv, Exclusive
<1>9. NobodySkipped'
  BY <1>1, <1>5 DEF OutboxInv, NobodySkipped, Staying
<1> QED
  BY <1>6, <1>7, <1>8, <1>9

-----------------------------------------------------------------------------
(* A lane that was already taken, or a job slot, changes no drain bound.    *)
LEMMA BoundKept ==
  ASSUME OutboxInv, NEW d \in Lanes, NEW next, lane' = [lane EXCEPT ![d] = next],
         pump' = pump, d \in Workers \/ lane[d] # FreeLane
  PROVE  DrainHasRoom'
<1>1. \A e \in Lanes : lane'[e] = IF e = d THEN next ELSE lane[e]
  BY DEF OutboxInv, OutboxTypeOK
<1>2. \A p \in Servers : lane'[DrainOf(p)] # FreeLane => lane[DrainOf(p)] # FreeLane
  BY <1>1, LaneNames
<1> QED
  BY <1>2 DEF OutboxInv, DrainHasRoom

(* The lock, the signals, the mark and the failure of deliverOne.           *)
LEMMA DeliveryKeeps ==
  ASSUME OutboxInv, NEW d \in Lanes, Deliveries(d)
  PROVE  OutboxInv'
<1> DEFINE r == lane[d].row
<1>1. lane[d].phase # "free" /\ lane[d] # FreeLane /\ r \in Rows
  BY LaneTypes DEF OutboxInv, Deliveries, Signal, Deliver, Fail, RecordRetry
<1>2. PICK next : lane' = [lane EXCEPT ![d] = next]
  BY DEF Deliveries, Signal, Deliver, Fail, RecordRetry, LaneStep
<1>3. DrainHasRoom'
  BY <1>1, <1>2, BoundKept DEF Deliveries, Signal, Deliver, Fail, RecordRetry
<1>4. UNCHANGED <<server, members, redis, jobs, pump>>
  BY DEF Deliveries, Signal, Deliver, Fail, RecordRetry, LaneStep, queue
<1>5. RunsLeft'
  BY <1>4 DEF OutboxInv, RunsLeft
<1>6. faults' \in 0..Faults
  BY BoundsAssumption DEF Deliveries, Signal, Deliver, Fail, RecordRetry, OutboxInv, OutboxTypeOK
<1>7. CASE Signal(d)
  <2>1. PICK u \in lane[d].todo :
          /\ heard' = [heard EXCEPT ![r] = @ \cup {u}]
          /\ lane' = [lane EXCEPT ![d] = Doing("signalling", r, lane[d].todo \ {u})]
          /\ outbox' = outbox
    BY <1>7 DEF Signal, LaneStep
  <2>2. u \in Participants /\ lane[d].phase = "signalling"
    BY <1>1, <1>7, LaneTypes DEF OutboxInv, Signal
  <2>3. Doing("signalling", r, lane[d].todo \ {u}) \in LaneStates
    BY <1>1, DoingTypes, LaneTypes DEF OutboxInv
  <2>4. OutboxTypeOK'
    BY <1>1, <1>4, <1>6, <2>1, <2>2, <2>3 DEF OutboxInv, OutboxTypeOK
  <2>5. /\ Doing("signalling", r, lane[d].todo \ {u}).phase = "signalling"
        /\ Doing("signalling", r, lane[d].todo \ {u}).row = r
        /\ Doing("signalling", r, lane[d].todo \ {u}).todo = lane[d].todo \ {u}
    BY DEF Doing
  <2>6. \A e \in Lanes : lane'[e] = IF e = d THEN Doing("signalling", r, lane[d].todo \ {u}) ELSE lane[e]
    BY <2>1 DEF OutboxInv, OutboxTypeOK
  <2>7. \A q \in Rows : heard'[q] = IF q = r THEN heard[r] \cup {u} ELSE heard[q]
    BY <2>1 DEF OutboxInv, OutboxTypeOK
  <2>8. AtLeastOnce' /\ QuietOnceDelivered' /\ Exclusive' /\ NobodySkipped'
    BY <1>1, <1>4, <2>1, <2>2, <2>5, <2>6, <2>7, QuietStep
  <2> QED
    BY <1>3, <1>5, <2>4, <2>8 DEF OutboxInv
<1>8. CASE Deliver(d)
  <2>1. PICK phase \in {"done", "failed"} : lane' = [lane EXCEPT ![d] = Doing(phase, r, {})]
    BY <1>8 DEF Deliver, LaneStep
  <2>2. Doing(phase, r, {}) \in LaneStates
    BY <1>1, DoingTypes
  <2>3. outbox' \in [Rows -> [state : {"absent", "pending", "delivered"}, due : BOOLEAN, attempts : Nat]]
    <3>1. outbox[r].attempts + 1 \in Nat
      BY <1>1 DEF OutboxInv, OutboxTypeOK
    <3> QED
      BY <1>1, <1>8, <3>1 DEF Deliver, OutboxInv, OutboxTypeOK, Attempted
  <2>4. heard' = heard
    BY <1>8 DEF Deliver
  <2>5. OutboxTypeOK'
    BY <1>4, <1>6, <2>1, <2>2, <2>3, <2>4 DEF OutboxInv, OutboxTypeOK
  <2> QED
    BY <1>3, <1>5, <1>8, <2>5, DeliverKeeps DEF OutboxInv
<1>9. CASE Fail(d)
  <2>1. lane' = [lane EXCEPT ![d] = Doing("failed", r, {})] /\ UNCHANGED <<outbox, heard>>
    BY <1>9 DEF Fail, LaneStep
  <2>2. Doing("failed", r, {}) \in LaneStates /\ Doing("failed", r, {}).phase = "failed"
    BY <1>1, DoingTypes
  <2>3. OutboxTypeOK'
    BY <1>4, <1>6, <2>1, <2>2 DEF OutboxInv, OutboxTypeOK
  <2> QED
    BY <1>3, <1>4, <1>5, <2>1, <2>2, <2>3, LaneEnds DEF OutboxInv
<1>10. CASE RecordRetry(d)
  <2>1. lane' = [lane EXCEPT ![d] = Doing("threw", r, {})] /\ heard' = heard /\ lane[d].phase = "failed"
    BY <1>10 DEF RecordRetry, LaneStep
  <2>2. Doing("threw", r, {}) \in LaneStates /\ Doing("threw", r, {}).phase = "threw"
    BY <1>1, DoingTypes
  <2>3. \/ outbox' = outbox
        \/ outbox' = [outbox EXCEPT ![r] = Retried(outbox[r])]
    BY <1>10 DEF RecordRetry
  <2>4. /\ Retried(outbox[r]) \in [state : {"absent", "pending", "delivered"}, due : BOOLEAN, attempts : Nat]
        /\ Retried(outbox[r]).state = outbox[r].state
    <3>1. \A row \in [state : {"absent", "pending", "delivered"}, due : BOOLEAN, attempts : Nat] :
            /\ Retried(row) \in [state : {"absent", "pending", "delivered"}, due : BOOLEAN, attempts : Nat]
            /\ Retried(row).state = row.state
      BY DEF Retried, Attempted
    <3> QED
      BY <1>1, <3>1 DEF OutboxInv, OutboxTypeOK
  <2>5. outbox' \in [Rows -> [state : {"absent", "pending", "delivered"}, due : BOOLEAN, attempts : Nat]]
    BY <2>3, <2>4 DEF OutboxInv, OutboxTypeOK
  <2>6. \A q \in Rows : outbox'[q].state = outbox[q].state
    BY <2>3, <2>4 DEF OutboxInv, OutboxTypeOK
  <2>7. OutboxTypeOK'
    BY <1>4, <1>6, <2>1, <2>2, <2>5 DEF OutboxInv, OutboxTypeOK
  <2>8. \A e \in Lanes : lane'[e] = IF e = d THEN Doing("threw", r, {}) ELSE lane[e]
    BY <2>1 DEF OutboxInv, OutboxTypeOK
  <2>9. AtLeastOnce' /\ QuietOnceDelivered' /\ Exclusive' /\ NobodySkipped'
    BY <1>4, <2>1, <2>2, <2>6, <2>8, QuietStep
  <2> QED
    BY <1>3, <1>5, <2>7, <2>9 DEF OutboxInv
<1> QED
  BY <1>7, <1>8, <1>9, <1>10 DEF Deliveries

(* The drain loop: claim, result, and the end of the batch.                 *)
LEMMA DrainKeeps ==
  ASSUME OutboxInv, NEW p \in Servers, Draining(p)
  PROVE  OutboxInv'
<1> DEFINE d == DrainOf(p)
<1>1. d \in Lanes /\ d[1] = p /\ \A q \in Servers : q # p => DrainOf(q) # d
  BY LaneNames
<1>2. UNCHANGED <<outbox, heard, members, server, redis, jobs>> /\ faults' \in 0..Faults
  BY BoundsAssumption DEF Draining, DrainNext, DrainFails, DrainFull, DrainResult, LaneStep, SetPump, queue, OutboxInv, OutboxTypeOK
<1>3. RunsLeft'
  BY <1>2 DEF OutboxInv, RunsLeft
<1>4. NoPump \in [phase : {"idle", "adding", "drain"}, rows : SUBSET Rows, delivered : 0..BatchSize]
  BY BoundsAssumption DEF NoPump, NewPump
<1>5. CASE pump' = [pump EXCEPT ![p] = NoPump] /\ lane' = lane /\ lane[d] = FreeLane
  <2>1. OutboxTypeOK'
    BY <1>2, <1>4, <1>5 DEF OutboxInv, OutboxTypeOK
  <2>2. DrainHasRoom'
    BY <1>5 DEF OutboxInv, OutboxTypeOK, DrainHasRoom
  <2> QED
    BY <1>2, <1>3, <1>5, <2>1, <2>2, StillStep DEF OutboxInv
<1>6. ASSUME NEW r \in Deliverable, lane[d] = FreeLane, pump' = pump,
             pump[p].phase = "drain", pump[p].delivered < BatchSize,
             lane' = [lane EXCEPT ![d] = Claimed(r)]
      PROVE  OutboxInv'
  <2>1. Claimed(r) \in LaneStates
    BY DoingTypes DEF Claimed, Deliverable, Due
  <2>2. OutboxTypeOK'
    BY <1>2, <1>6, <2>1 DEF OutboxInv, OutboxTypeOK
  <2>3. \A e \in Lanes : lane'[e] = IF e = d THEN Claimed(r) ELSE lane[e]
    BY <1>6 DEF OutboxInv, OutboxTypeOK
  <2>4. DrainHasRoom'
    BY <1>1, <1>6, <2>3, LaneNames DEF OutboxInv, DrainHasRoom
  <2> QED
    BY <1>1, <1>2, <1>3, <1>6, <2>2, <2>4, ClaimKeeps DEF OutboxInv
<1>7. CASE DrainFull(p)
  <2>1. lane[d] = FreeLane
    BY <1>7, BoundsAssumption DEF OutboxInv, DrainHasRoom, DrainFull
  <2> QED
    BY <1>5, <1>7, <2>1 DEF DrainFull, SetPump
<1>8. CASE DrainResult(p)
  <2>1. /\ lane' = [lane EXCEPT ![d] = FreeLane] /\ lane[d] # FreeLane
        /\ pump[p].phase = "drain" /\ pump[p].delivered < BatchSize
    BY <1>1, <1>8, LaneTypes DEF DrainResult, LaneStep, OutboxInv, DrainHasRoom
  <2>2. PICK next : /\ pump' = [pump EXCEPT ![p] = next]
                    /\ next = NoPump \/ next = [pump[p] EXCEPT !.delivered = @ + 1]
    BY <1>8 DEF DrainResult, SetPump
  <2>3. next \in [phase : {"idle", "adding", "drain"}, rows : SUBSET Rows, delivered : 0..BatchSize]
    BY <1>4, <2>1, <2>2, BoundsAssumption DEF OutboxInv, OutboxTypeOK
  <2>4. FreeLane \in LaneStates /\ FreeLane.phase # "signalling"
    BY DEF LaneStates, FreeLane
  <2>5. OutboxTypeOK'
    BY <1>2, <2>1, <2>2, <2>3, <2>4 DEF OutboxInv, OutboxTypeOK
  <2>6. \A e \in Lanes : lane'[e] = IF e = d THEN FreeLane ELSE lane[e]
    BY <2>1 DEF OutboxInv, OutboxTypeOK
  <2>7. \A q \in Servers : pump'[q] = IF q = p THEN next ELSE pump[q]
    BY <2>2 DEF OutboxInv, OutboxTypeOK
  <2>8. DrainHasRoom'
    BY <1>1, <2>6, <2>7, LaneNames DEF OutboxInv, DrainHasRoom
  <2> QED
    BY <1>1, <1>2, <1>3, <2>1, <2>4, <2>5, <2>8, LaneEnds DEF OutboxInv
<1> QED
  BY <1>5, <1>6, <1>7, <1>8 DEF Draining, DrainNext, DrainFails, LaneStep, SetPump

(* The pump: it starts idle, so its drain loop runs no delivery.            *)
LEMMA PumpKeeps ==
  ASSUME OutboxInv, NEW p \in Servers, Pumping(p)
  PROVE  OutboxInv'
<1>1. UNCHANGED <<outbox, heard, members, server, redis, lane>> /\ faults' \in 0..Faults
  BY BoundsAssumption DEF Pumping, Pump, AddJob, AddFails, SetPump, queue, OutboxInv, OutboxTypeOK
<1>2. pump[p].phase # "drain"
  BY DEF Pumping, Pump, AddJob, AddFails, NoPump, NewPump
<1>3. lane[DrainOf(p)] = FreeLane
  BY <1>2 DEF OutboxInv, DrainHasRoom
<1>4. PICK next : /\ pump' = [pump EXCEPT ![p] = next]
                  /\ next \in [phase : {"idle", "adding", "drain"}, rows : SUBSET Rows, delivered : 0..BatchSize]
  <2>1. \A phase \in {"idle", "adding", "drain"}, rows \in SUBSET Rows :
          NewPump(phase, rows) \in
            [phase : {"idle", "adding", "drain"}, rows : SUBSET Rows, delivered : 0..BatchSize]
    BY BoundsAssumption DEF NewPump
  <2>2. pump[p].rows \in SUBSET Rows /\ \A rows \in Batches : rows \in SUBSET Rows
    BY DEF OutboxInv, OutboxTypeOK, Batches, Due
  <2>3. \E phase \in {"idle", "adding", "drain"}, rows \in SUBSET Rows :
          pump' = [pump EXCEPT ![p] = NewPump(phase, rows)]
    <3>1. CASE Pump(p)
      BY <2>2, <3>1 DEF Pump, SetPump
    <3>2. CASE AddJob(p)
      BY <2>2, <3>2 DEF AddJob, SetPump, NoPump
    <3>3. CASE AddFails(p)
      BY <3>3 DEF AddFails, SetPump
    <3> QED
      BY <3>1, <3>2, <3>3 DEF Pumping
  <2> QED
    BY <2>1, <2>3
<1>5. jobs' = jobs \/ \E r \in Rows : jobs' = [jobs EXCEPT ![r] = NewJob("waiting")]
  <2>1. CASE AddJob(p)
    <3>1. PICK r \in pump[p].rows :
            jobs' = [jobs EXCEPT ![r] = IF @ = NoJob THEN NewJob("waiting") ELSE @]
      BY <2>1 DEF AddJob
    <3>2. r \in Rows /\ (jobs[r] # NoJob => jobs' = jobs)
      BY <3>1 DEF OutboxInv, OutboxTypeOK
    <3> QED
      BY <3>1, <3>2
  <2> QED
    BY <2>1 DEF Pumping, Pump, AddFails, queue
<1>6. /\ NewJob("waiting") \in
            [state : {"none", "waiting", "active"}, by : SUBSET Workers, runs : 0..JobAttempts]
      /\ NewJob("waiting").runs < JobAttempts
  BY BoundsAssumption DEF NewJob
<1>7. OutboxTypeOK'
  BY <1>1, <1>4, <1>5, <1>6 DEF OutboxInv, OutboxTypeOK
<1>8. RunsLeft'
  BY <1>5, <1>6 DEF OutboxInv, OutboxTypeOK, RunsLeft
<1>9. DrainHasRoom'
  BY <1>1, <1>3, <1>4 DEF OutboxInv, OutboxTypeOK, DrainHasRoom
<1> QED
  BY <1>1, <1>7, <1>8, <1>9, StillStep DEF OutboxInv

JobStates == [state : {"none", "waiting", "active"}, by : SUBSET Workers, runs : 0..JobAttempts]

(* A job that is queued again has a run left; otherwise it is removed.      *)
LEMMA JobTypes ==
  /\ NoJob \in JobStates /\ NoJob.state = "none"
  /\ \A job \in JobStates :
       Again(job) \in JobStates /\ (Again(job).state = "waiting" => Again(job).runs < JobAttempts)
  BY BoundsAssumption DEF NoJob, NewJob, Again, JobStates

(* One lane's move that is not a claim, with one job's change.              *)
LEMMA JobStep ==
  ASSUME OutboxInv, NEW d \in Workers, NEW next \in LaneStates, next.phase # "signalling",
         lane' = [lane EXCEPT ![d] = next],
         NEW r \in Rows, NEW job \in JobStates,
         job.state = "waiting" => job.runs < JobAttempts,
         jobs' = jobs \/ jobs' = [jobs EXCEPT ![r] = job],
         UNCHANGED <<outbox, heard, members, server, pump, redis>>,
         faults' \in 0..Faults
  PROVE  OutboxInv'
<1>1. d \in Lanes
  BY LaneNames
<1>2. OutboxTypeOK'
  BY <1>1 DEF OutboxInv, OutboxTypeOK, JobStates
<1>3. RunsLeft'
  BY DEF OutboxInv, OutboxTypeOK, RunsLeft
<1> QED
  BY <1>1, <1>2, <1>3, LaneEnds, BoundKept DEF OutboxInv

(* The Bull worker: fetch, claim and report.                                *)
LEMMA WorkingKeeps ==
  ASSUME OutboxInv, NEW d \in Workers, Working(d)
  PROVE  OutboxInv'
<1> DEFINE r == lane[d].row
<1>1. d \in Lanes
  BY LaneNames
<1>2. faults \in 0..Faults /\ (faults > 0 => faults - 1 \in 0..Faults)
  BY BoundsAssumption DEF OutboxInv, OutboxTypeOK
<1>3. /\ \A q \in Rows : jobs[q] \in JobStates
      /\ FreeLane \in LaneStates /\ FreeLane.phase # "signalling"
  BY DEF OutboxInv, OutboxTypeOK, JobStates, LaneStates, FreeLane
<1>4. /\ lane[d].phase # "free" => r \in Rows
      /\ \A phase \in {"fetched", "done", "threw"}, q \in Rows :
           Doing(phase, q, {}) \in LaneStates /\ Doing(phase, q, {}).phase # "signalling"
  BY <1>1, LaneTypes, DoingTypes DEF OutboxInv
<1>5. CASE StartJob(d)
  <2>1. PICK q \in Rows :
          /\ jobs[q].state = "waiting"
          /\ jobs' = [jobs EXCEPT ![q] = [state |-> "active", by |-> {d}, runs |-> jobs[q].runs + 1]]
          /\ lane' = [lane EXCEPT ![d] = Doing("fetched", q, {})]
    BY <1>5 DEF StartJob
  <2>2. [state |-> "active", by |-> {d}, runs |-> jobs[q].runs + 1] \in JobStates
    BY <1>3, <2>1, BoundsAssumption DEF OutboxInv, RunsLeft, JobStates
  <2>3. UNCHANGED <<outbox, heard, members, server, pump, redis, faults>>
    BY <1>5 DEF StartJob
  <2> QED
    BY <1>2, <1>4, <2>1, <2>2, <2>3, JobStep
<1>6. CASE ClaimJob(d)
  <2>1. lane[d].phase = "fetched" /\ UNCHANGED <<outbox, heard, members, server, pump, redis, jobs, faults>>
    BY <1>6 DEF ClaimJob, LaneStep, queue
  <2>2. CASE r \in Deliverable
    <3>1. lane' = [lane EXCEPT ![d] = Claimed(r)] /\ Claimed(r) \in LaneStates
      BY <1>4, <1>6, <2>1, <2>2, DoingTypes DEF ClaimJob, LaneStep, Claimed
    <3>2. OutboxTypeOK'
      BY <2>1, <3>1 DEF OutboxInv, OutboxTypeOK
    <3>3. RunsLeft'
      BY <2>1 DEF OutboxInv, RunsLeft
    <3> QED
      BY <1>1, <2>1, <2>2, <3>1, <3>2, <3>3, ClaimKeeps, BoundKept DEF OutboxInv
  <2>3. CASE r \notin Deliverable
    <3>1. lane' = [lane EXCEPT ![d] = Doing("done", r, {})]
      BY <1>6, <2>3 DEF ClaimJob, LaneStep
    <3> QED
      BY <1>2, <1>4, <2>1, <3>1, JobTypes, JobStep
  <2> QED
    BY <2>2, <2>3
<1>7. CASE ClaimFails(d)
  <2>1. /\ lane[d].phase = "fetched" /\ lane' = [lane EXCEPT ![d] = Doing("threw", r, {})]
        /\ UNCHANGED <<outbox, heard, members, server, pump, redis, jobs>>
        /\ faults' \in 0..Faults
    BY <1>2, <1>7 DEF ClaimFails, LaneStep, queue
  <2> QED
    BY <1>4, <2>1, JobTypes, JobStep
<1>8. CASE JobDone(d)
  <2>1. /\ lane[d].phase = "done" /\ lane' = [lane EXCEPT ![d] = FreeLane]
        /\ jobs' = [jobs EXCEPT ![r] = IF d \in jobs[r].by THEN NoJob ELSE jobs[r]]
        /\ UNCHANGED <<outbox, heard, members, server, pump, redis, faults>>
    BY <1>8 DEF JobDone
  <2>2. r \in Rows /\ jobs \in [Rows -> JobStates]
    BY <1>4, <2>1 DEF OutboxInv, OutboxTypeOK, JobStates
  <2>3. jobs' = jobs \/ jobs' = [jobs EXCEPT ![r] = NoJob]
    BY <2>1, <2>2
  <2> QED
    BY <1>2, <1>3, <2>1, <2>2, <2>3, JobTypes, JobStep
<1>9. CASE JobFailed(d)
  <2>1. /\ lane[d].phase = "threw" /\ lane' = [lane EXCEPT ![d] = FreeLane]
        /\ jobs' = [jobs EXCEPT ![r] = IF d \in jobs[r].by THEN Again(jobs[r]) ELSE jobs[r]]
        /\ UNCHANGED <<outbox, heard, members, server, pump, redis, faults>>
    BY <1>9 DEF JobFailed
  <2>2. r \in Rows /\ jobs \in [Rows -> JobStates]
    BY <1>4, <2>1 DEF OutboxInv, OutboxTypeOK, JobStates
  <2>3. jobs' = jobs \/ jobs' = [jobs EXCEPT ![r] = Again(jobs[r])]
    BY <2>1, <2>2
  <2> QED
    BY <1>2, <1>3, <2>1, <2>2, <2>3, JobTypes, JobStep
<1>10. CASE JobUnreported(d)
  <2>1. /\ lane[d].phase \in {"done", "threw"} /\ lane' = [lane EXCEPT ![d] = FreeLane]
        /\ UNCHANGED <<outbox, heard, members, server, pump, redis, jobs, faults>>
    BY <1>10 DEF JobUnreported, LaneStep, queue
  <2> QED
    BY <1>2, <1>3, <1>4, <2>1, JobTypes, JobStep
<1> QED
  BY <1>5, <1>6, <1>7, <1>8, <1>9, <1>10 DEF Working

(* A process that ends takes its deliveries and its pump with it.           *)
LEMMA GoneKeeps ==
  ASSUME OutboxInv, NEW p \in Servers, Gone(p), faults' \in 0..Faults
  PROVE  OutboxInv'
<1>1. \A d \in Lanes : lane'[d] = IF d[1] = p THEN FreeLane ELSE lane[d]
  BY DEF Gone
<1>2. \A q \in Servers : pump'[q] = IF q = p THEN NoPump ELSE pump[q]
  BY DEF Gone, SetPump, OutboxInv, OutboxTypeOK
<1>3. UNCHANGED <<outbox, heard, members, redis, jobs>> /\ FreeLane.phase = "free"
  BY DEF Gone, queue, FreeLane
<1>4. OutboxTypeOK'
  <2>1. lane' \in [Lanes -> LaneStates]
    BY DEF Gone, LaneStates, OutboxInv, OutboxTypeOK
  <2>2. pump' \in [Servers -> [phase : {"idle", "adding", "drain"}, rows : SUBSET Rows, delivered : 0..BatchSize]]
    BY BoundsAssumption DEF Gone, SetPump, NoPump, NewPump, OutboxInv, OutboxTypeOK
  <2>3. server' \in [Servers -> {"up", "stopping", "down"}]
    BY DEF Gone, OutboxInv, OutboxTypeOK
  <2> QED
    BY <1>3, <2>1, <2>2, <2>3 DEF OutboxInv, OutboxTypeOK
<1>5. AtLeastOnce' /\ QuietOnceDelivered' /\ Exclusive' /\ NobodySkipped'
  BY <1>1, <1>3, QuietStep
<1>6. DrainHasRoom'
  BY <1>1, <1>2, LaneNames DEF OutboxInv, DrainHasRoom
<1>7. RunsLeft'
  BY <1>3 DEF OutboxInv, RunsLeft
<1> QED
  BY <1>4, <1>5, <1>6, <1>7 DEF OutboxInv

(* Rows come and come due, members move, jobs stall, Redis and the servers  *)
(* come and go.                                                             *)
LEMMA SurroundingsKeep ==
  ASSUME OutboxInv,
         \/ \E r \in Rows : Enqueue(r) \/ ComeDue(r) \/ Stalled(r)
         \/ \E u \in Participants : Membership(u)
         \/ \E p \in Servers : Stop(p) \/ Exit(p) \/ Crash(p) \/ Boot(p)
         \/ RedisDown \/ RedisUp
  PROVE  OutboxInv'
<1>1. faults \in 0..Faults /\ (faults > 0 => faults - 1 \in 0..Faults)
  BY BoundsAssumption DEF OutboxInv, OutboxTypeOK
<1>2. ASSUME NEW r \in Rows, Enqueue(r) \/ ComeDue(r)
      PROVE  OutboxInv'
  <2>1. UNCHANGED <<heard, members, server, pump, lane, redis, jobs, faults>>
    BY <1>2 DEF Enqueue, ComeDue, queue
  <2>2. PICK n \in Nat :
          outbox' = [outbox EXCEPT ![r] = [state |-> "pending", due |-> TRUE, attempts |-> n]]
    <3>1. outbox[r].attempts \in Nat
      BY DEF OutboxInv, OutboxTypeOK
    <3>2. CASE Enqueue(r)
      BY <3>2 DEF Enqueue
    <3>3. CASE ComeDue(r)
      BY <3>1, <3>3 DEF ComeDue
    <3> QED
      BY <1>2, <3>2, <3>3
  <2> DEFINE row == [state |-> "pending", due |-> TRUE, attempts |-> n]
  <2>3. OutboxTypeOK'
    BY <2>1, <2>2 DEF OutboxInv, OutboxTypeOK
  <2>4. \A q \in Rows : outbox'[q] = IF q = r THEN row ELSE outbox[q]
    BY <2>2 DEF OutboxInv, OutboxTypeOK
  <2>5. AtLeastOnce' /\ QuietOnceDelivered' /\ Exclusive' /\ NobodySkipped'
    BY <2>1, <2>4, QuietStep
  <2>6. DrainHasRoom' /\ RunsLeft'
    BY <2>1 DEF OutboxInv, DrainHasRoom, RunsLeft
  <2> QED
    BY <2>3, <2>5, <2>6 DEF OutboxInv
<1>3. ASSUME NEW u \in Participants, Membership(u)
      PROVE  OutboxInv'
  <2>1. UNCHANGED <<outbox, heard, server, pump, lane, redis, jobs, faults>>
    BY <1>3 DEF Membership, queue
  <2>2. members' \ Movers = members \ Movers
    BY <1>3 DEF Membership
  <2>3. OutboxTypeOK'
    BY <1>3, <2>1 DEF Membership, OutboxInv, OutboxTypeOK
  <2>4. AtLeastOnce' /\ QuietOnceDelivered' /\ Exclusive' /\ NobodySkipped'
    BY <2>1, <2>2, QuietStep
  <2>5. DrainHasRoom' /\ RunsLeft'
    BY <2>1 DEF OutboxInv, DrainHasRoom, RunsLeft
  <2> QED
    BY <2>3, <2>4, <2>5 DEF OutboxInv
<1>4. ASSUME UNCHANGED <<outbox, heard, members, pump, lane>>,
             server' \in [Servers -> {"up", "stopping", "down"}], redis' \in BOOLEAN,
             jobs' \in [Rows -> JobStates], RunsLeft', faults' \in 0..Faults
      PROVE  OutboxInv'
  <2>1. OutboxTypeOK'
    BY <1>4 DEF OutboxInv, OutboxTypeOK, JobStates
  <2>2. DrainHasRoom'
    BY <1>4 DEF OutboxInv, DrainHasRoom
  <2> QED
    BY <1>4, <2>1, <2>2, StillStep DEF OutboxInv
<1>5. jobs \in [Rows -> JobStates] /\ server \in [Servers -> {"up", "stopping", "down"}] /\ redis \in BOOLEAN
  BY DEF OutboxInv, OutboxTypeOK, JobStates
<1>6. ASSUME NEW r \in Rows, Stalled(r)
      PROVE  OutboxInv'
  <2>1. PICK job \in JobStates : /\ jobs' = [jobs EXCEPT ![r] = job]
                                 /\ job.state = "waiting" => job.runs < JobAttempts
    BY <1>5, <1>6, JobTypes DEF Stalled
  <2>2. jobs' \in [Rows -> JobStates] /\ RunsLeft'
    BY <1>5, <2>1 DEF OutboxInv, RunsLeft
  <2>3. /\ UNCHANGED <<outbox, heard, members, server, pump, lane, redis>>
        /\ faults' \in 0..Faults
    BY <1>1, <1>6 DEF Stalled
  <2> QED
    BY <1>4, <1>5, <2>2, <2>3
<1>7. CASE RedisDown
  <2>1. jobs' \in [Rows -> JobStates] /\ RunsLeft'
    <3>1. CASE jobs' = jobs
      BY <1>5, <3>1 DEF OutboxInv, RunsLeft
    <3>2. CASE jobs' = [q \in Rows |-> NoJob]
      BY <3>2, JobTypes DEF RunsLeft
    <3> QED
      BY <1>7, <3>1, <3>2 DEF RedisDown
  <2>2. UNCHANGED <<outbox, heard, members, server, pump, lane>> /\ redis' = FALSE /\ faults' \in 0..Faults
    BY <1>1, <1>7 DEF RedisDown
  <2> QED
    BY <1>4, <1>5, <2>1, <2>2
<1>8. CASE RedisUp
  <2>1. UNCHANGED <<outbox, heard, members, server, pump, lane, jobs, faults>> /\ redis' = TRUE
    BY <1>8 DEF RedisUp
  <2>2. RunsLeft'
    BY <2>1 DEF OutboxInv, RunsLeft
  <2> QED
    BY <1>1, <1>4, <1>5, <2>1, <2>2
<1>9. ASSUME NEW p \in Servers, Stop(p) \/ Boot(p)
      PROVE  OutboxInv'
  <2>1. /\ UNCHANGED <<outbox, heard, members, pump, lane, redis, jobs>>
        /\ server' = [server EXCEPT ![p] = "stopping"] \/ server' = [server EXCEPT ![p] = "up"]
        /\ faults' \in 0..Faults
    BY <1>1, <1>9 DEF Stop, Boot, queue
  <2>2. RunsLeft'
    BY <2>1 DEF OutboxInv, RunsLeft
  <2> QED
    BY <1>4, <1>5, <2>1, <2>2
<1>10. ASSUME NEW p \in Servers, Exit(p) \/ Crash(p)
       PROVE  OutboxInv'
  BY <1>1, <1>10, GoneKeeps DEF Exit, Crash
<1> QED
  BY <1>2, <1>3, <1>6, <1>7, <1>8, <1>9, <1>10

-----------------------------------------------------------------------------
(* At start no row exists and every lane is free.                           *)
LEMMA OutboxInitially == OutboxInit => OutboxInv
<1> SUFFICES ASSUME OutboxInit
             PROVE  OutboxInv
  OBVIOUS
<1>1. \A r \in Rows : outbox[r] = Absent /\ jobs[r] = NoJob
  BY DEF OutboxInit
<1>2. \A d \in Lanes : lane[d] = FreeLane /\ lane[d].phase = "free"
  BY DEF OutboxInit, FreeLane
<1>3. \A p \in Servers : pump[p] = NoPump
  BY DEF OutboxInit
<1>4. OutboxTypeOK
  <2>1. Absent \in [state : {"absent", "pending", "delivered"}, due : BOOLEAN, attempts : Nat]
    BY DEF Absent
  <2>2. NoPump \in [phase : {"idle", "adding", "drain"}, rows : SUBSET Rows, delivered : 0..BatchSize]
    BY BoundsAssumption DEF NoPump, NewPump
  <2>3. NoJob \in [state : {"none", "waiting", "active"}, by : SUBSET Workers, runs : 0..JobAttempts]
    BY JobTypes DEF JobStates
  <2>4. faults \in 0..Faults
    BY BoundsAssumption DEF OutboxInit
  <2> QED
    BY <2>1, <2>2, <2>3, <2>4 DEF OutboxInit, OutboxTypeOK, LaneStates
<1>5. AtLeastOnce /\ QuietOnceDelivered /\ Exclusive /\ NobodySkipped /\ DrainHasRoom
  BY <1>1, <1>2, LaneNames DEF Absent, AtLeastOnce, QuietOnceDelivered, Exclusive, NobodySkipped, DrainHasRoom
<1>6. RunsLeft
  BY <1>1, JobTypes DEF RunsLeft
<1> QED
  BY <1>4, <1>5, <1>6 DEF OutboxInv

(* Every step of every server, of Redis and of the rows keeps the invariant.*)
LEMMA OutboxStep == OutboxInv /\ [OutboxNext]_outboxVars => OutboxInv'
<1> SUFFICES ASSUME OutboxInv, [OutboxNext]_outboxVars
             PROVE  OutboxInv'
  OBVIOUS
<1>1. CASE UNCHANGED outboxVars
  <2>1. UNCHANGED <<outbox, heard, members, server, pump, lane, redis, jobs, faults>>
    BY <1>1 DEF outboxVars, queue
  <2> QED
    BY <2>1 DEF OutboxInv, OutboxTypeOK, AtLeastOnce, QuietOnceDelivered, Exclusive, NobodySkipped, Staying,
                DrainHasRoom, RunsLeft
<1> QED
  BY <1>1, DeliveryKeeps, WorkingKeeps, DrainKeeps, PumpKeeps, SurroundingsKeep DEF OutboxNext

(* For any number of servers, slots, rows and faults.                       *)
THEOREM OutboxInvariance == OutboxSpec => []OutboxInv
<1>1. OutboxInit => OutboxInv
  BY OutboxInitially
<1>2. OutboxInv /\ [OutboxNext]_outboxVars => OutboxInv'
  BY OutboxStep
<1> QED
  BY <1>1, <1>2, PTL DEF OutboxSpec

(* The type invariant of the delivery: no batch and no job runs over.       *)
THEOREM OutboxTypeCorrect == OutboxSpec => []OutboxTypeOK
<1>1. OutboxInv => OutboxTypeOK
  BY DEF OutboxInv
<1> QED
  BY <1>1, OutboxInvariance, PTL

(* Whatever crashes, stops or fails between a claim, its signals and its    *)
(* COMMIT: a row is marked delivered only after every lasting member of the *)
(* site was signalled.                                                      *)
THEOREM NobodyLeftOut == OutboxSpec => []AtLeastOnce
<1>1. OutboxInv => AtLeastOnce
  BY DEF OutboxInv
<1> QED
  BY <1>1, OutboxInvariance, PTL

(* No drain loop and no job of any server signals for a delivered row.      *)
THEOREM NoDuplicateWakeups == OutboxSpec => []QuietOnceDelivered
<1>1. OutboxInv => QuietOnceDelivered
  BY DEF OutboxInv
<1> QED
  BY <1>1, OutboxInvariance, PTL

(* No late retry and no second mark ever changes a delivered row.           *)
THEOREM DeliveredForGood == OutboxSpec => DeliveredIsFinal
<1> DEFINE Kept == \A r \in Rows : outbox[r].state = "delivered" => outbox'[r] = outbox[r]
<1>1. OutboxInv /\ [OutboxNext]_outboxVars => [Kept]_outboxVars
  <2> SUFFICES ASSUME OutboxInv, OutboxNext
               PROVE  Kept
    OBVIOUS
  <2>1. CASE outbox' = outbox
    BY <2>1
  <2>2. ASSUME NEW r \in Rows, NEW row, outbox' = [outbox EXCEPT ![r] = row],
               outbox[r].state # "delivered"
        PROVE  Kept
    BY <2>2 DEF OutboxInv, OutboxTypeOK
  <2>3. ASSUME NEW r \in Rows, Enqueue(r) \/ ComeDue(r)
        PROVE  Kept
    BY <2>2, <2>3 DEF Enqueue, ComeDue, Absent
  <2>4. ASSUME NEW d \in Lanes, Deliveries(d)
        PROVE  Kept
    <3>1. CASE Deliver(d)
      <4>1. lane[d].row \in Rows /\ outbox[lane[d].row].state = "pending"
        BY <3>1, LaneTypes DEF Deliver, OutboxInv, QuietOnceDelivered
      <4> QED
        BY <2>2, <3>1, <4>1 DEF Deliver
    <3>2. CASE RecordRetry(d)
      <4>1. lane[d].row \in Rows
        BY <3>2, LaneTypes DEF RecordRetry, OutboxInv
      <4> QED
        BY <2>1, <2>2, <3>2, <4>1 DEF RecordRetry
    <3> QED
      BY <2>1, <2>4, <3>1, <3>2 DEF Deliveries, Signal, Fail
  <2>5. ASSUME NEW r \in Rows, Stalled(r)
        PROVE  Kept
    BY <2>1, <2>5 DEF Stalled
  <2>6. ASSUME NEW u \in Participants, Membership(u)
        PROVE  Kept
    BY <2>1, <2>6 DEF Membership
  <2>7. ASSUME NEW d \in Workers, Working(d)
        PROVE  Kept
    BY <2>1, <2>7 DEF Working, StartJob, ClaimJob, ClaimFails, JobDone, JobFailed, JobUnreported
  <2>8. ASSUME NEW p \in Servers, Draining(p) \/ Pumping(p)
        PROVE  Kept
    BY <2>1, <2>8 DEF Draining, DrainNext, DrainFails, DrainFull, DrainResult, Pumping, Pump, AddJob, AddFails
  <2>9. ASSUME NEW p \in Servers, Stop(p) \/ Exit(p) \/ Crash(p) \/ Boot(p)
        PROVE  Kept
    BY <2>1, <2>9 DEF Stop, Exit, Crash, Gone, Boot
  <2>10. CASE RedisDown \/ RedisUp
    BY <2>1, <2>10 DEF RedisDown, RedisUp
  <2> QED
    BY <2>3, <2>4, <2>5, <2>6, <2>7, <2>8, <2>9, <2>10 DEF OutboxNext
<1> QED
  BY <1>1, OutboxInvariance, PTL DEF OutboxSpec, DeliveredIsFinal

(* Neither a delivery that raced for the row nor a late retry gets at it    *)
(* once it is delivered.                                                    *)
THEOREM DeliveredOnce == OutboxSpec => DeliveredIsDone
BY NoDuplicateWakeups, DeliveredForGood DEF DeliveredIsDone
=============================================================================
