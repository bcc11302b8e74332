-------------------------- MODULE CashWalletProofs --------------------------
(***************************************************************************)
(* Theorems of the custody transactions, for any set of workers, holders,  *)
(* sites, receipts and transfers.                                          *)
(***************************************************************************)
EXTENDS CashWallet, WalletWriteAdmission, FiniteSetFacts, SequenceTheorems

USE DEF ReceiptOps

-----------------------------------------------------------------------------
(* What a transaction of each kind looks like.                              *)

SourceJobs == Working({"source"}, {"read", "decide", "commit"},
                      [receipt : Receipts, change : Users \cup {Nobody}])
EntryJobs == Working({"entry"}, {"read", "decide", "commit"},
                     [receipt : Receipts, change : [amount : Sums, site : Sites]])
RequestJobs == Working({"request"}, {"read", "decide", "commit"}, Requests)
ResolveJobs == Working({"resolve"}, {"read", "decide", "commit"},
                       [id : Transfers, action : Resolutions, actor : Users])

(* A job is idle or one of the four transactions, told apart by its op.     *)
LEMMA JobKinds ==
  /\ Jobs = {Idle} \cup SourceJobs \cup EntryJobs \cup RequestJobs \cup ResolveJobs
  /\ \A j \in Jobs :
       /\ j.op = "source" => j \in SourceJobs
       /\ j.op = "entry" => j \in EntryJobs
       /\ j.op = "request" => j \in RequestJobs
       /\ j.op = "resolve" => j \in ResolveJobs
<1>1. Jobs = {Idle} \cup SourceJobs \cup EntryJobs \cup RequestJobs \cup ResolveJobs
  BY Zenon DEF Jobs, SourceJobs, EntryJobs, RequestJobs, ResolveJobs
<1>2. Idle.op = "idle"
  BY DEF Idle
<1>3. /\ \A j \in SourceJobs : j.op = "source"
      /\ \A j \in EntryJobs : j.op = "entry"
      /\ \A j \in RequestJobs : j.op = "request"
      /\ \A j \in ResolveJobs : j.op = "resolve"
  BY DEF SourceJobs, EntryJobs, RequestJobs, ResolveJobs, Working
<1> QED
  BY <1>1, <1>2, <1>3

(* Every lock a transaction asks for is one of the lock table.              *)
LEMMA LockTypes ==
  /\ \A s \in Sites : SiteLock(s) \in LockNames
  /\ \A k \in Kinds, u \in Users, key \in Keys : KeyLock(k, u, key) \in LockNames
  /\ \A op \in ReceiptOps, r \in Receipts : RowLock(op, r) \in LockNames
  /\ \A r \in Receipts : EntryLock(r) \in LockNames
  /\ \A hs \in SUBSET (Users \cup {Nobody}) : AccountLocks(hs) \subseteq LockNames
  /\ \A us \in SUBSET (Users \cup {Nobody}) : KeyShares(us) \subseteq LockNames
  /\ \A u \in Users : UserRow(u) \in LockNames
  /\ \A u \in Users, s \in Sites : MemberLock(u, s) \in LockNames
<1>1. \A u \in Users : AccountLock(u) \in LockNames /\ KeyShare(u) \in LockNames
  BY DEF LockNames
<1>2. /\ \A hs \in SUBSET (Users \cup {Nobody}) : AccountLocks(hs) \subseteq LockNames
      /\ \A us \in SUBSET (Users \cup {Nobody}) : KeyShares(us) \subseteq LockNames
  BY <1>1 DEF AccountLocks, KeyShares
<1> QED
  BY <1>2 DEF LockNames

(* A receipt's statement and its trigger, the holders of a transfer and the *)
(* users a written row names have locks of the lock table.                  *)
LEMMA PlanTypes ==
  /\ \A op \in ReceiptOps, r \in Receipts, refs \in References :
       ReceiptLocks(op, r, refs) \subseteq LockNames
  /\ \A refs \in References : KeyShares(refs) \subseteq LockNames
  /\ \A q \in Requests \cup Rows : HolderLocks(q) \subseteq LockNames
  /\ \A q \in Requests : RequestReferences(q) \subseteq LockNames
  /\ \A row, action : \A u \in Users : ResolveReferences(row, action, u) \subseteq LockNames
<1>1. \A refs \in References : KeyShares(refs) \subseteq LockNames
  BY ReferencesAssumption, LockTypes
<1>2. \A op \in ReceiptOps, r \in Receipts, refs \in References :
        ReceiptLocks(op, r, refs) \subseteq LockNames
  BY <1>1, LockTypes DEF ReceiptLocks
<1>3. \A q \in Requests \cup Rows : q.from \in Users /\ q.to \in Users /\ q.by \in Users
  BY DEF Requests, Rows
<1>4. ASSUME NEW q \in Requests \cup Rows
      PROVE  HolderLocks(q) \subseteq LockNames
  <2>1. {q.from, q.to} \in SUBSET (Users \cup {Nobody}) /\ q.from \in Users /\ q.to \in Users
    BY <1>3
  <2>2. {UserRow(u) : u \in {q.from, q.to}} \subseteq LockNames
    BY <2>1, LockTypes
  <2> QED
    BY <2>1, <2>2, LockTypes DEF HolderLocks
<1>5. ASSUME NEW q \in Requests
      PROVE  RequestReferences(q) \subseteq LockNames
  <2>1. (IF q.kind = "handover" THEN {q.to, q.by} ELSE {q.by} \ {q.from, q.to})
          \in SUBSET (Users \cup {Nobody})
    BY <1>3
  <2> QED
    BY <2>1, LockTypes DEF RequestReferences
<1>6. ASSUME NEW row, NEW action, NEW u \in Users
      PROVE  ResolveReferences(row, action, u) \subseteq LockNames
  <2>1. (IF row.kind = "imprest" /\ action = "accept" THEN {} ELSE {u})
          \in SUBSET (Users \cup {Nobody})
    OBVIOUS
  <2> QED
    BY <2>1, LockTypes DEF ResolveReferences
<1> QED
  BY <1>1, <1>2, <1>4, <1>5, <1>6

(* A debit takes its amount from one holder at one site and changes nothing *)
(* else; a credit brings it there.                                          *)
AmountAt(m, h, s) == IF m.holder = h /\ m.site = s THEN m.amount ELSE 0

(* What a posting of loyalty_vault_apply_delta does to the sums of a book.  *)
LEMMA BookEntries ==
  ASSUME NEW book \in Books, NEW m \in Moves
  PROVE  /\ Debit(book, m) \in Books /\ Credit(book, m) \in Books
         /\ \A h \in Users, s \in Sites :
              /\ Debit(book, m)[h][s] = book[h][s] - AmountAt(m, h, s)
              /\ Credit(book, m)[h][s] = book[h][s] + AmountAt(m, h, s)
<1>1. m.amount \in Nat /\ m.site \in Sites
  BY DEF Moves
<1>2. \A h \in Users : book[h] \in [Sites -> Int]
  BY DEF Books
<1>3. \A h \in Users, s \in Sites : book[h][s] \in Int
  BY <1>2
<1>4. CASE m.amount = 0
  <2>1. Debit(book, m) = book /\ Credit(book, m) = book
    BY <1>4 DEF Debit, Credit
  <2>2. \A h, s : AmountAt(m, h, s) = 0
    BY <1>4 DEF AmountAt
  <2> QED
    BY <2>1, <2>2, <1>3
<1>5. CASE m.amount # 0 /\ m.holder \notin Users
  <2>1. /\ Debit(book, m) = [book EXCEPT ![m.holder][m.site] = @ - m.amount]
        /\ Credit(book, m) = [book EXCEPT ![m.holder][m.site] = @ + m.amount]
    BY <1>5 DEF Debit, Credit
  <2>2. Debit(book, m) = book /\ Credit(book, m) = book
    BY <1>5, <2>1 DEF Books
  <2>3. \A h \in Users : \A s : AmountAt(m, h, s) = 0
    BY <1>5 DEF AmountAt
  <2> QED
    BY <2>2, <2>3, <1>3
<1>6. CASE m.amount # 0 /\ m.holder \in Users
  <2> DEFINE D == [book EXCEPT ![m.holder] = [book[m.holder] EXCEPT ![m.site] = book[m.holder][m.site] - m.amount]]
             C == [book EXCEPT ![m.holder] = [book[m.holder] EXCEPT ![m.site] = book[m.holder][m.site] + m.amount]]
  <2>1. Debit(book, m) = D /\ Credit(book, m) = C
    BY <1>6 DEF Debit, Credit
  <2>2. D \in Books /\ C \in Books
    BY <1>1, <1>6 DEF Books
  <2>3. \A h \in Users, s \in Sites :
          D[h][s] = book[h][s] - AmountAt(m, h, s) /\ C[h][s] = book[h][s] + AmountAt(m, h, s)
    BY <1>1, <1>2, <1>3, <1>6 DEF Books, AmountAt
  <2> QED
    BY <2>1, <2>2, <2>3
<1> QED
  BY <1>4, <1>5, <1>6

(* Receipts, requests and rows name holders, sites and amounts, so what     *)
(* they post is a move of money.                                            *)
LEMMA MoneyTypes ==
  /\ \A s \in Sites : NoMove(s) \in Moves /\ NoMove(s) \in Postings
  /\ Postings \subseteq Moves
  /\ \A h \in Users \cup {Nobody}, e \in [amount : Sums, site : Sites] : Posting(h, e) \in Postings
  /\ \A q \in Requests \cup Rows : Payment(q) \in Moves
  /\ \A row \in Rows : Receipt(row) \in Moves
  /\ \A book \in Books, m \in Moves : Debit(book, m) \in Books /\ Credit(book, m) \in Books
<1> USE MoneyAssumption
<1>1. Sums \subseteq Nat /\ Amounts \subseteq Nat
  BY DEF Sums
<1>2. \A s \in Sites : NoMove(s) \in Moves /\ NoMove(s) \in Postings
  BY DEF NoMove, Moves, Postings, Sums
<1>3. Postings \subseteq Moves
  BY <1>1 DEF Postings, Moves
<1>4. \A h \in Users \cup {Nobody}, e \in [amount : Sums, site : Sites] : Posting(h, e) \in Postings
  BY DEF Posting, Postings, Sums
<1>5. \A q \in Requests \cup Rows : Payment(q) \in Moves
  BY <1>1 DEF Requests, Rows, Payment, Moves
<1>6. \A row \in Rows : Receipt(row) \in Moves
  BY <1>1 DEF Rows, Receipt, Moves
<1>7. \A book \in Books, m \in Moves : Debit(book, m) \in Books /\ Credit(book, m) \in Books
  BY BookEntries
<1> QED
  BY <1>2, <1>3, <1>4, <1>5, <1>6, <1>7

(* The difference between two states of a receipt is a debit and a credit   *)
(* of natural amounts.                                                      *)
LEMMA DifferenceTypes ==
  ASSUME NEW old \in Postings, NEW new \in Postings
  PROVE  DebitOf(old, new) \in Moves /\ CreditOf(old, new) \in Moves
<1>1. Sums \subseteq Nat
  BY MoneyAssumption DEF Sums
<1>2. old \in Moves /\ new \in Moves
  BY MoneyTypes
<1>3. old.amount \in Nat /\ new.amount \in Nat
  BY <1>1 DEF Postings
<1>4. Excess(old.amount, new.amount) \in Nat /\ Excess(new.amount, old.amount) \in Nat
  BY <1>3 DEF Excess
<1> QED
  BY <1>2, <1>4 DEF DebitOf, CreditOf, Moves

(* A request becomes a row of its table and a resolved row stays one.       *)
LEMMA RowTypes ==
  /\ \A q \in Requests : Pending(q) \in Rows
  /\ \A row \in Rows, action \in Resolutions, u \in Users : Resolved(row, action, u) \in Rows
  /\ NoRow \notin Rows
<1>1. \A q \in Requests : Pending(q) \in Rows
  BY DEF Requests, Rows, Pending
<1>2. \A row \in Rows, u \in Users : Consented(row, u) \in Rows
  BY DEF Rows, Consented
<1>3. \A row \in Rows, st \in {"accepted", "rejected", "cancelled"} : [row EXCEPT !.status = st] \in Rows
  BY DEF Rows
<1>4. \A row \in Rows, action \in Resolutions, u \in Users : Resolved(row, action, u) \in Rows
  BY <1>2, <1>3 DEF Resolved, Resolutions
<1>5. NoRow \notin Rows
  <2>1. NoRow.status = "none"
    BY DEF NoRow
  <2>2. \A row \in Rows : row.status # "none"
    BY DEF Rows
  <2> QED
    BY <2>1, <2>2
<1> QED
  BY <1>1, <1>4, <1>5

-----------------------------------------------------------------------------
(* Type correctness: what each way of taking a step does to the types.      *)

(* Going on to the next statements keeps every value of its type.           *)
LEMMA ProceedTypes ==
  ASSUME TypeOK, NEW w \in Workers, NEW j \in Jobs, NEW locks \in SUBSET LockNames,
         Proceed(w, j, locks)
  PROVE  TypeOK'
  BY DEF TypeOK, Proceed, books

(* Answering without a write, or rolling back, keeps every value of its     *)
(* type.                                                                    *)
LEMMA AnswerTypes ==
  ASSUME TypeOK, NEW w \in Workers, Answer(w)
  PROVE  TypeOK'
<1>1. Idle \in Jobs
  BY JobKinds
<1> QED
  BY <1>1 DEF TypeOK, Answer, End, books

(* A new transaction keeps every value of its type.                         *)
LEMMA OpenTypes ==
  ASSUME TypeOK, NEW w \in Workers, NEW j \in Jobs, NEW locks \in SUBSET LockNames,
         Open(w, j, locks)
  PROVE  TypeOK'
  BY DEF TypeOK, Open, books

(* Posting a debit and a credit keeps the balances and the books of their   *)
(* types.                                                                   *)
LEMMA PostTypes ==
  ASSUME TypeOK, NEW ref \in Receipts \cup Transfers, NEW debit \in Moves, NEW credit \in Moves,
         Post(ref, debit, credit)
  PROVE  /\ balance' \in [Users -> Int]
         /\ custody' \in Books
         /\ ledger' \in [Receipts \cup Transfers -> Books]
<1>1. \A book \in Books : Credit(Debit(book, debit), credit) \in Books
  BY MoneyTypes
<1>2. \A h \in Users : Part(debit, h) \in Int /\ Part(credit, h) \in Int
  BY DEF Part, Moves
<1>3. \A h \in Users : balance[h] \in Int
  BY DEF TypeOK
<1>4. balance' \in [Users -> Int]
  BY <1>2, <1>3 DEF Post
<1>5. ledger[ref] \in Books /\ custody \in Books
  BY DEF TypeOK
<1>6. custody' \in Books
  BY <1>1, <1>5 DEF Post
<1>7. ledger' \in [Receipts \cup Transfers -> Books]
  BY <1>1, <1>5 DEF Post, TypeOK
<1> QED
  BY <1>4, <1>6, <1>7

(* Every statement of a receipt change keeps every value of its type.       *)
LEMMA ReceiptTypes ==
  ASSUME TypeOK, NEW w \in Workers, ReceiptNext(w)
  PROVE  TypeOK'
<1>1. ASSUME NEW r \in Receipts, NEW h \in Users \cup {Nobody}, OpenSource(w, r, h)
      PROVE  TypeOK'
  <2>1. entries[r].site \in Sites
    BY DEF TypeOK
  <2>2. ReceiptJob("source", r, h, entries[r].site) \in SourceJobs
    BY <2>1, MoneyTypes DEF ReceiptJob, SourceJobs, Working
  <2>3. PICK refs \in References : Open(w, ReceiptJob("source", r, h, entries[r].site), ReceiptLocks("source", r, refs))
    BY <1>1 DEF OpenSource
  <2>4. ReceiptLocks("source", r, refs) \subseteq LockNames
    BY PlanTypes
  <2> QED
    BY <2>2, <2>3, <2>4, JobKinds, OpenTypes
<1>2. ASSUME NEW r \in Receipts, NEW a \in Sums, NEW s \in Sites, OpenEntry(w, r, a, s)
      PROVE  TypeOK'
  <2>2. ReceiptJob("entry", r, [amount |-> a, site |-> s], s) \in EntryJobs
    BY MoneyTypes DEF ReceiptJob, EntryJobs, Working
  <2>3. PICK refs \in References : Open(w, ReceiptJob("entry", r, [amount |-> a, site |-> s], s), ReceiptLocks("entry", r, refs))
    BY <1>2 DEF OpenEntry
  <2>4. ReceiptLocks("entry", r, refs) \subseteq LockNames
    BY PlanTypes
  <2> QED
    BY <2>2, <2>3, <2>4, JobKinds, OpenTypes
<1>3. CASE ReadReceipt(w)
  <2> DEFINE j == job[w]
             r == j.arg.receipt
  <2>1. PICK op \in ReceiptOps :
          LET new == Posting(IF op = "source" THEN j.arg.change ELSE holderOf[r],
                             IF op = "entry" THEN j.arg.change ELSE entries[r])
          IN /\ At(w, op, "read")
             /\ Proceed(w, [j EXCEPT !.stage = "decide", !.target = new,
                                     !.debit = DebitOf(sources[r], new),
                                     !.credit = CreditOf(sources[r], new)],
                        IF sources[r].amount = 0 /\ new.amount = 0 THEN {}
                        ELSE AccountLocks({sources[r].holder, new.holder}))
    BY <1>3 DEF ReadReceipt
  <2> DEFINE new == Posting(IF op = "source" THEN j.arg.change ELSE holderOf[r],
                            IF op = "entry" THEN j.arg.change ELSE entries[r])
             next == [j EXCEPT !.stage = "decide", !.target = new,
                               !.debit = DebitOf(sources[r], new),
                               !.credit = CreditOf(sources[r], new)]
             locks == IF sources[r].amount = 0 /\ new.amount = 0 THEN {}
                      ELSE AccountLocks({sources[r].holder, new.holder})
  <2>2. j \in Jobs /\ j.op = op
    BY <2>1 DEF TypeOK, At
  <2>3. r \in Receipts
    BY <2>2, JobKinds DEF SourceJobs, EntryJobs, Working
  <2>4. new \in Postings
    <3>1. op = "source" => j.arg.change \in Users \cup {Nobody}
      BY <2>2, JobKinds DEF SourceJobs, Working
    <3>2. op = "entry" => j.arg.change \in [amount : Sums, site : Sites]
      BY <2>2, JobKinds DEF EntryJobs, Working
    <3>3. holderOf[r] \in Users \cup {Nobody} /\ entries[r] \in [amount : Sums, site : Sites]
      BY <2>3 DEF TypeOK
    <3> QED
      BY <3>1, <3>2, <3>3, MoneyTypes
  <2>5. sources[r] \in Postings
    BY <2>3 DEF TypeOK
  <2> HIDE DEF new, r
  <2>6. next \in Jobs
    <3>1. DebitOf(sources[r], new) \in Moves /\ CreditOf(sources[r], new) \in Moves /\ new \in Moves
      BY <2>4, <2>5, DifferenceTypes, MoneyTypes
    <3>2. CASE op = "source"
      <4>1. j \in SourceJobs
        BY <2>2, <3>2, JobKinds
      <4>2. next \in SourceJobs
        BY <2>4, <3>1, <4>1 DEF SourceJobs, Working
      <4> QED
        BY <4>2, JobKinds
    <3>3. CASE op = "entry"
      <4>1. j \in EntryJobs
        BY <2>2, <3>3, JobKinds
      <4>2. next \in EntryJobs
        BY <2>4, <3>1, <4>1 DEF EntryJobs, Working
      <4> QED
        BY <4>2, JobKinds
    <3> QED
      BY <3>2, <3>3
  <2>7. locks \subseteq LockNames
    <3>1. {sources[r].holder, new.holder} \in SUBSET (Users \cup {Nobody})
      BY <2>4, <2>5 DEF Postings
    <3> QED
      BY <3>1, LockTypes
  <2>8. Proceed(w, next, locks)
    BY <2>1 DEF new, r
  <2> QED
    BY <2>6, <2>7, <2>8, ProceedTypes
<1>4. CASE DecideReceipt(w)
  <2>1. PICK op \in ReceiptOps, refs \in References :
          /\ At(w, op, "decide")
          /\ \/ Answer(w)
             \/ Proceed(w, [job[w] EXCEPT !.stage = "commit"], {})
             \/ Proceed(w, [job[w] EXCEPT !.stage = "commit"], KeyShares(refs))
    BY <1>4 DEF DecideReceipt
  <2>2. [job[w] EXCEPT !.stage = "commit"] \in Jobs
    <3>1. job[w] \in SourceJobs \cup EntryJobs
      BY <2>1, JobKinds DEF TypeOK, At
    <3>2. [job[w] EXCEPT !.stage = "commit"] \in SourceJobs \cup EntryJobs
      BY <3>1 DEF SourceJobs, EntryJobs, Working
    <3> QED
      BY <3>2, JobKinds
  <2>3. {} \in SUBSET LockNames /\ KeyShares(refs) \in SUBSET LockNames
    BY PlanTypes
  <2> QED
    BY <2>1, <2>2, <2>3, ProceedTypes, AnswerTypes
<1>5. CASE CommitReceipt(w)
  <2> DEFINE j == job[w]
             r == j.arg.receipt
  <2>1. PICK op \in ReceiptOps :
          /\ At(w, op, "commit")
          /\ holderOf' = IF op = "source" THEN [holderOf EXCEPT ![r] = j.arg.change] ELSE holderOf
          /\ entries' = IF op = "entry" THEN [entries EXCEPT ![r] = j.arg.change] ELSE entries
          /\ sources' = [sources EXCEPT ![r] = j.target]
          /\ Post(r, j.debit, j.credit)
          /\ End(w)
          /\ UNCHANGED <<transfers, float, outbox, assigned>>
    BY <1>5 DEF CommitReceipt
  <2>2. j \in SourceJobs \cup EntryJobs /\ j.op = op
    BY <2>1, JobKinds DEF TypeOK, At
  <2>3. /\ r \in Receipts /\ j.target \in Postings /\ j.debit \in Moves /\ j.credit \in Moves
        /\ op = "source" => j.arg.change \in Users \cup {Nobody}
        /\ op = "entry" => j.arg.change \in [amount : Sums, site : Sites]
    BY <2>2 DEF SourceJobs, EntryJobs, Working
  <2> HIDE DEF j, r
  <2>4. /\ holderOf' \in [Receipts -> Users \cup {Nobody}]
        /\ entries' \in [Receipts -> [amount : Sums, site : Sites]]
        /\ sources' \in [Receipts -> Postings]
    BY <2>1, <2>3 DEF TypeOK
  <2>5. /\ balance' \in [Users -> Int] /\ custody' \in Books
        /\ ledger' \in [Receipts \cup Transfers -> Books]
    BY <2>1, <2>3, PostTypes
  <2>6. End(w) /\ UNCHANGED <<transfers, float, outbox, assigned>>
    BY <2>1
  <2> QED
    BY <2>4, <2>5, <2>6, JobKinds DEF TypeOK, End
<1> QED
  BY <1>1, <1>2, <1>3, <1>4, <1>5 DEF ReceiptNext

(* A row that is being resolved was there when the request for it arrived,  *)
(* and rows are never deleted.                                              *)
RowsExist == \A w \in Workers : job[w].op = "resolve" => transfers[job[w].arg.id] # NoRow

(* Every statement of a transfer request or resolution keeps every value of *)
(* its type.                                                                *)
LEMMA TransferTypes ==
  ASSUME TypeOK, RowsExist, NEW w \in Workers, TransferNext(w)
  PROVE  TypeOK'
<1> DEFINE j == job[w]
<1>0. job[w] \in Jobs
  BY DEF TypeOK
<1>1. ASSUME NEW q \in Requests, OpenRequest(w, q)
      PROVE  TypeOK'
  <2>1. OpeningLocks(q) \subseteq LockNames
    BY LockTypes DEF OpeningLocks, Requests
  <2>2. q.site \in Sites
    BY DEF Requests
  <2>3. [op |-> "request", stage |-> "read", arg |-> q, target |-> NoMove(q.site),
         debit |-> NoMove(q.site), credit |-> NoMove(q.site)] \in RequestJobs
    BY <2>2, MoneyTypes DEF RequestJobs, Working
  <2> QED
    BY <1>1, <2>1, <2>3, JobKinds, OpenTypes DEF OpenRequest
<1>2. ASSUME NEW stage \in {"decide", "commit"}, At(w, "request", "read") \/ At(w, "request", "decide")
      PROVE  [job[w] EXCEPT !.stage = stage] \in Jobs /\ job[w].arg \in Requests
  <2>1. job[w] \in RequestJobs
    BY <1>0, <1>2, JobKinds DEF At
  <2>2. [job[w] EXCEPT !.stage = stage] \in RequestJobs
    BY <2>1 DEF RequestJobs, Working
  <2> QED
    BY <2>1, <2>2, JobKinds DEF RequestJobs, Working
<1>3. CASE ReadRequest(w)
  <2>1. At(w, "request", "read")
    BY <1>3 DEF ReadRequest
  <2>2. ClosingLocks(job[w].arg) \subseteq LockNames
    <3>1. job[w].arg \in Requests
      BY <1>2, <2>1
    <3>2. HolderLocks(job[w].arg) \subseteq LockNames
      BY <3>1, PlanTypes
    <3> QED
      BY <3>1, <3>2, LockTypes DEF ClosingLocks, Requests
  <2> QED
    BY <1>2, <1>3, <2>1, <2>2, ProceedTypes, AnswerTypes DEF ReadRequest
<1>4. CASE DecideRequest(w)
  <2>1. At(w, "request", "decide")
    BY <1>4 DEF DecideRequest
  <2>2. RequestReferences(job[w].arg) \in SUBSET LockNames
    BY <1>2, <2>1, PlanTypes
  <2> QED
    BY <1>2, <1>4, <2>1, <2>2, ProceedTypes, AnswerTypes DEF DecideRequest
<1>5. CASE CommitRequest(w)
  <2>1. job[w] \in RequestJobs
    BY <1>0, <1>5, JobKinds DEF CommitRequest, At
  <2>2. job[w].arg \in Requests
    BY <2>1 DEF RequestJobs, Working
  <2>3. Pending(job[w].arg) \in Rows
    BY <2>2, RowTypes
  <2>4. transfers' \in [Transfers -> {NoRow} \cup Rows]
    BY <1>5, <2>3 DEF CommitRequest, TypeOK
  <2> QED
    BY <1>5, <2>4, JobKinds DEF CommitRequest, TypeOK, End
<1>6. ASSUME NEW i \in Transfers, NEW action \in Resolutions, NEW u \in Users,
             OpenResolve(w, i, action, u)
      PROVE  TypeOK'
  <2>1. transfers[i] \in Rows
    BY <1>6 DEF OpenResolve, TypeOK
  <2>2. transfers[i].site \in Sites
    BY <2>1 DEF Rows
  <2>3. [op |-> "resolve", stage |-> "read",
         arg |-> [id |-> i, action |-> action, actor |-> u],
         target |-> NoMove(transfers[i].site), debit |-> NoMove(transfers[i].site),
         credit |-> NoMove(transfers[i].site)] \in ResolveJobs
    BY <2>2, MoneyTypes DEF ResolveJobs, Working
  <2>4. {SiteLock(transfers[i].site)} \subseteq LockNames
    BY <2>2, LockTypes
  <2> QED
    BY <1>6, <2>3, <2>4, JobKinds, OpenTypes DEF OpenResolve
<1>7. CASE ReadRow(w)
  <2>1. job[w] \in ResolveJobs
    BY <1>0, <1>7, JobKinds DEF ReadRow, At
  <2>2. [job[w] EXCEPT !.stage = "decide"] \in ResolveJobs /\ job[w].arg.id \in Transfers
    BY <2>1 DEF ResolveJobs, Working
  <2> DEFINE row == transfers[job[w].arg.id]
             action == job[w].arg.action
  <2>3. MayResolve(row, action, job[w].arg.actor) /\ row.status = "pending"
          => ResolveLocks(row, action) \in SUBSET LockNames
    <3>1. ASSUME row.status = "pending"
          PROVE  row \in Rows
      <4>1. NoRow.status # "pending"
        BY DEF NoRow
      <4> QED
        BY <2>2, <3>1, <4>1 DEF TypeOK
    <3>2. ASSUME row \in Rows
          PROVE  ResolveLocks(row, action) \in SUBSET LockNames
      <4>1. row.from \in Users /\ row.to \in Users /\ row.site \in Sites
        BY <3>2 DEF Rows
      <4>2. HolderLocks(row) \subseteq LockNames
        BY <3>2, PlanTypes
      <4>3. {MemberLock(u, row.site) : u \in {row.from, row.to} \ Admins} \subseteq LockNames
        BY <4>1, LockTypes
      <4> HIDE DEF row, action
      <4> QED
        BY <4>2, <4>3 DEF ResolveLocks
    <3> QED
      BY <3>1, <3>2
  <2>4. \/ Answer(w)
        \/ /\ MayResolve(row, action, job[w].arg.actor) /\ row.status = "pending"
           /\ Proceed(w, [job[w] EXCEPT !.stage = "decide"], ResolveLocks(row, action))
    BY <1>7 DEF ReadRow
  <2> QED
    BY <2>2, <2>3, <2>4, JobKinds, ProceedTypes, AnswerTypes
<1>8. CASE DecideResolve(w)
  <2> DEFINE row == transfers[job[w].arg.id]
             settles == Settles(row, job[w].arg.action, job[w].arg.actor)
             next == [job[w] EXCEPT !.stage = "commit",
                                    !.debit = IF settles THEN Payment(row) ELSE @,
                                    !.credit = IF settles THEN Receipt(row) ELSE @]
  <2>1. job[w] \in ResolveJobs /\ job[w].op = "resolve"
    BY <1>0, <1>8, JobKinds DEF DecideResolve, At
  <2>2. row \in Rows
    <3>1. job[w].arg.id \in Transfers
      BY <2>1 DEF ResolveJobs, Working
    <3> QED
      BY <2>1, <3>1 DEF RowsExist, TypeOK
  <2>3. Payment(row) \in Moves /\ Receipt(row) \in Moves
    BY <2>2, MoneyTypes
  <2> HIDE DEF row, settles
  <2>4. next \in ResolveJobs
    BY <2>1, <2>3 DEF ResolveJobs, Working
  <2> DEFINE refs == ResolveReferences(row, job[w].arg.action, job[w].arg.actor)
  <2>5. Answer(w) \/ Proceed(w, next, refs)
    BY <1>8 DEF DecideResolve, row, settles
  <2>6. refs \in SUBSET LockNames
    BY <2>1, PlanTypes DEF ResolveJobs, Working
  <2> HIDE DEF refs, next
  <2>7. next \in Jobs
    BY <2>4, JobKinds
  <2> QED
    BY <2>5, <2>6, <2>7, ProceedTypes, AnswerTypes
<1>9. CASE CommitResolve(w)
  <2> DEFINE i == job[w].arg.id
  <2>1. job[w] \in ResolveJobs /\ job[w].op = "resolve"
    BY <1>0, <1>9, JobKinds DEF CommitResolve, At
  <2>2. /\ i \in Transfers /\ job[w].arg.action \in Resolutions /\ job[w].arg.actor \in Users
        /\ job[w].debit \in Moves /\ job[w].credit \in Moves
    BY <2>1 DEF ResolveJobs, Working
  <2>3. transfers[i] \in Rows
    BY <2>1, <2>2 DEF RowsExist, TypeOK
  <2>4. transfers' \in [Transfers -> {NoRow} \cup Rows]
    <3>1. Resolved(transfers[i], job[w].arg.action, job[w].arg.actor) \in Rows
      BY <2>2, <2>3, RowTypes
    <3>2. transfers' = [transfers EXCEPT ![i] = Resolved(transfers[i], job[w].arg.action, job[w].arg.actor)]
      BY <1>9 DEF CommitResolve
    <3> QED
      BY <3>1, <3>2 DEF TypeOK
  <2>5. float' \in [Transfers -> Nat]
    <3>1. transfers[i].amount \in Nat
      BY <2>3, MoneyAssumption DEF Rows
    <3>2. float' = float \/ float' = [float EXCEPT ![i] = @ + transfers[i].amount]
      BY <1>9 DEF CommitResolve
    <3> QED
      BY <2>2, <3>1, <3>2 DEF TypeOK
  <2>6. /\ balance' \in [Users -> Int] /\ custody' \in Books
        /\ ledger' \in [Receipts \cup Transfers -> Books]
    <3>1. Post(i, job[w].debit, job[w].credit)
      BY <1>9 DEF CommitResolve
    <3> QED
      BY <2>2, <3>1, PostTypes
  <2>7. End(w) /\ UNCHANGED <<holderOf, entries, sources, assigned>>
    BY <1>9 DEF CommitResolve
  <2> QED
    BY <2>4, <2>5, <2>6, <2>7, JobKinds DEF TypeOK, End
<1> QED
  BY <1>1, <1>3, <1>4, <1>5, <1>6, <1>7, <1>8, <1>9 DEF TransferNext

-----------------------------------------------------------------------------
(* The inductive invariant.  The properties speak of committed rows; they   *)
(* are kept because of what each open transaction has locked and read.      *)

Claim(w) == need[w] \cup held[w]

Exclusive ==
  \A v, w \in Workers : v # w => \A l \in held[v] \cap held[w] : Shared(l)

(* What is posted for a receipt is what its two halves say.                 *)
SourcesMirror == \A r \in Receipts : sources[r] = Posting(holderOf[r], entries[r])
LedgerMirror == \A r \in Receipts : ledger[r] = Placed(sources[r])

NewPosting(j) ==
  Posting(IF j.op = "source" THEN j.arg.change ELSE holderOf[j.arg.receipt],
          IF j.op = "entry" THEN j.arg.change ELSE entries[j.arg.receipt])

(* Past its read, a receipt change holds the entry's lock, and what it read *)
(* under it is still there.                                                 *)
ReceiptInv(w) ==
  LET j == job[w]
      r == j.arg.receipt
  IN j.op \in ReceiptOps =>
       /\ EntryLock(r) \in Claim(w)
       /\ j.stage # "read" =>
            /\ EntryLock(r) \in held[w]
            /\ j.target = NewPosting(j)
            /\ j.debit = DebitOf(sources[r], j.target)
            /\ j.credit = CreditOf(sources[r], j.target)
            /\ j.debit.amount # 0 => AccountLock(j.debit.holder) \in Claim(w)

(* A request that found no row with its key holds the key.                  *)
RequestInv(w) ==
  LET j == job[w]
      q == j.arg
      key == KeyLock(q.kind, q.by, q.key)
  IN j.op = "request" =>
       /\ j.debit.amount = 0
       /\ q.kind = "imprest" \/ j.stage # "read" => key \in Claim(w)
       /\ j.stage = "commit" \/ (q.kind = "imprest" /\ j.stage # "read")
            => key \in held[w] /\ ~Known(q)

(* A resolution that found its row pending holds the site's lock, so the    *)
(* row is still pending, and what it will post is what it read.             *)
ResolveInv(w) ==
  LET j == job[w]
      row == transfers[j.arg.id]
      settles == Settles(row, j.arg.action, j.arg.actor)
  IN j.op = "resolve" =>
       /\ row # NoRow
       /\ SiteLock(row.site) \in Claim(w)
       /\ j.stage # "commit" => j.debit = NoMove(row.site) /\ j.credit = NoMove(row.site)
       /\ j.stage # "read" =>
            /\ SiteLock(row.site) \in held[w]
            /\ row.status = "pending"
            /\ MayResolve(row, j.arg.action, j.arg.actor)
            /\ j.arg.action = "accept" => AccountLock(row.from) \in Claim(w)
       /\ j.stage = "commit" =>
            /\ j.debit = IF settles THEN Payment(row) ELSE NoMove(row.site)
            /\ j.credit = IF settles THEN Receipt(row) ELSE NoMove(row.site)

(* A debit about to be committed is covered and its account locked.         *)
Covered(w) ==
  job[w].op # "idle" /\ job[w].stage = "commit" =>
    /\ Funded(job[w].debit)
    /\ job[w].debit.amount # 0 => AccountLock(job[w].debit.holder) \in held[w]

WorkerInv(w) == ReceiptInv(w) /\ RequestInv(w) /\ ResolveInv(w) /\ Covered(w)

IInv ==
  /\ TypeOK /\ Exclusive /\ SourcesMirror /\ LedgerMirror
  /\ NeverOverdrawn /\ TransfersPostOnce
  /\ \A w \in Workers : WorkerInv(w)

-----------------------------------------------------------------------------
(* Lemmas about the lock table.                                             *)

(* Different sites, entries and holders have different locks, and none of   *)
(* these is shared, as an assignment's is, the only kind a transaction may  *)
(* fail to find.                                                            *)
LEMMA LockFacts ==
  /\ \A s, t : SiteLock(s) = SiteLock(t) => s = t
  /\ \A r, t : EntryLock(r) = EntryLock(t) => r = t
  /\ \A h, g : AccountLock(h) = AccountLock(g) => h = g
  /\ \A s : SiteLock(s)[1] # 8 /\ ~Shared(SiteLock(s))
  /\ \A k, u, key : KeyLock(k, u, key)[1] # 8 /\ ~Shared(KeyLock(k, u, key))
  /\ \A r : EntryLock(r)[1] # 8 /\ ~Shared(EntryLock(r))
  /\ \A h : AccountLock(h)[1] # 8 /\ ~Shared(AccountLock(h))
  BY DEF SiteLock, KeyLock, EntryLock, AccountLock, Shared

(* What one transaction holds and does not share, no other holds.           *)
LEMMA NeverShared ==
  ASSUME Exclusive, NEW v \in Workers, NEW w \in Workers, v # w, NEW l, l \in held[v], ~Shared(l)
  PROVE  l \notin held[w]
  BY DEF Exclusive

(* Every step of a worker leaves the other workers' transactions alone, and *)
(* either changes no row or ends the transaction that changed it.           *)
OthersKept(w) ==
  \A v \in Workers \ {w} : job'[v] = job[v] /\ need'[v] = need[v] /\ held'[v] = held[v]

(* What a transaction holds after a step it held before, may share, or      *)
(* found free.                                                              *)
FairlyHeld(w) == \A l \in held'[w] : l \in held[w] \/ Shared(l) \/ Free(w, l)

(* Taking a free lock, or releasing all, leaves every lock that is not      *)
(* shared with one owner.                                                   *)
LEMMA ExclusiveKept ==
  ASSUME TypeOK, Exclusive, NEW w \in Workers, OthersKept(w), FairlyHeld(w)
  PROVE  Exclusive'
<1>0. \A v \in Workers \ {w} : \A l \in held'[w] \cap held'[v] : Shared(l)
  BY DEF Exclusive, OthersKept, FairlyHeld, Free, Conflicts
<1>1. \A u, v \in Workers \ {w} : u # v => \A l \in held'[u] \cap held'[v] : Shared(l)
  BY DEF Exclusive, OthersKept
<1> QED
  BY <1>0, <1>1 DEF Exclusive

(* A transaction that keeps its locks knows what it knew while no row       *)
(* changes.                                                                 *)
LEMMA StillKnown ==
  ASSUME NEW w \in Workers, WorkerInv(w), UNCHANGED books,
         job'[w] = job[w], held[w] \subseteq held'[w],
         \A l : l[1] # 8 /\ l \in Claim(w) => l \in Claim(w)'
  PROVE  WorkerInv(w)'
<1> USE LockFacts
<1>1. ReceiptInv(w)'
  BY DEF WorkerInv, ReceiptInv, NewPosting, books
<1>2. RequestInv(w)'
  BY DEF WorkerInv, RequestInv, Known, books
<1>3. ResolveInv(w)'
  BY DEF WorkerInv, ResolveInv, books
<1>4. Covered(w)'
  BY DEF WorkerInv, Covered, Funded, books
<1> QED
  BY <1>1, <1>2, <1>3, <1>4 DEF WorkerInv

(* A worker without a transaction has nothing left to be right about.       *)
LEMMA IdleKnowsNothing ==
  ASSUME NEW w \in Workers, job'[w] = Idle
  PROVE  WorkerInv(w)'
<1>1. job'[w].op = "idle"
  BY DEF Idle
<1> QED
  BY <1>1 DEF WorkerInv, ReceiptInv, RequestInv, ResolveInv, Covered

(* A step that changes no row keeps the invariant if it keeps its worker's. *)
LEMMA QuietStep ==
  ASSUME IInv, TypeOK', NEW w \in Workers, OthersKept(w), UNCHANGED books,
         FairlyHeld(w), WorkerInv(w)'
  PROVE  IInv'
<1>1. Exclusive'
  BY ExclusiveKept DEF IInv
<1>2. ASSUME NEW v \in Workers, v # w
      PROVE  WorkerInv(v)'
  <2>1. job'[v] = job[v] /\ need'[v] = need[v] /\ held'[v] = held[v]
    BY <1>2 DEF OthersKept
  <2> QED
    BY <2>1, StillKnown DEF IInv, Claim
<1>3. \A v \in Workers : WorkerInv(v)'
  BY <1>2
<1>4. SourcesMirror' /\ LedgerMirror' /\ NeverOverdrawn' /\ TransfersPostOnce'
  BY DEF IInv, SourcesMirror, LedgerMirror, NeverOverdrawn, TransfersPostOnce, books
<1> QED
  BY <1>1, <1>3, <1>4 DEF IInv

-----------------------------------------------------------------------------
(* The ways a transaction goes on without changing a row.                   *)

(* A rollback or an answer without a write changes no row and frees the     *)
(* locks.                                                                   *)
LEMMA EndKeeps ==
  ASSUME IInv, TypeOK', NEW w \in Workers, Answer(w)
  PROVE  IInv'
<1>1. OthersKept(w) /\ held'[w] = {} /\ job'[w] = Idle /\ UNCHANGED books
  BY DEF Answer, End, OthersKept, IInv, TypeOK
<1> QED
  BY <1>1, IdleKnowsNothing, QuietStep DEF FairlyHeld

(* A transaction that opens changes no row.                                 *)
LEMMA OpenKeeps ==
  ASSUME IInv, TypeOK', NEW w \in Workers, NEW j, NEW locks, Open(w, j, locks),
         WorkerInv(w)'
  PROVE  IInv'
<1>1. OthersKept(w) /\ held'[w] = held[w] /\ UNCHANGED books
  BY DEF Open, OthersKept, IInv, TypeOK
<1> QED
  BY <1>1, QuietStep DEF FairlyHeld

(* A transaction that goes on to its next statements changes no row.        *)
LEMMA ProceedKeeps ==
  ASSUME IInv, TypeOK', NEW w \in Workers, NEW j, NEW locks, Proceed(w, j, locks),
         WorkerInv(w)'
  PROVE  IInv'
<1>1. OthersKept(w) /\ held'[w] = held[w] /\ UNCHANGED books
  BY DEF Proceed, OthersKept, IInv, TypeOK
<1> QED
  BY <1>1, QuietStep DEF FairlyHeld

(* What a transaction owns after its next statements.                       *)
LEMMA ProceedEffect ==
  ASSUME TypeOK, NEW w \in Workers, NEW j, NEW locks, Proceed(w, j, locks)
  PROVE  /\ job'[w] = j
         /\ held'[w] = held[w]
         /\ need'[w] = locks \ held[w]
         /\ Claim(w)' = locks \cup held[w]
         /\ UNCHANGED books
  BY DEF TypeOK, Proceed, Claim

(* What a transaction owns when it opens.                                   *)
LEMMA OpenEffect ==
  ASSUME TypeOK, NEW w \in Workers, NEW j, NEW locks, Open(w, j, locks)
  PROVE  /\ job'[w] = j
         /\ held'[w] = held[w]
         /\ Claim(w)' = locks \cup held[w]
         /\ UNCHANGED books
  BY DEF TypeOK, Open, Claim

(* Waiting for a lock and getting it changes nothing a transaction has      *)
(* read.                                                                    *)
LEMMA TakeLockKeeps ==
  ASSUME IInv, TypeOK', NEW w \in Workers, TakeLock(w)
  PROVE  IInv'
<1>1. PICK l \in need[w] :
        /\ Free(w, l)
        /\ held' = [held EXCEPT ![w] = @ \cup {l}]
        /\ need' = [need EXCEPT ![w] = @ \ {l}]
        /\ UNCHANGED <<books, assigned, job, granted>>
  BY DEF TakeLock, NextLocks
<1>2. OthersKept(w) /\ job'[w] = job[w] /\ UNCHANGED books
  BY <1>1 DEF OthersKept, IInv, TypeOK
<1>3. held'[w] = held[w] \cup {l} /\ need'[w] = need[w] \ {l}
  BY <1>1 DEF IInv, TypeOK
<1>4. \A m : m[1] # 8 /\ m \in Claim(w) => m \in Claim(w)'
  BY <1>3 DEF Claim
<1>5. WorkerInv(w)'
  BY <1>2, <1>3, <1>4, StillKnown DEF IInv
<1>6. FairlyHeld(w)
  BY <1>1, <1>3 DEF FairlyHeld
<1> QED
  BY <1>2, <1>5, <1>6, QuietStep

(* The scan of the assignments locks what it finds and changes nothing a    *)
(* transaction has read.                                                    *)
LEMMA ShareKeeps ==
  ASSUME IInv, TypeOK', NEW w \in Workers, ShareAssignments(w)
  PROVE  IInv'
<1>1. /\ held'[w] = held[w] \cup {l \in need[w] : l[2] \in assigned}
      /\ OthersKept(w) /\ job'[w] = job[w] /\ UNCHANGED books
  BY DEF ShareAssignments, OthersKept, IInv, TypeOK
<1>2. \A l \in need[w] : l[1] = 8
  BY DEF ShareAssignments
<1>3. \A m : m[1] # 8 /\ m \in Claim(w) => m \in Claim(w)'
  BY <1>1, <1>2 DEF Claim
<1>4. WorkerInv(w)'
  BY <1>1, <1>3, StillKnown DEF IInv
<1>5. FairlyHeld(w)
  BY <1>1, <1>2 DEF FairlyHeld, Shared
<1> QED
  BY <1>1, <1>4, <1>5, QuietStep

-----------------------------------------------------------------------------
(* Receipts.                                                                *)

(* A receipt that names no holder posts nothing.                            *)
LEMMA UnheldIsNothing == \A e : Posting(Nobody, e).amount = 0
  BY DEF Posting

(* A receipt posts at the holder and site its halves name.                  *)
LEMMA PostingHolder == \A h, e : Posting(h, e).holder = h /\ Posting(h, e).site = e.site
  BY DEF Posting

(* A difference that takes money takes it from the old or the new holder.   *)
LEMMA DebitHolder ==
  ASSUME NEW old \in Postings, NEW new \in Postings,
         old.holder = Nobody => old.amount = 0, DebitOf(old, new).amount # 0
  PROVE  /\ DebitOf(old, new).holder \in {old.holder, new.holder} \ {Nobody}
         /\ old.amount # 0
<1>1. CASE SamePlace(old, new)
  <2>1. DebitOf(old, new).holder = new.holder
    BY <1>1 DEF DebitOf, Postings
  <2> QED
    BY <1>1, <2>1 DEF SamePlace
<1>2. CASE ~SamePlace(old, new)
  BY <1>2 DEF DebitOf
<1> QED
  BY <1>1, <1>2

(* A receipt change reads the posted source under the entry's lock, and     *)
(* asks for the account it will debit.                                      *)
LEMMA ReadReceiptKeeps ==
  ASSUME IInv, TypeOK', NEW w \in Workers, ReadReceipt(w)
  PROVE  IInv'
<1> DEFINE j == job[w]
           r == j.arg.receipt
           new == NewPosting(j)
           next == [j EXCEPT !.stage = "decide", !.target = new,
                             !.debit = DebitOf(sources[r], new),
                             !.credit = CreditOf(sources[r], new)]
           locks == IF sources[r].amount = 0 /\ new.amount = 0 THEN {}
                    ELSE AccountLocks({sources[r].holder, new.holder})
<1>1. j.op \in ReceiptOps /\ j.stage = "read" /\ need[w] = {} /\ Proceed(w, next, locks)
  BY DEF ReadReceipt, At, NewPosting
<1>2. j \in SourceJobs \cup EntryJobs
  BY <1>1, JobKinds DEF IInv, TypeOK
<1>3. /\ r \in Receipts
      /\ next.op = j.op /\ next.arg = j.arg /\ next.stage = "decide" /\ next.target = new
      /\ next.debit = DebitOf(sources[r], new) /\ next.credit = CreditOf(sources[r], new)
  BY <1>2 DEF SourceJobs, EntryJobs, Working
<1>4. sources[r] \in Postings /\ new \in Postings
  <2>1. j.op = "source" => j.arg.change \in Users \cup {Nobody}
    BY <1>2 DEF SourceJobs, EntryJobs, Working
  <2>2. j.op = "entry" => j.arg.change \in [amount : Sums, site : Sites]
    BY <1>2 DEF SourceJobs, EntryJobs, Working
  <2>3. /\ holderOf[r] \in Users \cup {Nobody} /\ entries[r] \in [amount : Sums, site : Sites]
        /\ sources[r] \in Postings
    BY <1>3 DEF IInv, TypeOK
  <2> QED
    BY <1>1, <2>1, <2>2, <2>3, MoneyTypes DEF NewPosting
<1>5. sources[r].holder = Nobody => sources[r].amount = 0
  BY <1>3, UnheldIsNothing, PostingHolder DEF IInv, SourcesMirror
<1>6. /\ job'[w] = next /\ held'[w] = held[w] /\ Claim(w)' = locks \cup held[w]
      /\ UNCHANGED books
  BY <1>1, ProceedEffect DEF IInv
<1>7. EntryLock(r) \in held[w]
  BY <1>1 DEF IInv, WorkerInv, ReceiptInv, Claim
<1>8. next.debit.amount # 0 => AccountLock(next.debit.holder) \in locks
  BY <1>3, <1>4, <1>5, DebitHolder DEF AccountLocks
<1>9. NewPosting(job[w])' = new /\ sources'[r] = sources[r]
  BY <1>3, <1>6 DEF NewPosting, books
<1> HIDE DEF j, r, new, next, locks
<1>10. ReceiptInv(w)'
  <2>1. job'[w].arg.receipt = r
    BY <1>3, <1>6 DEF r
  <2> QED
    BY <1>3, <1>6, <1>7, <1>8, <1>9, <2>1 DEF ReceiptInv
<1>11. RequestInv(w)' /\ ResolveInv(w)' /\ Covered(w)'
  BY <1>1, <1>3, <1>6 DEF RequestInv, ResolveInv, Covered
<1> QED
  BY <1>1, <1>10, <1>11, ProceedKeeps DEF WorkerInv

(* The debit guard finds the money under the account's lock.                *)
LEMMA DecideReceiptKeeps ==
  ASSUME IInv, TypeOK', NEW w \in Workers, DecideReceipt(w)
  PROVE  IInv'
<1> DEFINE j == job[w]
           next == [j EXCEPT !.stage = "commit"]
<1>1. /\ j.op \in ReceiptOps /\ j.stage = "decide" /\ need[w] = {}
      /\ Answer(w) \/ (Funded(j.debit) /\ \E locks : Proceed(w, next, locks))
  BY DEF DecideReceipt, At
<1>2. ASSUME NEW locks, Funded(j.debit), Proceed(w, next, locks)
      PROVE  IInv'
  <2>1. j \in SourceJobs \cup EntryJobs
    BY <1>1, JobKinds DEF IInv, TypeOK
  <2>2. /\ next.op = j.op /\ next.arg = j.arg /\ next.stage = "commit" /\ next.target = j.target
        /\ next.debit = j.debit /\ next.credit = j.credit
    BY <2>1 DEF SourceJobs, EntryJobs, Working
  <2>3. /\ job'[w] = next /\ held'[w] = held[w] /\ Claim(w)' = locks \cup held[w]
        /\ UNCHANGED books
    BY <1>2, ProceedEffect, Zenon DEF IInv
  <2>4. ReceiptInv(w) /\ Claim(w) = held[w]
    BY <1>1 DEF IInv, WorkerInv, Claim
  <2>5. NewPosting(job[w])' = NewPosting(j) /\ sources' = sources
    BY <2>2, <2>3 DEF NewPosting, books
  <2> HIDE DEF next
  <2>6. ReceiptInv(w)'
    BY <1>1, <2>2, <2>3, <2>4, <2>5 DEF ReceiptInv
  <2>7. Covered(w)'
    BY <1>1, <1>2, <2>2, <2>3, <2>4 DEF Covered, ReceiptInv, Funded, books
  <2>8. RequestInv(w)' /\ ResolveInv(w)'
    BY <1>1, <2>2, <2>3 DEF RequestInv, ResolveInv
  <2> QED
    BY <1>2, <2>6, <2>7, <2>8, ProceedKeeps DEF WorkerInv
<1> QED
  BY <1>1, <1>2, EndKeeps

(* Every change of a receipt asks for the entry's lock first.               *)
LEMMA OpenReceiptKeeps ==
  ASSUME IInv, TypeOK', NEW w \in Workers, NEW op \in ReceiptOps, NEW r, NEW change, NEW s,
         NEW refs, Open(w, ReceiptJob(op, r, change, s), ReceiptLocks(op, r, refs))
  PROVE  IInv'
<1>1. /\ job'[w].op = op /\ job'[w].stage = "read" /\ job'[w].arg.receipt = r
      /\ EntryLock(r) \in Claim(w)'
  BY OpenEffect DEF ReceiptJob, ReceiptLocks, IInv
<1>2. ReceiptInv(w)' /\ RequestInv(w)' /\ ResolveInv(w)' /\ Covered(w)'
  BY <1>1 DEF ReceiptInv, RequestInv, ResolveInv, Covered
<1> QED
  BY <1>2, OpenKeeps DEF WorkerInv

-----------------------------------------------------------------------------
(* Posting.                                                                 *)

(* What a posting does to each balance and each sum.                        *)
LEMMA PostEntries ==
  ASSUME TypeOK, NEW ref \in Receipts \cup Transfers, NEW debit \in Moves, NEW credit \in Moves,
         Post(ref, debit, credit)
  PROVE  \A h \in Users :
           /\ balance[h] \in Int
           /\ balance'[h] = balance[h] - Part(debit, h) + Part(credit, h)
           /\ \A s \in Sites :
                /\ custody[h][s] \in Int
                /\ custody'[h][s] = custody[h][s] - AmountAt(debit, h, s) + AmountAt(credit, h, s)
<1>1. custody \in Books /\ Debit(custody, debit) \in Books
  BY BookEntries DEF TypeOK
<1>2. ASSUME NEW h \in Users, NEW s \in Sites
      PROVE  /\ custody[h][s] \in Int
             /\ Credit(Debit(custody, debit), credit)[h][s]
                  = custody[h][s] - AmountAt(debit, h, s) + AmountAt(credit, h, s)
  <2>1. custody[h][s] \in Int
    BY <1>1 DEF Books
  <2>2. Debit(custody, debit)[h][s] = custody[h][s] - AmountAt(debit, h, s)
    BY <1>1, BookEntries
  <2>3. Credit(Debit(custody, debit), credit)[h][s]
          = Debit(custody, debit)[h][s] + AmountAt(credit, h, s)
    BY <1>1, BookEntries
  <2> QED
    BY <2>1, <2>2, <2>3
<1>3. custody' = Credit(Debit(custody, debit), credit)
  BY DEF Post
<1>4. \A h \in Users : balance'[h] = balance[h] - Part(debit, h) + Part(credit, h)
  BY DEF Post
<1>5. \A h \in Users : balance[h] \in Int
  BY DEF TypeOK
<1> QED
  BY <1>2, <1>3, <1>4, <1>5

(* A covered debit leaves nobody with less than nothing.                    *)
LEMMA PostSolvent ==
  ASSUME TypeOK, NeverOverdrawn,
         NEW ref \in Receipts \cup Transfers, NEW debit \in Moves, NEW credit \in Moves,
         Post(ref, debit, credit), Funded(debit)
  PROVE  NeverOverdrawn'
<1> SUFFICES ASSUME NEW h \in Users
             PROVE  balance'[h] >= 0 /\ \A s \in Sites : custody'[h][s] >= 0
  BY DEF NeverOverdrawn
<1>1. debit.amount \in Nat /\ credit.amount \in Nat
  BY DEF Moves
<1>2. balance'[h] >= 0
  BY <1>1, PostEntries DEF Funded, Part, NeverOverdrawn
<1>3. ASSUME NEW s \in Sites
      PROVE  custody'[h][s] >= 0
  BY <1>1, PostEntries DEF Funded, AmountAt, NeverOverdrawn
<1> QED
  BY <1>2, <1>3

(* A posting that debits another account leaves a covered debit covered.    *)
LEMMA PostKeepsFunded ==
  ASSUME TypeOK, NEW ref \in Receipts \cup Transfers, NEW debit \in Moves, NEW credit \in Moves,
         Post(ref, debit, credit), NEW m \in Moves, Funded(m),
         m.amount # 0 => m.holder \in Users,
         m.amount # 0 => debit.amount = 0 \/ debit.holder # m.holder
  PROVE  Funded(m)'
<1>1. debit.amount \in Nat /\ credit.amount \in Nat /\ m.amount \in Nat /\ m.site \in Sites
  BY DEF Moves
<1> QED
  BY <1>1, PostEntries DEF Funded, Part, AmountAt

(* Another transaction's covered debit stays covered: its account is locked. *)
LEMMA PostKeepsCovered ==
  ASSUME IInv, NEW w \in Workers, NEW v \in Workers, v # w,
         NEW ref \in Receipts \cup Transfers, job[w].op # "idle", job[w].stage = "commit",
         job[w].debit \in Moves, job[w].credit \in Moves,
         Post(ref, job[w].debit, job[w].credit),
         job'[v] = job[v], held'[v] = held[v]
  PROVE  Covered(v)'
<1> SUFFICES ASSUME job[v].op # "idle", job[v].stage = "commit"
             PROVE  /\ Funded(job[v].debit)'
                    /\ job[v].debit.amount # 0 => AccountLock(job[v].debit.holder) \in held[v]
  BY DEF Covered, Funded
<1>1. /\ Funded(job[v].debit)
      /\ job[v].debit.amount # 0 => AccountLock(job[v].debit.holder) \in held[v]
  BY DEF IInv, WorkerInv, Covered
<1>2. job[w].debit.amount # 0 => AccountLock(job[w].debit.holder) \in held[w]
  BY DEF IInv, WorkerInv, Covered
<1>3. job[v].debit.amount # 0 => job[w].debit.amount = 0 \/ job[w].debit.holder # job[v].debit.holder
  BY <1>1, <1>2, NeverShared, LockFacts DEF IInv
<1>4. job[v].debit \in Moves
  BY JobKinds DEF IInv, TypeOK, Working, SourceJobs, EntryJobs, RequestJobs, ResolveJobs, Idle
<1>5. job[v].debit.amount # 0 => job[v].debit.holder \in Users
  <2>1. SUFFICES ASSUME job[v].debit.amount # 0
                 PROVE  AccountLock(job[v].debit.holder) \in LockNames => job[v].debit.holder \in Users
    BY <1>1 DEF IInv, TypeOK
  <2> QED
    BY DEF LockNames, SiteLock, KeyLock, RowLock, KeyShare, EntryLock, AccountLock, UserRow, MemberLock
<1>6. (Funded(job[v].debit))'
  <2> DEFINE m == job[v].debit
  <2>1. m' = m
    OBVIOUS
  <2> QED
    BY <1>1, <1>3, <1>4, <1>5, PostKeepsFunded DEF IInv, Funded
<1> QED
  BY <1>1, <1>6

(* Books with the same amounts everywhere are the same book.                *)
LEMMA SameBook ==
  ASSUME NEW b \in Books, NEW c \in Books,
         \A h \in Users, s \in Sites : b[h][s] = c[h][s]
  PROVE  b = c
<1>1. \A h \in Users : b[h] \in [Sites -> Int] /\ c[h] \in [Sites -> Int]
  BY DEF Books
<1>2. ASSUME NEW h \in Users
      PROVE  b[h] = c[h]
  BY <1>1
<1>3. b \in [Users -> [Sites -> Int]] /\ c \in [Users -> [Sites -> Int]]
  BY DEF Books
<1>4. b = [h \in Users |-> b[h]] /\ c = [h \in Users |-> c[h]]
  BY <1>3
<1> QED
  BY <1>2, <1>4, Zenon

(* The difference that reconcile_loyalty_vault_entry posts for a receipt is *)
(* a reversal of the old posting followed by the new one.                   *)
LEMMA DifferenceIsMove ==
  ASSUME NEW book \in Books, NEW old \in Postings, NEW new \in Postings
  PROVE  Credit(Debit(book, DebitOf(old, new)), CreditOf(old, new)) = Credit(Debit(book, old), new)
<1> DEFINE d == DebitOf(old, new)
           c == CreditOf(old, new)
<1>1. old \in Moves /\ new \in Moves /\ d \in Moves /\ c \in Moves
  BY DifferenceTypes, MoneyTypes
<1>2. /\ Debit(book, d) \in Books /\ Credit(Debit(book, d), c) \in Books
      /\ Debit(book, old) \in Books /\ Credit(Debit(book, old), new) \in Books
  BY <1>1, BookEntries
<1>3. old.amount \in Nat /\ new.amount \in Nat
  BY <1>1 DEF Moves
<1>4. ASSUME NEW h \in Users, NEW s \in Sites
      PROVE  AmountAt(c, h, s) - AmountAt(d, h, s) = AmountAt(new, h, s) - AmountAt(old, h, s)
  <2>1. CASE SamePlace(old, new)
    <3>1. /\ d.holder = new.holder /\ d.site = new.site /\ d.amount = Excess(old.amount, new.amount)
          /\ c.holder = new.holder /\ c.site = new.site /\ c.amount = Excess(new.amount, old.amount)
      BY <2>1 DEF DebitOf, CreditOf, Postings
    <3>2. old.holder = new.holder /\ old.site = new.site
      BY <2>1 DEF SamePlace
    <3> HIDE DEF d, c
    <3> QED
      BY <1>3, <3>1, <3>2 DEF AmountAt, Excess
  <2>2. CASE ~SamePlace(old, new)
    BY <2>2 DEF DebitOf, CreditOf
  <2> QED
    BY <2>1, <2>2
<1> HIDE DEF d, c
<1>5. ASSUME NEW h \in Users, NEW s \in Sites
      PROVE  Credit(Debit(book, d), c)[h][s] = Credit(Debit(book, old), new)[h][s]
  <2>1. /\ Credit(Debit(book, d), c)[h][s] = Debit(book, d)[h][s] + AmountAt(c, h, s)
        /\ Credit(Debit(book, old), new)[h][s] = Debit(book, old)[h][s] + AmountAt(new, h, s)
    BY <1>1, <1>2, BookEntries
  <2>2. /\ Debit(book, d)[h][s] = book[h][s] - AmountAt(d, h, s)
        /\ Debit(book, old)[h][s] = book[h][s] - AmountAt(old, h, s)
    BY <1>1, BookEntries
  <2>3. /\ AmountAt(d, h, s) \in Int /\ AmountAt(c, h, s) \in Int
        /\ AmountAt(old, h, s) \in Int /\ AmountAt(new, h, s) \in Int
    BY <1>1 DEF AmountAt, Moves
  <2>4. book[h][s] \in Int
    BY DEF Books
  <2> QED
    BY <1>4, <2>1, <2>2, <2>3, <2>4
<1> QED
  BY <1>2, <1>5, SameBook DEF d, c

(* So the entries of a receipt that were in place are in place again.       *)
LEMMA PlacedAgain ==
  ASSUME NEW old \in Postings, NEW new \in Postings
  PROVE  Credit(Debit(Placed(old), DebitOf(old, new)), CreditOf(old, new)) = Placed(new)
<1>1. Nothing \in Books /\ \A h \in Users, s \in Sites : Nothing[h][s] = 0
  BY DEF Nothing, Books
<1>2. old \in Moves
  BY MoneyTypes
<1>3. Placed(old) \in Books /\ Debit(Placed(old), old) \in Books
  BY <1>1, <1>2, BookEntries DEF Placed
<1>4. Debit(Placed(old), old) = Nothing
  <2> SUFFICES ASSUME NEW h \in Users, NEW s \in Sites
               PROVE  Debit(Placed(old), old)[h][s] = Nothing[h][s]
    BY <1>1, <1>3, SameBook
  <2>1. Placed(old)[h][s] = Nothing[h][s] + AmountAt(old, h, s)
    BY <1>1, <1>2, BookEntries DEF Placed
  <2>2. Debit(Placed(old), old)[h][s] = Placed(old)[h][s] - AmountAt(old, h, s)
    BY <1>2, <1>3, BookEntries
  <2>3. AmountAt(old, h, s) \in Int
    BY <1>2 DEF AmountAt, Moves
  <2> QED
    BY <1>1, <2>1, <2>2, <2>3
<1> QED
  BY <1>3, <1>4, DifferenceIsMove DEF Placed

(* A commit ends its own transaction, so only the others' knowledge and the *)
(* rows themselves remain to be looked at.                                  *)
LEMMA CommitKeeps ==
  ASSUME IInv, TypeOK', NEW w \in Workers, End(w),
         SourcesMirror', LedgerMirror', NeverOverdrawn', TransfersPostOnce',
         \A v \in Workers \ {w} :
           job'[v] = job[v] /\ need'[v] = need[v] /\ held'[v] = held[v] => WorkerInv(v)'
  PROVE  IInv'
<1>1. OthersKept(w) /\ held'[w] = {} /\ job'[w] = Idle
  BY DEF End, OthersKept, IInv, TypeOK
<1>2. Exclusive'
  BY <1>1, ExclusiveKept DEF IInv, FairlyHeld
<1>3. \A v \in Workers : WorkerInv(v)'
  BY <1>1, IdleKnowsNothing DEF OthersKept
<1> QED
  BY <1>2, <1>3 DEF IInv

(* Committing one half of a receipt puts its entries where the receipt now  *)
(* is; whoever else changes that receipt has yet to read it.                *)
LEMMA CommitReceiptKeeps ==
  ASSUME IInv, TypeOK', NEW w \in Workers, CommitReceipt(w)
  PROVE  IInv'
<1> DEFINE j == job[w]
           r == j.arg.receipt
<1>1. /\ j.op \in ReceiptOps /\ j.stage = "commit" /\ need[w] = {}
      /\ holderOf' = IF j.op = "source" THEN [holderOf EXCEPT ![r] = j.arg.change] ELSE holderOf
      /\ entries' = IF j.op = "entry" THEN [entries EXCEPT ![r] = j.arg.change] ELSE entries
      /\ sources' = [sources EXCEPT ![r] = j.target]
      /\ Post(r, j.debit, j.credit)
      /\ End(w)
      /\ UNCHANGED <<transfers, float>>
  BY DEF CommitReceipt, At
<1>2. j \in SourceJobs \cup EntryJobs
  BY <1>1, JobKinds DEF IInv, TypeOK
<1>3. r \in Receipts /\ j.target \in Postings /\ j.debit \in Moves /\ j.credit \in Moves
  BY <1>2 DEF SourceJobs, EntryJobs, Working
<1>4. /\ EntryLock(r) \in held[w] /\ j.target = NewPosting(j)
      /\ j.debit = DebitOf(sources[r], j.target) /\ j.credit = CreditOf(sources[r], j.target)
      /\ Funded(j.debit)
  BY <1>1 DEF IInv, WorkerInv, ReceiptInv, Covered
<1>5. r \in Receipts \cup Transfers
  BY <1>3
<1>6. holderOf \in [Receipts -> Users \cup {Nobody}] /\ DOMAIN entries = Receipts /\ DOMAIN sources = Receipts
      /\ DOMAIN ledger = Receipts \cup Transfers
  BY DEF IInv, TypeOK
<1>7. j.target = Posting(holderOf'[r], entries'[r])
  BY <1>1, <1>3, <1>4, <1>6 DEF NewPosting
<1> HIDE DEF j, r
<1>8. SourcesMirror'
  <2> SUFFICES ASSUME NEW t \in Receipts
               PROVE  sources'[t] = Posting(holderOf'[t], entries'[t])
    BY DEF SourcesMirror
  <2>1. CASE t = r
    BY <1>1, <1>6, <1>7, <2>1
  <2>2. CASE t # r
    <3>1. sources'[t] = sources[t] /\ holderOf'[t] = holderOf[t] /\ entries'[t] = entries[t]
      BY <1>1, <1>6, <2>2
    <3> QED
      BY <3>1 DEF IInv, SourcesMirror
  <2> QED
    BY <2>1, <2>2
<1>9. ledger' = [ledger EXCEPT ![r] = Credit(Debit(ledger[r], j.debit), j.credit)]
  BY <1>1 DEF Post
<1>10. LedgerMirror'
  <2> SUFFICES ASSUME NEW t \in Receipts
               PROVE  ledger'[t] = Placed(sources'[t])
    BY DEF LedgerMirror, Placed
  <2>1. CASE t = r
    <3>1. ledger[r] = Placed(sources[r]) /\ sources[r] \in Postings
      BY <1>3 DEF IInv, LedgerMirror, TypeOK
    <3>2. Credit(Debit(ledger[r], j.debit), j.credit) = Placed(j.target)
      BY <1>3, <1>4, <3>1, PlacedAgain
    <3>3. sources'[r] = j.target /\ ledger'[r] = Credit(Debit(ledger[r], j.debit), j.credit)
      BY <1>1, <1>3, <1>5, <1>6, <1>9
    <3> QED
      BY <2>1, <3>2, <3>3
  <2>2. CASE t # r
    <3>1. sources'[t] = sources[t] /\ ledger'[t] = ledger[t]
      BY <1>1, <1>6, <1>9, <2>2
    <3> QED
      BY <3>1 DEF IInv, LedgerMirror
  <2> QED
    BY <2>1, <2>2
<1>11. NeverOverdrawn'
  BY <1>1, <1>3, <1>4, <1>5, PostSolvent DEF IInv
<1>12. TransfersPostOnce'
  <2>1. \A i \in Transfers : ledger'[i] = ledger[i]
    BY <1>3, <1>6, <1>9, RowsAssumption
  <2> QED
    BY <1>1, <2>1 DEF IInv, TransfersPostOnce, SettledPostings
<1>13. ASSUME NEW v \in Workers \ {w}, job'[v] = job[v], need'[v] = need[v], held'[v] = held[v]
       PROVE  WorkerInv(v)'
  <2>1. WorkerInv(v) /\ v # w
    BY DEF IInv
  <2>2. ReceiptInv(v)'
    <3> SUFFICES ASSUME job[v].op \in ReceiptOps
                 PROVE  ReceiptInv(v)'
      BY <1>13 DEF ReceiptInv
    <3>1. job[v] \in SourceJobs \cup EntryJobs
      BY JobKinds DEF IInv, TypeOK
    <3>2. job[v].arg.receipt \in Receipts
      BY <3>1 DEF SourceJobs, EntryJobs, Working
    <3>3. CASE job[v].stage = "read"
      BY <1>13, <2>1, <3>3 DEF WorkerInv, ReceiptInv, Claim
    <3>4. CASE job[v].stage # "read"
      <4>1. EntryLock(job[v].arg.receipt) \in held[v]
        BY <2>1, <3>4 DEF WorkerInv, ReceiptInv
      <4>2. job[v].arg.receipt # r
        BY <1>4, <2>1, <4>1, NeverShared, LockFacts DEF IInv
      <4>3. /\ sources'[job[v].arg.receipt] = sources[job[v].arg.receipt]
            /\ holderOf'[job[v].arg.receipt] = holderOf[job[v].arg.receipt]
            /\ entries'[job[v].arg.receipt] = entries[job[v].arg.receipt]
        BY <1>1, <1>6, <3>2, <4>2
      <4> QED
        BY <1>13, <2>1, <4>3 DEF WorkerInv, ReceiptInv, NewPosting, Claim
    <3> QED
      BY <3>3, <3>4
  <2>3. RequestInv(v)' /\ ResolveInv(v)'
    BY <1>1, <1>13, <2>1 DEF WorkerInv, RequestInv, ResolveInv, Known, Claim
  <2>4. Covered(v)'
    <3>1. job[w].op # "idle" /\ job[w].stage = "commit" /\ job[w].debit \in Moves /\ job[w].credit \in Moves
          /\ Post(r, job[w].debit, job[w].credit)
      BY <1>1, <1>3 DEF j
    <3> QED
      BY <1>5, <1>13, <2>1, <3>1, PostKeepsCovered
  <2> QED
    BY <2>2, <2>3, <2>4 DEF WorkerInv
<1> QED
  BY <1>1, <1>8, <1>10, <1>11, <1>12, <1>13, CommitKeeps

(* Receipts keep the invariant.                                             *)
LEMMA ReceiptKeeps ==
  ASSUME IInv, TypeOK', NEW w \in Workers, ReceiptNext(w)
  PROVE  IInv'
  BY OpenReceiptKeeps, ReadReceiptKeeps, DecideReceiptKeeps, CommitReceiptKeeps
     DEF ReceiptNext, OpenSource, OpenEntry

-----------------------------------------------------------------------------
(* Requests.                                                                *)

(* A request that goes on to its next statements knows what it must if it   *)
(* owns its key and, once it has looked, saw no row with it.                *)
LEMMA RequestKnows ==
  ASSUME NEW w \in Workers, NEW j, job'[w] = j, j.op = "request", j.debit.amount = 0,
         NEW key, key = KeyLock(j.arg.kind, j.arg.by, j.arg.key),
         j.arg.kind = "imprest" \/ j.stage # "read" => key \in Claim(w)',
         j.stage = "commit" \/ (j.arg.kind = "imprest" /\ j.stage # "read")
           => key \in held'[w] /\ \A i \in Transfers : ~SameRequest(transfers'[i], j.arg)
  PROVE  WorkerInv(w)'
<1>1. ReceiptInv(w)' /\ ResolveInv(w)'
  BY DEF ReceiptInv, ResolveInv
<1>2. RequestInv(w)'
  BY DEF RequestInv, Known
<1>3. Covered(w)'
  BY DEF Covered, Funded
<1> QED
  BY <1>1, <1>2, <1>3 DEF WorkerInv

(* No request loses what it read, or its key, while requests are opened,    *)
(* read and decided.                                                        *)
LEMMA RequestStepsKeep ==
  ASSUME IInv, TypeOK', NEW w \in Workers,
         \/ \E q \in Requests : OpenRequest(w, q)
         \/ ReadRequest(w) \/ DecideRequest(w)
  PROVE  IInv'
<1>1. ASSUME NEW q \in Requests, OpenRequest(w, q)
      PROVE  IInv'
  <2> DEFINE j == [op |-> "request", stage |-> "read", arg |-> q, target |-> NoMove(q.site),
                   debit |-> NoMove(q.site), credit |-> NoMove(q.site)]
  <2>1. Open(w, j, OpeningLocks(q))
    BY <1>1 DEF OpenRequest
  <2>2. job'[w] = j /\ Claim(w)' = OpeningLocks(q) \cup held[w]
    BY <2>1, OpenEffect DEF IInv
  <2>3. q.kind = "imprest" => KeyLock(q.kind, q.by, q.key) \in Claim(w)'
    BY <2>2 DEF OpeningLocks
  <2>4. j.op = "request" /\ j.stage = "read" /\ j.arg = q /\ j.debit.amount = 0
    BY DEF NoMove
  <2> HIDE DEF j
  <2>5. WorkerInv(w)'
    BY <2>2, <2>3, <2>4, RequestKnows
  <2> QED
    BY <2>1, <2>5, OpenKeeps
<1>2. ASSUME NEW stage \in {"decide", "commit"}, NEW locks,
             At(w, "request", "read") \/ At(w, "request", "decide"),
             Proceed(w, [job[w] EXCEPT !.stage = stage], locks),
             KeyLock(job[w].arg.kind, job[w].arg.by, job[w].arg.key) \in locks \cup held[w],
             stage = "commit" \/ job[w].arg.kind = "imprest"
               => /\ KeyLock(job[w].arg.kind, job[w].arg.by, job[w].arg.key) \in held[w]
                  /\ ~Known(job[w].arg)
      PROVE  IInv'
  <2> DEFINE j == [job[w] EXCEPT !.stage = stage]
  <2>1. job[w].op = "request" /\ RequestInv(w)
    BY <1>2 DEF At, IInv, WorkerInv
  <2>2. job[w] \in RequestJobs
    BY <2>1, JobKinds DEF IInv, TypeOK
  <2>3. /\ j.op = "request" /\ j.stage = stage /\ j.arg = job[w].arg /\ j.debit.amount = 0
    BY <2>1, <2>2 DEF RequestInv, RequestJobs, Working
  <2>4. job'[w] = j /\ held'[w] = held[w] /\ Claim(w)' = locks \cup held[w] /\ transfers' = transfers
    BY <1>2, ProceedEffect DEF IInv, books
  <2>5. ~Known(job[w].arg) => \A i \in Transfers : ~SameRequest(transfers'[i], j.arg)
    BY <2>3, <2>4 DEF Known
  <2> HIDE DEF j
  <2>6. WorkerInv(w)'
    BY <1>2, <2>3, <2>4, <2>5, RequestKnows
  <2> QED
    BY <1>2, <2>6, ProceedKeeps
<1>3. ASSUME At(w, "request", "read") \/ At(w, "request", "decide")
      PROVE  /\ Claim(w) = held[w] /\ RequestInv(w) /\ job[w].op = "request"
             /\ job[w].arg \in Requests
  <2>1. job[w].op = "request" /\ need[w] = {}
    BY <1>3 DEF At
  <2>2. job[w] \in RequestJobs
    BY <2>1, JobKinds DEF IInv, TypeOK
  <2> QED
    BY <2>1, <2>2 DEF IInv, WorkerInv, Claim, RequestJobs, Working
<1>4. CASE ReadRequest(w)
  <2> DEFINE q == job[w].arg
  <2>1. At(w, "request", "read")
    BY <1>4 DEF ReadRequest
  <2>2. CASE /\ Proceed(w, [job[w] EXCEPT !.stage = "decide"], ClosingLocks(q))
             /\ ~(q.kind = "imprest" /\ Known(q))
    <3>1. KeyLock(q.kind, q.by, q.key) \in ClosingLocks(q)
      BY DEF ClosingLocks
    <3>2. q.kind = "imprest" => KeyLock(q.kind, q.by, q.key) \in held[w]
      BY <1>3, <2>1 DEF RequestInv
    <3> QED
      BY <1>2, <2>1, <2>2, <3>1, <3>2
  <2> QED
    BY <1>4, <2>2, EndKeeps DEF ReadRequest
<1>5. CASE DecideRequest(w)
  <2> DEFINE q == job[w].arg
  <2>1. At(w, "request", "decide")
    BY <1>5 DEF DecideRequest
  <2>2. CASE /\ Proceed(w, [job[w] EXCEPT !.stage = "commit"], RequestReferences(q))
             /\ ~(q.kind = "handover" /\ Known(q))
    <3>1. KeyLock(q.kind, q.by, q.key) \in held[w]
      BY <1>3, <2>1 DEF RequestInv, At
    <3>2. q.kind = "handover" \/ q.kind = "imprest"
      BY <1>3, <2>1, RowsAssumption DEF Requests
    <3>3. ~Known(q)
      BY <1>3, <2>1, <2>2, <3>2 DEF RequestInv, At
    <3> QED
      BY <1>2, <2>1, <2>2, <3>1, <3>3
  <2> QED
    BY <1>5, <2>2, EndKeeps DEF DecideRequest
<1> QED
  BY <1>1, <1>4, <1>5

(* A pending row has moved nothing.                                         *)
LEMMA PendingPostsNothing ==
  /\ SettledPostings(NoRow) = Nothing
  /\ \A q \in Requests : SettledPostings(Pending(q)) = Nothing /\ Pending(q).status = "pending"
  BY DEF SettledPostings, Pending, NoRow

(* The INSERT of a request hides no row from another request: who looked    *)
(* for the same key holds it, and two transactions cannot.                  *)
LEMMA CommitRequestKeeps ==
  ASSUME IInv, TypeOK', NEW w \in Workers, CommitRequest(w)
  PROVE  IInv'
<1> DEFINE q == job[w].arg
<1>1. PICK i \in Transfers :
        /\ transfers[i] = NoRow
        /\ transfers' = [transfers EXCEPT ![i] = Pending(q)]
  BY DEF CommitRequest
<1>2. /\ job[w].op = "request" /\ job[w].stage = "commit" /\ End(w)
      /\ UNCHANGED <<balance, custody, ledger, holderOf, entries, sources, float, assigned>>
  BY DEF CommitRequest, At
<1>3. KeyLock(q.kind, q.by, q.key) \in held[w]
  BY <1>2 DEF IInv, WorkerInv, RequestInv
<1>4. q \in Requests
  <2>1. job[w] \in RequestJobs
    BY <1>2, JobKinds DEF IInv, TypeOK
  <2> QED
    BY <2>1 DEF RequestJobs, Working
<1>5. \A k \in Transfers : transfers'[k] = IF k = i THEN Pending(q) ELSE transfers[k]
  BY <1>1 DEF IInv, TypeOK
<1> HIDE DEF q
<1>6. SourcesMirror' /\ LedgerMirror' /\ NeverOverdrawn'
  BY <1>2 DEF IInv, SourcesMirror, LedgerMirror, NeverOverdrawn
<1>7. TransfersPostOnce'
  <2> SUFFICES ASSUME NEW k \in Transfers
               PROVE  LET row == transfers'[k]
                          floated == row # NoRow /\ row.kind = "imprest" /\ row.status = "accepted"
                      IN /\ ledger'[k] = SettledPostings(row)
                         /\ float'[k] = IF floated THEN row.amount ELSE 0
    BY DEF TransfersPostOnce, SettledPostings
  <2>1. CASE k # i
    BY <1>2, <1>5, <2>1 DEF IInv, TransfersPostOnce
  <2>2. CASE k = i
    <3>1. ledger[k] = Nothing /\ float[k] = 0
      BY <1>1, <2>2, PendingPostsNothing DEF IInv, TransfersPostOnce
    <3>2. transfers'[k] = Pending(q)
      BY <1>5, <2>2
    <3> QED
      BY <1>2, <1>4, <3>1, <3>2, PendingPostsNothing
  <2> QED
    BY <2>1, <2>2
<1>8. ASSUME NEW v \in Workers \ {w}, job'[v] = job[v], need'[v] = need[v], held'[v] = held[v]
      PROVE  WorkerInv(v)'
  <2>1. WorkerInv(v) /\ v # w
    BY DEF IInv
  <2>2. ReceiptInv(v)' /\ Covered(v)'
    BY <1>2, <1>8, <2>1 DEF WorkerInv, ReceiptInv, NewPosting, Covered, Funded, Claim
  <2>3. RequestInv(v)'
    <3> DEFINE p == job[v].arg
    <3>1. ASSUME KeyLock(p.kind, p.by, p.key) \in held[v], ~Known(p)
          PROVE  \A k \in Transfers : ~SameRequest(transfers'[k], p)
      <4>1. KeyLock(p.kind, p.by, p.key) # KeyLock(q.kind, q.by, q.key)
        BY <1>3, <2>1, <3>1, NeverShared, LockFacts DEF IInv
      <4>2. ~SameRequest(Pending(q), p)
        BY <4>1 DEF SameRequest, Pending
      <4>3. \A k \in Transfers : ~SameRequest(transfers[k], p)
        BY <3>1 DEF Known
      <4> HIDE DEF p
      <4> QED
        BY <1>5, <4>2, <4>3
    <3>2. job'[v].arg = p
      BY <1>8
    <3>3. RequestInv(v)
      BY <2>1 DEF WorkerInv
    <3> QED
      BY <1>8, <3>1, <3>2, <3>3 DEF RequestInv, Known, Claim
  <2>4. ResolveInv(v)'
    <3> SUFFICES ASSUME job[v].op = "resolve"
                 PROVE  ResolveInv(v)'
      BY <1>8 DEF ResolveInv
    <3>1. job[v].arg.id \in Transfers
      BY JobKinds DEF IInv, TypeOK, ResolveJobs, Working
    <3>2. transfers'[job[v].arg.id] = transfers[job[v].arg.id]
      BY <1>1, <1>5, <2>1, <3>1 DEF WorkerInv, ResolveInv
    <3> QED
      BY <1>8, <2>1, <3>2 DEF WorkerInv, ResolveInv, Claim
  <2> QED
    BY <2>2, <2>3, <2>4 DEF WorkerInv
<1> QED
  BY <1>2, <1>6, <1>7, <1>8, CommitKeeps

-----------------------------------------------------------------------------
(* Resolutions.                                                             *)

(* Resolving a pending row keeps the request it was made for, takes back no *)
(* acceptance, and accepts the row exactly when the resolution settles it.  *)
LEMMA ResolvedRow ==
  ASSUME NEW row \in Rows, row.status = "pending", NEW action \in Resolutions, NEW u \in Users
  PROVE  LET next == Resolved(row, action, u)
         IN /\ next \in Rows
            /\ next.kind = row.kind /\ next.from = row.from /\ next.to = row.to
            /\ next.by = row.by /\ next.site = row.site /\ next.amount = row.amount
            /\ next.key = row.key
            /\ (row.okFrom => next.okFrom) /\ (row.okTo => next.okTo)
            /\ next.status = "accepted" <=> Settles(row, action, u)
<1> DEFINE Like(next) ==
             /\ next \in Rows
             /\ next.kind = row.kind /\ next.from = row.from /\ next.to = row.to
             /\ next.by = row.by /\ next.site = row.site /\ next.amount = row.amount
             /\ next.key = row.key
             /\ (row.okFrom => next.okFrom) /\ (row.okTo => next.okTo)
<1>1. Like(Consented(row, u)) /\ Consented(row, u).status = "pending"
  BY DEF Rows, Consented
<1>2. ASSUME NEW r, Like(r), NEW st \in {"accepted", "rejected", "cancelled"}
      PROVE  Like([r EXCEPT !.status = st]) /\ [r EXCEPT !.status = st].status = st
  BY <1>2 DEF Rows
<1>3. Like(row)
  OBVIOUS
<1> HIDE DEF Like
<1>4. CASE action \in {"reject", "cancel"}
  <2>1. /\ ~Settles(row, action, u)
        /\ \E st \in {"rejected", "cancelled"} : Resolved(row, action, u) = [row EXCEPT !.status = st]
    BY <1>4 DEF Settles, Resolved
  <2>2. Like(Resolved(row, action, u)) /\ Resolved(row, action, u).status # "accepted"
    BY <1>2, <1>3, <2>1
  <2> QED
    BY <2>1, <2>2 DEF Like
<1>5. CASE action = "accept" /\ Settles(row, action, u)
  <2>1. Resolved(row, action, u) = [Consented(row, u) EXCEPT !.status = "accepted"]
    BY <1>5 DEF Resolved
  <2>2. Like(Resolved(row, action, u)) /\ Resolved(row, action, u).status = "accepted"
    BY <1>1, <1>2, <2>1
  <2> QED
    BY <1>5, <2>2 DEF Like
<1>6. CASE action = "accept" /\ ~Settles(row, action, u)
  <2>1. Resolved(row, action, u) = Consented(row, u)
    BY <1>6 DEF Resolved
  <2> QED
    BY <1>1, <1>6, <2>1 DEF Like
<1> QED
  BY <1>4, <1>5, <1>6 DEF Resolutions

(* The row a transaction resolves is there.                                 *)
LEMMA ResolvedIsThere ==
  ASSUME IInv, NEW w \in Workers, job[w].op = "resolve"
  PROVE  /\ job[w] \in ResolveJobs
         /\ job[w].arg.id \in Transfers /\ job[w].arg.action \in Resolutions
         /\ job[w].arg.actor \in Users
         /\ job[w].debit \in Moves /\ job[w].credit \in Moves
         /\ transfers[job[w].arg.id] \in Rows
         /\ ResolveInv(w)
<1>1. job[w] \in ResolveJobs /\ ResolveInv(w)
  BY JobKinds DEF IInv, TypeOK, WorkerInv
<1>2. /\ job[w].arg.id \in Transfers /\ job[w].arg.action \in Resolutions
      /\ job[w].arg.actor \in Users
      /\ job[w].debit \in Moves /\ job[w].credit \in Moves
  BY <1>1 DEF ResolveJobs, Working
<1>3. transfers[job[w].arg.id] \in Rows
  BY <1>1, <1>2 DEF IInv, TypeOK, ResolveInv
<1> QED
  BY <1>1, <1>2, <1>3

(* A resolution that goes on knows what it must about its row.              *)
LEMMA ResolveKnows ==
  ASSUME NEW w \in Workers, NEW j, job'[w] = j, j.op = "resolve",
         NEW row, transfers'[j.arg.id] = row, row # NoRow,
         SiteLock(row.site) \in Claim(w)',
         j.stage # "commit" => j.debit = NoMove(row.site) /\ j.credit = NoMove(row.site),
         j.stage # "read" =>
           /\ SiteLock(row.site) \in held'[w]
           /\ row.status = "pending" /\ MayResolve(row, j.arg.action, j.arg.actor)
           /\ j.arg.action = "accept" => AccountLock(row.from) \in Claim(w)',
         j.stage = "commit" =>
           /\ j.debit = IF Settles(row, j.arg.action, j.arg.actor) THEN Payment(row) ELSE NoMove(row.site)
           /\ j.credit = IF Settles(row, j.arg.action, j.arg.actor) THEN Receipt(row) ELSE NoMove(row.site)
           /\ j.debit.amount = 0 \/ (balance'[j.debit.holder] >= j.debit.amount
                                     /\ custody'[j.debit.holder][j.debit.site] >= j.debit.amount)
           /\ j.debit.amount # 0 => AccountLock(j.debit.holder) \in held'[w]
  PROVE  WorkerInv(w)'
<1>1. ReceiptInv(w)' /\ RequestInv(w)'
  BY DEF ReceiptInv, RequestInv
<1>2. ResolveInv(w)'
  BY DEF ResolveInv
<1>3. Covered(w)'
  BY DEF Covered, Funded
<1> QED
  BY <1>1, <1>2, <1>3 DEF WorkerInv

(* From its read on, a resolution holds the site's lock and its row stays   *)
(* pending; once decided, what it will take is there and locked.            *)
LEMMA ResolveStepsKeep ==
  ASSUME IInv, TypeOK', NEW w \in Workers,
         \/ \E i \in Transfers, action \in Resolutions, u \in Users : OpenResolve(w, i, action, u)
         \/ ReadRow(w) \/ DecideResolve(w)
  PROVE  IInv'
<1>1. ASSUME NEW i \in Transfers, NEW action \in Resolutions, NEW u \in Users,
             OpenResolve(w, i, action, u)
      PROVE  IInv'
  <2> DEFINE site == transfers[i].site
             j == [op |-> "resolve", stage |-> "read",
                   arg |-> [id |-> i, action |-> action, actor |-> u],
                   target |-> NoMove(site), debit |-> NoMove(site), credit |-> NoMove(site)]
  <2>1. Open(w, j, {SiteLock(site)}) /\ transfers[i] # NoRow
    BY <1>1 DEF OpenResolve
  <2>2. job'[w] = j /\ Claim(w)' = {SiteLock(site)} \cup held[w] /\ transfers' = transfers
    BY <2>1, OpenEffect DEF IInv, books
  <2>3. /\ j.op = "resolve" /\ j.stage = "read" /\ j.arg.id = i
        /\ j.debit = NoMove(site) /\ j.credit = NoMove(site)
    OBVIOUS
  <2>4. transfers'[j.arg.id] = transfers[i] /\ SiteLock(site) \in Claim(w)'
    BY <2>2
  <2> HIDE DEF j
  <2>5. WorkerInv(w)'
    BY <2>1, <2>2, <2>3, <2>4, ResolveKnows
  <2> QED
    BY <2>1, <2>5, OpenKeeps
<1> DEFINE row == transfers[job[w].arg.id]
           action == job[w].arg.action
           actor == job[w].arg.actor
<1>2. CASE ReadRow(w)
  <2> DEFINE j == [job[w] EXCEPT !.stage = "decide"]
             locks == ResolveLocks(row, action)
  <2>1. job[w].op = "resolve" /\ job[w].stage = "read" /\ need[w] = {}
    BY <1>2 DEF ReadRow, At
  <2>2. CASE Proceed(w, j, locks) /\ MayResolve(row, action, actor) /\ row.status = "pending"
    <3>1. /\ job[w] \in ResolveJobs /\ row \in Rows /\ ResolveInv(w)
      BY <2>1, ResolvedIsThere
    <3>2. /\ j.op = "resolve" /\ j.stage = "decide" /\ j.arg = job[w].arg
          /\ j.debit = job[w].debit /\ j.credit = job[w].credit
      BY <2>1, <3>1 DEF ResolveJobs, Working
    <3>3. /\ job'[w] = j /\ held'[w] = held[w] /\ Claim(w)' = locks \cup held[w]
          /\ transfers' = transfers
      BY <2>2, ProceedEffect DEF IInv, books
    <3>4. /\ row # NoRow /\ SiteLock(row.site) \in held[w]
          /\ j.debit = NoMove(row.site) /\ j.credit = NoMove(row.site)
      BY <2>1, <3>1, <3>2 DEF ResolveInv, Claim
    <3>5. action = "accept" => AccountLock(row.from) \in locks
      <4>1. /\ row.from \in Users /\ row.from # Nobody
            /\ row.kind = "handover" \/ row.kind = "imprest"
        BY <3>1, HoldersAssumption, RowsAssumption DEF Rows
      <4> HIDE DEF row, action
      <4> QED
        BY <4>1 DEF ResolveLocks, HolderLocks, AccountLocks
    <3>6. transfers'[j.arg.id] = row
      BY <3>2, <3>3
    <3> HIDE DEF j, locks, row
    <3>7. WorkerInv(w)'
      BY <2>2, <3>2, <3>3, <3>4, <3>5, <3>6, ResolveKnows
    <3> QED
      BY <2>2, <3>7, ProceedKeeps
  <2> QED
    BY <1>2, <2>2, EndKeeps DEF ReadRow
<1>3. CASE DecideResolve(w)
  <2> DEFINE settles == Settles(row, action, actor)
             j == [job[w] EXCEPT !.stage = "commit",
                                 !.debit = IF settles THEN Payment(row) ELSE @,
                                 !.credit = IF settles THEN Receipt(row) ELSE @]
             refs == ResolveReferences(row, action, actor)
  <2>1. job[w].op = "resolve" /\ job[w].stage = "decide" /\ need[w] = {}
    BY <1>3 DEF DecideResolve, At
  <2>2. CASE Proceed(w, j, refs) /\ (settles => Funded(Payment(row)))
    <3>1. job[w] \in ResolveJobs /\ row \in Rows /\ ResolveInv(w)
      BY <2>1, ResolvedIsThere
    <3>2. /\ row # NoRow /\ SiteLock(row.site) \in held[w] /\ row.status = "pending"
          /\ MayResolve(row, action, actor)
          /\ action = "accept" => AccountLock(row.from) \in held[w]
          /\ job[w].debit = NoMove(row.site) /\ job[w].credit = NoMove(row.site)
      BY <2>1, <3>1 DEF ResolveInv, Claim
    <3> HIDE DEF row, settles
    <3>3. /\ j.op = "resolve" /\ j.stage = "commit" /\ j.arg = job[w].arg
          /\ j.debit = IF settles THEN Payment(row) ELSE NoMove(row.site)
          /\ j.credit = IF settles THEN Receipt(row) ELSE NoMove(row.site)
      BY <2>1, <3>1, <3>2 DEF ResolveJobs, Working
    <3> HIDE DEF refs
    <3>4. /\ job'[w] = j /\ held'[w] = held[w] /\ Claim(w)' = refs \cup held[w]
          /\ transfers' = transfers /\ balance' = balance /\ custody' = custody
      BY <2>2, ProceedEffect DEF IInv, books
    <3>5. j.debit.amount # 0 => settles /\ j.debit = Payment(row) /\ j.debit.holder = row.from
      BY <3>3 DEF NoMove, Payment
    <3>6. settles => action = "accept"
      BY DEF settles, Settles
    <3>7. transfers'[j.arg.id] = row
      BY <3>3, <3>4 DEF row
    <3>8. \A l \in held[w] : l \in Claim(w)' /\ l \in held'[w]
      BY <3>4
    <3>9. /\ j.debit.amount # 0 => AccountLock(j.debit.holder) \in held'[w]
          /\ j.debit.amount = 0 \/ (balance'[j.debit.holder] >= j.debit.amount
                                    /\ custody'[j.debit.holder][j.debit.site] >= j.debit.amount)
      BY <2>2, <3>2, <3>4, <3>5, <3>6 DEF Funded
    <3>10. settles = Settles(row, j.arg.action, j.arg.actor)
      BY <3>3 DEF settles
    <3> HIDE DEF j
    <3>11. WorkerInv(w)'
      BY <3>2, <3>3, <3>4, <3>7, <3>8, <3>9, <3>10, ResolveKnows
    <3> QED
      BY <2>2, <3>11, ProceedKeeps
  <2> QED
    BY <1>3, <2>2, EndKeeps DEF DecideResolve
<1> QED
  BY <1>1, <1>2, <1>3

(* Committing a resolution posts its transfer for the first time; whoever   *)
(* else resolves the same row waits for the site and has yet to read it.    *)
LEMMA CommitResolveKeeps ==
  ASSUME IInv, TypeOK', NEW w \in Workers, CommitResolve(w)
  PROVE  IInv'
<1> DEFINE j == job[w]
           i == j.arg.id
           row == transfers[i]
           settles == Settles(row, j.arg.action, j.arg.actor)
           next == Resolved(row, j.arg.action, j.arg.actor)
<1>1. /\ j.op = "resolve" /\ j.stage = "commit" /\ need[w] = {}
      /\ transfers' = [transfers EXCEPT ![i] = next]
      /\ Post(i, j.debit, j.credit)
      /\ float' = IF row.kind = "imprest" /\ settles
                  THEN [float EXCEPT ![i] = @ + row.amount] ELSE float
      /\ End(w)
      /\ UNCHANGED <<holderOf, entries, sources>>
  BY DEF CommitResolve, At
<1>2. /\ i \in Transfers /\ j.arg.action \in Resolutions /\ j.arg.actor \in Users
      /\ j.debit \in Moves /\ j.credit \in Moves /\ row \in Rows /\ ResolveInv(w)
  BY <1>1, ResolvedIsThere
<1>3. /\ row # NoRow /\ SiteLock(row.site) \in held[w] /\ row.status = "pending"
      /\ j.debit = IF settles THEN Payment(row) ELSE NoMove(row.site)
      /\ j.credit = IF settles THEN Receipt(row) ELSE NoMove(row.site)
  BY <1>1, <1>2 DEF ResolveInv
<1>4. /\ next.kind = row.kind /\ next.from = row.from /\ next.to = row.to
      /\ next.by = row.by /\ next.site = row.site /\ next.amount = row.amount
      /\ next.key = row.key /\ next \in Rows
      /\ next.status = "accepted" <=> settles
  BY <1>2, <1>3, ResolvedRow
<1>5. /\ DOMAIN transfers = Transfers /\ DOMAIN float = Transfers
      /\ DOMAIN ledger = Receipts \cup Transfers
      /\ Funded(j.debit)
  BY <1>1 DEF IInv, TypeOK, WorkerInv, Covered
<1> HIDE DEF next, settles, row, i, j
<1>6. ledger' = [ledger EXCEPT ![i] = Credit(Debit(ledger[i], j.debit), j.credit)]
  BY <1>1 DEF Post
<1>7. \A k \in Transfers : k # i => transfers'[k] = transfers[k] /\ float'[k] = float[k] /\ ledger'[k] = ledger[k]
  BY <1>1, <1>5, <1>6
<1>8. transfers'[i] = next /\ ledger'[i] = Credit(Debit(ledger[i], j.debit), j.credit)
  BY <1>1, <1>2, <1>5, <1>6
<1>9. next # NoRow
  BY <1>4, RowTypes
<1>10. SourcesMirror' /\ LedgerMirror'
  <2>1. \A r \in Receipts : ledger'[r] = ledger[r]
    BY <1>2, <1>5, <1>6, RowsAssumption
  <2> QED
    BY <1>1, <2>1 DEF IInv, SourcesMirror, LedgerMirror, Placed
<1>11. NeverOverdrawn'
  <2>1. i \in Receipts \cup Transfers
    BY <1>2
  <2> QED
    BY <1>1, <1>2, <1>5, <2>1, PostSolvent DEF IInv
<1>12. TransfersPostOnce'
  <2> SUFFICES ASSUME NEW k \in Transfers
               PROVE  LET r == transfers'[k]
                          floated == r # NoRow /\ r.kind = "imprest" /\ r.status = "accepted"
                      IN /\ ledger'[k] = SettledPostings(r)
                         /\ float'[k] = IF floated THEN r.amount ELSE 0
    BY DEF TransfersPostOnce, SettledPostings
  <2>1. CASE k # i
    BY <1>7, <2>1 DEF IInv, TransfersPostOnce
  <2>2. CASE k = i
    <3>1. ledger[i] = SettledPostings(row) /\ float[i] = 0
      BY <1>2, <1>3 DEF IInv, TransfersPostOnce, row
    <3>2. ledger[i] = Nothing
      BY <1>3, <3>1 DEF SettledPostings
    <3>3. ledger'[i] = SettledPostings(next)
      <4>1. CASE settles
        <5>1. Payment(next) = Payment(row) /\ Receipt(next) = Receipt(row)
          BY <1>4 DEF Payment, Receipt
        <5>2. SettledPostings(next) = Credit(Debit(Nothing, Payment(next)), Receipt(next))
          BY <1>4, <1>9, <4>1 DEF SettledPostings
        <5> QED
          BY <1>3, <1>8, <3>2, <4>1, <5>1, <5>2
      <4>2. CASE ~settles
        <5>1. SettledPostings(next) = Nothing
          BY <1>4, <4>2 DEF SettledPostings
        <5>2. j.debit = NoMove(row.site) /\ j.credit = NoMove(row.site)
          BY <1>3, <4>2
        <5>3. Credit(Debit(Nothing, j.debit), j.credit) = Nothing
          BY <5>2 DEF NoMove, Debit, Credit
        <5> QED
          BY <1>8, <3>2, <5>1, <5>3
      <4> QED
        BY <4>1, <4>2
    <3>4. float'[i] = IF next.kind = "imprest" /\ next.status = "accepted" THEN next.amount ELSE 0
      <4>1. row.amount \in Nat
        BY <1>2, MoneyAssumption DEF Rows
      <4> QED
        BY <1>1, <1>2, <1>4, <1>5, <3>1, <4>1
    <3> QED
      BY <1>8, <1>9, <2>2, <3>3, <3>4
  <2> QED
    BY <2>1, <2>2
<1>13. ASSUME NEW v \in Workers \ {w}, job'[v] = job[v], need'[v] = need[v], held'[v] = held[v]
       PROVE  WorkerInv(v)'
  <2>1. WorkerInv(v) /\ v # w
    BY DEF IInv
  <2>2. ReceiptInv(v)'
    BY <1>1, <1>13, <2>1 DEF WorkerInv, ReceiptInv, NewPosting, Claim
  <2>3. RequestInv(v)'
    <3> DEFINE p == job[v].arg
    <3>1. ASSUME ~Known(p)
          PROVE  \A k \in Transfers : ~SameRequest(transfers'[k], p)
      <4>1. \A k \in Transfers : ~SameRequest(transfers[k], p)
        BY <3>1 DEF Known
      <4>2. ~SameRequest(row, p)
        BY <1>2, <4>1 DEF row
      <4> HIDE DEF p
      <4>3. ~SameRequest(next, p)
        BY <1>3, <1>4, <4>2 DEF SameRequest
      <4> QED
        BY <1>7, <1>8, <4>1, <4>3
    <3>2. job'[v].arg = p
      BY <1>13
    <3>3. RequestInv(v)
      BY <2>1 DEF WorkerInv
    <3> QED
      BY <1>13, <3>1, <3>2, <3>3 DEF RequestInv, Known, Claim
  <2>4. ResolveInv(v)'
    <3> SUFFICES ASSUME job[v].op = "resolve"
                 PROVE  ResolveInv(v)'
      BY <1>13 DEF ResolveInv
    <3>1. job[v].arg.id \in Transfers /\ ResolveInv(v)
      BY ResolvedIsThere
    <3>2. CASE job[v].arg.id # i
      <4>1. transfers'[job[v].arg.id] = transfers[job[v].arg.id]
        BY <1>7, <3>1, <3>2
      <4> QED
        BY <1>13, <3>1, <4>1 DEF ResolveInv, Claim
    <3>3. CASE job[v].arg.id = i
      <4>1. job[v].stage = "read"
        <5>1. job[v].stage # "read" => SiteLock(row.site) \in held[v]
          BY <3>1, <3>3 DEF ResolveInv, row
        <5> QED
          BY <1>3, <2>1, <5>1, NeverShared, LockFacts DEF IInv
      <4>2. /\ SiteLock(row.site) \in Claim(v)
            /\ job[v].debit = NoMove(row.site) /\ job[v].credit = NoMove(row.site)
        BY <3>1, <3>3, <4>1 DEF ResolveInv, row
      <4> QED
        BY <1>4, <1>8, <1>9, <1>13, <3>3, <4>1, <4>2 DEF ResolveInv, Claim
    <3> QED
      BY <3>2, <3>3
  <2>5. Covered(v)'
    <3>1. /\ job[w].op # "idle" /\ job[w].stage = "commit" /\ job[w].debit \in Moves /\ job[w].credit \in Moves
          /\ Post(i, job[w].debit, job[w].credit)
      BY <1>1, <1>2 DEF j
    <3>2. i \in Receipts \cup Transfers
      BY <1>2
    <3> QED
      BY <1>13, <2>1, <3>1, <3>2, PostKeepsCovered
  <2> QED
    BY <2>2, <2>3, <2>4, <2>5 DEF WorkerInv
<1> QED
  BY <1>1, <1>10, <1>11, <1>12, <1>13, CommitKeeps

-----------------------------------------------------------------------------
(* The invariant and what it gives.                                         *)

(* Before the first request nothing is posted, locked or open.              *)
LEMMA InitIInv == Init => IInv
<1> SUFFICES ASSUME Init
             PROVE  IInv
  OBVIOUS
<1>1. \A w \in Workers : job[w] = Idle /\ job[w].op = "idle" /\ held[w] = {} /\ need[w] = {}
  BY DEF Init, Idle
<1>2. Nothing \in Books /\ \A h \in Users, s \in Sites : Nothing[h][s] = 0
  BY DEF Nothing, Books
<1>3. entries \in [Receipts -> [amount : Sums, site : Sites]]
  BY DEF Init, Sums
<1>4. \A r \in Receipts : entries[r].amount = 0 /\ entries[r].site \in Sites
  BY DEF Init
<1>5. sources \in [Receipts -> Postings]
  BY <1>4, MoneyTypes DEF Init
<1>6. TypeOK
  BY <1>2, <1>3, <1>5, JobKinds, HoldersAssumption DEF Init, TypeOK
<1>7. SourcesMirror
  BY <1>4 DEF Init, SourcesMirror, Posting, NoMove
<1>8. LedgerMirror
  BY DEF Init, LedgerMirror, Placed, Credit, NoMove
<1>9. NeverOverdrawn
  <2>1. \A h \in Users : balance[h] = 0
    BY DEF Init
  <2>2. \A h \in Users, s \in Sites : custody[h][s] = 0
    BY <1>2 DEF Init
  <2>3. 0 >= 0
    OBVIOUS
  <2> QED
    BY <2>1, <2>2, <2>3, Zenon DEF NeverOverdrawn
<1>10. TransfersPostOnce
  BY DEF Init, TransfersPostOnce, SettledPostings
<1>11. Exclusive /\ \A w \in Workers : WorkerInv(w)
  BY <1>1 DEF Exclusive, WorkerInv, ReceiptInv, RequestInv, ResolveInv, Covered
<1> QED
  BY <1>6, <1>7, <1>8, <1>9, <1>10, <1>11 DEF IInv

(* Every transaction's step, every change of an assignment and every pause  *)
(* keeps the invariant.                                                     *)
LEMMA StepIInv == IInv /\ [Next]_vars => IInv'
<1> SUFFICES ASSUME IInv, [Next]_vars
             PROVE  IInv'
  OBVIOUS
<1>1. TypeOK /\ RowsExist
  BY DEF IInv, RowsExist, WorkerInv, ResolveInv
<1>2. ASSUME NEW w \in Workers, TakeLock(w)
      PROVE  IInv'
  <2>1. TypeOK'
    <3>1. PICK l \in need[w] :
            /\ held' = [held EXCEPT ![w] = @ \cup {l}]
            /\ need' = [need EXCEPT ![w] = @ \ {l}]
            /\ UNCHANGED <<books, assigned, job, granted>>
      BY <1>2 DEF TakeLock, NextLocks
    <3>2. held' \in [Workers -> SUBSET LockNames] /\ need' \in [Workers -> SUBSET LockNames]
      BY <1>1, <3>1 DEF TypeOK
    <3> QED
      BY <1>1, <3>1, <3>2 DEF TypeOK, books
  <2> QED
    BY <1>2, <2>1, TakeLockKeeps
<1>9. ASSUME NEW w \in Workers, ShareAssignments(w)
      PROVE  IInv'
  <2>1. held' \in [Workers -> SUBSET LockNames] /\ need' \in [Workers -> SUBSET LockNames]
    BY <1>1, <1>9 DEF TypeOK, ShareAssignments
  <2>2. TypeOK'
    BY <1>1, <1>9, <2>1 DEF TypeOK, ShareAssignments, books
  <2> QED
    BY <1>9, <2>2, ShareKeeps
<1>3. ASSUME NEW w \in Workers, Abort(w)
      PROVE  IInv'
  BY <1>1, <1>3, AnswerTypes, EndKeeps DEF Abort
<1>4. ASSUME NEW w \in Workers, ReceiptNext(w)
      PROVE  IInv'
  BY <1>1, <1>4, ReceiptTypes, ReceiptKeeps
<1>5. ASSUME NEW w \in Workers, TransferNext(w)
      PROVE  IInv'
  <2>1. TypeOK'
    BY <1>1, <1>5, TransferTypes
  <2> QED
    BY <1>5, <2>1, RequestStepsKeep, CommitRequestKeeps, ResolveStepsKeep, CommitResolveKeeps
       DEF TransferNext
<1>6. ASSUME UNCHANGED <<books, job, need, held>>, assigned' \subseteq Users \X Sites,
             granted' \in [Workers -> SUBSET (Users \X Sites)]
      PROVE  IInv'
  <2>1. TypeOK'
    BY <1>1, <1>6 DEF TypeOK, books
  <2>2. \A w \in Workers : WorkerInv(w)'
    BY <1>6, StillKnown DEF IInv, Claim
  <2>3. Exclusive' /\ SourcesMirror' /\ LedgerMirror' /\ NeverOverdrawn' /\ TransfersPostOnce'
    BY <1>6 DEF IInv, Exclusive, SourcesMirror, LedgerMirror, NeverOverdrawn, TransfersPostOnce, books
  <2> QED
    BY <2>1, <2>2, <2>3 DEF IInv
<1>7. ASSUME NEW u \in Users, NEW s \in Sites, Assign(u, s) \/ Unassign(u, s)
      PROVE  IInv'
  <2>1. granted' \in [Workers -> SUBSET (Users \X Sites)]
    BY <1>1, <1>7 DEF Assign, Unassign, TypeOK
  <2>2. assigned' \subseteq Users \X Sites /\ UNCHANGED <<books, job, need, held>>
    BY <1>1, <1>7 DEF Assign, Unassign, TypeOK
  <2> QED
    BY <1>6, <2>1, <2>2
<1>8. CASE UNCHANGED vars
  BY <1>1, <1>6, <1>8 DEF vars, TypeOK
<1> QED
  BY <1>2, <1>3, <1>4, <1>5, <1>7, <1>8, <1>9 DEF Next

(* However many transactions are open, for any holders, sites, receipts and *)
(* transfers: every value stays of its type, no two transactions own a lock *)
(* that is not shared, and each of them still knows what it read under its  *)
(* locks.                                                                   *)
THEOREM InductiveInvariant == Spec => []IInv
<1>1. Init => IInv
  BY InitIInv
<1>2. IInv /\ [Next]_vars => IInv'
  BY StepIInv
<1> QED
  BY <1>1, <1>2, PTL DEF Spec

(* The type invariant of the custody transactions.                          *)
THEOREM TypeCorrect == Spec => []TypeOK
<1>1. IInv => TypeOK
  BY DEF IInv
<1> QED
  BY <1>1, InductiveInvariant, PTL

(* No posting of any receipt correction, handover or imprest acceptance     *)
(* overdraws a holder, at any site, in any interleaving.                    *)
THEOREM Solvency == Spec => []NeverOverdrawn
<1>1. IInv => NeverOverdrawn
  BY DEF IInv
<1> QED
  BY <1>1, InductiveInvariant, PTL

(* Every transfer posts once if it was accepted and never otherwise.        *)
THEOREM PostedOnce == Spec => []TransfersPostOnce
<1>1. IInv => TransfersPostOnce
  BY DEF IInv
<1> QED
  BY <1>1, InductiveInvariant, PTL

(* What reconcile_loyalty_vault_entry has posted for a receipt is what the  *)
(* two halves of the receipt say, whoever edited them and in which order.   *)
THEOREM ReceiptsReconciled == Spec => []ReceiptInPlace
<1>1. IInv => ReceiptInPlace
  BY DEF IInv, SourcesMirror, LedgerMirror, ReceiptInPlace
<1> QED
  BY <1>1, InductiveInvariant, PTL

(* No request reaches its INSERT while another row has its key.             *)
THEOREM RetriesReplay == Spec => []RetryNeverCollides
<1>1. IInv => RetryNeverCollides
  BY DEF IInv, WorkerInv, RequestInv, RetryNeverCollides
<1> QED
  BY <1>1, InductiveInvariant, PTL

(* A transfer row appears once, leaves "pending" once, and keeps the        *)
(* acceptances it has: two resolutions of one row never both find it        *)
(* pending.                                                                 *)
ResolvedOnce ==
  \A i \in Transfers :
    /\ transfers[i] # NoRow => transfers'[i] # NoRow
    /\ transfers[i] # NoRow /\ transfers[i].status # "pending" => transfers'[i] = transfers[i]
    /\ transfers[i] # NoRow /\ transfers[i].okFrom => transfers'[i].okFrom
    /\ transfers[i] # NoRow /\ transfers[i].okTo => transfers'[i].okTo

(* Only the two commits of the transfer services change a transfer row, and *)
(* the second one finds it pending.                                         *)
LEMMA RowSteps ==
  ASSUME IInv, [Next]_vars
  PROVE  \/ UNCHANGED transfers
         \/ \E w \in Workers : CommitRequest(w)
         \/ \E w \in Workers : CommitResolve(w)
<1>1. ASSUME NEW w \in Workers, TakeLock(w) \/ ShareAssignments(w) \/ Abort(w)
      PROVE  UNCHANGED transfers
  BY <1>1 DEF TakeLock, ShareAssignments, Abort, Answer, books
<1>2. ASSUME NEW w \in Workers, ReceiptNext(w)
      PROVE  UNCHANGED transfers
  BY <1>2 DEF ReceiptNext, OpenSource, OpenEntry, ReadReceipt, DecideReceipt, CommitReceipt,
              Open, Proceed, Answer, books
<1>3. ASSUME NEW w \in Workers, TransferNext(w)
      PROVE  UNCHANGED transfers \/ CommitRequest(w) \/ CommitResolve(w)
  BY <1>3 DEF TransferNext, OpenRequest, ReadRequest, DecideRequest, OpenResolve, ReadRow,
              DecideResolve, Open, Proceed, Answer, books
<1> QED
  BY <1>1, <1>2, <1>3 DEF Next, Assign, Unassign, vars, books

(* What was resolved stays resolved, and no acceptance is taken back.       *)
THEOREM ResolvedForGood == Spec => ResolutionIsFinal
<1>1. ASSUME IInv, [Next]_vars
      PROVE  ResolvedOnce
  <2>1. CASE UNCHANGED transfers
    BY <2>1 DEF ResolvedOnce
  <2>2. ASSUME NEW w \in Workers, CommitRequest(w)
        PROVE  ResolvedOnce
    <3>1. PICK i \in Transfers :
            transfers[i] = NoRow /\ transfers' = [transfers EXCEPT ![i] = Pending(job[w].arg)]
      BY <2>2 DEF CommitRequest
    <3>2. \A k \in Transfers : k # i => transfers'[k] = transfers[k]
      BY <1>1, <3>1 DEF IInv, TypeOK
    <3>3. transfers'[i] = Pending(job[w].arg) /\ Pending(job[w].arg) # NoRow
      BY <1>1, <3>1 DEF IInv, TypeOK, Pending, NoRow
    <3> QED
      BY <3>1, <3>2, <3>3 DEF ResolvedOnce
  <2>3. ASSUME NEW w \in Workers, CommitResolve(w)
        PROVE  ResolvedOnce
    <3> DEFINE j == job[w]
               i == j.arg.id
               next == Resolved(transfers[i], j.arg.action, j.arg.actor)
    <3>1. j.op = "resolve" /\ j.stage = "commit" /\ transfers' = [transfers EXCEPT ![i] = next]
      BY <2>3 DEF CommitResolve, At
    <3>2. /\ i \in Transfers /\ j.arg.action \in Resolutions /\ j.arg.actor \in Users
          /\ transfers[i] \in Rows /\ transfers[i].status = "pending"
      BY <1>1, <3>1, ResolvedIsThere DEF ResolveInv
    <3>3. /\ next \in Rows /\ next # NoRow
          /\ (transfers[i].okFrom => next.okFrom) /\ (transfers[i].okTo => next.okTo)
      BY <3>2, ResolvedRow, RowTypes
    <3> HIDE DEF next, i
    <3>4. /\ \A k \in Transfers : k # i => transfers'[k] = transfers[k]
          /\ transfers'[i] = next
      BY <1>1, <3>1, <3>2 DEF IInv, TypeOK
    <3> QED
      BY <3>2, <3>3, <3>4 DEF ResolvedOnce
  <2> QED
    BY <1>1, <2>1, <2>2, <2>3, RowSteps
<1>2. IInv /\ [Next]_vars => [ResolvedOnce]_vars
  BY <1>1
<1> QED
  BY <1>2, InductiveInvariant, PTL DEF Spec, ResolutionIsFinal, ResolvedOnce

-----------------------------------------------------------------------------
(* What the rows of imprest transfers have been through.                    *)

(* A transfer row is inserted pending, or resolved while it is pending.     *)
Inserted(w, i) ==
  /\ transfers[i] = NoRow /\ transfers'[i] = Pending(job[w].arg)
  /\ job[w].arg \in Requests /\ Announce(job[w].arg, i, "requested")
Settled(w, i) ==
  /\ i = job[w].arg.id /\ job[w].arg.action \in Resolutions /\ job[w].arg.actor \in Users
  /\ transfers[i] \in Rows /\ transfers[i].status = "pending"
  /\ transfers'[i] = Resolved(transfers[i], job[w].arg.action, job[w].arg.actor)
  /\ Announce(transfers[i], i, Event(transfers[i], job[w].arg.action, job[w].arg.actor))

LEMMA RowHistory ==
  ASSUME IInv, [Next]_vars
  PROVE  \/ UNCHANGED <<transfers, outbox>>
         \/ \E w \in Workers, i \in Transfers :
              /\ Inserted(w, i) \/ Settled(w, i)
              /\ \A k \in Transfers : k # i => transfers'[k] = transfers[k]
<1>1. ASSUME NEW w \in Workers, TakeLock(w) \/ ShareAssignments(w) \/ Abort(w)
      PROVE  UNCHANGED <<transfers, outbox>>
  BY <1>1 DEF TakeLock, ShareAssignments, Abort, Answer, books
<1>2. ASSUME NEW w \in Workers, ReceiptNext(w)
      PROVE  UNCHANGED <<transfers, outbox>>
  BY <1>2 DEF ReceiptNext, OpenSource, OpenEntry, ReadReceipt, DecideReceipt, CommitReceipt,
              Open, Proceed, Answer, books
<1>3. ASSUME NEW w \in Workers, TransferNext(w)
      PROVE  UNCHANGED <<transfers, outbox>> \/ CommitRequest(w) \/ CommitResolve(w)
  BY <1>3 DEF TransferNext, OpenRequest, ReadRequest, DecideRequest, OpenResolve, ReadRow,
              DecideResolve, Open, Proceed, Answer, books
<1>4. ASSUME NEW w \in Workers, CommitRequest(w)
      PROVE  \E i \in Transfers : /\ Inserted(w, i)
                                 /\ \A k \in Transfers : k # i => transfers'[k] = transfers[k]
  <2>1. PICK i \in Transfers :
          /\ transfers[i] = NoRow /\ transfers' = [transfers EXCEPT ![i] = Pending(job[w].arg)]
          /\ Announce(job[w].arg, i, "requested")
    BY <1>4 DEF CommitRequest
  <2>2. job[w].arg \in Requests
    BY <1>4, JobKinds DEF CommitRequest, At, IInv, TypeOK, RequestJobs, Working
  <2>3. /\ transfers'[i] = Pending(job[w].arg)
        /\ \A k \in Transfers : k # i => transfers'[k] = transfers[k]
    BY <2>1 DEF IInv, TypeOK
  <2> QED
    BY <2>1, <2>2, <2>3 DEF Inserted
<1>5. ASSUME NEW w \in Workers, CommitResolve(w)
      PROVE  \E i \in Transfers : /\ Settled(w, i)
                                 /\ \A k \in Transfers : k # i => transfers'[k] = transfers[k]
  <2> DEFINE j == job[w]
             i == j.arg.id
             next == Resolved(transfers[i], j.arg.action, j.arg.actor)
  <2>1. /\ j.op = "resolve" /\ j.stage = "commit" /\ transfers' = [transfers EXCEPT ![i] = next]
        /\ Announce(transfers[i], i, Event(transfers[i], j.arg.action, j.arg.actor))
    BY <1>5 DEF CommitResolve, At
  <2>2. /\ i \in Transfers /\ j.arg.action \in Resolutions /\ j.arg.actor \in Users
        /\ transfers[i] \in Rows /\ transfers[i].status = "pending"
    BY <2>1, ResolvedIsThere DEF ResolveInv
  <2> HIDE DEF next
  <2>3. /\ transfers'[i] = next
        /\ \A k \in Transfers : k # i => transfers'[k] = transfers[k]
    BY <2>1, <2>2 DEF IInv, TypeOK
  <2> QED
    BY <2>1, <2>2, <2>3 DEF Settled, next
<1> QED
  BY <1>1, <1>2, <1>3, <1>4, <1>5 DEF Next, Assign, Unassign, vars, books

(* Nobody is left to accept a row that both accepted.                       *)
OpenUntilBoth ==
  \A i \in Transfers :
    transfers[i] # NoRow /\ transfers[i].status = "pending"
      => ~(transfers[i].okFrom /\ transfers[i].okTo)
Story == BothAccepted /\ OpenUntilBoth /\ OutboxComplete

(* What the outbox may hold of a row, case by case.                         *)
LEMMA NoEvents ==
  ASSUME NEW row, row = NoRow \/ row.kind # "imprest"
  PROVE  EventsOf(row) = {{}}
BY DEF EventsOf

LEMMA AcceptedEvents ==
  ASSUME NEW row, row # NoRow, row.kind = "imprest", row.status = "accepted"
  PROVE  EventsOf(row) = {{"requested", "accepted", "sender_accepted"},
                          {"requested", "accepted", "recipient_accepted"}}
BY DEF EventsOf

LEMMA OtherEvents ==
  ASSUME NEW row, row # NoRow, row.kind = "imprest", row.status # "accepted"
  PROVE  EventsOf(row) = {{"requested"} \cup (IF row.okFrom THEN {"sender_accepted"} ELSE {})
                            \cup (IF row.okTo THEN {"recipient_accepted"} ELSE {})
                            \cup (IF row.status = "pending" THEN {} ELSE {row.status})}
BY DEF EventsOf

(* One resolution adds its event to the story of its row.                   *)
LEMMA ResolvedStory ==
  ASSUME NEW row \in Rows, row.status = "pending", ~(row.okFrom /\ row.okTo),
         NEW action \in Resolutions, NEW u \in Users,
         NEW next, next = Resolved(row, action, u)
  PROVE  /\ next # NoRow /\ next.kind = row.kind
         /\ next.status = "pending" => ~(next.okFrom /\ next.okTo)
         /\ row.kind = "imprest" /\ next.status = "accepted" => next.okFrom /\ next.okTo
         /\ row.kind = "imprest" =>
              \A S \in EventsOf(row) : S \cup {Event(row, action, u)} \in EventsOf(next)
<1> DEFINE ev == Event(row, action, u)
           Past == {"requested"} \cup (IF row.okFrom THEN {"sender_accepted"} ELSE {})
                     \cup (IF row.okTo THEN {"recipient_accepted"} ELSE {})
<1>1. next \in Rows /\ next.kind = row.kind /\ next # NoRow /\ row # NoRow
  BY ResolvedRow, RowTypes
<1>2. row.okFrom \in BOOLEAN /\ row.okTo \in BOOLEAN
  BY DEF Rows
<1>3. row.kind = "imprest" => EventsOf(row) = {Past}
  <2>1. ASSUME row.kind = "imprest"
        PROVE  EventsOf(row) = {Past \cup {}}
    BY <1>1, <2>1, OtherEvents
  <2> QED
    BY <2>1
<1>4. ASSUME NEW st, (action = "reject" /\ st = "rejected") \/ (action = "cancel" /\ st = "cancelled")
      PROVE  /\ next.status = st /\ next.okFrom = row.okFrom /\ next.okTo = row.okTo
             /\ ev = st
  <2>1. next = [row EXCEPT !.status = st]
    <3>1. CASE action = "reject" /\ st = "rejected"
      BY <3>1 DEF Resolved, Settles
    <3>2. CASE action = "cancel" /\ st = "cancelled"
      BY <3>2 DEF Resolved, Settles
    <3> QED
      BY <1>4, <3>1, <3>2
  <2>2. ev = st
    <3>1. CASE action = "reject" /\ st = "rejected"
      BY <3>1 DEF Event, Settles
    <3>2. CASE action = "cancel" /\ st = "cancelled"
      BY <3>2 DEF Event, Settles
    <3> QED
      BY <1>4, <3>1, <3>2
  <2> QED
    BY <2>1, <2>2 DEF Rows
<1>5. ASSUME NEW st \in {"rejected", "cancelled"}, ev = st,
             next.status = st /\ next.okFrom = row.okFrom /\ next.okTo = row.okTo,
             row.kind = "imprest"
      PROVE  EventsOf(next) = {Past \cup {ev}}
  <2>1. EventsOf(next) = {{"requested"} \cup (IF next.okFrom THEN {"sender_accepted"} ELSE {})
                            \cup (IF next.okTo THEN {"recipient_accepted"} ELSE {})
                            \cup (IF next.status = "pending" THEN {} ELSE {next.status})}
    BY <1>1, <1>5, OtherEvents
  <2> QED
    BY <1>5, <2>1
<1>6. CASE action \in {"reject", "cancel"}
  <2>1. PICK st \in {"rejected", "cancelled"} :
          (action = "reject" /\ st = "rejected") \/ (action = "cancel" /\ st = "cancelled")
    <3>1. CASE action = "reject"
      <4>1. "rejected" \in {"rejected", "cancelled"}
        OBVIOUS
      <4> QED
        BY <3>1, <4>1
    <3>2. CASE action = "cancel"
      <4>1. "cancelled" \in {"rejected", "cancelled"}
        OBVIOUS
      <4> QED
        BY <3>2, <4>1
    <3> QED
      BY <1>6, <3>1, <3>2
  <2>2. /\ next.status = st /\ next.okFrom = row.okFrom /\ next.okTo = row.okTo
        /\ ev = st
    BY <1>4, <2>1
  <2>3. row.kind = "imprest" => EventsOf(next) = {Past \cup {ev}}
    BY <1>5, <2>2
  <2> HIDE DEF ev, Past
  <2>4. row.kind = "imprest" => \A S \in EventsOf(row) : S \cup {ev} \in EventsOf(next)
    BY <1>3, <2>3
  <2> QED
    BY <1>1, <2>2, <2>4 DEF ev
<1>7. CASE action = "accept" /\ Settles(row, action, u)
  <2>1. next = [Consented(row, u) EXCEPT !.status = "accepted"] /\ ev = "accepted"
    BY <1>7 DEF Resolved, Event
  <2>2. CASE row.kind = "imprest"
    <3>1. next.status = "accepted" /\ next.okFrom /\ next.okTo
      BY <1>7, <2>1, <2>2 DEF Settles, Consented, Rows
    <3>2. (row.okFrom /\ ~row.okTo) \/ (row.okTo /\ ~row.okFrom)
      BY <1>2, <1>7, <2>2 DEF Settles
    <3>3. EventsOf(next) = {{"requested", "accepted", "sender_accepted"},
                            {"requested", "accepted", "recipient_accepted"}}
      BY <1>1, <2>2, <3>1, AcceptedEvents
    <3>4. \/ Past \cup {ev} = {"requested", "accepted", "sender_accepted"}
          \/ Past \cup {ev} = {"requested", "accepted", "recipient_accepted"}
      BY <2>1, <3>2
    <3> HIDE DEF ev, Past
    <3>5. \A S \in EventsOf(row) : S \cup {ev} \in EventsOf(next)
      BY <1>3, <2>2, <3>3, <3>4
    <3> QED
      BY <1>1, <3>1, <3>5 DEF ev
  <2>3. CASE row.kind # "imprest"
    <3>1. next.status = "accepted"
      BY <2>1 DEF Consented, Rows
    <3> QED
      BY <1>1, <2>3, <3>1
  <2> QED
    BY <2>2, <2>3
<1>8. CASE action = "accept" /\ ~Settles(row, action, u)
  <2>1. /\ next = Consented(row, u) /\ row.kind = "imprest"
        /\ ev = IF u = row.from THEN "sender_accepted" ELSE "recipient_accepted"
    BY <1>8 DEF Resolved, Event, Settles
  <2>2. /\ next.status = "pending"
        /\ next.okFrom = (row.okFrom \/ u = row.from) /\ next.okTo = (row.okTo \/ u # row.from)
    BY <1>2, <2>1 DEF Consented, Rows
  <2>3. IF u = row.from THEN ~row.okTo ELSE ~row.okFrom
    BY <1>8, <2>1 DEF Settles
  <2>4. EventsOf(next) = {{"requested"} \cup (IF next.okFrom THEN {"sender_accepted"} ELSE {})
                            \cup (IF next.okTo THEN {"recipient_accepted"} ELSE {})
                            \cup (IF next.status = "pending" THEN {} ELSE {next.status})}
    BY <1>1, <2>1, <2>2, OtherEvents
  <2>5. EventsOf(next) = {Past \cup {ev}}
    <3>1. CASE u = row.from
      BY <1>2, <2>1, <2>2, <2>4, <3>1
    <3>2. CASE u # row.from
      BY <1>2, <2>1, <2>2, <2>4, <3>2
    <3> QED
      BY <3>1, <3>2
  <2>6. ~(next.okFrom /\ next.okTo)
    BY <1>2, <2>2, <2>3
  <2> HIDE DEF ev, Past
  <2>7. \A S \in EventsOf(row) : S \cup {ev} \in EventsOf(next)
    BY <1>3, <2>1, <2>5
  <2> QED
    BY <1>1, <2>2, <2>6, <2>7 DEF ev
<1> QED
  BY <1>6, <1>7, <1>8 DEF Resolutions

(* The story of every row goes on as its commits do.                        *)
LEMMA StoryStep == IInv /\ Story /\ [Next]_vars => Story'
<1> SUFFICES ASSUME IInv, Story, [Next]_vars
             PROVE  Story'
  OBVIOUS
<1> DEFINE Told(i) == {e \in {"requested", "sender_accepted", "recipient_accepted", "accepted",
                              "rejected", "cancelled"} : <<i, e>> \in outbox}
<1>1. CASE UNCHANGED <<transfers, outbox>>
  BY <1>1 DEF Story, BothAccepted, OpenUntilBoth, OutboxComplete
<1>2. ASSUME NEW w \in Workers, NEW i \in Transfers, Inserted(w, i) \/ Settled(w, i),
             \A k \in Transfers : k # i => transfers'[k] = transfers[k]
      PROVE  Story'
  <2>1. /\ transfers'[i] # NoRow
        /\ transfers'[i].status = "pending" => ~(transfers'[i].okFrom /\ transfers'[i].okTo)
        /\ transfers'[i].kind = "imprest" /\ transfers'[i].status = "accepted"
             => transfers'[i].okFrom /\ transfers'[i].okTo
        /\ \/ outbox' = outbox /\ transfers'[i].kind # "imprest"
           \/ \E e \in {"requested", "sender_accepted", "recipient_accepted", "accepted",
                         "rejected", "cancelled"} :
                /\ outbox' = outbox \cup {<<i, e>>} /\ transfers'[i].kind = "imprest"
                /\ \A S \in EventsOf(transfers[i]) : S \cup {e} \in EventsOf(transfers'[i])
        /\ transfers'[i].kind # "imprest" => EventsOf(transfers[i]) = {{}} /\ EventsOf(transfers'[i]) = {{}}
    <3>1. CASE Inserted(w, i)
      <4> DEFINE q == job[w].arg
      <4>1. /\ transfers'[i] # NoRow /\ transfers'[i].status = "pending" /\ transfers'[i].kind = q.kind
            /\ transfers'[i].okFrom = FALSE /\ transfers'[i].okTo = FALSE
        BY <3>1, RowTypes DEF Inserted, Pending, NoRow
      <4>2. EventsOf(transfers[i]) = {{}}
        BY <3>1, NoEvents DEF Inserted
      <4>3. EventsOf(transfers'[i]) = IF q.kind = "imprest" THEN {{"requested"}} ELSE {{}}
        <5>1. CASE q.kind = "imprest"
          BY <4>1, <5>1, OtherEvents
        <5>2. CASE q.kind # "imprest"
          BY <4>1, <5>2, NoEvents
        <5> QED
          BY <5>1, <5>2
      <4>4. outbox' = IF q.kind = "imprest" THEN outbox \cup {<<i, "requested">>} ELSE outbox
        BY <3>1 DEF Inserted, Announce
      <4> QED
        BY <4>1, <4>2, <4>3, <4>4
    <3>2. CASE Settled(w, i)
      <4> DEFINE row == transfers[i]
                 action == job[w].arg.action
                 u == job[w].arg.actor
      <4>1. row \in Rows /\ row.status = "pending" /\ action \in Resolutions /\ u \in Users
        BY <3>2 DEF Settled
      <4>2. row # NoRow /\ ~(row.okFrom /\ row.okTo)
        BY <4>1, RowTypes DEF Story, OpenUntilBoth
      <4>3. transfers'[i] = Resolved(row, action, u)
            /\ outbox' = IF row.kind = "imprest" THEN outbox \cup {<<i, Event(row, action, u)>>} ELSE outbox
        BY <3>2 DEF Settled, Announce
      <4>4. Event(row, action, u) \in {"requested", "sender_accepted", "recipient_accepted", "accepted",
                                       "rejected", "cancelled"}
        BY <4>1 DEF Event, Resolutions
      <4> HIDE DEF row, action, u
      <4>5. /\ transfers'[i] # NoRow /\ transfers'[i].kind = row.kind
            /\ transfers'[i].status = "pending" => ~(transfers'[i].okFrom /\ transfers'[i].okTo)
            /\ row.kind = "imprest" /\ transfers'[i].status = "accepted"
                 => transfers'[i].okFrom /\ transfers'[i].okTo
            /\ row.kind = "imprest" =>
                 \A S \in EventsOf(row) : S \cup {Event(row, action, u)} \in EventsOf(transfers'[i])
        BY <4>1, <4>2, <4>3, ResolvedStory
      <4>6. row.kind # "imprest" => EventsOf(row) = {{}} /\ EventsOf(transfers'[i]) = {{}}
        BY <4>5, NoEvents
      <4> QED
        BY <4>3, <4>4, <4>5, <4>6 DEF row
    <3> QED
      BY <1>2, <3>1, <3>2
  <2>2. BothAccepted' /\ OpenUntilBoth'
    BY <1>2, <2>1 DEF Story, BothAccepted, OpenUntilBoth
  <2>3. Told(i) \in EventsOf(transfers[i])
    BY DEF Story, OutboxComplete
  <2>4. Told(i)' \in EventsOf(transfers'[i])
    <3>1. CASE outbox' = outbox /\ transfers'[i].kind # "imprest"
      BY <2>1, <2>3, <3>1
    <3>2. ASSUME NEW e \in {"requested", "sender_accepted", "recipient_accepted", "accepted",
                            "rejected", "cancelled"},
                 outbox' = outbox \cup {<<i, e>>},
                 \A S \in EventsOf(transfers[i]) : S \cup {e} \in EventsOf(transfers'[i])
          PROVE  Told(i)' \in EventsOf(transfers'[i])
      <4>1. Told(i)' = Told(i) \cup {e}
        BY <3>2
      <4> QED
        BY <2>3, <3>2, <4>1
    <3> QED
      BY <2>1, <3>1, <3>2
  <2>5. \A k \in Transfers : k # i => Told(k)' = Told(k)
    BY <2>1
  <2>6. OutboxComplete'
    BY <1>2, <2>4, <2>5 DEF Story, OutboxComplete
  <2> QED
    BY <2>2, <2>6 DEF Story
<1> QED
  BY <1>1, <1>2, RowHistory

LEMMA StoryHolds == Spec => []Story
<1>1. ASSUME Init
      PROVE  Story
  <2>1. \A i \in Transfers : transfers[i] = NoRow /\ EventsOf(transfers[i]) = {{}}
    BY <1>1, NoEvents DEF Init
  <2>2. \A i \in Transfers :
          {e \in {"requested", "sender_accepted", "recipient_accepted", "accepted",
                  "rejected", "cancelled"} : <<i, e>> \in outbox} = {}
    BY <1>1 DEF Init
  <2> QED
    BY <2>1, <2>2 DEF Story, BothAccepted, OpenUntilBoth, OutboxComplete
<1> QED
  BY <1>1, StoryStep, InductiveInvariant, PTL DEF Spec

(* No imprest transfer is accepted on one participant's word, in whatever   *)
(* order they accept.                                                       *)
THEOREM AcceptedByBoth == Spec => []BothAccepted
<1>1. Story => BothAccepted
  BY DEF Story
<1> QED
  BY <1>1, StoryHolds, PTL

(* Every commit of an imprest transfer leaves exactly its own event behind. *)
THEOREM OutboxTellsAll == Spec => []OutboxComplete
<1>1. Story => OutboxComplete
  BY DEF Story
<1> QED
  BY <1>1, StoryHolds, PTL

-----------------------------------------------------------------------------
(* Assignments, and who shares them.                                        *)

WorkerStep(w) ==
  TakeLock(w) \/ ShareAssignments(w) \/ Abort(w) \/ ReceiptNext(w) \/ TransferNext(w)

(* A transaction's step leaves every other transaction where it was.        *)
LEMMA OthersUntouched ==
  ASSUME TypeOK, NEW w \in Workers, WorkerStep(w)
  PROVE  /\ OthersKept(w) /\ assigned' = assigned
         /\ \A v \in Workers \ {w} : granted'[v] = granted[v]
<1>1. CASE TakeLock(w) \/ ShareAssignments(w)
  BY <1>1 DEF OthersKept, TypeOK, TakeLock, ShareAssignments
<1>2. ASSUME NEW j, NEW locks, Open(w, j, locks) \/ Proceed(w, j, locks)
      PROVE  /\ OthersKept(w) /\ assigned' = assigned
             /\ \A v \in Workers \ {w} : granted'[v] = granted[v]
  BY <1>2 DEF OthersKept, TypeOK, Open, Proceed
<1>3. CASE End(w) /\ assigned' = assigned
  BY <1>3 DEF OthersKept, TypeOK, End
<1>4. CASE ReceiptNext(w)
  BY <1>2, <1>3, <1>4 DEF ReceiptNext, OpenSource, OpenEntry, ReadReceipt, DecideReceipt,
     CommitReceipt, Answer
<1>5. CASE TransferNext(w)
  BY <1>2, <1>3, <1>5 DEF TransferNext, OpenRequest, ReadRequest, DecideRequest, CommitRequest,
     OpenResolve, ReadRow, DecideResolve, CommitResolve, Answer
<1>6. CASE Abort(w)
  BY <1>3, <1>6 DEF Abort, Answer
<1> QED
  BY <1>1, <1>4, <1>5, <1>6 DEF WorkerStep

(* A row keeps the kind, the participants and the site of its request.      *)
LEMMA RowKept ==
  ASSUME IInv, [Next]_vars, NEW i \in Transfers, transfers[i] # NoRow
  PROVE  /\ transfers'[i].kind = transfers[i].kind /\ transfers'[i].site = transfers[i].site
         /\ transfers'[i].from = transfers[i].from /\ transfers'[i].to = transfers[i].to
<1>1. CASE UNCHANGED <<transfers, outbox>>
  BY <1>1
<1>2. ASSUME NEW w \in Workers, NEW k \in Transfers, Inserted(w, k) \/ Settled(w, k),
             \A n \in Transfers : n # k => transfers'[n] = transfers[n]
      PROVE  /\ transfers'[i].kind = transfers[i].kind /\ transfers'[i].site = transfers[i].site
             /\ transfers'[i].from = transfers[i].from /\ transfers'[i].to = transfers[i].to
  <2>1. CASE i = k /\ Settled(w, k)
    BY <2>1, ResolvedRow DEF Settled
  <2>2. CASE i # k
    BY <1>2, <2>2
  <2>3. ~(i = k /\ Inserted(w, k))
    BY DEF Inserted
  <2> QED
    BY <1>2, <2>1, <2>2, <2>3
<1> QED
  BY <1>1, <1>2, RowHistory

(* A shared assignment is there as long as it is shared.                    *)
SharedIsAssigned == \A w \in Workers : \A l \in held[w] : l[1] = 8 => l[2] \in assigned

(* What the acceptance of an imprest transfer knows of a participant: until *)
(* its scan it still asks for his assignment; afterwards it shares the      *)
(* assignment, or the assignment is missing, or it came after the scan.     *)
Looked(w) ==
  LET j == job[w]
      row == transfers[j.arg.id]
  IN j.op = "resolve" /\ j.arg.action = "accept" /\ row.kind = "imprest" =>
       \A u \in {row.from, row.to} \ Admins :
         LET l == MemberLock(u, row.site)
             a == <<u, row.site>>
         IN /\ j.stage = "decide" =>
                 l \in Claim(w) \/ (need[w] = {} /\ (a \in assigned => a \in granted[w]))
            /\ j.stage = "commit" => l \in held[w] \/ a \in granted[w]

SharedInv == SharedIsAssigned /\ \A w \in Workers : Looked(w)

(* Taking locks, sharing assignments and ending leave only assignments that *)
(* are there shared.                                                        *)
LEMMA SharedStep == IInv /\ SharedIsAssigned /\ [Next]_vars => SharedIsAssigned'
<1> SUFFICES ASSUME IInv, SharedIsAssigned, [Next]_vars
             PROVE  SharedIsAssigned'
  OBVIOUS
<1>0. TypeOK
  BY DEF IInv
<1>1. ASSUME NEW w \in Workers, WorkerStep(w),
             \A l \in held'[w] : l \in held[w] \/ l[1] # 8 \/ l[2] \in assigned
      PROVE  SharedIsAssigned'
  BY <1>0, <1>1, OthersUntouched DEF SharedIsAssigned, OthersKept
<1>2. ASSUME NEW w \in Workers, TakeLock(w)
      PROVE  SharedIsAssigned'
  <2>1. PICK l : l[1] # 8 /\ held' = [held EXCEPT ![w] = @ \cup {l}]
    BY <1>2 DEF TakeLock
  <2>2. held'[w] = held[w] \cup {l}
    BY <1>0, <2>1 DEF TypeOK
  <2> QED
    BY <1>1, <1>2, <2>1, <2>2 DEF WorkerStep
<1>3. ASSUME NEW w \in Workers, ShareAssignments(w)
      PROVE  SharedIsAssigned'
  <2>1. held'[w] = held[w] \cup {l \in need[w] : l[2] \in assigned}
    BY <1>0, <1>3 DEF TypeOK, ShareAssignments
  <2> QED
    BY <1>1, <1>3, <2>1 DEF WorkerStep
<1>4. ASSUME NEW w \in Workers, Abort(w) \/ ReceiptNext(w) \/ TransferNext(w)
      PROVE  SharedIsAssigned'
  <2>1. held' = [held EXCEPT ![w] = {}] \/ held' = held
    BY <1>4 DEF Abort, Answer, End, ReceiptNext, OpenSource, OpenEntry, ReadReceipt, DecideReceipt,
     CommitReceipt, TransferNext, OpenRequest, ReadRequest, DecideRequest, CommitRequest, OpenResolve,
     ReadRow, DecideResolve, CommitResolve, Open, Proceed
  <2>2. held'[w] \subseteq held[w]
    BY <1>0, <2>1 DEF TypeOK
  <2> QED
    BY <1>1, <1>4, <2>2 DEF WorkerStep
<1>5. ASSUME NEW u \in Users, NEW s \in Sites, Assign(u, s)
      PROVE  SharedIsAssigned'
  BY <1>5 DEF Assign, SharedIsAssigned
<1>6. ASSUME NEW u \in Users, NEW s \in Sites, Unassign(u, s)
      PROVE  SharedIsAssigned'
  <2>1. /\ assigned' = assigned \ {<<u, s>>} /\ held' = held
        /\ \A w \in Workers : MemberLock(u, s) \notin held[w]
    BY <1>6 DEF Unassign
  <2> SUFFICES ASSUME NEW w \in Workers, NEW l \in held[w], l[1] = 8
               PROVE  l[2] \in assigned'
    BY <2>1 DEF SharedIsAssigned
  <2>2. l \in LockNames
    BY <1>0 DEF TypeOK
  <2>3. PICK v \in Users, t \in Sites : l = MemberLock(v, t)
    BY <2>2 DEF LockNames, SiteLock, KeyLock, RowLock, EntryLock, AccountLock, KeyShare, UserRow
  <2>4. l[2] = <<v, t>> /\ <<v, t>> # <<u, s>>
    BY <2>1, <2>3 DEF MemberLock
  <2> QED
    BY <2>1, <2>4 DEF SharedIsAssigned
<1>7. CASE UNCHANGED vars
  BY <1>7 DEF vars, SharedIsAssigned
<1> QED
  BY <1>2, <1>3, <1>4, <1>5, <1>6, <1>7 DEF Next

(* A transaction that stands still knows what it knew: an assignment made   *)
(* while it is about to check is one it was granted.                        *)
LEMMA LookedStill ==
  ASSUME IInv, [Next]_vars, NEW w \in Workers, Looked(w),
         job'[w] = job[w], need'[w] = need[w], held'[w] = held[w], granted[w] \subseteq granted'[w],
         \A a \in assigned' : a \in assigned \/ (At(w, "resolve", "decide") => a \in granted'[w])
  PROVE  Looked(w)'
<1> DEFINE j == job[w]
           row == transfers[j.arg.id]
<1> SUFFICES ASSUME j.op = "resolve", j.arg.action = "accept", row'.kind = "imprest",
                    NEW u \in {row'.from, row'.to} \ Admins
             PROVE  LET l == MemberLock(u, row'.site)
                        a == <<u, row'.site>>
                    IN /\ j.stage = "decide" =>
                            \/ l \in Claim(w)
                            \/ need[w] = {} /\ (a \in assigned' => a \in granted'[w])
                       /\ j.stage = "commit" => l \in held[w] \/ a \in granted'[w]
  BY DEF Looked, Claim
<1>1. /\ row'.kind = row.kind /\ row'.site = row.site
      /\ row'.from = row.from /\ row'.to = row.to
  <2>1. j.arg.id \in Transfers /\ row # NoRow
    BY ResolvedIsThere DEF ResolveInv
  <2>2. row' = transfers'[j.arg.id]
    OBVIOUS
  <2> QED
    BY <2>1, <2>2, RowKept
<1> DEFINE l == MemberLock(u, row.site)
           a == <<u, row.site>>
<1>2. /\ j.stage = "decide" => l \in Claim(w) \/ (need[w] = {} /\ (a \in assigned => a \in granted[w]))
      /\ j.stage = "commit" => l \in held[w] \/ a \in granted[w]
  BY <1>1 DEF Looked
<1>3. j.stage = "decide" /\ need[w] = {} => At(w, "resolve", "decide")
  BY DEF At
<1> HIDE DEF l, a, j, row
<1>4. /\ j.stage = "decide" => l \in Claim(w) \/ (need[w] = {} /\ (a \in assigned' => a \in granted'[w]))
      /\ j.stage = "commit" => l \in held[w] \/ a \in granted'[w]
  BY <1>2, <1>3
<1> QED
  BY <1>1, <1>4 DEF l, a

(* Locking, scanning, checking and ending: what a transaction learns of the *)
(* participants by its own steps.                                           *)
LEMMA LookedStep ==
  ASSUME IInv, [Next]_vars, NEW w \in Workers, Looked(w), WorkerStep(w)
  PROVE  Looked(w)'
<1>0. TypeOK
  BY DEF IInv
<1>1. ASSUME job'[w].op # "resolve" \/ job'[w].stage = "read"
      PROVE  Looked(w)'
  BY <1>1 DEF Looked
<1>2. CASE TakeLock(w)
  <2>1. PICK l \in need[w] :
          /\ job' = job /\ UNCHANGED <<books, assigned, granted>>
          /\ held'[w] = held[w] \cup {l} /\ need'[w] = need[w] \ {l}
    BY <1>0, <1>2 DEF TypeOK, TakeLock, NextLocks
  <2>2. Claim(w)' = Claim(w) /\ held[w] \subseteq held'[w] /\ need[w] # {} /\ transfers' = transfers
    BY <2>1 DEF Claim, books
  <2> QED
    BY <2>1, <2>2 DEF Looked
<1>3. CASE ShareAssignments(w)
  <2>1. /\ job' = job /\ UNCHANGED <<books, assigned, granted>> /\ need[w] # {} /\ need'[w] = {}
        /\ held'[w] = held[w] \cup {l \in need[w] : l[2] \in assigned}
    BY <1>0, <1>3 DEF TypeOK, ShareAssignments
  <2>2. held[w] \subseteq held'[w] /\ transfers' = transfers
    BY <2>1 DEF books
  <2>3. \A u, s : MemberLock(u, s) \in Claim(w) =>
                    MemberLock(u, s) \in Claim(w)' \/ <<u, s>> \notin assigned
    BY <2>1 DEF Claim, MemberLock
  <2> QED
    BY <2>1, <2>2, <2>3 DEF Looked
<1>4. CASE End(w)
  <2>1. job'[w] = Idle /\ Idle.op # "resolve"
    BY <1>0, <1>4 DEF End, TypeOK, Idle
  <2> QED
    BY <1>1, <2>1
<1>5. ASSUME NEW j, NEW locks, Open(w, j, locks) \/ Proceed(w, j, locks), j.op # "resolve" \/ j.stage = "read"
      PROVE  Looked(w)'
  <2>1. job'[w] = j
    BY <1>0, <1>5 DEF Open, Proceed, TypeOK
  <2> QED
    BY <1>1, <1>5, <2>1
<1>6. CASE ReceiptNext(w)
  <2>1. \A op \in ReceiptOps : job[w].op = op => job[w] \in SourceJobs \cup EntryJobs
    BY <1>0, JobKinds DEF TypeOK
  <2>2. ASSUME NEW r \in Receipts, NEW change, NEW s, NEW op \in ReceiptOps
        PROVE  ReceiptJob(op, r, change, s).op # "resolve"
    BY DEF ReceiptJob
  <2>3. CASE ReadReceipt(w)
    <3>1. PICK op, target, debit, credit, locks :
            /\ op \in ReceiptOps /\ At(w, op, "read")
            /\ Proceed(w, [job[w] EXCEPT !.stage = "decide", !.target = target,
                                         !.debit = debit, !.credit = credit], locks)
      BY <2>3 DEF ReadReceipt
    <3>2. [job[w] EXCEPT !.stage = "decide", !.target = target,
                         !.debit = debit, !.credit = credit].op = op
      BY <2>1, <3>1 DEF At, SourceJobs, EntryJobs, Working
    <3> QED
      BY <1>5, <3>1, <3>2
  <2>4. CASE DecideReceipt(w)
    <3>1. PICK op, locks :
            /\ op \in ReceiptOps /\ At(w, op, "decide")
            /\ End(w) \/ Proceed(w, [job[w] EXCEPT !.stage = "commit"], locks)
      BY <2>4 DEF DecideReceipt, Answer
    <3>2. [job[w] EXCEPT !.stage = "commit"].op = op
      BY <2>1, <3>1 DEF At, SourceJobs, EntryJobs, Working
    <3> QED
      BY <1>4, <1>5, <3>1, <3>2
  <2>5. CASE CommitReceipt(w)
    BY <1>4, <2>5 DEF CommitReceipt
  <2> QED
    BY <1>5, <1>6, <2>2, <2>3, <2>4, <2>5 DEF ReceiptNext, OpenSource, OpenEntry
<1>7. CASE (\E q \in Requests : OpenRequest(w, q)) \/ ReadRequest(w) \/ DecideRequest(w) \/ CommitRequest(w)
  <2>1. job[w].op = "request" => job[w] \in RequestJobs
    BY <1>0, JobKinds DEF TypeOK
  <2>2. ASSUME NEW q \in Requests, OpenRequest(w, q)
        PROVE  Looked(w)'
    <3>1. PICK j, locks : Open(w, j, locks) /\ j.op = "request"
      BY <2>2 DEF OpenRequest
    <3> QED
      BY <1>5, <3>1
  <2>3. CASE ReadRequest(w) \/ DecideRequest(w)
    <3>1. /\ job[w].op = "request"
          /\ End(w) \/ \E locks, stage : Proceed(w, [job[w] EXCEPT !.stage = stage], locks)
      BY <2>3 DEF ReadRequest, DecideRequest, Answer, At
    <3>2. \A stage : [job[w] EXCEPT !.stage = stage].op = "request"
      BY <2>1, <3>1 DEF RequestJobs, Working
    <3> QED
      BY <1>4, <1>5, <3>1, <3>2
  <2>4. CASE CommitRequest(w)
    BY <1>4, <2>4 DEF CommitRequest
  <2> QED
    BY <1>7, <2>2, <2>3, <2>4
<1>8. ASSUME NEW i \in Transfers, NEW action \in Resolutions, NEW u \in Users, OpenResolve(w, i, action, u)
      PROVE  Looked(w)'
  <2>1. PICK j, locks : Open(w, j, locks) /\ j.stage = "read"
    BY <1>8 DEF OpenResolve
  <2> QED
    BY <1>5, <2>1
<1> DEFINE row == transfers[job[w].arg.id]
           action == job[w].arg.action
           actor == job[w].arg.actor
<1>9. CASE ReadRow(w)
  <2> DEFINE j == [job[w] EXCEPT !.stage = "decide"]
  <2>1. job[w] \in ResolveJobs /\ row \in Rows
    BY <1>9, ResolvedIsThere DEF ReadRow, At
  <2>2. CASE Proceed(w, j, ResolveLocks(row, action))
    <3>1. /\ job'[w] = j /\ Claim(w)' = ResolveLocks(row, action) \cup held[w]
          /\ transfers' = transfers
      BY <1>0, <2>2, ProceedEffect DEF books
    <3>2. j.arg = job[w].arg /\ j.stage = "decide"
      BY <2>1 DEF ResolveJobs, Working
    <3>3. action = "accept" /\ row.kind = "imprest" =>
            \A u \in {row.from, row.to} \ Admins : MemberLock(u, row.site) \in ResolveLocks(row, action)
      BY DEF ResolveLocks
    <3> HIDE DEF j
    <3> QED
      BY <3>1, <3>2, <3>3 DEF Looked
  <2> QED
    BY <1>4, <1>9, <2>2 DEF ReadRow, Answer
<1>10. CASE DecideResolve(w)
  <2> DEFINE settles == Settles(row, action, actor)
             j == [job[w] EXCEPT !.stage = "commit",
                                 !.debit = IF settles THEN Payment(row) ELSE @,
                                 !.credit = IF settles THEN Receipt(row) ELSE @]
             refs == ResolveReferences(row, action, actor)
  <2>1. job[w] \in ResolveJobs /\ job[w].op = "resolve" /\ job[w].stage = "decide" /\ need[w] = {}
    BY <1>10, ResolvedIsThere DEF DecideResolve, At
  <2>2. CASE /\ Proceed(w, j, refs)
             /\ row.kind = "imprest" /\ action = "accept"
                  => Eligible(row.from, row.site) /\ Eligible(row.to, row.site)
    <3> HIDE DEF refs, settles
    <3>1. /\ job'[w] = j /\ held'[w] = held[w] /\ transfers' = transfers /\ granted' = granted
      BY <1>0, <2>2, ProceedEffect DEF books, Proceed
    <3>2. j.arg = job[w].arg /\ j.stage = "commit"
      BY <2>1 DEF ResolveJobs, Working
    <3>3. ASSUME action = "accept", row.kind = "imprest", NEW u \in {row.from, row.to} \ Admins
          PROVE  MemberLock(u, row.site) \in held[w] \/ <<u, row.site>> \in granted[w]
      <4>1. <<u, row.site>> \in assigned
        BY <2>2, <3>3 DEF Eligible
      <4> QED
        BY <2>1, <3>3, <4>1 DEF Looked, Claim
    <3> HIDE DEF j
    <3> QED
      BY <3>1, <3>2, <3>3 DEF Looked
  <2> QED
    BY <1>4, <1>10, <2>2 DEF DecideResolve, Answer
<1>11. CASE CommitResolve(w) \/ Abort(w)
  BY <1>4, <1>11 DEF CommitResolve, Abort, Answer
<1> QED
  BY <1>2, <1>3, <1>6, <1>7, <1>8, <1>9, <1>10, <1>11 DEF WorkerStep, TransferNext

LEMMA LookedHolds == Spec => []SharedInv
<1>1. ASSUME Init
      PROVE  SharedInv
  <2>1. \A w \in Workers : job[w].op = "idle" /\ held[w] = {}
    BY <1>1 DEF Init, Idle
  <2> QED
    BY <2>1 DEF SharedInv, SharedIsAssigned, Looked
<1>2. ASSUME IInv, SharedInv, [Next]_vars
      PROVE  SharedInv'
  <2>0. TypeOK
    BY <1>2 DEF IInv
  <2>1. SharedIsAssigned'
    BY <1>2, SharedStep DEF SharedInv
  <2>2. ASSUME NEW w \in Workers, NEW v \in Workers, WorkerStep(w)
        PROVE  Looked(v)'
    <3>1. CASE v = w
      BY <1>2, <2>2, <3>1, LookedStep DEF SharedInv
    <3>2. CASE v # w
      <4>1. /\ job'[v] = job[v] /\ need'[v] = need[v] /\ held'[v] = held[v]
            /\ granted'[v] = granted[v] /\ assigned' = assigned
        BY <2>0, <2>2, <3>2, OthersUntouched DEF OthersKept
      <4> QED
        BY <1>2, <4>1, LookedStill DEF SharedInv
    <3> QED
      BY <3>1, <3>2
  <2>3. ASSUME NEW u \in Users, NEW s \in Sites, Assign(u, s) \/ Unassign(u, s), NEW v \in Workers
        PROVE  Looked(v)'
    <3>1. job'[v] = job[v] /\ need'[v] = need[v] /\ held'[v] = held[v]
      BY <2>3 DEF Assign, Unassign
    <3>2. /\ granted[v] \subseteq granted'[v]
          /\ \A a \in assigned' : a \in assigned \/ (At(v, "resolve", "decide") => a \in granted'[v])
      BY <2>3 DEF Assign, Unassign
    <3> QED
      BY <1>2, <3>1, <3>2, LookedStill DEF SharedInv
  <2>4. ASSUME UNCHANGED vars, NEW v \in Workers
        PROVE  Looked(v)'
    BY <1>2, <2>4, LookedStill DEF SharedInv, vars
  <2>5. \A v \in Workers : Looked(v)'
    BY <1>2, <2>2, <2>3, <2>4 DEF Next, WorkerStep
  <2> QED
    BY <2>1, <2>5 DEF SharedInv
<1> QED
  BY <1>1, <1>2, InductiveInvariant, PTL DEF Spec

(* However many administrators change assignments and however many          *)
(* resolutions run, an imprest transfer is accepted only while both its     *)
(* participants are assigned to its site; the one exception is an           *)
(* assignment that was made between the scan and the check, which FOR SHARE *)
(* could not lock.                                                          *)
THEOREM AssignedWhenAccepted == Spec => AcceptedByAssigned
<1> DEFINE Step ==
      \A w \in Workers :
        LET i == job[w].arg.id
            row == transfers[i]
        IN /\ job[w].op = "resolve" /\ job'[w] = Idle
           /\ row # transfers'[i] /\ row.kind = "imprest" /\ job[w].arg.action = "accept"
           => \A u \in {row.from, row.to} :
                 Eligible(u, row.site) \/ <<u, row.site>> \in granted[w]
<1>1. ASSUME IInv, SharedInv, Next
      PROVE  Step
  <2> SUFFICES ASSUME NEW w \in Workers, job[w].op = "resolve", job'[w] = Idle,
                      transfers[job[w].arg.id] # transfers'[job[w].arg.id],
                      transfers[job[w].arg.id].kind = "imprest", job[w].arg.action = "accept",
                      NEW u \in {transfers[job[w].arg.id].from, transfers[job[w].arg.id].to}
               PROVE  \/ Eligible(u, transfers[job[w].arg.id].site)
                      \/ <<u, transfers[job[w].arg.id].site>> \in granted[w]
    OBVIOUS
  <2>1. transfers' # transfers /\ Idle.op # "resolve" /\ TypeOK
    BY <1>1 DEF Idle, IInv
  <2>2. PICK v \in Workers : CommitRequest(v) \/ CommitResolve(v)
    BY <1>1, <2>1, RowSteps
  <2>3. v = w
    BY <2>1, <2>2, OthersUntouched DEF OthersKept, WorkerStep, TransferNext
  <2>4. job[w].stage = "commit"
    BY <2>2, <2>3 DEF CommitRequest, CommitResolve, At
  <2>5. CASE u \in Admins
    BY <2>5 DEF Eligible
  <2>6. CASE u \notin Admins
    <3>1. \/ MemberLock(u, transfers[job[w].arg.id].site) \in held[w]
          \/ <<u, transfers[job[w].arg.id].site>> \in granted[w]
      BY <1>1, <2>4, <2>6 DEF SharedInv, Looked
    <3> QED
      BY <1>1, <3>1 DEF SharedInv, SharedIsAssigned, MemberLock, Eligible
  <2> QED
    BY <2>5, <2>6
<1>2. IInv /\ SharedInv /\ [Next]_vars => [Step]_vars
  BY <1>1
<1> QED
  BY <1>2, LookedHolds, InductiveInvariant, PTL DEF Spec, AcceptedByAssigned

-----------------------------------------------------------------------------
(* The three readings of the ledger.                                        *)

Refs == Receipts \cup Transfers
PostedAt(h, s) == [ref \in Refs |-> ledger[ref][h][s]]

(* What one posting does to a holder's sum over the sites is what it does   *)
(* to his cached balance.                                                   *)
LEMMA SumOverSites ==
  ASSUME NEW book \in Books, NEW m \in Moves, NEW h \in Users
  PROVE  /\ SumOver(book[h], Sites) \in Int
         /\ SumOver(Debit(book, m)[h], Sites) = SumOver(book[h], Sites) - Part(m, h)
         /\ SumOver(Credit(book, m)[h], Sites) = SumOver(book[h], Sites) + Part(m, h)
<1> USE TablesAssumption
<1>1. /\ Debit(book, m) \in Books /\ Credit(book, m) \in Books
      /\ \A s \in Sites :
           /\ Debit(book, m)[h][s] = book[h][s] - AmountAt(m, h, s)
           /\ Credit(book, m)[h][s] = book[h][s] + AmountAt(m, h, s)
  BY BookEntries
<1>2. \A s \in Sites : book[h][s] \in Int /\ Debit(book, m)[h][s] \in Int /\ Credit(book, m)[h][s] \in Int
  BY <1>1 DEF Books
<1>3. m.site \in Sites /\ m.amount \in Nat
  BY DEF Moves
<1>4. SumOver(book[h], Sites) \in Int
  BY <1>2, SumType
<1> DEFINE f == book[h]
           d == Debit(book, m)[h]
           c == Credit(book, m)[h]
           a == m.site
<1>5. \A s \in Sites \ {a} : d[s] = f[s] /\ c[s] = f[s]
  BY <1>1, <1>2 DEF AmountAt
<1>6. d[a] = f[a] - Part(m, h) /\ c[a] = f[a] + Part(m, h)
  BY <1>1, <1>3 DEF AmountAt, Part
<1>7. \A s \in Sites : f[s] \in Int /\ d[s] \in Int /\ c[s] \in Int
  BY <1>2
<1>8. Part(m, h) \in Int
  BY <1>3 DEF Part
<1> HIDE DEF f, d, c, a
<1>9. SumOver(d, Sites) = SumOver(f, Sites) - f[a] + d[a]
  <2>1. \A s \in Sites \ {a} : d[s] = f[s]
    BY <1>5
  <2>2. \A s \in Sites : f[s] \in Int /\ d[s] \in Int
    BY <1>7
  <2>3. IsFiniteSet(Sites) /\ a \in Sites
    BY <1>3 DEF a
  <2> QED
    BY <2>1, <2>2, <2>3, SumChange
<1>10. SumOver(c, Sites) = SumOver(f, Sites) - f[a] + c[a]
  <2>1. \A s \in Sites \ {a} : c[s] = f[s]
    BY <1>5
  <2>2. \A s \in Sites : f[s] \in Int /\ c[s] \in Int
    BY <1>7
  <2>3. IsFiniteSet(Sites) /\ a \in Sites
    BY <1>3 DEF a
  <2> QED
    BY <2>1, <2>2, <2>3, SumChange
<1>11. SumOver(f, Sites) \in Int /\ f[a] \in Int
  BY <1>3, <1>4, <1>7 DEF f, a
<1>12. /\ SumOver(d, Sites) = SumOver(f, Sites) - Part(m, h)
       /\ SumOver(c, Sites) = SumOver(f, Sites) + Part(m, h)
  BY <1>6, <1>8, <1>9, <1>10, <1>11
<1> QED
  BY <1>4, <1>12 DEF f, d, c

(* A posting reaches all three readings of the ledger: the cached balance,  *)
(* the sums per site and the sums per source row.                           *)
LEMMA PostAgrees ==
  ASSUME TypeOK, BooksAgree, NEW ref \in Receipts \cup Transfers,
         NEW debit \in Moves, NEW credit \in Moves, Post(ref, debit, credit)
  PROVE  BooksAgree'
<1> USE TablesAssumption
<1>1. /\ custody \in Books /\ Debit(custody, debit) \in Books
      /\ ledger[ref] \in Books /\ Debit(ledger[ref], debit) \in Books
      /\ Credit(Debit(ledger[ref], debit), credit) \in Books
  BY BookEntries DEF TypeOK
<1>2. /\ custody' = Credit(Debit(custody, debit), credit)
      /\ ledger' = [ledger EXCEPT ![ref] = Credit(Debit(ledger[ref], debit), credit)]
  BY DEF Post
<1>3. ASSUME NEW h \in Users
      PROVE  balance'[h] = SumOver(custody'[h], Sites)
  <2>1. balance[h] = SumOver(custody[h], Sites) /\ balance[h] \in Int
    BY DEF BooksAgree, TypeOK
  <2>2. balance'[h] = balance[h] - Part(debit, h) + Part(credit, h)
    BY PostEntries
  <2>3. SumOver(Debit(custody, debit)[h], Sites) = SumOver(custody[h], Sites) - Part(debit, h)
    BY <1>1, SumOverSites
  <2>4. SumOver(Credit(Debit(custody, debit), credit)[h], Sites)
          = SumOver(Debit(custody, debit)[h], Sites) + Part(credit, h)
    BY <1>1, SumOverSites
  <2> QED
    BY <1>2, <2>1, <2>2, <2>3, <2>4
<1>4. ASSUME NEW h \in Users, NEW s \in Sites
      PROVE  custody'[h][s] = SumOver(PostedAt(h, s)', Refs)
  <2> DEFINE f == PostedAt(h, s)
             g == PostedAt(h, s)'
             by == AmountAt(credit, h, s) - AmountAt(debit, h, s)
  <2>1. custody[h][s] = SumOver(f, Refs)
    BY DEF BooksAgree, PostedAt, Refs
  <2>2. custody'[h][s] = custody[h][s] - AmountAt(debit, h, s) + AmountAt(credit, h, s)
    BY PostEntries
  <2>3. custody[h][s] \in Int /\ AmountAt(debit, h, s) \in Int /\ AmountAt(credit, h, s) \in Int
    BY <1>1 DEF Books, AmountAt, Moves
  <2>4. ref \in Refs /\ IsFiniteSet(Refs)
    BY FS_Union DEF Refs
  <2>5. \A r \in Refs : f[r] = ledger[r][h][s] /\ g[r] = ledger'[r][h][s]
    BY DEF PostedAt
  <2>6. \A r \in Refs : ledger[r] \in Books /\ ledger'[r] \in Books
    BY <1>1, <1>2 DEF TypeOK, Refs
  <2>7. \A r \in Refs : f[r] \in Int /\ g[r] \in Int
    BY <2>5, <2>6 DEF Books
  <2>8. \A r \in Refs \ {ref} : g[r] = f[r]
    BY <1>2, <2>5 DEF TypeOK, Refs
  <2>9. g[ref] = f[ref] - AmountAt(debit, h, s) + AmountAt(credit, h, s)
    <3>1. ledger'[ref] = Credit(Debit(ledger[ref], debit), credit)
      BY <1>2 DEF TypeOK, Refs
    <3>2. Debit(ledger[ref], debit)[h][s] = ledger[ref][h][s] - AmountAt(debit, h, s)
      BY <1>1, BookEntries
    <3>3. Credit(Debit(ledger[ref], debit), credit)[h][s]
            = Debit(ledger[ref], debit)[h][s] + AmountAt(credit, h, s)
      BY <1>1, BookEntries
    <3> QED
      BY <2>4, <2>5, <3>1, <3>2, <3>3
  <2> HIDE DEF f, g
  <2>10. SumOver(g, Refs) = SumOver(f, Refs) - f[ref] + g[ref]
    BY <2>4, <2>7, <2>8, SumChange
  <2>11. f[ref] \in Int /\ SumOver(f, Refs) \in Int
    BY <2>1, <2>3, <2>4, <2>7
  <2>12. custody'[h][s] = SumOver(g, Refs)
    BY <2>1, <2>2, <2>3, <2>9, <2>10, <2>11
  <2> QED
    BY <2>12 DEF g
<1> QED
  BY <1>3, <1>4 DEF BooksAgree, PostedAt, Refs

(* Only the commits that post change the ledger.                            *)
LEMMA LedgerSteps ==
  ASSUME IInv, [Next]_vars
  PROVE  \/ UNCHANGED <<balance, custody, ledger>>
         \/ \E w \in Workers, ref \in Receipts \cup Transfers :
              /\ job[w].debit \in Moves /\ job[w].credit \in Moves
              /\ Post(ref, job[w].debit, job[w].credit)
<1>1. ASSUME NEW w \in Workers, TakeLock(w) \/ ShareAssignments(w) \/ Abort(w)
      PROVE  UNCHANGED <<balance, custody, ledger>>
  BY <1>1 DEF TakeLock, ShareAssignments, Abort, Answer, books
<1>2. ASSUME NEW w \in Workers, ReceiptNext(w)
      PROVE  UNCHANGED <<balance, custody, ledger>> \/ CommitReceipt(w)
  BY <1>2 DEF ReceiptNext, OpenSource, OpenEntry, ReadReceipt, DecideReceipt, Open, Proceed, Answer, books
<1>3. ASSUME NEW w \in Workers, TransferNext(w)
      PROVE  UNCHANGED <<balance, custody, ledger>> \/ CommitResolve(w)
  BY <1>3 DEF TransferNext, OpenRequest, ReadRequest, DecideRequest, CommitRequest, OpenResolve,
              ReadRow, DecideResolve, Open, Proceed, Answer, books
<1>4. ASSUME NEW w \in Workers, CommitReceipt(w)
      PROVE  \E ref \in Receipts \cup Transfers :
               /\ job[w].debit \in Moves /\ job[w].credit \in Moves
               /\ Post(ref, job[w].debit, job[w].credit)
  <2>1. /\ job[w].op \in ReceiptOps
        /\ Post(job[w].arg.receipt, job[w].debit, job[w].credit)
    BY <1>4 DEF CommitReceipt, At
  <2>2. job[w] \in SourceJobs \cup EntryJobs
    BY <2>1, JobKinds DEF IInv, TypeOK
  <2>3. job[w].arg.receipt \in Receipts /\ job[w].debit \in Moves /\ job[w].credit \in Moves
    BY <2>2 DEF SourceJobs, EntryJobs, Working
  <2> QED
    BY <2>1, <2>3
<1>5. ASSUME NEW w \in Workers, CommitResolve(w)
      PROVE  \E ref \in Receipts \cup Transfers :
               /\ job[w].debit \in Moves /\ job[w].credit \in Moves
               /\ Post(ref, job[w].debit, job[w].credit)
  <2>1. job[w].op = "resolve" /\ Post(job[w].arg.id, job[w].debit, job[w].credit)
    BY <1>5 DEF CommitResolve, At
  <2>2. job[w].arg.id \in Transfers /\ job[w].debit \in Moves /\ job[w].credit \in Moves
    BY <2>1, ResolvedIsThere
  <2> QED
    BY <2>1, <2>2
<1> QED
  BY <1>1, <1>2, <1>3, <1>4, <1>5 DEF Next, Assign, Unassign, vars, books

(* The cached balance of every holder is the sum of his sites, and every    *)
(* site's sum is the sum of what each receipt and transfer posted there,    *)
(* for any number of them (loyalty_vault_apply_delta is the only writer).   *)
THEOREM LedgerBalances == Spec => []BooksAgree
<1>1. ASSUME Init
      PROVE  BooksAgree
  <2> USE TablesAssumption
  <2>1. \A h \in Users : SumOver(custody[h], Sites) = 0
    <3>1. \A h \in Users, s \in Sites : custody[h][s] = 0
      BY <1>1 DEF Init, Nothing
    <3> QED
      BY <3>1, SumZero
  <2>2. ASSUME NEW h \in Users, NEW s \in Sites
        PROVE  SumOver(PostedAt(h, s), Refs) = 0
    <3>1. \A ref \in Refs : PostedAt(h, s)[ref] = 0
      BY <1>1 DEF Init, Nothing, PostedAt, Refs
    <3>2. IsFiniteSet(Refs)
      BY FS_Union DEF Refs
    <3> QED
      BY <3>1, <3>2, SumZero
  <2>3. \A h \in Users : balance[h] = 0 /\ \A s \in Sites : custody[h][s] = 0
    BY <1>1 DEF Init, Nothing
  <2> QED
    BY <2>1, <2>2, <2>3 DEF BooksAgree, PostedAt, Refs
<1>2. ASSUME IInv, BooksAgree, [Next]_vars
      PROVE  BooksAgree'
  <2>1. CASE UNCHANGED <<balance, custody, ledger>>
    BY <1>2, <2>1 DEF BooksAgree
  <2>2. ASSUME NEW w \in Workers, NEW ref \in Receipts \cup Transfers,
               job[w].debit \in Moves, job[w].credit \in Moves,
               Post(ref, job[w].debit, job[w].credit)
        PROVE  BooksAgree'
    BY <1>2, <2>2, PostAgrees DEF IInv
  <2> QED
    BY <1>2, <2>1, <2>2, LedgerSteps
<1> QED
  BY <1>1, <1>2, InductiveInvariant, PTL DEF Spec

-----------------------------------------------------------------------------
(* The order of the locks that are asked for by name.                       *)

(* Before is a strict order of the lock table.                              *)
LEMMA BeforeIsOrder ==
  /\ \A l \in LockNames : ~Before(l, l)
  /\ \A l, m, n \in LockNames : Before(l, m) /\ Before(m, n) => Before(l, n)
<1>1. \A l \in LockNames : l[1] \in 1..8 /\ (l[1] \in {6, 7} => l[2] \in Nat)
  BY HoldersAssumption
     DEF LockNames, SiteLock, KeyLock, RowLock, KeyShare, EntryLock, AccountLock, UserRow, MemberLock
<1> QED
  BY <1>1 DEF Before

(* Of two locks that are not shared, the one that is held comes before the  *)
(* one still needed; those still needed can be put in order; and before its *)
(* first read a transaction owns locks of the opening classes only.         *)
Opening(j, l) ==
  CASE j.op \in ReceiptOps -> l[1] \in {3, 4, 5}
    [] j.op = "request" -> l[1] = 1 \/ l = KeyLock(j.arg.kind, j.arg.by, j.arg.key)
    [] OTHER -> l[1] = 1

InOrder(l, m) == Shared(l) \/ Shared(m) \/ Before(l, m)

Ordered(S) == \A l, m \in S : l = m \/ InOrder(l, m) \/ InOrder(m, l)

OrderInv(w) ==
  /\ job[w] = Idle => need[w] = {} /\ held[w] = {}
  /\ Ordered(need[w])
  /\ \A l \in held[w], m \in need[w] : InOrder(l, m)
  /\ job[w] # Idle /\ job[w].stage = "read" => \A l \in Claim(w) : Opening(job[w], l)

(* A lock of a foreign key or of an assignment is in order with any other.  *)
LEMMA SharedInOrder ==
  /\ \A us : \A l \in KeyShares(us) : Shared(l) /\ l[1] = 4
  /\ \A u, s : Shared(MemberLock(u, s))
  /\ \A S : (\A l \in S : Shared(l)) => Ordered(S)
<1>1. \A us : \A l \in KeyShares(us) : Shared(l) /\ l[1] = 4
  BY DEF KeyShares, KeyShare, Shared
<1>2. \A u, s : Shared(MemberLock(u, s))
  BY DEF MemberLock, Shared
<1> QED
  BY <1>1, <1>2 DEF Ordered, InOrder

(* Two accounts at most are locked, in the order of their holders, and then *)
(* the two users, in the same order.                                        *)
LEMMA HoldersOrdered ==
  ASSUME NEW g \in Users \cup {Nobody}, NEW h \in Users \cup {Nobody}
  PROVE  LET users == {UserRow(u) : u \in {g, h} \ {Nobody}}
         IN /\ Ordered(AccountLocks({g, h}) \cup users)
            /\ \A l \in AccountLocks({g, h}) : l[1] = 6
            /\ \A l \in users : l[1] = 7
<1> DEFINE users == {UserRow(u) : u \in {g, h} \ {Nobody}}
           locks == AccountLocks({g, h}) \cup users
<1>1. /\ \A l \in AccountLocks({g, h}) : l[1] = 6 /\ l[2] \in Users
      /\ \A l \in users : l[1] = 7 /\ l[2] \in Users
      /\ \A l \in locks : l = <<l[1], l[2]>>
  BY DEF AccountLocks, AccountLock, UserRow
<1>2. \A j, k \in Users : j = k \/ j < k \/ k < j
  BY HoldersAssumption
<1>3. \A l \in locks : l[1] \in {6, 7} /\ l[2] \in Users /\ l = <<l[1], l[2]>>
  BY <1>1
<1> HIDE DEF locks
<1>4. ASSUME NEW l \in locks, NEW m \in locks
      PROVE  l = m \/ Before(l, m) \/ Before(m, l)
  <2>1. CASE l[1] = m[1] /\ l[2] = m[2]
    BY <1>3, <2>1
  <2>2. CASE l[1] = m[1] /\ l[2] # m[2]
    BY <1>2, <1>3, <2>2 DEF Before
  <2>3. CASE l[1] # m[1]
    BY <1>3, <2>3 DEF Before
  <2> QED
    BY <2>1, <2>2, <2>3
<1>5. Ordered(locks)
  BY <1>4 DEF Ordered, InOrder
<1> QED
  BY <1>1, <1>5 DEF locks

(* The locks of the two participants come after site, key, row and entry.   *)
LEMMA HolderLocksOrdered ==
  ASSUME NEW q \in Requests \cup Rows
  PROVE  Ordered(HolderLocks(q)) /\ \A l \in HolderLocks(q) : l[1] \in {6, 7}
<1>1. q.from \in Users /\ q.to \in Users /\ Nobody \notin Users
  BY HoldersAssumption DEF Requests, Rows
<1> DEFINE g == q.from
           h == q.to
           users == {UserRow(u) : u \in {g, h} \ {Nobody}}
           locks == AccountLocks({g, h}) \cup users
<1>2. {g, h} \ {Nobody} = {g, h}
  BY <1>1
<1>3. HolderLocks(q) \subseteq locks
  BY <1>2 DEF HolderLocks
<1> HIDE DEF users
<1>4. Ordered(locks) /\ \A l \in locks : l[1] \in {6, 7}
  BY <1>1, HoldersOrdered DEF users
<1> QED
  BY <1>3, <1>4 DEF Ordered

(* Fewer locks are as ordered.                                              *)
LEMMA OrderedSubset ==
  ASSUME NEW S, Ordered(S), NEW T \in SUBSET S
  PROVE  Ordered(T)
  BY DEF Ordered

(* A transaction that opens owns nothing and asks for the opening locks.    *)
LEMMA OpenOrder ==
  ASSUME TypeOK, NEW w \in Workers, OrderInv(w), NEW j, NEW locks, Open(w, j, locks),
         Ordered(locks), j # Idle, \A l \in locks : Opening(j, l)
  PROVE  OrderInv(w)'
<1>1. job'[w] = j /\ need'[w] = locks /\ held'[w] = {}
  BY DEF Open, OrderInv, TypeOK
<1>2. Claim(w)' = locks
  BY <1>1 DEF Claim
<1> QED
  BY <1>1, <1>2 DEF OrderInv

(* A transaction that goes on asks for later locks than it holds.           *)
LEMMA ProceedOrder ==
  ASSUME TypeOK, NEW w \in Workers, NEW j, NEW locks, Proceed(w, j, locks),
         Ordered(locks), \A l \in held[w], m \in locks : l = m \/ InOrder(l, m),
         j # Idle, j.stage # "read"
  PROVE  OrderInv(w)'
<1>1. job'[w] = j /\ need'[w] = locks \ held[w] /\ held'[w] = held[w]
  BY DEF Proceed, TypeOK
<1>2. Ordered(locks \ held[w])
  BY DEF Ordered
<1> QED
  BY <1>1, <1>2 DEF OrderInv

(* A foreign key asks for its lock whenever its statement runs.             *)
LEMMA ProceedShared ==
  ASSUME TypeOK, NEW w \in Workers, NEW j, NEW locks, Proceed(w, j, locks),
         \A l \in locks : Shared(l), j # Idle, j.stage # "read"
  PROVE  OrderInv(w)'
<1>1. Ordered(locks) /\ \A l \in held[w], m \in locks : InOrder(l, m)
  BY DEF Ordered, InOrder
<1> QED
  BY <1>1, ProceedOrder

(* A transaction that ends owns nothing.                                    *)
LEMMA EndOrder ==
  ASSUME TypeOK, NEW w \in Workers, End(w)
  PROVE  OrderInv(w)'
<1>1. job'[w] = Idle /\ need'[w] = {} /\ held'[w] = {}
  BY DEF End, TypeOK
<1> QED
  BY <1>1 DEF OrderInv, Ordered

(* The first missing lock is taken, so what is still missing comes later.   *)
LEMMA TakeLockOrder ==
  ASSUME TypeOK, NEW w \in Workers, OrderInv(w), TakeLock(w)
  PROVE  OrderInv(w)'
<1>1. PICK l \in NextLocks(w) :
        /\ held' = [held EXCEPT ![w] = @ \cup {l}]
        /\ need' = [need EXCEPT ![w] = @ \ {l}]
        /\ UNCHANGED job
  BY DEF TakeLock
<1>2. l \in need[w] /\ \A m \in need[w] : ~Before(m, l)
  BY DEF NextLocks
<1>3. need'[w] = need[w] \ {l} /\ held'[w] = held[w] \cup {l} /\ job'[w] = job[w]
  BY <1>1 DEF TypeOK
<1>4. Ordered(need'[w])
  BY <1>3 DEF OrderInv, Ordered
<1>5. \A m \in need'[w] : InOrder(l, m)
  BY <1>2, <1>3 DEF OrderInv, Ordered, InOrder
<1>6. \A k \in held'[w], m \in need'[w] : InOrder(k, m)
  BY <1>3, <1>5 DEF OrderInv
<1>7. Claim(w)' \subseteq Claim(w)
  BY <1>2, <1>3 DEF Claim
<1>8. job[w] # Idle
  BY <1>2 DEF OrderInv
<1>9. job[w].stage = "read" => \A k \in Claim(w)' : Opening(job[w], k)
  BY <1>7, <1>8 DEF OrderInv
<1> QED
  BY <1>3, <1>4, <1>6, <1>8, <1>9 DEF OrderInv

(* The scan of the assignments leaves nothing to lock.                      *)
LEMMA ShareOrder ==
  ASSUME TypeOK, NEW w \in Workers, OrderInv(w), ShareAssignments(w)
  PROVE  OrderInv(w)'
<1>1. need[w] # {} /\ need'[w] = {} /\ held'[w] \subseteq Claim(w) /\ job'[w] = job[w]
  BY DEF TypeOK, ShareAssignments, Claim
<1>2. Claim(w)' \subseteq Claim(w)
  BY <1>1 DEF Claim
<1> QED
  BY <1>1, <1>2 DEF OrderInv, Ordered

(* The transactions of receipts keep the order: row, entry, accounts.       *)
LEMMA ReceiptOrder ==
  ASSUME IInv, NEW w \in Workers, OrderInv(w), ReceiptNext(w)
  PROVE  OrderInv(w)'
<1>1. TypeOK
  BY DEF IInv
<1>2. ASSUME NEW op \in ReceiptOps, NEW r, NEW change, NEW s, NEW refs,
             Open(w, ReceiptJob(op, r, change, s), ReceiptLocks(op, r, refs))
      PROVE  OrderInv(w)'
  <2> DEFINE j == ReceiptJob(op, r, change, s)
  <2>1. j.op = op /\ j # Idle
    BY DEF ReceiptJob, Idle
  <2>2. \A l \in ReceiptLocks(op, r, refs) :
          /\ l[1] \in {3, 4, 5}
          /\ Shared(l) \/ l = RowLock(op, r) \/ l = EntryLock(r)
    BY SharedInOrder DEF ReceiptLocks, RowLock, EntryLock
  <2>3. Before(RowLock(op, r), EntryLock(r))
    BY DEF Before, RowLock, EntryLock
  <2>4. Ordered(ReceiptLocks(op, r, refs))
    BY <2>2, <2>3 DEF Ordered, InOrder
  <2> HIDE DEF j
  <2>5. \A l \in ReceiptLocks(op, r, refs) : Opening(j, l)
    BY <2>1, <2>2 DEF Opening
  <2> QED
    BY <1>1, <1>2, <2>1, <2>4, <2>5, OpenOrder DEF j
<1>3. CASE ReadReceipt(w)
  <2> DEFINE r == job[w].arg.receipt
  <2>1. PICK op, j, locks, new :
          /\ op \in ReceiptOps /\ new \in Postings
          /\ At(w, op, "read") /\ Proceed(w, j, locks) /\ j.stage = "decide" /\ j # Idle
          /\ locks \in {{}, AccountLocks({sources[r].holder, new.holder})}
    <3>1. PICK op \in ReceiptOps : At(w, op, "read") /\ ReadReceipt(w)
      BY <1>3 DEF ReadReceipt
    <3> DEFINE n == Posting(IF op = "source" THEN job[w].arg.change ELSE holderOf[r],
                            IF op = "entry" THEN job[w].arg.change ELSE entries[r])
               k == [job[w] EXCEPT !.stage = "decide", !.target = n,
                                   !.debit = DebitOf(sources[r], n),
                                   !.credit = CreditOf(sources[r], n)]
               wanted == IF sources[r].amount = 0 /\ n.amount = 0 THEN {}
                         ELSE AccountLocks({sources[r].holder, n.holder})
    <3>2. job[w] \in SourceJobs \cup EntryJobs /\ job[w].op = op
      BY <1>1, <3>1, JobKinds DEF At, TypeOK
    <3>3. Proceed(w, k, wanted)
      <4>1. ReceiptOps = {"source", "entry"} /\ op \in ReceiptOps
        OBVIOUS
      <4>2. PICK o \in ReceiptOps : At(w, o, "read") /\ (o = op => Proceed(w, k, wanted))
        BY <3>1 DEF ReadReceipt
      <4>3. o = op
        BY <3>1, <4>2 DEF At
      <4> QED
        BY <4>2, <4>3
    <3>4. k.stage = "decide" /\ k.op = op
      BY <3>2 DEF SourceJobs, EntryJobs, Working
    <3>5. n \in Postings
      BY <1>1, <3>1, <3>2, MoneyTypes DEF At, TypeOK, SourceJobs, EntryJobs, Working
    <3>6. k # Idle
      BY <3>4 DEF Idle
    <3>7. wanted \in {{}, AccountLocks({sources[r].holder, n.holder})}
      OBVIOUS
    <3> HIDE DEF k, n, wanted
    <3> QED
      BY <3>1, <3>3, <3>4, <3>5, <3>6, <3>7
  <2>2. job[w] \in SourceJobs \cup EntryJobs /\ job[w].op = op /\ job[w].stage = "read" /\ need[w] = {}
    BY <1>1, <2>1, JobKinds DEF At, TypeOK
  <2>3. r \in Receipts
    BY <2>2 DEF SourceJobs, EntryJobs, Working
  <2>4. sources[r].holder \in Users \cup {Nobody} /\ new.holder \in Users \cup {Nobody}
    BY <1>1, <2>1, <2>3 DEF TypeOK, Postings
  <2>5. \A l \in held[w] : l[1] \in {3, 4, 5}
    <3>1. job[w].op \in ReceiptOps /\ job[w].stage = "read"
      BY <2>1, <2>2
    <3>2. job[w] # Idle
      BY <3>1 DEF Idle
    <3>3. \A l \in held[w] : Opening(job[w], l)
      BY <3>1, <3>2 DEF OrderInv, Claim
    <3> QED
      BY <3>1, <3>3 DEF Opening
  <2>6. Ordered(AccountLocks({sources[r].holder, new.holder}))
    BY <2>4, HoldersOrdered DEF Ordered
  <2>7. Ordered(locks) /\ \A l \in locks : l[1] = 6
    BY <2>1, <2>4, <2>6, HoldersOrdered DEF Ordered
  <2>8. \A l \in held[w], m \in locks : InOrder(l, m)
    BY <2>5, <2>7 DEF InOrder, Before
  <2> QED
    BY <1>1, <2>1, <2>7, <2>8, ProceedOrder
<1>4. CASE DecideReceipt(w)
  <2> DEFINE j == [job[w] EXCEPT !.stage = "commit"]
  <2>1. PICK op \in ReceiptOps, refs \in References :
          /\ At(w, op, "decide")
          /\ End(w) \/ Proceed(w, j, {}) \/ Proceed(w, j, KeyShares(refs))
    BY <1>4 DEF DecideReceipt, Answer
  <2>2. job[w] \in SourceJobs \cup EntryJobs
    BY <1>1, <2>1, JobKinds DEF At, TypeOK
  <2>3. j.stage = "commit" /\ j.op = op
    BY <2>1, <2>2 DEF At, SourceJobs, EntryJobs, Working
  <2>4. j # Idle
    BY <2>3 DEF Idle
  <2> HIDE DEF j
  <2> QED
    BY <1>1, <2>1, <2>3, <2>4, SharedInOrder, ProceedShared, EndOrder
<1>5. CASE CommitReceipt(w)
  BY <1>1, <1>5, EndOrder DEF CommitReceipt
<1> QED
  BY <1>2, <1>3, <1>4, <1>5 DEF ReceiptNext, OpenSource, OpenEntry

(* Requests: site, key, accounts, users, although a handover takes its key  *)
(* late.                                                                    *)
LEMMA RequestOrder ==
  ASSUME IInv, NEW w \in Workers, OrderInv(w),
         \/ \E q \in Requests : OpenRequest(w, q)
         \/ ReadRequest(w) \/ DecideRequest(w) \/ CommitRequest(w)
  PROVE  OrderInv(w)'
<1>1. TypeOK
  BY DEF IInv
<1>2. ASSUME NEW q \in Requests, OpenRequest(w, q)
      PROVE  OrderInv(w)'
  <2> DEFINE j == [op |-> "request", stage |-> "read", arg |-> q, target |-> NoMove(q.site),
                   debit |-> NoMove(q.site), credit |-> NoMove(q.site)]
  <2>1. Open(w, j, OpeningLocks(q))
    BY <1>2 DEF OpenRequest
  <2>2. j # Idle /\ j.op = "request" /\ j.arg = q
    BY DEF Idle
  <2>3. \A l \in OpeningLocks(q) : Opening(j, l)
    BY <2>2 DEF OpeningLocks, Opening, SiteLock
  <2>4. Ordered(OpeningLocks(q))
    <3>1. Before(SiteLock(q.site), KeyLock(q.kind, q.by, q.key))
      BY DEF Before, SiteLock, KeyLock
    <3> QED
      BY <3>1 DEF OpeningLocks, Ordered, InOrder
  <2> HIDE DEF j
  <2> QED
    BY <1>1, <2>1, <2>2, <2>3, <2>4, OpenOrder
<1>3. CASE ReadRequest(w)
  <2> DEFINE q == job[w].arg
             j == [job[w] EXCEPT !.stage = "decide"]
             key == KeyLock(q.kind, q.by, q.key)
             holders == HolderLocks(q)
  <2>1. job[w].op = "request" /\ job[w].stage = "read" /\ need[w] = {}
    BY <1>3 DEF ReadRequest, At
  <2>2. job[w] \in RequestJobs /\ q \in Requests
    BY <1>1, <2>1, JobKinds DEF TypeOK, RequestJobs, Working
  <2>3. j.stage = "decide" /\ j.op = "request"
    BY <2>1, <2>2 DEF RequestJobs, Working
  <2>4. j # Idle
    BY <2>3 DEF Idle
  <2>5. Proceed(w, j, ClosingLocks(q)) \/ End(w)
    BY <1>3 DEF ReadRequest, Answer
  <2>6. \A l \in held[w] : l[1] = 1 \/ l = key
    BY <2>1 DEF OrderInv, Opening, Claim, Idle
  <2>7. Ordered(holders) /\ \A l \in holders : l[1] \in {6, 7}
    BY <2>2, HolderLocksOrdered
  <2>8. ClosingLocks(q) = {key} \cup holders /\ key[1] = 2
    BY DEF ClosingLocks, KeyLock
  <2> HIDE DEF j, key, holders, q
  <2>9. \A m \in holders : InOrder(key, m)
    BY <2>7, <2>8 DEF InOrder, Before
  <2>10. Ordered(ClosingLocks(q))
    BY <2>7, <2>8, <2>9 DEF Ordered
  <2>11. \A l \in held[w], m \in ClosingLocks(q) : l = m \/ InOrder(l, m)
    BY <2>6, <2>7, <2>8 DEF InOrder, Before
  <2> QED
    BY <1>1, <2>3, <2>4, <2>5, <2>10, <2>11, ProceedOrder, EndOrder
<1>4. CASE DecideRequest(w)
  <2> DEFINE j == [job[w] EXCEPT !.stage = "commit"]
  <2>1. At(w, "request", "decide") /\ (Proceed(w, j, RequestReferences(job[w].arg)) \/ End(w))
    BY <1>4 DEF DecideRequest, Answer
  <2>2. job[w] \in RequestJobs
    BY <1>1, <2>1, JobKinds DEF At, TypeOK
  <2>3. j.stage = "commit" /\ j.op = "request"
    BY <2>1, <2>2 DEF At, RequestJobs, Working
  <2>4. j # Idle
    BY <2>3 DEF Idle
  <2>5. \A l \in RequestReferences(job[w].arg) : Shared(l)
    BY SharedInOrder DEF RequestReferences
  <2> HIDE DEF j
  <2> QED
    BY <1>1, <2>1, <2>3, <2>4, <2>5, ProceedShared, EndOrder
<1>5. CASE CommitRequest(w)
  BY <1>1, <1>5, EndOrder DEF CommitRequest
<1> QED
  BY <1>2, <1>3, <1>4, <1>5

(* Resolutions: site, accounts, users, and the assignments, which are       *)
(* shared.                                                                  *)
LEMMA ResolveOrder ==
  ASSUME IInv, NEW w \in Workers, OrderInv(w),
         \/ \E i \in Transfers, action \in Resolutions, u \in Users : OpenResolve(w, i, action, u)
         \/ ReadRow(w) \/ DecideResolve(w) \/ CommitResolve(w)
  PROVE  OrderInv(w)'
<1>1. TypeOK
  BY DEF IInv
<1>2. ASSUME NEW i \in Transfers, NEW action \in Resolutions, NEW u \in Users, OpenResolve(w, i, action, u)
      PROVE  OrderInv(w)'
  <2> DEFINE site == transfers[i].site
             j == [op |-> "resolve", stage |-> "read",
                   arg |-> [id |-> i, action |-> action, actor |-> u],
                   target |-> NoMove(site), debit |-> NoMove(site), credit |-> NoMove(site)]
  <2>1. Open(w, j, {SiteLock(site)})
    BY <1>2 DEF OpenResolve
  <2>2. j # Idle /\ j.op = "resolve"
    BY DEF Idle
  <2> HIDE DEF j, site
  <2>3. \A l \in {SiteLock(site)} : Opening(j, l)
    BY <2>2 DEF Opening, SiteLock
  <2>4. Ordered({SiteLock(site)})
    BY DEF Ordered
  <2> QED
    BY <1>1, <2>1, <2>2, <2>3, <2>4, OpenOrder
<1>3. CASE ReadRow(w)
  <2> DEFINE row == transfers[job[w].arg.id]
             j == [job[w] EXCEPT !.stage = "decide"]
             locks == ResolveLocks(row, job[w].arg.action)
             holders == HolderLocks(row)
  <2>1. job[w].op = "resolve" /\ job[w].stage = "read" /\ need[w] = {}
    BY <1>3 DEF ReadRow, At
  <2>2. job[w] \in ResolveJobs /\ row \in Rows
    BY <2>1, ResolvedIsThere
  <2>3. j.stage = "decide" /\ j.op = "resolve"
    BY <2>1, <2>2 DEF ResolveJobs, Working
  <2>4. j # Idle
    BY <2>3 DEF Idle
  <2>5. Proceed(w, j, locks) \/ End(w)
    BY <1>3 DEF ReadRow, Answer
  <2>6. \A l \in held[w] : l[1] = 1
    BY <2>1 DEF OrderInv, Opening, Claim, Idle
  <2>7. Ordered(holders) /\ \A l \in holders : l[1] \in {6, 7}
    BY <2>2, HolderLocksOrdered
  <2>8. \A l \in locks : l \in holders \/ Shared(l)
    <3> HIDE DEF row
    <3>1. /\ row.kind = "handover" => locks = holders
          /\ row.kind = "imprest" /\ job[w].arg.action = "accept"
               => locks = holders \cup {MemberLock(u, row.site) : u \in {row.from, row.to} \ Admins}
          /\ row.kind # "handover" /\ ~(row.kind = "imprest" /\ job[w].arg.action = "accept")
               => locks = {}
      BY DEF ResolveLocks
    <3> QED
      BY <3>1, SharedInOrder
  <2> HIDE DEF j, locks, holders, row
  <2>9. Ordered(locks)
    BY <2>7, <2>8 DEF Ordered, InOrder
  <2>10. \A l \in held[w], m \in locks : InOrder(l, m)
    BY <2>6, <2>7, <2>8 DEF InOrder, Before
  <2> QED
    BY <1>1, <2>3, <2>4, <2>5, <2>9, <2>10, ProceedOrder, EndOrder
<1>4. CASE DecideResolve(w)
  <2>1. At(w, "resolve", "decide")
    BY <1>4 DEF DecideResolve
  <2>2. job[w] \in ResolveJobs
    BY <1>1, <2>1, JobKinds DEF At, TypeOK
  <2>3. \/ End(w)
        \/ \E j, locks : /\ Proceed(w, j, locks) /\ j.stage = "commit" /\ j.op = "resolve"
                         /\ \A l \in locks : Shared(l)
    <3> DEFINE row == transfers[job[w].arg.id]
               settles == Settles(row, job[w].arg.action, job[w].arg.actor)
               k == [job[w] EXCEPT !.stage = "commit",
                                   !.debit = IF settles THEN Payment(row) ELSE @,
                                   !.credit = IF settles THEN Receipt(row) ELSE @]
               refs == ResolveReferences(row, job[w].arg.action, job[w].arg.actor)
    <3>1. Proceed(w, k, refs) \/ End(w)
      BY <1>4 DEF DecideResolve, Answer
    <3>2. k.stage = "commit" /\ k.op = "resolve"
      BY <2>1, <2>2 DEF At, ResolveJobs, Working
    <3>3. \A l \in refs : Shared(l)
      BY SharedInOrder DEF ResolveReferences
    <3> HIDE DEF k, refs
    <3> QED
      BY <3>1, <3>2, <3>3
  <2>4. \A j : j.op = "resolve" => j # Idle
    BY DEF Idle
  <2> QED
    BY <1>1, <2>3, <2>4, ProceedShared, EndOrder
<1>5. CASE CommitResolve(w)
  BY <1>1, <1>5, EndOrder DEF CommitResolve
<1> QED
  BY <1>2, <1>3, <1>4, <1>5

(* Every step of every transaction keeps the order of locks.                *)
OrderedLocks == \A w \in Workers : OrderInv(w)

LEMMA OrderStep == IInv /\ OrderedLocks /\ [Next]_vars => OrderedLocks'
<1> SUFFICES ASSUME IInv, OrderedLocks, [Next]_vars
             PROVE  OrderedLocks'
  OBVIOUS
<1>1. ASSUME NEW w \in Workers, WorkerStep(w)
      PROVE  OrderInv(w)'
  <2>1. OrderInv(w) /\ TypeOK
    BY DEF OrderedLocks, IInv
  <2>2. CASE TakeLock(w) \/ ShareAssignments(w)
    BY <2>1, <2>2, TakeLockOrder, ShareOrder
  <2>3. CASE Abort(w)
    BY <2>1, <2>3, EndOrder DEF Abort, Answer
  <2>4. CASE ReceiptNext(w)
    BY <2>1, <2>4, ReceiptOrder
  <2>5. CASE TransferNext(w)
    BY <2>1, <2>5, RequestOrder, ResolveOrder DEF TransferNext
  <2> QED
    BY <1>1, <2>2, <2>3, <2>4, <2>5 DEF WorkerStep
<1>2. ASSUME NEW v \in Workers, job'[v] = job[v], need'[v] = need[v], held'[v] = held[v]
      PROVE  OrderInv(v)'
  BY <1>2 DEF OrderedLocks, OrderInv, Claim
<1>3. ASSUME NEW w \in Workers, WorkerStep(w)
      PROVE  OrderedLocks'
  <2>1. \A v \in Workers \ {w} : job'[v] = job[v] /\ need'[v] = need[v] /\ held'[v] = held[v]
    BY <1>3, OthersUntouched DEF OthersKept, IInv
  <2> QED
    BY <1>1, <1>2, <1>3, <2>1 DEF OrderedLocks
<1>4. CASE UNCHANGED <<job, need, held>>
  BY <1>2, <1>4 DEF OrderedLocks
<1> QED
  BY <1>3, <1>4 DEF Next, WorkerStep, Assign, Unassign, vars

(* Of transactions that all wait for one another, the one whose next lock   *)
(* comes last would wait for one that needs a later lock still.             *)
LEMMA OrderPreventsCycles == IInv /\ OrderedLocks => NoExplicitCycle
<1> SUFFICES ASSUME IInv, OrderedLocks, NEW S \in SUBSET Workers, S # {},
                    \A w \in S : \E v \in S : ExplicitlyWaitsFor(w, v)
             PROVE  FALSE
  BY DEF NoExplicitCycle
<1> DEFINE Blocking(w, l) == /\ l \in NextLocks(w) /\ ~Shared(l)
                             /\ \E v \in S : l \in held[v]
           next == [w \in S |-> CHOOSE l : Blocking(w, l)]
           R == {p \in S \X S : Before(next[p[1]], next[p[2]])}
<1>1. ASSUME NEW w \in S
      PROVE  /\ next[w] \in need[w] /\ next[w] \in LockNames /\ ~Shared(next[w])
             /\ \E v \in S : next[w] \in held[v]
  <2>1. \E l : Blocking(w, l)
    BY DEF ExplicitlyWaitsFor
  <2> HIDE DEF Blocking
  <2>2. Blocking(w, next[w])
    BY <2>1
  <2> HIDE DEF next
  <2>3. need[w] \subseteq LockNames
    BY DEF IInv, TypeOK
  <2> QED
    BY <2>2, <2>3 DEF Blocking, NextLocks
<1> HIDE DEF next
<1>2. /\ \A x \in S : <<x, x>> \notin R
      /\ \A x, y, z \in S : <<x, y>> \in R /\ <<y, z>> \in R => <<x, z>> \in R
      /\ \A x, y \in S : <<x, y>> \in R <=> Before(next[x], next[y])
  BY <1>1, BeforeIsOrder
<1>3. IsFiniteSet(S)
  BY WorkersAssumption, FS_Subset
<1>4. PICK x \in S : \A y \in S : <<x, y>> \notin R
  <2> HIDE DEF R
  <2> QED
    BY <1>2, <1>3, MaximalElement
<1>5. PICK y \in S : next[x] \in held[y]
  BY <1>1
<1>6. Before(next[x], next[y])
  BY <1>1, <1>5 DEF OrderedLocks, OrderInv, InOrder
<1> QED
  BY <1>2, <1>4, <1>6

(* However many transactions are open, a ring of waits always has a foreign *)
(* key in it: receipts, handovers and imprest transfers take the site, the  *)
(* key, the row, the entry, the accounts and the users in this order, and   *)
(* only the KEY SHARE of a users row comes out of turn.                     *)
THEOREM LocksNeverCycle == Spec => []NoExplicitCycle
<1>1. ASSUME Init
      PROVE  OrderedLocks
  <2>1. \A w \in Workers : job[w] = Idle /\ need[w] = {} /\ held[w] = {}
    BY <1>1 DEF Init
  <2>2. Idle.op = "idle"
    BY DEF Idle
  <2> QED
    BY <2>1 DEF OrderedLocks, OrderInv, Ordered
<1>2. Spec => []OrderedLocks
  BY <1>1, OrderStep, InductiveInvariant, PTL DEF Spec
<1> QED
  BY <1>2, OrderPreventsCycles, InductiveInvariant, PTL

-----------------------------------------------------------------------------
(* Every transaction keeps the promise of the Cash Wallet.                  *)

(* A receipt's commit is one change of the receipt.                         *)
LEMMA ReceiptIsPromised ==
  ASSUME IInv, IInv', NEW w \in Workers, CommitReceipt(w)
  PROVE  Promise!Next
<1> DEFINE j == job[w]
           r == j.arg.receipt
<1>1. /\ j.op \in ReceiptOps /\ j.stage = "commit"
      /\ holderOf' = IF j.op = "source" THEN [holderOf EXCEPT ![r] = j.arg.change] ELSE holderOf
      /\ entries' = IF j.op = "entry" THEN [entries EXCEPT ![r] = j.arg.change] ELSE entries
      /\ sources' = [sources EXCEPT ![r] = j.target]
      /\ Post(r, j.debit, j.credit) /\ transfers' = transfers
  BY DEF CommitReceipt, At
<1>2. j \in SourceJobs \cup EntryJobs
  BY <1>1, JobKinds DEF IInv, TypeOK
<1>3. r \in Receipts /\ j.target \in Postings
  BY <1>2 DEF SourceJobs, EntryJobs, Working
<1>4. /\ j.debit = DebitOf(sources[r], j.target) /\ j.credit = CreditOf(sources[r], j.target)
  BY <1>1 DEF IInv, WorkerInv, ReceiptInv
<1> HIDE DEF j, r
<1>5. /\ sources[r] \in Postings /\ sources[r] = Posting(holderOf[r], entries[r])
      /\ custody \in Books /\ DOMAIN sources = Receipts
  BY <1>3 DEF IInv, TypeOK, SourcesMirror
<1>6. j.target = Posting(holderOf'[r], entries'[r])
  <2>1. sources'[r] = j.target
    BY <1>1, <1>3, <1>5
  <2> QED
    BY <1>3, <2>1 DEF IInv, SourcesMirror
<1>7. custody' = Credit(Debit(custody, Posting(holderOf[r], entries[r])), Posting(holderOf'[r], entries'[r]))
  BY <1>1, <1>3, <1>4, <1>5, <1>6, DifferenceIsMove DEF Post
<1>8. /\ holderOf' = [holderOf EXCEPT ![r] = holderOf'[r]]
      /\ entries' = [entries EXCEPT ![r] = entries'[r]]
      /\ holderOf'[r] \in Users \cup {Nobody} /\ entries'[r] \in [amount : Sums, site : Sites]
  BY <1>1, <1>3 DEF IInv, TypeOK
<1>9. Promise!Solvent(custody')
  BY DEF IInv, NeverOverdrawn, Promise!Solvent
<1>10. Promise!ChangeReceipt(r, holderOf'[r], entries'[r])
  BY <1>1, <1>7, <1>8, <1>9 DEF Promise!ChangeReceipt, Promise!Credit, Promise!Debit, Promise!Posting,
                                Credit, Debit, Posting
<1> QED
  BY <1>3, <1>8, <1>10 DEF Promise!Next, Promise!Sums, Sums

(* A request's commit opens one transfer, whose key nobody used before.     *)
LEMMA RequestIsPromised ==
  ASSUME IInv, NEW w \in Workers, CommitRequest(w)
  PROVE  Promise!Next
<1> DEFINE q == job[w].arg
<1>1. PICK i \in Transfers :
        transfers[i] = NoRow /\ transfers' = [transfers EXCEPT ![i] = Pending(q)]
  BY DEF CommitRequest
<1>2. /\ job[w].op = "request" /\ ~Known(q)
      /\ UNCHANGED <<custody, holderOf, entries>>
  BY DEF CommitRequest, At
<1>3. q \in Requests
  <2>1. job[w] \in RequestJobs
    BY <1>2, JobKinds DEF IInv, TypeOK
  <2> QED
    BY <2>1 DEF RequestJobs, Working
<1> HIDE DEF q
<1>4. Promise!Request(i, q)
  BY <1>1, <1>2 DEF Promise!Request, Promise!SameRequest, Promise!Pending, Promise!NoRow,
                    Known, SameRequest, Pending, NoRow
<1> QED
  BY <1>3, <1>4 DEF Promise!Next, Promise!Requests, Requests

(* A resolution's commit resolves one pending transfer and moves its money  *)
(* only if that settles it.                                                 *)
LEMMA ResolveIsPromised ==
  ASSUME IInv, IInv', NEW w \in Workers, CommitResolve(w)
  PROVE  Promise!Next
<1> DEFINE j == job[w]
           i == j.arg.id
           action == j.arg.action
           actor == j.arg.actor
           row == transfers[i]
           settles == Settles(row, action, actor)
<1>1. /\ j.op = "resolve" /\ j.stage = "commit"
      /\ transfers' = [transfers EXCEPT ![i] = Resolved(row, action, actor)]
      /\ Post(i, j.debit, j.credit)
      /\ UNCHANGED <<holderOf, entries>>
  BY DEF CommitResolve, At
<1>2. /\ i \in Transfers /\ action \in Resolutions /\ actor \in Users /\ ResolveInv(w)
  BY <1>1, ResolvedIsThere
<1>3. /\ row # NoRow /\ row.status = "pending" /\ MayResolve(row, action, actor)
      /\ j.debit = IF settles THEN Payment(row) ELSE NoMove(row.site)
      /\ j.credit = IF settles THEN Receipt(row) ELSE NoMove(row.site)
  BY <1>1, <1>2 DEF ResolveInv
<1> HIDE DEF settles, row, action, actor, i, j
<1>4. custody' = IF settles THEN Credit(Debit(custody, Payment(row)), Receipt(row)) ELSE custody
  <2>1. custody' = Credit(Debit(custody, j.debit), j.credit)
    BY <1>1 DEF Post
  <2>2. CASE settles
    BY <1>3, <2>1, <2>2
  <2>3. CASE ~settles
    <3>1. j.debit.amount = 0 /\ j.credit.amount = 0
      BY <1>3, <2>3 DEF NoMove
    <3> QED
      BY <2>1, <2>3, <3>1 DEF Debit, Credit
  <2> QED
    BY <2>2, <2>3
<1>5. Promise!Solvent(custody')
  BY DEF IInv, NeverOverdrawn, Promise!Solvent
<1>6. /\ Promise!MayResolve(row, action, actor) = MayResolve(row, action, actor)
      /\ Promise!Settles(row, action, actor) = settles
      /\ Promise!NoRow = NoRow
      /\ Promise!Credit(Promise!Debit(custody, Promise!Payment(row)), Promise!Receipt(row))
           = Credit(Debit(custody, Payment(row)), Receipt(row))
  BY DEF Promise!MayResolve, Promise!Settles, Promise!NoRow, Promise!Credit, Promise!Debit,
         Promise!Payment, Promise!Receipt, MayResolve, Settles, NoRow, Credit, Debit, Payment,
         Receipt, settles
<1>7. Promise!Resolved(row, action, actor) = Resolved(row, action, actor)
  BY DEF Promise!Resolved, Promise!Consented, Promise!Settles, Resolved, Consented, Settles
<1>8. Promise!Resolve(i, action, actor)
  BY <1>1, <1>3, <1>4, <1>5, <1>6, <1>7 DEF Promise!Resolve, row
<1> QED
  BY <1>2, <1>8 DEF Promise!Next, Promise!Resolutions, Resolutions

(* A step that is not a commit changes nothing the promise speaks of.       *)
LEMMA QuietSteps ==
  ASSUME [Next]_vars
  PROVE  \/ UNCHANGED Promise!vars
         \/ \E w \in Workers : CommitReceipt(w) \/ CommitRequest(w) \/ CommitResolve(w)
<1>1. ASSUME NEW w \in Workers, TakeLock(w) \/ ShareAssignments(w) \/ Abort(w)
      PROVE  UNCHANGED books
  BY <1>1 DEF TakeLock, ShareAssignments, Abort, Answer
<1>2. ASSUME NEW w \in Workers, ReceiptNext(w)
      PROVE  UNCHANGED books \/ CommitReceipt(w)
  BY <1>2 DEF ReceiptNext, OpenSource, OpenEntry, ReadReceipt, DecideReceipt, Open, Proceed, Answer
<1>3. ASSUME NEW w \in Workers, TransferNext(w)
      PROVE  UNCHANGED books \/ CommitRequest(w) \/ CommitResolve(w)
  BY <1>3 DEF TransferNext, OpenRequest, ReadRequest, DecideRequest, OpenResolve, ReadRow,
              DecideResolve, Open, Proceed, Answer
<1>4. UNCHANGED books => UNCHANGED Promise!vars
  BY DEF books, Promise!vars
<1> QED
  BY <1>1, <1>2, <1>3, <1>4 DEF Next, Assign, Unassign, vars

(* Side by side and with stale reads, the transactions of the wallet do     *)
(* what the promise does in single steps: each commit is one change of a    *)
(* receipt, one request or one resolution, and everything else is unseen.   *)
THEOREM PromiseKept == Spec => CustodyImplemented
<1>1. Init => Promise!Init
  BY DEF Init, Promise!Init, Nothing, NoRow, Promise!Nothing, Promise!NoRow
<1>2. ASSUME IInv, IInv', [Next]_vars
      PROVE  [Promise!Next]_Promise!vars
  BY <1>2, QuietSteps, ReceiptIsPromised, RequestIsPromised, ResolveIsPromised
<1> QED
  BY <1>1, <1>2, InductiveInvariant, PTL DEF Spec, CustodyImplemented, Promise!Spec

-----------------------------------------------------------------------------
(* The gate in front of these transactions, for every set of writers and    *)
(* every setting: the permit counter is exact, the queue is exact, both     *)
(* bounds hold and no permit idles while a request waits.                   *)

(* The inductive invariant.  WithinBounds needs PermitConservation only for *)
(* the reader; NoIdlePermit needs the hand-over branch of Release, which    *)
(* needs QueueIsQueued to know that the new holder held nothing before.     *)
GateInv ==
  /\ GateTypeOK
  /\ QueueIsQueued
  /\ PermitConservation
  /\ NoIdlePermit
  /\ WithinBounds

(* Limit is at least one, so a permit can always be obtained, and it leaves *)
(* two clients of any pool of three or more: admissionFor().                *)
LEMMA LimitPositive == Limit \in Nat \ {0} /\ (PoolMax > 2 => Limit <= PoolMax - 2)
  BY SettingsAssumption DEF Limit, Smaller, Larger

(* RemoveAt drops one position and keeps the order of the others.           *)
LEMMA RemoveAtProperties ==
  ASSUME NEW S, NEW s \in Seq(S), NEW i \in 1..Len(s)
  PROVE  /\ RemoveAt(s, i) \in Seq(S)
         /\ Len(RemoveAt(s, i)) = Len(s) - 1
         /\ \A j \in 1..(Len(s) - 1) :
              RemoveAt(s, i)[j] = s[IF j < i THEN j ELSE j + 1]
<1> DEFINE a == SubSeq(s, 1, i-1)
           b == SubSeq(s, i+1, Len(s))
<1>0. Len(s) \in Nat
  BY LenProperties
<1>1. /\ a \in Seq(S)
      /\ Len(a) = i - 1
      /\ \A k \in 1..(i-1) : a[k] = s[k]
  <2>1. \A k \in 1..(i-1) : s[k] \in S
    BY <1>0, ElementOfSeq
  <2>2. /\ SubSeq(s, 1, i-1) \in Seq(S)
        /\ Len(SubSeq(s, 1, i-1)) = IF 1 <= i-1 THEN i-1-1+1 ELSE 0
        /\ \A k \in 1..(i-1-1+1) : SubSeq(s, 1, i-1)[k] = s[1+k-1]
    BY <1>0, <2>1, SubSeqProperties
  <2>3. QED
    BY <1>0, <2>2
<1>2. /\ b \in Seq(S)
      /\ Len(b) = Len(s) - i
      /\ \A k \in 1..(Len(s)-i) : b[k] = s[i+k]
  <2>1. \A k \in (i+1)..Len(s) : s[k] \in S
    BY <1>0, ElementOfSeq
  <2>2. /\ SubSeq(s, i+1, Len(s)) \in Seq(S)
        /\ Len(SubSeq(s, i+1, Len(s))) = IF i+1 <= Len(s) THEN Len(s)-(i+1)+1 ELSE 0
        /\ \A k \in 1..(Len(s)-(i+1)+1) : SubSeq(s, i+1, Len(s))[k] = s[i+1+k-1]
    BY <1>0, <2>1, SubSeqProperties
  <2>3. QED
    BY <1>0, <2>2
<1> HIDE DEF a, b
<1>3. /\ a \o b \in Seq(S)
      /\ Len(a \o b) = Len(a) + Len(b)
      /\ \A k \in 1..(Len(a) + Len(b)) :
           (a \o b)[k] = IF k <= Len(a) THEN a[k] ELSE b[k - Len(a)]
  BY <1>1, <1>2, ConcatProperties
<1>4. RemoveAt(s, i) = a \o b
  BY DEF RemoveAt, a, b
<1>5. Len(a \o b) = Len(s) - 1
  BY <1>0, <1>1, <1>2, <1>3
<1>6. ASSUME NEW j \in 1..(Len(s) - 1)
      PROVE  (a \o b)[j] = s[IF j < i THEN j ELSE j + 1]
  <2>1. CASE j < i
    <3>1. j <= Len(a) /\ j \in 1..(Len(a) + Len(b)) /\ a[j] = s[j]
      BY <2>1, <1>0, <1>1, <1>2
    <3>2. QED
      BY <2>1, <3>1, <1>3
  <2>2. CASE ~(j < i)
    <3>1. /\ ~(j <= Len(a)) /\ j \in 1..(Len(a) + Len(b))
          /\ j - Len(a) = j - (i - 1) /\ j - (i - 1) \in 1..(Len(s) - i)
          /\ i + (j - (i - 1)) = j + 1
      BY <2>2, <1>0, <1>1, <1>2
    <3>2. b[j - Len(a)] = s[j + 1]
      BY <3>1, <1>2
    <3>3. QED
      BY <2>2, <3>1, <3>2, <1>3
  <2>3. QED
    BY <2>1, <2>2
<1>7. QED
  BY <1>3, <1>4, <1>5, <1>6

(* Only finitely many writes can hold the admission gate at once.           *)
LEMMA HoldersFinite == IsFiniteSet(Holders) /\ Cardinality(Holders) \in Nat
<1>1. Holders \in SUBSET Writers
  BY DEF Holders
<1>2. QED
  BY <1>1, WritersAssumption, FS_Subset, FS_CardinalityType

(* A release keeps the count exact, whether it hands over or lowers it.     *)
LEMMA ReleaseKeepsInvariant ==
  ASSUME GateInv, NEW w \in Writers, w \in Holders,
         NEW outcome \in {"done", "failed"}, Release(w, outcome), others' = others
  PROVE  GateInv'
<1> USE DEF GateInv
<1>1. CASE waiting = <<>>
  <2>1. Holders' = Holders \ {w}
    BY <1>1 DEF Release, Holders, GateTypeOK
  <2>2. Cardinality(Holders') = active - 1 /\ active \in Nat \ {0}
    <3>1. Cardinality(Holders \ {w}) = Cardinality(Holders) - 1
      BY HoldersFinite, FS_RemoveElement
    <3>2. Holders # {}
      OBVIOUS
    <3>3. Cardinality(Holders) # 0
      BY <3>2, HoldersFinite, FS_EmptySet
    <3>4. QED
      BY <2>1, <3>1, <3>3, HoldersFinite DEF PermitConservation
  <2>3. GateTypeOK'
    BY <1>1, <2>2 DEF Release, GateTypeOK, Phases
  <2>4. QueueIsQueued'
    BY <1>1 DEF Release, GateTypeOK, QueueIsQueued, Holders
  <2>5. PermitConservation' /\ NoIdlePermit' /\ WithinBounds'
    BY <1>1, <2>2, LimitPositive DEF Release, PermitConservation, NoIdlePermit, WithinBounds
  <2>6. QED
    BY <2>3, <2>4, <2>5
<1>2. CASE waiting # <<>>
  <2> DEFINE h == Head(waiting)
  <2>1. /\ h \in Writers /\ h = waiting[1] /\ Len(waiting) \in Nat \ {0}
        /\ waiting' = Tail(waiting) /\ Tail(waiting) \in Seq(Writers)
        /\ Len(Tail(waiting)) = Len(waiting) - 1
        /\ \A i \in 1..(Len(waiting) - 1) : Tail(waiting)[i] = waiting[i+1]
    BY <1>2, HeadTailProperties, LenProperties, EmptySeq DEF Release, GateTypeOK
  <2>2. pc[h] = "queued" /\ h # w /\ h \notin Holders
    BY <2>1 DEF QueueIsQueued, Holders
  <2>3. pc' = [pc EXCEPT ![w] = outcome, ![h] = "permitted"] /\ active' = active
    BY <1>2 DEF Release
  <2> HIDE DEF h
  <2>4. Holders' = (Holders \ {w}) \cup {h}
    BY <2>1, <2>2, <2>3 DEF Holders, GateTypeOK
  <2>5. Cardinality(Holders') = Cardinality(Holders)
    <3>1. /\ IsFiniteSet(Holders \ {w})
          /\ Cardinality(Holders \ {w}) = Cardinality(Holders) - 1
      BY HoldersFinite, FS_RemoveElement
    <3>2. Cardinality((Holders \ {w}) \cup {h}) = Cardinality(Holders \ {w}) + 1
      BY <2>2, <3>1, FS_AddElement
    <3>3. QED
      BY <2>4, <3>1, <3>2, HoldersFinite
  <2>6. GateTypeOK'
    BY <2>1, <2>3 DEF GateTypeOK, Phases
  <2>7. QueueIsQueued'
    <3>1. \A x \in Writers : x # h /\ x # w => pc'[x] = pc[x]
      BY <2>3 DEF GateTypeOK
    <3>2. pc'[h] = "permitted" /\ pc'[w] = outcome
      BY <2>1, <2>2, <2>3 DEF GateTypeOK
    <3>3. ASSUME NEW x \in Writers, pc'[x] = "queued"
          PROVE  \E i \in 1..Len(waiting') : waiting'[i] = x
      <4>1. pc[x] = "queued" /\ x # h
        BY <3>1, <3>2, <3>3
      <4>2. PICK i \in 1..Len(waiting) : waiting[i] = x
        BY <4>1 DEF QueueIsQueued
      <4>3. i # 1
        BY <4>1, <4>2, <2>1
      <4>4. i - 1 \in 1..(Len(waiting) - 1) /\ waiting'[i-1] = x
        BY <4>2, <4>3, <2>1
      <4>5. QED
        BY <4>4, <2>1
    <3>4. ASSUME NEW x \in Writers, NEW i \in 1..Len(waiting'), waiting'[i] = x
          PROVE  pc'[x] = "queued"
      <4>1. i + 1 \in 1..Len(waiting) /\ waiting[i+1] = x /\ i + 1 # 1
        BY <2>1, <3>4
      <4>2. pc[x] = "queued" /\ x # h /\ x # w
        BY <4>1, <2>1 DEF QueueIsQueued, Holders
      <4>3. QED
        BY <4>2, <3>1
    <3>5. \A i, j \in 1..Len(waiting') : waiting'[i] = waiting'[j] => i = j
      BY <2>1 DEF QueueIsQueued
    <3>6. QED
      BY <3>3, <3>4, <3>5 DEF QueueIsQueued
  <2>8. PermitConservation'
    BY <2>3, <2>5 DEF PermitConservation
  <2>9. NoIdlePermit' /\ WithinBounds'
    BY <1>2, <2>1, <2>3, SettingsAssumption DEF NoIdlePermit, WithinBounds
  <2>10. QED
    BY <2>6, <2>7, <2>8, <2>9
<1>3. QED
  BY <1>1, <1>2

(* The gate starts empty.                                                   *)
LEMMA InitEstablishes == GateInit => GateInv
<1> SUFFICES ASSUME GateInit PROVE GateInv
  OBVIOUS
<1>1. Holders = {}
  BY DEF GateInit, Holders
<1>2. Cardinality(Holders) = 0
  BY <1>1, FS_EmptySet
<1>3. GateTypeOK
  BY SettingsAssumption DEF GateInit, GateTypeOK, Phases
<1>4. Len(waiting) = 0
  BY DEF GateInit
<1>5. QueueIsQueued
  BY <1>4 DEF GateInit, QueueIsQueued
<1>6. QED
  BY <1>2, <1>3, <1>4, <1>5, LimitPositive, SettingsAssumption
     DEF GateInit, GateInv, PermitConservation, NoIdlePermit, WithinBounds

-----------------------------------------------------------------------------
(* The actions that change nobody's permit: the count is carried over.      *)

(* A step that moves no write between holders and waiters leaves the        *)
(* holders alone.                                                           *)
LEMMA SameHolders ==
  ASSUME GateInv, Holders' = Holders, active' = active
  PROVE  PermitConservation'
  BY DEF GateInv, PermitConservation

(* Admitting a write into a free slot keeps the gate's invariant.           *)
LEMMA AcquireFreeKeepsInvariant ==
  ASSUME GateInv, NEW w \in Writers, AcquireFree(w)
  PROVE  GateInv'
<1> USE DEF GateInv
<1>1. Holders' = Holders \cup {w} /\ w \notin Holders
  BY DEF AcquireFree, Holders, GateTypeOK
<1>2. Cardinality(Holders') = Cardinality(Holders) + 1
  BY <1>1, HoldersFinite, FS_AddElement
<1>3. PermitConservation'
  BY <1>2 DEF AcquireFree, PermitConservation
<1>4. Len(waiting) = 0
  <2>1. waiting = <<>>
    BY LimitPositive DEF AcquireFree, NoIdlePermit, GateTypeOK
  <2>2. QED
    BY <2>1, EmptySeq
<1>5. GateTypeOK'
  BY DEF AcquireFree, GateTypeOK, Phases
<1>6. QueueIsQueued'
  BY <1>4 DEF AcquireFree, QueueIsQueued, GateTypeOK
<1>7. NoIdlePermit' /\ WithinBounds'
  <2>1. waiting = <<>>
    BY LimitPositive DEF AcquireFree, NoIdlePermit, GateTypeOK
  <2>2. QED
    BY <2>1, LimitPositive DEF AcquireFree, NoIdlePermit, WithinBounds, GateTypeOK
<1>8. QED
  BY <1>3, <1>5, <1>6, <1>7

(* Queueing a write when every slot is taken keeps the gate's invariant.    *)
LEMMA AcquireQueuedKeepsInvariant ==
  ASSUME GateInv, NEW w \in Writers, AcquireQueued(w)
  PROVE  GateInv'
<1> USE DEF GateInv
<1>1. /\ waiting' \in Seq(Writers)
      /\ Len(waiting) \in Nat /\ Len(waiting') = Len(waiting) + 1
      /\ \A i \in 1..Len(waiting) : waiting'[i] = waiting[i]
      /\ waiting'[Len(waiting) + 1] = w
  BY AppendProperties, LenProperties DEF AcquireQueued, GateTypeOK
<1>2. pc'[w] = "queued" /\ pc[w] = "idle"
      /\ \A x \in Writers : x # w => pc'[x] = pc[x]
  BY DEF AcquireQueued, GateTypeOK
<1>3. GateTypeOK'
  BY <1>1 DEF AcquireQueued, GateTypeOK, Phases
<1>4. Holders' = Holders
  BY <1>2 DEF AcquireQueued, Holders
<1>5. PermitConservation'
  BY <1>4, SameHolders DEF AcquireQueued
<1>6. QueueIsQueued'
  <2>1. \A i \in 1..Len(waiting) : waiting[i] # w
    BY <1>2 DEF QueueIsQueued
  <2>2. \A x \in Writers :
          pc'[x] = "queued" <=> \E i \in 1..Len(waiting') : waiting'[i] = x
    <3>1. ASSUME NEW x \in Writers, x # w
          PROVE  pc'[x] = "queued" <=> \E i \in 1..Len(waiting') : waiting'[i] = x
      <4>1. (\E i \in 1..Len(waiting') : waiting'[i] = x)
              <=> \E i \in 1..Len(waiting) : waiting[i] = x
        BY <1>1, <3>1
      <4>2. QED
        BY <4>1, <1>2, <3>1 DEF QueueIsQueued
    <3>2. \E i \in 1..Len(waiting') : waiting'[i] = w
      BY <1>1
    <3>3. QED
      BY <3>1, <3>2, <1>2
  <2>3. \A i, j \in 1..Len(waiting') : waiting'[i] = waiting'[j] => i = j
    BY <1>1, <2>1 DEF QueueIsQueued
  <2>4. QED
    BY <2>2, <2>3 DEF QueueIsQueued
<1>7. NoIdlePermit' /\ WithinBounds'
  BY <1>1, LimitPositive, SettingsAssumption
     DEF AcquireQueued, NoIdlePermit, WithinBounds, GateTypeOK
<1>8. QED
  BY <1>3, <1>5, <1>6, <1>7

(* A waiter that gives up leaves the queue and keeps the gate's invariant.  *)
LEMMA QueueTimeoutKeepsInvariant ==
  ASSUME GateInv, NEW w \in Writers, QueueTimeout(w)
  PROVE  GateInv'
<1> USE DEF GateInv
<1>1. PICK i \in 1..Len(waiting) :
        /\ waiting[i] = w
        /\ waiting' = RemoveAt(waiting, i)
        /\ pc' = [pc EXCEPT ![w] = "busy"]
        /\ UNCHANGED <<active, others>>
  BY DEF QueueTimeout
<1>2. /\ waiting' \in Seq(Writers)
      /\ Len(waiting) \in Nat /\ Len(waiting') = Len(waiting) - 1
      /\ \A j \in 1..(Len(waiting) - 1) :
           waiting'[j] = waiting[IF j < i THEN j ELSE j + 1]
  BY <1>1, RemoveAtProperties, LenProperties DEF GateTypeOK
<1>3. pc'[w] = "busy" /\ pc[w] = "queued"
      /\ \A x \in Writers : x # w => pc'[x] = pc[x]
  BY <1>1 DEF GateTypeOK, QueueIsQueued
<1>4. GateTypeOK'
  BY <1>1, <1>2 DEF GateTypeOK, Phases
<1>5. PermitConservation'
  <2>1. Holders' = Holders
    BY <1>3 DEF Holders
  <2>2. QED
    BY <1>1, <2>1, SameHolders
<1>6. QueueIsQueued'
  <2>1. ASSUME NEW x \in Writers, pc'[x] = "queued"
        PROVE  \E j \in 1..Len(waiting') : waiting'[j] = x
    <3>1. x # w /\ pc[x] = "queued"
      BY <1>3, <2>1
    <3>2. PICK k \in 1..Len(waiting) : waiting[k] = x
      BY <3>1 DEF QueueIsQueued
    <3>3. k # i
      BY <1>1, <3>1, <3>2
    <3>4. CASE k < i
      BY <1>2, <3>2, <3>4
    <3>5. CASE k > i
      <4>1. k - 1 \in 1..(Len(waiting) - 1) /\ ~(k - 1 < i) /\ (k - 1) + 1 = k
        BY <1>2, <3>5
      <4>2. waiting'[k - 1] = x
        BY <4>1, <1>2, <3>2
      <4>3. QED
        BY <4>1, <4>2, <1>2
    <3>6. QED
      BY <3>3, <3>4, <3>5
  <2>2. ASSUME NEW x \in Writers, NEW j \in 1..Len(waiting'), waiting'[j] = x
        PROVE  pc'[x] = "queued"
    <3>1. PICK k \in 1..Len(waiting) : k # i /\ waiting[k] = x
      BY <1>2, <2>2
    <3>2. x # w
      BY <1>1, <3>1 DEF QueueIsQueued
    <3>3. pc[x] = "queued"
      BY <3>1 DEF QueueIsQueued
    <3>4. QED
      BY <3>2, <3>3, <1>3
  <2>3. ASSUME NEW j \in 1..Len(waiting'), NEW k \in 1..Len(waiting'),
               waiting'[j] = waiting'[k]
        PROVE  j = k
    <3>1. /\ j \in 1..(Len(waiting) - 1) /\ k \in 1..(Len(waiting) - 1)
      BY <1>2
    <3>2. (IF j < i THEN j ELSE j + 1) = (IF k < i THEN k ELSE k + 1)
      <4>1. /\ (IF j < i THEN j ELSE j + 1) \in 1..Len(waiting)
            /\ (IF k < i THEN k ELSE k + 1) \in 1..Len(waiting)
        BY <3>1, <1>2
      <4>2. waiting[IF j < i THEN j ELSE j + 1] = waiting[IF k < i THEN k ELSE k + 1]
        BY <3>1, <1>2, <2>3
      <4>3. QED
        BY <4>1, <4>2 DEF QueueIsQueued
    <3>3. QED
      BY <3>1, <3>2
  <2>4. QED
    BY <2>1, <2>2, <2>3 DEF QueueIsQueued
<1>7. NoIdlePermit' /\ WithinBounds'
  <2>1. waiting # <<>>
    BY EmptySeq, <1>1
  <2>2. active = Limit
    BY <2>1 DEF NoIdlePermit
  <2>3. QED
    BY <1>1, <1>2, <2>2, SettingsAssumption DEF NoIdlePermit, WithinBounds
<1>8. QED
  BY <1>4, <1>5, <1>6, <1>7

(* Connect, a refusal, a retry and the other routes move nobody in or out of *)
(* the set of permit holders.                                                *)
LEMMA OtherStepsKeepInvariant ==
  ASSUME GateInv,
         \/ \E w \in Writers : AcquireRefused(w) \/ Connect(w) \/ Again(w)
         \/ OtherConnects \/ OtherReleases
  PROVE  GateInv'
<1> USE DEF GateInv
<1>1. active' = active /\ waiting' = waiting /\ Holders' = Holders
  BY DEF AcquireRefused, Connect, Again, OtherConnects, OtherReleases, Holders, GateTypeOK
<1>2. \A x \in Writers : pc'[x] = "queued" <=> pc[x] = "queued"
  BY DEF AcquireRefused, Connect, Again, OtherConnects, OtherReleases, GateTypeOK
<1>3. GateTypeOK'
  <2>1. pc' \in [Writers -> Phases]
    BY DEF AcquireRefused, Connect, Again, OtherConnects, OtherReleases, GateTypeOK, Phases
  <2>2. others' \in 0..PoolMax
    <3>1. CASE \E w \in Writers : AcquireRefused(w) \/ Connect(w) \/ Again(w)
      BY <3>1 DEF AcquireRefused, Connect, Again, GateTypeOK
    <3>2. CASE OtherConnects
      <4>1. Connected \in SUBSET Writers
        BY DEF Connected
      <4>2. Cardinality(Connected) \in Nat
        BY <4>1, WritersAssumption, FS_Subset, FS_CardinalityType
      <4>3. QED
        BY <3>2, <4>2, SettingsAssumption DEF OtherConnects, GateTypeOK
    <3>3. CASE OtherReleases
      BY <3>3, SettingsAssumption DEF OtherReleases, GateTypeOK
    <3>4. QED
      BY <3>1, <3>2, <3>3
  <2>3. QED
    BY <1>1, <2>1, <2>2 DEF GateTypeOK
<1>4. QueueIsQueued'
  BY <1>1, <1>2 DEF QueueIsQueued
<1>5. PermitConservation' /\ NoIdlePermit' /\ WithinBounds'
  BY <1>1, SameHolders DEF NoIdlePermit, WithinBounds
<1>6. QED
  BY <1>3, <1>4, <1>5

(* Every step of the gate keeps its invariant.                              *)
LEMMA NextPreserves == GateInv /\ [GateNext]_gateVars => GateInv'
<1> SUFFICES ASSUME GateInv, [GateNext]_gateVars PROVE GateInv'
  OBVIOUS
<1>1. CASE UNCHANGED gateVars
  BY <1>1 DEF gateVars, GateInv, GateTypeOK, QueueIsQueued, PermitConservation,
              NoIdlePermit, WithinBounds, Holders
<1>2. ASSUME NEW w \in Writers, WriterNext(w)
      PROVE  GateInv'
  <2>1. CASE AcquireFree(w)
    BY <2>1, AcquireFreeKeepsInvariant
  <2>2. CASE AcquireQueued(w)
    BY <2>2, AcquireQueuedKeepsInvariant
  <2>3. CASE QueueTimeout(w)
    BY <2>3, QueueTimeoutKeepsInvariant
  <2>4. CASE AcquireRefused(w) \/ Connect(w) \/ Again(w)
    BY <2>4, OtherStepsKeepInvariant
  <2>5. CASE ConnectFailed(w)
    <3>1. w \in Holders /\ Release(w, "failed") /\ others' = others
      BY <2>5 DEF ConnectFailed, Holders
    <3>2. QED
      BY <3>1, ReleaseKeepsInvariant
  <2>6. ASSUME NEW outcome \in {"done", "failed"}, Finish(w, outcome)
        PROVE  GateInv'
    <3>1. w \in Holders /\ Release(w, outcome) /\ others' = others
      BY <2>6 DEF Finish, Holders
    <3>2. QED
      BY <3>1, ReleaseKeepsInvariant
  <2>7. QED
    BY <1>2, <2>1, <2>2, <2>3, <2>4, <2>5, <2>6 DEF WriterNext
<1>3. CASE OtherConnects \/ OtherReleases
  BY <1>3, OtherStepsKeepInvariant
<1>4. QED
  BY <1>1, <1>2, <1>3 DEF GateNext

-----------------------------------------------------------------------------
(* acquire() and permit() never lose or mint a permit, never let a permit    *)
(* idle while somebody waits, never exceed a bound, and answer each queued   *)
(* request once, whatever the number of requests and the settings.           *)
THEOREM AdmissionSafe == GateSpec => []GateSafe
<1>1. GateInv => GateSafe
  BY DEF GateInv, GateSafe
<1>2. QED
  BY <1>1, InitEstablishes, NextPreserves, PTL DEF GateSpec

(* admissionFor(): wallet writers never hold the last two clients of a pool  *)
(* of three or more, so a login always finds one they have not taken.        *)
THEOREM HeadroomKept == GateSpec => []PoolHeadroom
<1>1. GateInv => PoolHeadroom
  <2> SUFFICES ASSUME GateInv, PoolMax > 2 PROVE Cardinality(Connected) <= PoolMax - 2
    BY DEF PoolHeadroom
  <2>1. Connected \subseteq Holders
    BY DEF Connected, Holders
  <2>2. Cardinality(Connected) <= Cardinality(Holders) /\ Cardinality(Connected) \in Nat
    BY <2>1, HoldersFinite, FS_Subset, FS_CardinalityType
  <2>3. Cardinality(Holders) <= Limit
    BY DEF GateInv, PermitConservation, WithinBounds
  <2>4. QED
    BY <2>2, <2>3, HoldersFinite, LimitPositive, SettingsAssumption
<1>2. QED
  BY <1>1, InitEstablishes, NextPreserves, PTL DEF GateSpec

(* acquire() grants at once only when the queue is empty: first come, first  *)
(* served, for every number of requests.                                     *)
THEOREM GrantsInOrder == GateSpec => NoOvertaking
<1>1. GateInv /\ [GateNext]_gateVars =>
        [\A w \in Writers :
           pc[w] = "idle" /\ pc'[w] = "permitted" => waiting = <<>>]_gateVars
  <2> SUFFICES ASSUME GateInv, GateNext, NEW w \in Writers,
                      pc[w] = "idle", pc'[w] = "permitted"
               PROVE  waiting = <<>>
    OBVIOUS
  <2> USE DEF GateInv
  <2>1. AcquireFree(w)
    <3>1. waiting # <<>> => Head(waiting) \in Writers /\ pc[Head(waiting)] = "queued"
      <4>1. waiting # <<>> => Len(waiting) \in Nat \ {0} /\ Head(waiting) = waiting[1]
        BY HeadTailProperties, LenProperties, EmptySeq DEF GateTypeOK
      <4>2. QED
        BY <4>1, ElementOfSeq DEF GateTypeOK, QueueIsQueued
    <3>2. ASSUME NEW x \in Writers, WriterNext(x) PROVE AcquireFree(w)
      <4>1. CASE AcquireFree(x)
        BY <4>1 DEF AcquireFree, GateTypeOK
      <4>2. CASE ConnectFailed(x) \/ \E o \in {"done", "failed"} : Finish(x, o)
        BY <4>2, <3>1 DEF ConnectFailed, Finish, Release, GateTypeOK
      <4>3. CASE AcquireRefused(x) \/ AcquireQueued(x) \/ QueueTimeout(x)
                 \/ Connect(x) \/ Again(x)
        BY <4>3 DEF AcquireRefused, AcquireQueued, QueueTimeout, Connect, Again, GateTypeOK
      <4>4. QED
        BY <3>2, <4>1, <4>2, <4>3 DEF WriterNext
    <3>3. QED
      BY <3>2 DEF GateNext, OtherConnects, OtherReleases
  <2>2. QED
    BY <2>1, LimitPositive DEF AcquireFree, NoIdlePermit, GateTypeOK
<1>2. QED
  BY <1>1, InitEstablishes, NextPreserves, PTL DEF GateSpec, NoOvertaking
=============================================================================
