----------------------------- MODULE CashWallet -----------------------------
(***************************************************************************)
(* Cash custody as PostgreSQL transactions running side by side: receipt   *)
(* changes reconciled into the custody ledger (migrations 203/208), wallet *)
(* handovers (loyaltyVault.service.js) and wallet-to-imprest transfers     *)
(* (walletImprestTransfer.service.js), all posting through                 *)
(* loyalty_vault_apply_delta (migration 210).                              *)
(*                                                                         *)
(* A transaction reads committed rows, takes row and advisory locks that   *)
(* it keeps until it ends, and its writes appear together at COMMIT.  A    *)
(* worker therefore takes its locks one at a time, reads and decides in    *)
(* one step, and commits in a later one; what it read without a lock may   *)
(* be stale by then.                                                       *)
(***************************************************************************)
EXTENDS CustodyTerms, FiniteSets, FiniteSums

CONSTANTS
  Workers,     \* server-side transactions that can be open at once
  References   \* users a statement on a receipt may name in its foreign keys

ASSUME WorkersAssumption == IsFiniteSet(Workers)
ASSUME ReferencesAssumption == References \subseteq SUBSET Users
ASSUME TablesAssumption == IsFiniteSet(Sites) /\ IsFiniteSet(Receipts) /\ IsFiniteSet(Transfers)

VARIABLES
  balance,     \* loyalty_vault_accounts.balance, cached per holder
  custody,     \* sum of loyalty_vault_entries per holder and site
  ledger,      \* the same sum split by the row the entries were posted for
  holderOf,    \* holder named by the financial source row of a receipt
  entries,     \* amount and site of the projected cash_flow_entries row
  sources,     \* loyalty_vault_sources: what is posted for a receipt
  transfers,   \* loyalty_vault_transfers and wallet_imprest_transfers
  float,       \* imprest_ledger amount posted for a transfer
  outbox,      \* wallet_imprest_notification_outbox event keys
  assigned,    \* user_sites rows of the staff
  job,         \* the transaction each worker runs
  need,        \* locks that transaction has still to take
  held,        \* locks it holds
  granted      \* history: assignments made between its scan and its check

books == <<balance, custody, ledger, holderOf, entries, sources, transfers, float, outbox>>
vars  == <<books, assigned, job, need, held, granted>>

-----------------------------------------------------------------------------
(* Locks, in the order the statements of every transaction take them.       *)

SiteLock(s)       == <<1, s>>             \* hashtext('imprest-site-' || id)
KeyLock(k, u, key) == <<2, <<k, u, key>>>> \* the request key of one requester
RowLock(half, r)  == <<3, <<half, r>>>>   \* the row an UPDATE writes
KeyShare(u)       == <<4, u>>             \* users FOR KEY SHARE: a foreign key
EntryLock(r)      == <<5, r>>             \* hashtext('loyalty_vault_entry'), id
AccountLock(h)    == <<6, h>>             \* loyalty_vault_accounts FOR UPDATE
UserRow(u)        == <<7, u>>             \* users FOR UPDATE
MemberLock(u, s)  == <<8, <<u, s>>>>      \* user_sites FOR SHARE

\* Mutant: account rows are locked in any order.
BeforeUnsorted(l, m) == l[1] < m[1]

\* Accounts are locked ORDER BY holder_key, users ORDER BY id.
Before(l, m) ==
  \/ l[1] < m[1]
  \/ l[1] = 6 /\ m[1] = 6 /\ l[2] < m[2]
  \/ l[1] = 7 /\ m[1] = 7 /\ l[2] < m[2]

\* A foreign key of one transaction and FOR UPDATE of another exclude each
\* other; shared locks of one kind do not; every other lock excludes itself.
Shared(l) == l[1] \in {4, 8}
Conflicts(l, m) ==
  \/ l = m /\ ~Shared(l)
  \/ {l[1], m[1]} = {4, 7} /\ l[2] = m[2]

Free(w, l) == \A v \in Workers \ {w} : \A m \in held[v] : ~Conflicts(l, m)

\* Mutant: account rows are read without FOR UPDATE.
AccountLocksNone(hs) == {}

AccountLocks(hs) == {AccountLock(h) : h \in hs \ {Nobody}}

KeyShares(us) == {KeyShare(u) : u \in us \ {Nobody}}

\* lockAccounts of either service; that of imprest transfers locks the rows of
\* both users after their accounts.
HolderLocks(q) ==
  AccountLocks({q.from, q.to})
    \cup (IF q.kind = "imprest" THEN {UserRow(u) : u \in {q.from, q.to}} ELSE {})

NextLocks(w) == {l \in need[w] : \A m \in need[w] : ~Before(m, l)}

TakeLock(w) ==
  \E l \in NextLocks(w) :
    /\ l[1] # 8 /\ Free(w, l)
    /\ held' = [held EXCEPT ![w] = @ \cup {l}]
    /\ need' = [need EXCEPT ![w] = @ \ {l}]
    /\ UNCHANGED <<books, assigned, job, granted>>

\* One SELECT ... FOR SHARE: it locks the assignments it finds and nothing for
\* those that are not there.
ShareAssignments(w) ==
  /\ need[w] # {} /\ \A l \in need[w] : l[1] = 8
  /\ held' = [held EXCEPT ![w] = @ \cup {l \in need[w] : l[2] \in assigned}]
  /\ need' = [need EXCEPT ![w] = {}]
  /\ UNCHANGED <<books, assigned, job, granted>>

-----------------------------------------------------------------------------
(* Transactions.                                                            *)

Idle == [op |-> "idle"]

Open(w, j, locks) ==
  /\ job[w] = Idle
  /\ job' = [job EXCEPT ![w] = j]
  /\ need' = [need EXCEPT ![w] = locks]
  /\ UNCHANGED <<books, assigned, held, granted>>

\* COMMIT or ROLLBACK: every lock of the transaction is released.
End(w) ==
  /\ job' = [job EXCEPT ![w] = Idle]
  /\ need' = [need EXCEPT ![w] = {}]
  /\ held' = [held EXCEPT ![w] = {}]
  /\ granted' = [granted EXCEPT ![w] = {}]

At(w, op, stage) == job[w].op = op /\ job[w].stage = stage /\ need[w] = {}

\* The transaction goes on: to the statements of the next stage, after the
\* locks those statements take.
Proceed(w, j, locks) ==
  /\ job' = [job EXCEPT ![w] = j]
  /\ need' = [need EXCEPT ![w] = locks \ held[w]]
  /\ UNCHANGED <<books, assigned, held, granted>>

\* The request is answered without a write: a replay, a 403, a 409.
Answer(w) == End(w) /\ UNCHANGED <<books, assigned>>

\* lock_timeout, statement_timeout, a lost connection or a dead process; also
\* every refusal whose reason is outside this module.
Abort(w) == job[w] # Idle /\ Answer(w)

\* The debit guard of loyalty_vault_apply_delta, funds() and hasFunds().
Funded(m) ==
  \/ m.amount = 0
  \/ balance[m.holder] >= m.amount /\ custody[m.holder][m.site] >= m.amount

Part(m, h) == IF m.holder = h THEN m.amount ELSE 0

\* Mutant: the cached balance is raised before the debit is taken from it.
PostCacheDrift(ref, debit, credit) ==
  /\ custody' = Credit(Debit(custody, debit), credit)
  /\ ledger'  = [ledger EXCEPT ![ref] = Credit(Debit(@, debit), credit)]
  /\ balance' = [h \in Users |-> balance[h] + Part(credit, h)]

\* loyalty_vault_apply_delta for the debit, then for the credit.
Post(ref, debit, credit) ==
  /\ custody' = Credit(Debit(custody, debit), credit)
  /\ ledger'  = [ledger EXCEPT ![ref] = Credit(Debit(@, debit), credit)]
  /\ balance' = [h \in Users |-> balance[h] - Part(debit, h) + Part(credit, h)]

Eligible(u, s) == u \in Admins \/ <<u, s>> \in assigned

-----------------------------------------------------------------------------
(* reconcile_loyalty_vault_entry: the trigger of both halves of a receipt,  *)
(* the financial source row (who holds the cash) and its projected          *)
(* cash_flow_entries row (how much, at which site).                         *)

SamePlace(old, new) ==
  old.amount # 0 /\ new.amount # 0 /\ old.holder = new.holder /\ old.site = new.site

Excess(a, b) == IF a > b THEN a - b ELSE 0

\* A receipt that stays in place is adjusted by the difference; any other is
\* reversed where it was and credited where it now belongs.
DebitOf(old, new) ==
  IF SamePlace(old, new) THEN [new EXCEPT !.amount = Excess(old.amount, new.amount)] ELSE old
CreditOf(old, new) ==
  IF SamePlace(old, new) THEN [new EXCEPT !.amount = Excess(new.amount, old.amount)] ELSE new

ReceiptJob(op, r, change, s) ==
  [op |-> op, stage |-> "read", arg |-> [receipt |-> r, change |-> change],
   target |-> NoMove(s), debit |-> NoMove(s), credit |-> NoMove(s)]

\* Mutant: the trigger does not take the entry's advisory lock.
ReceiptLocksRowOnly(op, r, refs) == {RowLock(op, r)} \cup KeyShares(refs)

\* The statement locks its row and, through its foreign keys, the users it
\* names (maker, assigner, reviewer); the deferred trigger locks the entry.
ReceiptLocks(op, r, refs) == {RowLock(op, r), EntryLock(r)} \cup KeyShares(refs)

OpenSource(w, r, h) ==
  \E refs \in References :
    Open(w, ReceiptJob("source", r, h, entries[r].site), ReceiptLocks("source", r, refs))

OpenEntry(w, r, a, s) ==
  \E refs \in References :
    Open(w, ReceiptJob("entry", r, [amount |-> a, site |-> s], s), ReceiptLocks("entry", r, refs))

ReceiptOps == {"source", "entry"}

\* The transaction sees its own new half and the committed other half.
ReadReceipt(w) ==
  \E op \in ReceiptOps :
    LET j == job[w]
        r == j.arg.receipt
        new == Posting(IF op = "source" THEN j.arg.change ELSE holderOf[r],
                       IF op = "entry" THEN j.arg.change ELSE entries[r])
    IN /\ At(w, op, "read")
       /\ Proceed(w, [j EXCEPT !.stage = "decide", !.target = new,
                               !.debit = DebitOf(sources[r], new),
                               !.credit = CreditOf(sources[r], new)],
                  IF sources[r].amount = 0 /\ new.amount = 0 THEN {}
                  ELSE AccountLocks({sources[r].holder, new.holder}))

\* An entry that is posted names the assigner of the source row as its actor.
DecideReceipt(w) ==
  \E op \in ReceiptOps, refs \in References :
    LET j == job[w]
    IN /\ At(w, op, "decide")
       /\ IF Funded(j.debit)
          THEN Proceed(w, [j EXCEPT !.stage = "commit"],
                       IF j.debit.amount = 0 /\ j.credit.amount = 0 THEN {}
                       ELSE KeyShares(refs))
          ELSE Answer(w)

CommitReceipt(w) ==
  \E op \in ReceiptOps :
    LET j == job[w]
        r == j.arg.receipt
    IN /\ At(w, op, "commit")
       /\ holderOf' = IF op = "source" THEN [holderOf EXCEPT ![r] = j.arg.change] ELSE holderOf
       /\ entries' = IF op = "entry" THEN [entries EXCEPT ![r] = j.arg.change] ELSE entries
       /\ sources' = [sources EXCEPT ![r] = j.target]
       /\ Post(r, j.debit, j.credit)
       /\ End(w)
       /\ UNCHANGED <<transfers, float, outbox, assigned>>

-----------------------------------------------------------------------------
(* createVaultTransfer and createWalletImprestTransfer.                     *)

MayRequest(q) ==
  /\ q.from # q.to /\ Eligible(q.by, q.site)
  /\ q.kind = "handover" /\ q.by \notin Admins => q.from = q.by
  /\ q.kind = "imprest" => q.to \notin Admins

\* Mutant: the request key is looked up before anything is locked.
OpeningLocksNone(q) == {}

\* An imprest request is locked by site and key from the start; a handover
\* takes its key after validateHolder.
OpeningLocks(q) ==
  {SiteLock(q.site)} \cup (IF q.kind = "imprest" THEN {KeyLock(q.kind, q.by, q.key)} ELSE {})

ClosingLocks(q) == {KeyLock(q.kind, q.by, q.key)} \cup HolderLocks(q)

\* Foreign keys of the new row: holders and requester.
RequestReferences(q) ==
  KeyShares(IF q.kind = "handover" THEN {q.to, q.by} ELSE {q.by} \ {q.from, q.to})

OpenRequest(w, q) ==
  /\ MayRequest(q)
  /\ Open(w, [op |-> "request", stage |-> "read", arg |-> q, target |-> NoMove(q.site),
              debit |-> NoMove(q.site), credit |-> NoMove(q.site)], OpeningLocks(q))

\* Replayed, or refused because the key belongs to another request.
Known(q) == \E i \in Transfers : SameRequest(transfers[i], q)

\* participant() and validateHolder(): an administrator may also hand over what
\* a retired holder still has.  Who has no custody fails the funds check.
MayTakePart(q) ==
  /\ Eligible(q.to, q.site)
  /\ Eligible(q.from, q.site) \/ (q.kind = "handover" /\ q.by \in Admins)

ReadRequest(w) ==
  LET q == job[w].arg
  IN /\ At(w, "request", "read")
     /\ IF MayTakePart(q) /\ ~(q.kind = "imprest" /\ Known(q))
        THEN Proceed(w, [job[w] EXCEPT !.stage = "decide"], ClosingLocks(q))
        ELSE Answer(w)

\* A request reserves nothing: it only asks whether the source could pay now.
DecideRequest(w) ==
  LET q == job[w].arg
  IN /\ At(w, "request", "decide")
     /\ IF Funded(Payment(q)) /\ ~(q.kind = "handover" /\ Known(q))
        THEN Proceed(w, [job[w] EXCEPT !.stage = "commit"], RequestReferences(q))
        ELSE Answer(w)

\* Mutant: a settled transfer is announced to nobody.
AnnounceUnsettled(row, i, event) ==
  outbox' = IF row.kind = "imprest" /\ event # "accepted" THEN outbox \cup {<<i, event>>} ELSE outbox

Announce(row, i, event) ==
  outbox' = IF row.kind = "imprest" THEN outbox \cup {<<i, event>>} ELSE outbox

\* UNIQUE(sender_id,idempotency_key) and UNIQUE(requested_by,idempotency_key)
\* refuse a second row.  Transfers bounds the number of rows ever inserted.
CommitRequest(w) ==
  LET q == job[w].arg
  IN /\ At(w, "request", "commit")
     /\ ~Known(q)
     /\ \E i \in Transfers :
          /\ transfers[i] = NoRow
          /\ transfers' = [transfers EXCEPT ![i] = Pending(q)]
          /\ Announce(q, i, "requested")
     /\ End(w)
     /\ UNCHANGED <<balance, custody, ledger, holderOf, entries, sources, float, assigned>>

-----------------------------------------------------------------------------
(* resolveVaultTransfer and resolveWalletImprestTransfer.                   *)

OpenResolve(w, i, action, u) ==
  /\ transfers[i] # NoRow
  /\ Eligible(u, transfers[i].site)
  /\ Open(w, [op |-> "resolve", stage |-> "read",
              arg |-> [id |-> i, action |-> action, actor |-> u],
              target |-> NoMove(transfers[i].site), debit |-> NoMove(transfers[i].site),
              credit |-> NoMove(transfers[i].site)],
          {SiteLock(transfers[i].site)})

Accepted(row, u) == IF u = row.from THEN row.okFrom ELSE row.okTo

\* Mutant: an acceptance does not share the assignments it reads.
ResolveLocksUnshared(row, action) ==
  IF row.kind = "handover" \/ action = "accept" THEN HolderLocks(row) ELSE {}

\* A handover locks both accounts whatever the action; an imprest transfer
\* only to accept, and then the participants' site assignments too.
ResolveLocks(row, action) ==
  CASE row.kind = "handover" -> HolderLocks(row)
    [] row.kind = "imprest" /\ action = "accept" ->
         HolderLocks(row) \cup {MemberLock(u, row.site) : u \in {row.from, row.to} \ Admins}
    [] OTHER -> {}

\* resolved_by: nothing new for who accepts, his row is locked already.
ResolveReferences(row, action, u) ==
  KeyShares(IF row.kind = "imprest" /\ action = "accept" THEN {} ELSE {u})

\* The row is read FOR UPDATE under its site's lock.
ReadRow(w) ==
  LET j == job[w]
      row == transfers[j.arg.id]
      replayed ==
        \/ row.status # "pending"
        \/ /\ row.kind = "imprest" /\ j.arg.action = "accept"
           /\ Accepted(row, j.arg.actor)
  IN /\ At(w, "resolve", "read")
     /\ IF MayResolve(row, j.arg.action, j.arg.actor) /\ ~replayed
        THEN Proceed(w, [j EXCEPT !.stage = "decide"], ResolveLocks(row, j.arg.action))
        ELSE Answer(w)

\* Mutant: funds are not looked at again when the transfer is accepted.
DecideResolveUnfunded(w) ==
  LET j == job[w]
      row == transfers[j.arg.id]
      settles == Settles(row, j.arg.action, j.arg.actor)
  IN /\ At(w, "resolve", "decide")
     /\ IF row.kind = "imprest" /\ j.arg.action = "accept"
             => Eligible(row.from, row.site) /\ Eligible(row.to, row.site)
        THEN Proceed(w, [j EXCEPT !.stage = "commit",
                                  !.debit = IF settles THEN Payment(row) ELSE @,
                                  !.credit = IF settles THEN Receipt(row) ELSE @],
                     ResolveReferences(row, j.arg.action, j.arg.actor))
        ELSE Answer(w)

DecideResolve(w) ==
  LET j == job[w]
      row == transfers[j.arg.id]
      settles == Settles(row, j.arg.action, j.arg.actor)
  IN /\ At(w, "resolve", "decide")
     /\ IF /\ row.kind = "imprest" /\ j.arg.action = "accept"
                => Eligible(row.from, row.site) /\ Eligible(row.to, row.site)
           /\ settles => Funded(Payment(row))
        THEN Proceed(w, [j EXCEPT !.stage = "commit",
                                  !.debit = IF settles THEN Payment(row) ELSE @,
                                  !.credit = IF settles THEN Receipt(row) ELSE @],
                     ResolveReferences(row, j.arg.action, j.arg.actor))
        ELSE Answer(w)

Event(row, action, u) ==
  CASE action = "reject" -> "rejected"
    [] action = "cancel" -> "cancelled"
    [] Settles(row, action, u) -> "accepted"
    [] OTHER -> IF u = row.from THEN "sender_accepted" ELSE "recipient_accepted"

CommitResolve(w) ==
  LET j == job[w]
      i == j.arg.id
      row == transfers[i]
  IN /\ At(w, "resolve", "commit")
     /\ transfers' = [transfers EXCEPT ![i] = Resolved(row, j.arg.action, j.arg.actor)]
     /\ Post(i, j.debit, j.credit)
     /\ float' = IF row.kind = "imprest" /\ Settles(row, j.arg.action, j.arg.actor)
                 THEN [float EXCEPT ![i] = @ + row.amount] ELSE float
     /\ Announce(row, i, Event(row, j.arg.action, j.arg.actor))
     /\ End(w)
     /\ UNCHANGED <<holderOf, entries, sources, assigned>>

-----------------------------------------------------------------------------
(* Site assignments change at any time, unless a transaction shares them.   *)

\* An assignment made after a transaction's scan is read by its check, but not
\* locked.
Assign(u, s) ==
  /\ u \notin Admins /\ <<u, s>> \notin assigned
  /\ assigned' = assigned \cup {<<u, s>>}
  /\ granted' = [w \in Workers |->
                   granted[w] \cup {a \in {<<u, s>>} : At(w, "resolve", "decide")}]
  /\ UNCHANGED <<books, job, need, held>>

Unassign(u, s) ==
  /\ <<u, s>> \in assigned /\ \A w \in Workers : MemberLock(u, s) \notin held[w]
  /\ assigned' = assigned \ {<<u, s>>}
  /\ UNCHANGED <<books, job, need, held, granted>>

-----------------------------------------------------------------------------
Init ==
  /\ balance = [h \in Users |-> 0]
  /\ custody = Nothing
  /\ ledger = [ref \in Receipts \cup Transfers |-> Nothing]
  /\ holderOf = [r \in Receipts |-> Nobody]
  /\ entries \in [Receipts -> [amount : {0}, site : Sites]]
  /\ sources = [r \in Receipts |-> NoMove(entries[r].site)]
  /\ transfers = [i \in Transfers |-> NoRow]
  /\ float = [i \in Transfers |-> 0]
  /\ outbox = {}
  /\ assigned = (Users \ Admins) \X Sites
  /\ job = [w \in Workers |-> Idle]
  /\ need = [w \in Workers |-> {}]
  /\ held = [w \in Workers |-> {}]
  /\ granted = [w \in Workers |-> {}]

ReceiptNext(w) ==
  \/ \E r \in Receipts, h \in Users \cup {Nobody} : OpenSource(w, r, h)
  \/ \E r \in Receipts, a \in Sums, s \in Sites : OpenEntry(w, r, a, s)
  \/ ReadReceipt(w) \/ DecideReceipt(w) \/ CommitReceipt(w)

TransferNext(w) ==
  \/ \E q \in Requests : OpenRequest(w, q)
  \/ ReadRequest(w) \/ DecideRequest(w) \/ CommitRequest(w)
  \/ \E i \in Transfers, action \in Resolutions, u \in Users : OpenResolve(w, i, action, u)
  \/ ReadRow(w) \/ DecideResolve(w) \/ CommitResolve(w)

Next ==
  \/ \E w \in Workers :
       TakeLock(w) \/ ShareAssignments(w) \/ Abort(w) \/ ReceiptNext(w) \/ TransferNext(w)
  \/ \E u \in Users, s \in Sites : Assign(u, s) \/ Unassign(u, s)

Spec == Init /\ [][Next]_vars

-----------------------------------------------------------------------------
LockNames ==
  {SiteLock(s) : s \in Sites}
    \cup {KeyLock(k, u, key) : k \in Kinds, u \in Users, key \in Keys}
    \cup {RowLock(op, r) : op \in ReceiptOps, r \in Receipts}
    \cup {EntryLock(r) : r \in Receipts}
    \cup {AccountLock(u) : u \in Users}
    \cup {KeyShare(u) : u \in Users}
    \cup {UserRow(u) : u \in Users}
    \cup {MemberLock(u, s) : u \in Users, s \in Sites}

Working(ops, stages, args) ==
  [op : ops, stage : stages, arg : args, target : Postings, debit : Moves, credit : Moves]

Jobs ==
  {Idle}
    \cup Working({"source"}, {"read", "decide", "commit"},
                 [receipt : Receipts, change : Users \cup {Nobody}])
    \cup Working({"entry"}, {"read", "decide", "commit"},
                 [receipt : Receipts, change : [amount : Sums, site : Sites]])
    \cup Working({"request"}, {"read", "decide", "commit"}, Requests)
    \cup Working({"resolve"}, {"read", "decide", "commit"},
                 [id : Transfers, action : Resolutions, actor : Users])

TypeOK ==
  /\ balance \in [Users -> Int]
  /\ custody \in Books
  /\ ledger \in [Receipts \cup Transfers -> Books]
  /\ holderOf \in [Receipts -> Users \cup {Nobody}]
  /\ entries \in [Receipts -> [amount : Sums, site : Sites]]
  /\ sources \in [Receipts -> Postings]
  /\ transfers \in [Transfers -> {NoRow} \cup Rows]
  /\ float \in [Transfers -> Nat]
  /\ assigned \subseteq Users \X Sites
  /\ job \in [Workers -> Jobs]
  /\ need \in [Workers -> SUBSET LockNames]
  /\ held \in [Workers -> SUBSET LockNames]
  /\ granted \in [Workers -> SUBSET (Users \X Sites)]

(* No posting ever overdraws a holder, in one site or overall, although     *)
(* pending transfers reserve nothing and receipts are corrected while they  *)
(* wait (migrations 210 and 212).                                           *)
NeverOverdrawn ==
  \A h \in Users : balance[h] >= 0 /\ \A s \in Sites : custody[h][s] >= 0

(* The three readings of the custody ledger agree: the cached holder        *)
(* balance, the per-site sums, and the sums of what each row posted.        *)
BooksAgree ==
  \A h \in Users :
    /\ balance[h] = SumOver(custody[h], Sites)
    /\ \A s \in Sites :
         custody[h][s] = SumOver([ref \in Receipts \cup Transfers |-> ledger[ref][h][s]],
                                 Receipts \cup Transfers)

(* Whatever two transactions did to the two halves of a receipt, its        *)
(* entries sum to its amount at its holder and site, and to zero anywhere   *)
(* else (reconcile_loyalty_vault_entry; migration 208).                     *)
Placed(p) == Credit(Nothing, p)
ReceiptInPlace ==
  \A r \in Receipts : ledger[r] = Placed(Posting(holderOf[r], entries[r]))

(* An accepted handover has moved its amount once from its sender to its    *)
(* recipient; an accepted imprest transfer has left its source once and     *)
(* reached the recipient's float once; every other row has posted nothing.  *)
SettledPostings(row) ==
  IF row = NoRow \/ row.status # "accepted" THEN Nothing
  ELSE Credit(Debit(Nothing, Payment(row)), Receipt(row))

TransfersPostOnce ==
  \A i \in Transfers :
    LET row == transfers[i]
        floated == row # NoRow /\ row.kind = "imprest" /\ row.status = "accepted"
    IN /\ ledger[i] = SettledPostings(row)
       /\ float[i] = IF floated THEN row.amount ELSE 0

(* An imprest transfer is accepted only after both participants accepted it *)
(* (wallet_imprest_complete_acceptance).                                    *)
BothAccepted ==
  \A i \in Transfers :
    transfers[i] # NoRow /\ transfers[i].kind = "imprest" /\ transfers[i].status = "accepted"
      => transfers[i].okFrom /\ transfers[i].okTo

(* A retry finds the row of the request it repeats: it never reaches the    *)
(* INSERT while another row has its key, so the unique index never fires.   *)
RetryNeverCollides ==
  \A w \in Workers :
    job[w].op = "request" /\ job[w].stage = "commit"
      => ~Known(job[w].arg)

(* The outbox tells exactly the story of each imprest transfer: the event   *)
(* of every committed step is there, and of no other.                       *)
EventsOf(row) ==
  IF row = NoRow \/ row.kind # "imprest" THEN {{}}
  ELSE IF row.status = "accepted"
  THEN {{"requested", "accepted", "sender_accepted"}, {"requested", "accepted", "recipient_accepted"}}
  ELSE {{"requested"} \cup (IF row.okFrom THEN {"sender_accepted"} ELSE {})
          \cup (IF row.okTo THEN {"recipient_accepted"} ELSE {})
          \cup (IF row.status = "pending" THEN {} ELSE {row.status})}
OutboxComplete ==
  \A i \in Transfers :
    {e \in {"requested", "sender_accepted", "recipient_accepted", "accepted", "rejected", "cancelled"} :
       <<i, e>> \in outbox} \in EventsOf(transfers[i])

(* Site, key, row, entry, account and users FOR UPDATE are locked in one     *)
(* order: transactions that wait for one another in a ring always include   *)
(* one that waits for, or holds up another by, the lock a foreign key takes *)
(* on a users row (lockAccounts, reconcile_loyalty_vault_entry).            *)
ExplicitlyWaitsFor(w, v) == w # v /\ \E l \in NextLocks(w) \cap held[v] : ~Shared(l)

NoExplicitCycle ==
  \A S \in (SUBSET Workers) \ {{}} : \E w \in S : \A v \in S : ~ExplicitlyWaitsFor(w, v)

(* What was resolved stays as it was resolved, and nobody's acceptance is   *)
(* taken back.                                                              *)
ResolutionIsFinal ==
  [][\A i \in Transfers :
       /\ transfers[i] # NoRow => transfers'[i] # NoRow
       /\ transfers[i] # NoRow /\ transfers[i].status # "pending"
            => transfers'[i] = transfers[i]
       /\ transfers[i] # NoRow /\ transfers[i].okFrom => transfers'[i].okFrom
       /\ transfers[i] # NoRow /\ transfers[i].okTo => transfers'[i].okTo]_vars

(* When an imprest transfer is accepted both participants are assigned to    *)
(* its site at that moment: an administrator who removes one of them comes  *)
(* before the check or waits for the commit.  Only an assignment made       *)
(* between the FOR SHARE scan and the check may be gone again, because the  *)
(* scan could not lock it (resolveWalletImprestTransfer).                   *)
AcceptedByAssigned ==
  [][\A w \in Workers :
       LET i == job[w].arg.id
           row == transfers[i]
       IN /\ job[w].op = "resolve" /\ job'[w] = Idle
          /\ row # transfers'[i] /\ row.kind = "imprest" /\ job[w].arg.action = "accept"
          => \A u \in {row.from, row.to} :
                Eligible(u, row.site) \/ <<u, row.site>> \in granted[w]]_vars

-----------------------------------------------------------------------------
(* What clients see of all this is CashCustody: each commit is one of its   *)
(* steps, every other step changes nothing it speaks of.                    *)
Promise == INSTANCE CashCustody
  WITH custody <- custody, holderOf <- holderOf, entries <- entries, transfers <- transfers
CustodyImplemented == Promise!Spec
=============================================================================
