---------------------------- MODULE CustodyTerms ----------------------------
(***************************************************************************)
(* The vocabulary of cash custody shared by the promise (CashCustody) and  *)
(* by the transactions that keep it (CashWallet): who may hold cash, what  *)
(* a receipt posts, what a transfer row is and how it is resolved.         *)
(***************************************************************************)
EXTENDS Integers

CONSTANTS
  Users,       \* wallet holders; numbers, because account locks are ordered
  Admins,      \* holders with the role admin: every site is theirs
  Sites,
  Receipts,    \* cash_flow_entries rows with their financial source rows
  Transfers,   \* rows that can be inserted into the two transfer tables
  Keys,        \* idempotency keys the clients use
  Amounts,     \* positive amounts of money
  Kinds,       \* which of "handover" and "imprest" take part
  Nobody       \* a source row that assigns its cash to no holder

ASSUME HoldersAssumption ==
  Users \subseteq Nat /\ Admins \subseteq Users /\ Nobody \notin Users
ASSUME MoneyAssumption == Amounts \subseteq Nat \ {0}
ASSUME RowsAssumption ==
  Receipts \cap Transfers = {} /\ Kinds \subseteq {"handover", "imprest"}

Sums == {0} \cup Amounts

\* What a receipt has posted, or should have: an amount at a holder and site.
Postings == [holder : Users \cup {Nobody}, site : Sites, amount : Sums]

\* An amount of money entering or leaving one holder's custody at one site.
Moves == [holder : Users \cup {Nobody}, site : Sites, amount : Nat]

Books == [Users -> [Sites -> Int]]
Nothing == [h \in Users |-> [s \in Sites |-> 0]]

Debit(book, m) ==
  IF m.amount = 0 THEN book ELSE [book EXCEPT ![m.holder][m.site] = @ - m.amount]
Credit(book, m) ==
  IF m.amount = 0 THEN book ELSE [book EXCEPT ![m.holder][m.site] = @ + m.amount]

NoMove(s) == [holder |-> Nobody, site |-> s, amount |-> 0]

-----------------------------------------------------------------------------
(* Receipts: the source row says who holds the cash, if anybody; the        *)
(* cash_flow_entries row says how much and at which site.                   *)

Posting(h, e) ==
  [holder |-> h, site |-> e.site, amount |-> IF h = Nobody THEN 0 ELSE e.amount]

-----------------------------------------------------------------------------
(* Transfers: one record type for the rows of loyalty_vault_transfers and   *)
(* wallet_imprest_transfers.                                                *)

NoRow == [status |-> "none"]
Requests == [kind : Kinds, from : Users, to : Users, by : Users, site : Sites,
             amount : Amounts, key : Keys]
Rows == [kind : Kinds, from : Users, to : Users, by : Users, site : Sites,
         amount : Amounts, key : Keys,
         status : {"pending", "accepted", "rejected", "cancelled"},
         okFrom : BOOLEAN, okTo : BOOLEAN]

Pending(q) ==
  [kind |-> q.kind, from |-> q.from, to |-> q.to, by |-> q.by, site |-> q.site,
   amount |-> q.amount, key |-> q.key, status |-> "pending",
   okFrom |-> FALSE, okTo |-> FALSE]

SameRequest(row, q) ==
  row # NoRow /\ row.kind = q.kind /\ row.by = q.by /\ row.key = q.key

Resolutions == {"accept", "reject", "cancel"}

MayResolve(row, action, u) ==
  IF action = "cancel" THEN u = row.by
  ELSE u = row.to \/ (row.kind = "imprest" /\ u = row.from)

\* Mutant: either participant's acceptance settles an imprest transfer.
SettlesAlone(row, action, u) == action = "accept"

\* The recipient's word settles a handover; an imprest transfer needs both.
Settles(row, action, u) ==
  /\ action = "accept"
  /\ row.kind = "imprest" => IF u = row.from THEN row.okTo ELSE row.okFrom

\* What settling takes from the source, and brings to another wallet; an
\* imprest transfer leaves the wallets for the recipient's float.
Payment(row) == [holder |-> row.from, site |-> row.site, amount |-> row.amount]
Receipt(row) ==
  [holder |-> row.to, site |-> row.site,
   amount |-> IF row.kind = "handover" THEN row.amount ELSE 0]

Consented(row, u) ==
  IF row.kind = "handover" THEN row
  ELSE IF u = row.from THEN [row EXCEPT !.okFrom = TRUE]
  ELSE [row EXCEPT !.okTo = TRUE]

Resolved(row, action, u) ==
  CASE action = "reject" -> [row EXCEPT !.status = "rejected"]
    [] action = "cancel" -> [row EXCEPT !.status = "cancelled"]
    [] Settles(row, action, u) -> [Consented(row, u) EXCEPT !.status = "accepted"]
    [] OTHER -> Consented(row, u)
=============================================================================
