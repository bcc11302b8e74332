----------------------------- MODULE CashCustody -----------------------------
(***************************************************************************)
(* What the Cash Wallet promises (docs/cash-wallets.md), with every change *)
(* in one step: money is where the receipts and the settled transfers say, *)
(* a request key opens at most one transfer, a transfer is resolved once,  *)
(* and no step leaves a holder with less than nothing at any site.         *)
(***************************************************************************)
EXTENDS CustodyTerms

VARIABLES custody, holderOf, entries, transfers

vars == <<custody, holderOf, entries, transfers>>

Solvent(book) == \A h \in Users, s \in Sites : book[h][s] >= 0

Init ==
  /\ custody = Nothing
  /\ holderOf = [r \in Receipts |-> Nobody]
  /\ entries \in [Receipts -> [amount : {0}, site : Sites]]
  /\ transfers = [i \in Transfers |-> NoRow]

\* A receipt is recorded, corrected, moved to another holder or site, removed.
ChangeReceipt(r, h, e) ==
  /\ holderOf' = [holderOf EXCEPT ![r] = h]
  /\ entries' = [entries EXCEPT ![r] = e]
  /\ custody' = Credit(Debit(custody, Posting(holderOf[r], entries[r])), Posting(h, e))
  /\ Solvent(custody')
  /\ UNCHANGED transfers

Request(i, q) ==
  /\ transfers[i] = NoRow
  /\ \A k \in Transfers : ~SameRequest(transfers[k], q)
  /\ transfers' = [transfers EXCEPT ![i] = Pending(q)]
  /\ UNCHANGED <<custody, holderOf, entries>>

Resolve(i, action, u) ==
  /\ transfers[i] # NoRow /\ transfers[i].status = "pending"
  /\ MayResolve(transfers[i], action, u)
  /\ transfers' = [transfers EXCEPT ![i] = Resolved(@, action, u)]
  /\ custody' = IF Settles(transfers[i], action, u)
                THEN Credit(Debit(custody, Payment(transfers[i])), Receipt(transfers[i]))
                ELSE custody
  /\ Solvent(custody')
  /\ UNCHANGED <<holderOf, entries>>

Next ==
  \/ \E r \in Receipts, h \in Users \cup {Nobody}, e \in [amount : Sums, site : Sites] :
       ChangeReceipt(r, h, e)
  \/ \E i \in Transfers, q \in Requests : Request(i, q)
  \/ \E i \in Transfers, action \in Resolutions, u \in Users : Resolve(i, action, u)

Spec == Init /\ [][Next]_vars
=============================================================================
