\* One receipt whose two halves are edited by two transactions at once: two
\* sites to move between, amounts that can grow and shrink, no transfers.
SPECIFICATION Spec
CONSTANTS
  Workers = {w1, w2}
  Users = {1, 2}
  Admins = {1}
  Sites = {1, 2}
  Receipts = {r1}
  Transfers = {}
  Keys = {k1}
  Amounts = {1, 2}
  Kinds = {}
  Nobody = Nobody
  References = {{}, {1}}
SYMMETRY WorkerSymmetry
INVARIANTS
  ReceiptInPlace
  BooksAgree
