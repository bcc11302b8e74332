----------------------- MODULE MCWalletWriteAdmission -----------------------
(* TLC instance of the wallet write admission gate: more writers than      *)
(* permits plus queue places, so that every branch of acquire() is taken.  *)
EXTENDS WalletWriteAdmission

=============================================================================
