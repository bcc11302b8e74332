------------------------ MODULE MCWalletImprestOutbox ------------------------
(* TLC instances of the delivery of inbox signals.                          *)
EXTENDS WalletImprestOutbox, TLC

=============================================================================
