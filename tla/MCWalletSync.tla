---------------------------- MODULE MCWalletSync ----------------------------
(* One wallet, small pages, and both processes running and failing freely. *)
EXTENDS WalletSync
=============================================================================
