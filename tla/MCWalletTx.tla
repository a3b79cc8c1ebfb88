----------------------------- MODULE MCWalletTx -----------------------------
(* Two clients, two sellers, one ref that both of them use. *)
EXTENDS WalletTx
=============================================================================
