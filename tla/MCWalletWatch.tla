---------------------------- MODULE MCWalletWatch ----------------------------
(***************************************************************************)
(* Instances of WalletWatch for TLC.                                       *)
(***************************************************************************)
EXTENDS WalletWatch

OnlyLast == {Last}
=============================================================================
