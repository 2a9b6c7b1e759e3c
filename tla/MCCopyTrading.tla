----------------------------- MODULE MCCopyTrading -----------------------------
(***************************************************************************)
(* Instances of CopyTrading for TLC.                                       *)
(***************************************************************************)
EXTENDS CopyTrading

TwoBuys == {1, 2}
TwoBuysOneSell == TwoBuys \cup {3}
================================================================================
