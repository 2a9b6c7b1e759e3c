---------------------------- MODULE MCRpcFailover ----------------------------
(***************************************************************************)
(* Instances of RpcFailover for TLC.                                       *)
(***************************************************************************)
EXTENDS RpcFailover
CONSTANTS p1, p2, c1, c2

TwoProviders == {p1, p2}
TwoCallers == {c1, c2}
=============================================================================
