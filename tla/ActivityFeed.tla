----------------------------- MODULE ActivityFeed -----------------------------
(***************************************************************************)
(* What the wallet watch promises to those who subscribe to its activity:  *)
(* each transaction of the watched address is decided once, and announced  *)
(* at most once and for good.                                              *)
(***************************************************************************)

CONSTANTS
    Sig,        \* signatures of the address's transactions
    Activity    \* those that are worth an announcement

VARIABLE status \* what has become of each signature

vars == <<status>>

Init == status = [s \in Sig |-> "future"]

Become(s, from, to) ==
    /\ status[s] = from
    /\ status' = [status EXCEPT ![s] = to]

Land(s) == Become(s, "future", "landed")
Announce(s) == s \in Activity /\ Become(s, "landed", "announced")

\* A start may give up on several at once.
Drop(sigs) ==
    /\ \A s \in sigs : status[s] = "landed"
    /\ status' = [s \in Sig |-> IF s \in sigs THEN "dropped" ELSE status[s]]

Next ==
    \/ \E s \in Sig : Land(s) \/ Announce(s)
    \/ \E sigs \in SUBSET Sig : Drop(sigs)

Spec == Init /\ [][Next]_vars
===============================================================================
