------------------------------ MODULE SwapLedger ------------------------------
(***************************************************************************)
(* What the positions system promises about each swap it submits for a     *)
(* position (a partial exit, a DCA add or a full close): the chain decides *)
(* its fate once, and only a swap that landed is ever booked on the        *)
(* position, once.                                                         *)
(***************************************************************************)
EXTENDS Naturals

CONSTANT Sigs       \* transaction signatures

VARIABLES
    fate,           \* what the chain has decided about each signature
    booked          \* how often each one has been applied to the position

vars == <<fate, booked>>

Init ==
    /\ fate = [s \in Sigs |-> "unused"]
    /\ booked = [s \in Sigs |-> 0]

Submit(s) ==
    /\ fate[s] = "unused"
    /\ fate' = [fate EXCEPT ![s] = "sent"]
    /\ UNCHANGED booked

Decide(s) ==
    /\ fate[s] = "sent"
    /\ \E f \in {"landed", "void"} : fate' = [fate EXCEPT ![s] = f]
    /\ UNCHANGED booked

Book(s) ==
    /\ fate[s] = "landed"
    /\ booked[s] = 0
    /\ booked' = [booked EXCEPT ![s] = 1]
    /\ UNCHANGED fate

Next == \E s \in Sigs : Submit(s) \/ Decide(s) \/ Book(s)

Spec == Init /\ [][Next]_vars
===============================================================================
