-------------------------- MODULE MCSwapVerification --------------------------
(* The operations in use and the faults of SwapVerification's runs. *)
EXTENDS SwapVerification

PartialsAndAdds == {"partial", "dca"}
Partials    == {"partial"}
Exits       == {"partial", "close"}
Closes      == {"close"}

ChainFaults == {"late", "balance", "price"}
Late        == {"late"}
Split       == {"split"}
Balance     == {"balance"}
DbFaults    == {"db"}
===============================================================================
