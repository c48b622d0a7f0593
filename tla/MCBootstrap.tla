----------------------------- MODULE MCBootstrap -----------------------------
(***************************************************************************)
(* Instances of the start of the service for TLC.                          *)
(***************************************************************************)
EXTENDS Bootstrap

\* Attempts 1 and 2 register the same address, 3 that of the administrator; addresses
\* are numbers.
TwoAddresses == [a \in Attempt |-> IF a = 3 THEN 20 ELSE 10]
=============================================================================
