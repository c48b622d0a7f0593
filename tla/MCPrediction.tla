---------------------------- MODULE MCPrediction ----------------------------
(***************************************************************************)
(* Instances of the prediction pipeline for TLC.                           *)
(***************************************************************************)
EXTENDS PredictionProperties, TLC

\* All requests are one user's: sessions of different users share no row.
OneUser == [r \in Request |-> CHOOSE u \in User : TRUE]

Symmetry == Permutations(Request) \cup Permutations(Worker)
=============================================================================
