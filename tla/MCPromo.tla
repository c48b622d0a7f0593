------------------------------ MODULE MCPromo ------------------------------
(***************************************************************************)
(* Instances of the promo codes for TLC: requests are users with a code.   *)
(* Two requests may be the same user's for the same code, so a request     *)
(* carries a number as well.                                               *)
(***************************************************************************)
EXTENDS PromoCodes

AsksOf == [r \in Request |-> <<r[1], r[2]>>]

\* Creations of codes are pairs of a code and a number.
CreatesOf == [a \in Creation |-> a[1]]

\* u1 tries c1 and c2; u2 sends c1 twice.
Crowd == {<<"u1", "c1", 1>>, <<"u1", "c2", 1>>, <<"u2", "c1", 1>>, <<"u2", "c1", 2>>}
TwoAdmins == {<<"c1", 1>>, <<"c1", 2>>, <<"c2", 1>>}

Rivals == {<<"u1", "c1", 1>>, <<"u2", "c1", 1>>}
OneAdmin == {<<"c1", 1>>}
=============================================================================
