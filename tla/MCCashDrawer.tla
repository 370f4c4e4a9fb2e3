---------------------------- MODULE MCCashDrawer ----------------------------
(* Two cashiers and an administrator, one desk each; one order paid in cash and  *)
(* one by QRIS.                                                                  *)
EXTENDS CashDrawer, TLC

CONSTANTS ani, budi, admin, till1, till2, office, cash, qris

MCUser == (till1 :> ani) @@ (till2 :> budi) @@ (office :> admin)

MCDue == (cash :> 2) @@ (qris :> 1)

\* The two cashiers change places, each with the till.
TillSymmetry ==
    {f \in Permutations({ani, budi, till1, till2}) :
        \A till \in {till1, till2} : f[till] \in {till1, till2} /\ f[MCUser[till]] = MCUser[f[till]]}

=============================================================================
