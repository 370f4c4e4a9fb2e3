--------------------------- MODULE MCStockLedger ---------------------------
(* A branch with one listed and one new product, two orders (one of them READY *)
(* before stock left at READY), two purchases and a refund.                    *)
EXTENDS StockLedger, TLC

CONSTANTS tea, cake, o1, o2, d1, d2, r1

SlotSymmetry == Permutations(Slots)

Units(n, m) == [p \in {tea, cake} |-> IF p = tea THEN n ELSE m]

MCOrderOf == [r \in {r1} |-> o1]

MCQuantity == (o1 :> Units(1, 1)) @@ (o2 :> Units(1, 0)) @@ (d1 :> Units(1, 1))
              @@ (d2 :> Units(0, 1)) @@ (r1 :> Units(1, 0))

MCOpening == Units(2, 0)

=============================================================================
