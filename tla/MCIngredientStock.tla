-------------------------- MODULE MCIngredientStock --------------------------
(* Rice that was in stock before costs were kept, and milk that is bought; a   *)
(* draft with two versions, a second purchase, and an order of two items.    *)
EXTENDS IngredientStock, TLC

CONSTANTS rice, milk, d1, d2, o1

SlotSymmetry == Permutations(Slots)

Line(q, t) == [qty |-> q, total |-> t]
Both(x, y) == [i \in {rice, milk} |-> IF i = rice THEN x ELSE y]

MCOpening == Both(2, 0)
Small == Both(Line(0, 0), Line(2, 3))
Large == Both(Line(1, 2), Line(4, 2))
MCLines == {Small, Large}
MCFirstLines == (d1 :> Small) @@ (d2 :> Large)
MCNeeds == [o \in {o1} |-> Both(1, 2)]
MCUnits == [o \in {o1} |-> 2]
=============================================================================
