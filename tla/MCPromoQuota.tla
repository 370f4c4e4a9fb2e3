----------------------------- MODULE MCPromoQuota -----------------------------
(* A promo for two uses, one of each of two customers. *)
EXTENDS PromoQuota, TLC

PromoSymmetry == Permutations(Slots) \cup Permutations(Customers)
===============================================================================
