------------------------------ MODULE PromoQuota ------------------------------
(***************************************************************************)
(* One promo: customers claim it and check out with it, an administrator    *)
(* switches it on and off.                                                  *)
(*                                                                         *)
(* A claim locks the promo row first and reads afterwards.  A checkout      *)
(* reads its customer before it locks the promo row, and with that read its *)
(* transaction has taken its snapshot: under the lock it still counts the   *)
(* usage rows that were there when it began.  From the lock to the commit   *)
(* nobody else holds the promo row, so that part is one step.               *)
(***************************************************************************)
EXTENDS Integers, Sequences, FiniteSets, FiniteSetsExt

CONSTANTS
    Slots,              \* checkouts that can be in flight at the same time
    Customers,
    MaxUsage,           \* the quota; 0 is no limit
    PerCustomerLimit,   \* 0 is no limit
    Kind, Value,        \* PERCENT or FIXED, and how much
    MinOrder, MaxDiscount,
    Subtotals,          \* what the ordered items may cost
    Taxed,              \* whether tax and service are charged (not DINE_IN)
    MaxOrders, MaxClaims \* bounds on the rows

NoCap == -1

ASSUME PromoAssumption ==
    /\ MaxUsage \in Nat /\ PerCustomerLimit \in Nat
    /\ MaxOrders \in Nat /\ MaxClaims \in Nat
    /\ Kind \in {"PERCENT", "FIXED"} /\ Value \in Nat \ {0}
    /\ Kind = "PERCENT" => Value <= 100
    /\ MinOrder \in Nat /\ MaxDiscount \in Nat \cup {NoCap}
    /\ Subtotals \subseteq Nat /\ Taxed \in BOOLEAN
    /\ IsFiniteSet(Slots)

VARIABLES
    active,   \* promo.isActive
    usage,    \* promoUsage rows; a claim has no order yet
    order,    \* the orders placed with the promo
    req       \* the checkouts in flight, with the snapshot each one reads

vars == <<active, usage, order, req>>

NoOrder == 0

UsageRow == [customer : Customers, order : Nat]

OrderRow == [customer : Customers, subtotal : Subtotals, discount : Int, total : Int]

Idle == [busy |-> FALSE]

Checkout == [busy : {TRUE}, customer : Customers, subtotal : Subtotals,
             active : BOOLEAN, usage : Seq(UsageRow)]

TypeOK ==
    /\ active \in BOOLEAN
    /\ usage \in Seq(UsageRow)
    /\ order \in Seq(OrderRow)
    /\ req \in [Slots -> {Idle} \cup Checkout]

-----------------------------------------------------------------------------
(* Counting usage rows *)

Used(rows) == {u \in DOMAIN rows : rows[u].order # NoOrder}

UsedBy(rows, c) == {u \in Used(rows) : rows[u].customer = c}

ClaimsOfAnyone(rows, c) == {u \in DOMAIN rows : rows[u].order = NoOrder}

ClaimsOf(rows, c) == {u \in DOMAIN rows : rows[u].customer = c /\ rows[u].order = NoOrder}

Within(n, limit) == limit = 0 \/ n < limit

QuotaForOneMore(rows) == MaxUsage = 0 \/ Cardinality(Used(rows)) <= MaxUsage

QuotaLeft(rows) == Within(Cardinality(Used(rows)), MaxUsage)

LimitLeft(rows, c) == Within(Cardinality(UsedBy(rows, c)), PerCustomerLimit)

-----------------------------------------------------------------------------
(* Money *)

\* Math.round of n / d, for n >= 0.
RoundedQuotient(n, d) == (2 * n + d) \div (2 * d)

Least(m, n) == IF m < n THEN m ELSE n

DiscountUnbounded(kind, value, cap, subtotal) ==
    LET d == IF kind = "PERCENT" THEN RoundedQuotient(subtotal * value, 100) ELSE value IN
    IF kind = "PERCENT" /\ cap # NoCap THEN Least(d, cap) ELSE d

\* The cap is for a percentage; nothing takes more off than there is.
Discount(kind, value, cap, subtotal) ==
    Least(DiscountUnbounded(kind, value, cap, subtotal), subtotal)

\* Tax of 10% and service of 5%, on what is left after the discount.
Total(subtotal, discount) ==
    LET base == subtotal - discount IN
    IF Taxed THEN base + RoundedQuotient(base, 10) + RoundedQuotient(base, 20) ELSE base

-----------------------------------------------------------------------------
(* Handlers *)

\* claimPromo.  A limit of 0 lets nobody claim.
Claim(c) ==
    /\ active
    /\ Cardinality(ClaimsOf(usage, c)) < PerCustomerLimit
    /\ QuotaLeft(usage)
    /\ Cardinality({u \in DOMAIN usage : usage[u].order = NoOrder}) < MaxClaims
    /\ usage' = Append(usage, [customer |-> c, order |-> NoOrder])
    /\ UNCHANGED <<active, order, req>>

\* setPromoActive
SetActive(b) == active' = b /\ UNCHANGED <<usage, order, req>>

\* A checkout begins: its first read fixes what it will see.
Begin(s, c, subtotal) ==
    /\ req[s] = Idle
    /\ Len(order) < MaxOrders
    /\ req' = [req EXCEPT ![s] = [busy |-> TRUE, customer |-> c, subtotal |-> subtotal,
                                  active |-> active, usage |-> usage]]
    /\ UNCHANGED <<active, usage, order>>

\* applyPromoToOrder
Applicable(r) ==
    /\ r.active
    /\ r.subtotal >= MinOrder
    /\ QuotaLeft(r.usage)
    /\ LimitLeft(r.usage, r.customer)

\* recordPromoUse: some claim that the snapshot holds becomes the use, whatever
\* it is by now; without one a row is added.
RecordsUse(r, o) ==
    IF ClaimsOf(r.usage, r.customer) # {}
    THEN \E u \in ClaimsOf(r.usage, r.customer) : usage' = [usage EXCEPT ![u].order = o]
    ELSE usage' = Append(usage, [customer |-> r.customer, order |-> o])

Place(s) ==
    /\ req[s].busy /\ Applicable(req[s])
    /\ Len(order) < MaxOrders
    /\ LET r == req[s]  d == Discount(Kind, Value, MaxDiscount, r.subtotal) IN
       /\ order' = Append(order, [customer |-> r.customer, subtotal |-> r.subtotal,
                                  discount |-> d, total |-> Total(r.subtotal, d)])
       /\ RecordsUse(r, Len(order) + 1)
    /\ req' = [req EXCEPT ![s] = Idle]
    /\ UNCHANGED active

\* The checkout is rolled back; or the customer gives it up.
Refuse(s) ==
    /\ req[s].busy
    /\ req' = [req EXCEPT ![s] = Idle]
    /\ UNCHANGED <<active, usage, order>>

Init ==
    /\ active = TRUE
    /\ usage = <<>> /\ order = <<>>
    /\ req = [s \in Slots |-> Idle]

Next ==
    \/ \E c \in Customers : Claim(c)
    \/ \E b \in BOOLEAN : SetActive(b)
    \/ \E s \in Slots :
          \/ \E c \in Customers, subtotal \in Subtotals : Begin(s, c, subtotal)
          \/ Place(s)
          \/ Refuse(s)

Spec == Init /\ [][Next]_vars

-----------------------------------------------------------------------------
(* Properties *)

OrdersOf(c) == {o \in DOMAIN order : order[o].customer = c}

\* How far the promo can be oversold.  Several checkouts can turn one claim into
\* their use, so that each use of the quota serves at most one order for every
\* checkout that can be under way; and of the rows that are left, at most one for
\* every other checkout is beyond the quota.  The same holds of the limit of each
\* customer.  A single checkout at a time oversells nothing.  (applyPromoToOrder counts
\* in its snapshot, promo.service.ts 320 and 331, and recordPromoUse writes the claim
\* by id, 517, below "concurrent claims/applies can never oversell", 13.)
OverrunIsBounded ==
    /\ TypeOK
    /\ MaxUsage # 0 =>
          /\ Len(order) <= MaxUsage * Cardinality(Slots)
          /\ Cardinality(Used(usage)) <= MaxUsage + Cardinality(Slots) - 1
    /\ PerCustomerLimit # 0 =>
          \A c \in Customers :
             /\ Cardinality(OrdersOf(c)) <= PerCustomerLimit * Cardinality(Slots)
             /\ Cardinality(UsedBy(usage, c)) <= PerCustomerLimit + Cardinality(Slots) - 1

\* A use is the use of an order of the same customer, and an order that no
\* usage row counts any more lost its row to a later order of its customer:
\* the two had turned the same claim into their use (recordPromoUse, 514).
UsesNameTheirOrders ==
    /\ \A u \in Used(usage) : order[usage[u].order].customer = usage[u].customer
    /\ \A o \in DOMAIN order : \E u \in Used(usage) :
          usage[u].customer = order[o].customer /\ usage[u].order >= o

Fair(kind, value, cap, subtotal) ==
    LET D(n) == Discount(kind, value, cap, n) IN
    /\ D(subtotal) \in 0..subtotal
    /\ kind = "PERCENT" /\ cap # NoCap => D(subtotal) <= cap
    /\ Total(subtotal, D(subtotal)) <= Total(subtotal + 1, D(subtotal + 1))

FairPromos ==
    \A kind \in {"PERCENT", "FIXED"}, value \in {1, 33, 50, 99, 100},
       cap \in {NoCap, 0, 3}, subtotal \in 0..Max(Subtotals) :
          Fair(kind, value, cap, subtotal)

\* For all that an order may cost, a promo of either kind takes off no more than
\* there is nor than its cap, and one more rupiah of items never makes the whole
\* cheaper, tax and service included (applyPromoToOrder 345, persistCustomerOrder
\* 1229); and so it did for every order there is.
DiscountIsFair ==
    \A o \in DOMAIN order :
        FairPromos /\ Fair(Kind, Value, MaxDiscount, order[o].subtotal)
===============================================================================
