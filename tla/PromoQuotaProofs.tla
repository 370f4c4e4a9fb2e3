--------------------------- MODULE PromoQuotaProofs ---------------------------
(***************************************************************************)
(* How far a promo can be oversold, that every use is an order's, and that a *)
(* discount never takes more off than there is: for any quota, limit,       *)
(* customers, checkouts and subtotals.                                      *)
(*                                                                         *)
(* A checkout may add a use beyond the quota only if its snapshot showed    *)
(* room.  While there is room, no more than all the slots hold such a       *)
(* snapshot; once there is none, nobody takes a new one, and each use       *)
(* spends one.  An order that adds no use overwrites another one's, with a    *)
(* snapshot that is behind: it missed a use.  All the slots may hold one     *)
(* that is behind after each use, and each order spends one.                *)
(***************************************************************************)
EXTENDS PromoQuota, FiniteSetTheorems, TLAPS

-----------------------------------------------------------------------------
(* The inductive invariant *)

\* A use is of an order of the same customer.
RowsInv ==
    \A u \in DOMAIN usage :
        /\ usage[u].order <= Len(order)
        /\ usage[u].order # NoOrder => order[usage[u].order].customer = usage[u].customer

OrdersInv ==
    \A o \in DOMAIN order : \E u \in Used(usage) :
        usage[u].customer = order[o].customer /\ usage[u].order >= o

\* The rows of a snapshot are still there, of the same customers, and used if they were.
SameRow(old, new) ==
    new.customer = old.customer /\ (old.order # NoOrder => new.order # NoOrder)

SnapshotsInv ==
    \A s \in Slots : req[s].busy =>
        /\ Len(req[s].usage) <= Len(usage)
        /\ \A u \in DOMAIN req[s].usage : SameRow(req[s].usage[u], usage[u])

\* The checkouts that have seen room, for the promo and for one customer.
Bold == {s \in Slots : req[s].busy /\ QuotaLeft(req[s].usage)}

BoldFor(c) ==
    {s \in Slots : req[s].busy /\ req[s].customer = c /\ LimitLeft(req[s].usage, c)}

\* Uses and checkouts that may become uses.
Room(uses, bold, limit) ==
    limit # 0 => Cardinality(uses) + Cardinality(bold) <= limit - 1 + Cardinality(Slots)

RoomInv ==
    /\ Room(Used(usage), Bold, MaxUsage)
    /\ \A c \in Customers : Room(UsedBy(usage, c), BoldFor(c), PerCustomerLimit)

\* The uses and the orders of some customers, how many of the uses are within the
\* limit, and the checkouts whose snapshot is behind: it misses one of those.
UsedFor(rows, C) == {u \in Used(rows) : rows[u].customer \in C}

OrdersFor(C) == {o \in DOMAIN order : order[o].customer \in C}

WithinLimit(C, limit) == Least(Cardinality(UsedFor(usage, C)), limit)

Behind(C, m) ==
    {s \in Slots : /\ req[s].busy /\ req[s].customer \in C
                   /\ Cardinality(UsedFor(req[s].usage, C)) < m}

Sold(C, limit) ==
    limit # 0 =>
        Cardinality(OrdersFor(C)) + Cardinality(Behind(C, WithinLimit(C, limit)))
            <= WithinLimit(C, limit) * Cardinality(Slots)

SoldInv ==
    /\ Sold(Customers, MaxUsage)
    /\ \A c \in Customers : Sold({c}, PerCustomerLimit)

PromoInv == TypeOK /\ RowsInv /\ OrdersInv /\ SnapshotsInv /\ RoomInv /\ SoldInv

-----------------------------------------------------------------------------
(* Counting *)

LEMMA SlotsCount ==
    ASSUME NEW B \in SUBSET Slots
    PROVE  /\ IsFiniteSet(B) /\ Cardinality(B) \in Nat /\ Cardinality(Slots) \in Nat
           /\ Cardinality(B) <= Cardinality(Slots)
BY PromoAssumption, FS_Subset, FS_CardinalityType

LEMMA RowsCount ==
    ASSUME NEW S, NEW rows \in Seq(S), NEW U \in SUBSET DOMAIN rows
    PROVE  IsFiniteSet(U) /\ Cardinality(U) \in Nat
<1>1. DOMAIN rows = 1..Len(rows) /\ Len(rows) \in Nat
  OBVIOUS
<1>2. IsFiniteSet(1..Len(rows))
  BY <1>1, FS_Interval
<1>3. IsFiniteSet(DOMAIN rows)
  BY <1>1, <1>2
<1> QED BY <1>3, FS_Subset, FS_CardinalityType

\* Fewer checkouts that have seen room.
LEMMA FewerBold ==
    ASSUME NEW U, NEW B \in SUBSET Slots, NEW C \in SUBSET B, NEW limit \in Nat,
           Room(U, B, limit), Cardinality(U) \in Nat
    PROVE  Room(U, C, limit)
<1>1. Cardinality(C) <= Cardinality(B) /\ Cardinality(C) \in Nat /\ Cardinality(B) \in Nat
  BY SlotsCount, FS_Subset
<1>2. Cardinality(Slots) \in Nat
  BY SlotsCount
<1> QED BY <1>1, <1>2 DEF Room

\* One more that sees room while there is some.
LEMMA OneMoreBold ==
    ASSUME NEW U, NEW B \in SUBSET Slots, NEW limit \in Nat, Cardinality(U) \in Nat,
           Within(Cardinality(U), limit)
    PROVE  Room(U, B, limit)
BY SlotsCount DEF Room, Within

\* A use by a checkout that had seen room.
LEMMA OneUse ==
    ASSUME NEW U, IsFiniteSet(U), NEW x, NEW B \in SUBSET Slots, NEW s \in B,
           NEW limit \in Nat, Room(U, B, limit)
    PROVE  Room(U \cup {x}, B \ {s}, limit)
<1>1. /\ Cardinality(U) \in Nat /\ Cardinality(U \cup {x}) \in Nat
      /\ Cardinality(U \cup {x}) <= Cardinality(U) + 1
  BY FS_AddElement, FS_CardinalityType
<1>2. Cardinality(B \ {s}) = Cardinality(B) - 1 /\ Cardinality(B) \in Nat
  BY SlotsCount, FS_RemoveElement
<1>3. Cardinality(Slots) \in Nat
  BY SlotsCount
<1> QED BY <1>1, <1>2, <1>3 DEF Room

LEMMA Limits ==
    ASSUME TypeOK
    PROVE  /\ MaxUsage \in Nat /\ PerCustomerLimit \in Nat
           /\ IsFiniteSet(Used(usage)) /\ Cardinality(Used(usage)) \in Nat
           /\ \A c \in Customers : /\ IsFiniteSet(UsedBy(usage, c))
                                   /\ Cardinality(UsedBy(usage, c)) \in Nat
           /\ Bold \in SUBSET Slots /\ \A c \in Customers : BoldFor(c) \in SUBSET Slots
<1>1. usage \in Seq(UsageRow)
  BY DEF TypeOK
<1>2. Used(usage) \in SUBSET DOMAIN usage
  BY DEF Used
<1>3. \A c \in Customers : UsedBy(usage, c) \in SUBSET DOMAIN usage
  BY DEF Used, UsedBy
<1> QED BY <1>1, <1>2, <1>3, RowsCount, PromoAssumption DEF Bold, BoldFor

-----------------------------------------------------------------------------
(* Rows *)

\* A sequence with one element more, or one place written.
LEMMA Longer ==
    ASSUME NEW S, NEW q \in Seq(S), NEW x \in S
    PROVE  /\ Append(q, x) \in Seq(S) /\ Len(Append(q, x)) = Len(q) + 1
           /\ DOMAIN Append(q, x) = DOMAIN q \cup {Len(q) + 1}
           /\ Len(q) + 1 \notin DOMAIN q
           /\ \A j \in DOMAIN q : Append(q, x)[j] = q[j]
           /\ Append(q, x)[Len(q) + 1] = x
OBVIOUS

LEMMA Written ==
    ASSUME NEW S, NEW q \in Seq(S), NEW i \in DOMAIN q, NEW x \in S
    PROVE  /\ [q EXCEPT ![i] = x] \in Seq(S) /\ Len([q EXCEPT ![i] = x]) = Len(q)
           /\ DOMAIN [q EXCEPT ![i] = x] = DOMAIN q
           /\ \A j \in DOMAIN q : [q EXCEPT ![i] = x][j] = IF j = i THEN x ELSE q[j]
OBVIOUS

\* What a use does to the rows.
LEMMA UseRows ==
    ASSUME TypeOK, SnapshotsInv, NEW s \in Slots, req[s].busy,
           NEW o \in Nat, RecordsUse(req[s], o)
    PROVE  \E x :
             /\ usage' \in Seq(UsageRow) /\ Len(usage') >= Len(usage)
             /\ DOMAIN usage' = DOMAIN usage \cup {x}
             /\ usage'[x] = [customer |-> req[s].customer, order |-> o]
             /\ x \in DOMAIN usage => usage[x].customer = req[s].customer
             /\ x \notin Used(req[s].usage)
             /\ \A u \in DOMAIN usage : u # x => usage'[u] = usage[u]
<1> DEFINE r == req[s]
           row == [customer |-> r.customer, order |-> o]
<1>1. r \in Checkout /\ usage \in Seq(UsageRow)
  BY DEF TypeOK, Idle
<1>2. row \in UsageRow
  BY <1>1 DEF Checkout, UsageRow
<1>3. ASSUME NEW u \in ClaimsOf(r.usage, r.customer), usage' = [usage EXCEPT ![u].order = o]
      PROVE  /\ usage' \in Seq(UsageRow) /\ Len(usage') >= Len(usage)
             /\ DOMAIN usage' = DOMAIN usage \cup {u}
             /\ usage'[u] = row
             /\ u \in DOMAIN usage => usage[u].customer = r.customer
             /\ u \notin Used(r.usage)
             /\ \A v \in DOMAIN usage : v # u => usage'[v] = usage[v]
  <2>1. r.usage \in Seq(UsageRow)
    BY <1>1 DEF Checkout
  <2>2. u \in DOMAIN r.usage /\ r.usage[u].customer = r.customer
    BY <1>3 DEF ClaimsOf
  <2>3. u \in DOMAIN usage /\ usage[u].customer = r.customer /\ Len(usage) \in Nat
    BY <1>1, <2>1, <2>2 DEF SnapshotsInv, SameRow
  <2>4. usage[u] \in UsageRow
    BY <1>1, <2>3
  <2>5. [usage[u] EXCEPT !.order = o] = row
    BY <2>3, <2>4 DEF UsageRow
  <2>6. PICK x : x = row
    OBVIOUS
  <2>7. usage' = [usage EXCEPT ![u] = x] /\ x \in UsageRow
    BY <1>2, <1>3, <2>5, <2>6
  <2>8. /\ usage' \in Seq(UsageRow) /\ Len(usage') = Len(usage)
        /\ DOMAIN usage' = DOMAIN usage
        /\ \A v \in DOMAIN usage : usage'[v] = IF v = u THEN x ELSE usage[v]
    BY <1>1, <2>3, <2>7, Written
  <2>9. u \notin Used(r.usage)
    BY <1>3 DEF ClaimsOf, Used
  <2> HIDE DEF row, r
  <2> QED BY <2>3, <2>6, <2>8, <2>9
<1>4. ASSUME usage' = Append(usage, row)
      PROVE  /\ usage' \in Seq(UsageRow) /\ Len(usage') >= Len(usage)
             /\ DOMAIN usage' = DOMAIN usage \cup {Len(usage) + 1}
             /\ usage'[Len(usage) + 1] = row
             /\ Len(usage) + 1 \in DOMAIN usage => usage[Len(usage) + 1].customer = r.customer
             /\ Len(usage) + 1 \notin Used(r.usage)
             /\ \A v \in DOMAIN usage : v # Len(usage) + 1 => usage'[v] = usage[v]
  <2>1. Len(usage) \in Nat
    BY <1>1
  <2>2. r.usage \in Seq(UsageRow) /\ Len(r.usage) <= Len(usage)
    BY <1>1 DEF Checkout, SnapshotsInv
  <2>3. Len(usage) + 1 \notin Used(r.usage)
    BY <2>1, <2>2 DEF Used
  <2> HIDE DEF row, r
  <2> QED BY <1>1, <1>2, <1>4, <2>1, <2>3, Longer
<1> QED BY <1>3, <1>4 DEF RecordsUse

-----------------------------------------------------------------------------
(* Orders *)

\* What is counted of some customers.
LEMMA Counts ==
    ASSUME TypeOK, NEW C \in SUBSET Customers, NEW limit \in Nat
    PROVE  /\ IsFiniteSet(UsedFor(usage, C)) /\ Cardinality(UsedFor(usage, C)) \in Nat
           /\ IsFiniteSet(OrdersFor(C)) /\ Cardinality(OrdersFor(C)) \in Nat
           /\ WithinLimit(C, limit) \in Nat
           /\ \A s \in Slots : req[s].busy => Cardinality(UsedFor(req[s].usage, C)) \in Nat
<1>1. usage \in Seq(UsageRow) /\ order \in Seq(OrderRow)
  BY DEF TypeOK
<1>2. UsedFor(usage, C) \in SUBSET DOMAIN usage /\ OrdersFor(C) \in SUBSET DOMAIN order
  BY DEF UsedFor, Used, OrdersFor
<1>3. /\ IsFiniteSet(UsedFor(usage, C)) /\ Cardinality(UsedFor(usage, C)) \in Nat
      /\ IsFiniteSet(OrdersFor(C)) /\ Cardinality(OrdersFor(C)) \in Nat
  BY <1>1, <1>2, RowsCount
<1>4. ASSUME NEW s \in Slots, req[s].busy
      PROVE  Cardinality(UsedFor(req[s].usage, C)) \in Nat
  <2>1. req[s] \in Checkout
    BY <1>4 DEF TypeOK, Idle
  <2>2. PICK rows \in Seq(UsageRow) : rows = req[s].usage
    BY <2>1 DEF Checkout
  <2>3. UsedFor(rows, C) \in SUBSET DOMAIN rows
    BY DEF UsedFor, Used
  <2> QED BY <2>2, <2>3, RowsCount
<1> QED BY <1>3, <1>4 DEF WithinLimit, Least

\* A step with no new order and no new use of these customers: whoever takes a
\* snapshot now is not behind.
LEMMA SoldStays ==
    ASSUME TypeOK, TypeOK', NEW C \in SUBSET Customers, NEW limit \in Nat, Sold(C, limit),
           UsedFor(usage', C) = UsedFor(usage, C), OrdersFor(C)' = OrdersFor(C),
           \A s \in Slots : req'[s].busy => req'[s] = req[s] \/ req'[s].usage = usage
    PROVE  Sold(C, limit)'
<1>1. PICK m \in Nat : m = WithinLimit(C, limit)
  BY Counts
<1>2. WithinLimit(C, limit)' = m /\ m <= Cardinality(UsedFor(usage, C))
  BY <1>1, Counts DEF WithinLimit, Least
<1>3. PICK A, B : A = Behind(C, m)' /\ B = Behind(C, m)
  OBVIOUS
<1>4. A \in SUBSET B /\ B \in SUBSET Slots
  <2>1. ASSUME NEW s \in A
        PROVE  s \in B
    <3>1. /\ s \in Slots /\ req'[s].busy /\ req'[s].customer \in C
          /\ Cardinality(UsedFor(req'[s].usage, C)) < m
      BY <1>3 DEF Behind
    <3>2. CASE req'[s] = req[s]
      BY <1>3, <3>1, <3>2 DEF Behind
    <3>3. CASE req'[s].usage = usage
      BY <1>1, <1>2, <3>1, <3>3, Counts
    <3> QED BY <3>1, <3>2, <3>3
  <2> QED BY <1>3, <2>1 DEF Behind
<1>5. /\ Cardinality(A) <= Cardinality(B) /\ Cardinality(A) \in Nat /\ Cardinality(B) \in Nat
      /\ Cardinality(Slots) \in Nat
  BY <1>4, SlotsCount, FS_Subset
<1>6. limit # 0 => Cardinality(OrdersFor(C)) + Cardinality(B) <= m * Cardinality(Slots)
  BY <1>1, <1>3 DEF Sold
<1>7. limit # 0 => Cardinality(OrdersFor(C)) + Cardinality(A) <= m * Cardinality(Slots)
  <2>1. PICK k \in Nat : k = m * Cardinality(Slots)
    BY <1>5
  <2> QED BY <1>5, <1>6, <2>1, Counts
<1>8. Behind(C, WithinLimit(C, limit))' = A
  BY <1>2, <1>3 DEF Behind
<1> QED BY <1>2, <1>7, <1>8 DEF Sold

LEMMA NoneSold ==
    ASSUME TypeOK, TypeOK', SoldInv,
           \A C \in SUBSET Customers : /\ UsedFor(usage', C) = UsedFor(usage, C)
                                       /\ OrdersFor(C)' = OrdersFor(C),
           \A s \in Slots : req'[s].busy => req'[s] = req[s] \/ req'[s].usage = usage
    PROVE  SoldInv'
<1>1. Customers \in SUBSET Customers /\ \A c \in Customers : {c} \in SUBSET Customers
  OBVIOUS
<1>2. Sold(Customers, MaxUsage)'
  BY <1>1, SoldStays, PromoAssumption DEF SoldInv
<1>3. ASSUME NEW c \in Customers
      PROVE  Sold({c}, PerCustomerLimit)'
  BY <1>1, SoldStays, PromoAssumption DEF SoldInv
<1> QED BY <1>2, <1>3 DEF SoldInv

LEMMA OneTimeMore ==
    ASSUME NEW m \in Nat, NEW n \in Nat
    PROVE  m * n \in Nat /\ (m + 1) * n = m * n + n
OBVIOUS

\* An order of these customers: its checkout was behind, or it adds a use within
\* the limit.
LEMMA OneSold ==
    ASSUME TypeOK, TypeOK', SnapshotsInv, NEW C \in SUBSET Customers, NEW limit \in Nat,
           Sold(C, limit), NEW s \in Slots, req[s].busy, req[s].customer \in C,
           limit # 0 => Cardinality(UsedFor(req[s].usage, C)) < limit,
           NEW x, UsedFor(usage', C) = UsedFor(usage, C) \cup {x},
           x \notin UsedFor(req[s].usage, C),
           NEW o, OrdersFor(C)' = OrdersFor(C) \cup {o}, o \notin OrdersFor(C),
           req' = [req EXCEPT ![s] = Idle]
    PROVE  Sold(C, limit)'
<1> SUFFICES ASSUME limit # 0
             PROVE  Sold(C, limit)'
  BY DEF Sold
<1>1. PICK K, W : K = UsedFor(req[s].usage, C) /\ W = UsedFor(usage, C)
  OBVIOUS
<1>2. K \in SUBSET W
  <2>1. ASSUME NEW u \in K
        PROVE  u \in W
    <3>1. req[s] \in Checkout
      BY DEF TypeOK, Idle
    <3>2. req[s].usage \in Seq(UsageRow) /\ usage \in Seq(UsageRow)
      BY <3>1 DEF Checkout, TypeOK
    <3>3. /\ u \in DOMAIN req[s].usage /\ req[s].usage[u].order # NoOrder
          /\ req[s].usage[u].customer \in C
      BY <1>1 DEF UsedFor, Used
    <3>4. u \in DOMAIN usage /\ SameRow(req[s].usage[u], usage[u])
      BY <3>2, <3>3 DEF SnapshotsInv
    <3> QED BY <1>1, <3>3, <3>4 DEF UsedFor, Used, SameRow
  <2> QED BY <2>1
<1>3. /\ IsFiniteSet(W) /\ Cardinality(W) \in Nat /\ Cardinality(K) \in Nat
      /\ Cardinality(K) <= Cardinality(W) /\ (Cardinality(K) = Cardinality(W) => K = W)
  BY <1>1, <1>2, Counts, FS_Subset
<1>4. /\ Cardinality(W \cup {x}) \in {Cardinality(W), Cardinality(W) + 1}
      /\ x \notin W => Cardinality(W \cup {x}) = Cardinality(W) + 1
  BY <1>3, FS_AddElement
<1>5. PICK m \in Nat : m = WithinLimit(C, limit) /\ m = Least(Cardinality(W), limit)
  BY <1>1, Counts DEF WithinLimit
<1>6. PICK n : n = WithinLimit(C, limit)' /\ n = Least(Cardinality(W \cup {x}), limit)
  BY <1>1 DEF WithinLimit
<1>7. n \in {m, m + 1}
  BY <1>3, <1>4, <1>5, <1>6 DEF Least
<1>8. PICK A, B : A = Behind(C, n)' /\ B = Behind(C, m)
  OBVIOUS
<1>9. A \in SUBSET (Slots \ {s}) /\ B \in SUBSET Slots
  BY <1>8 DEF Behind, Idle, TypeOK
<1>10. /\ Cardinality(A) \in Nat /\ Cardinality(B) \in Nat /\ Cardinality(Slots) \in Nat
       /\ Cardinality(A) <= Cardinality(Slots) - 1
  <2>1. IsFiniteSet(Slots) /\ IsFiniteSet(Slots \ {s})
    BY PromoAssumption, FS_RemoveElement
  <2>2. Cardinality(Slots \ {s}) = Cardinality(Slots) - 1
    BY <2>1, FS_RemoveElement
  <2>3. Cardinality(A) <= Cardinality(Slots \ {s})
    BY <1>9, <2>1, FS_Subset
  <2> QED BY <1>9, <2>2, <2>3, SlotsCount
<1>11. Cardinality(OrdersFor(C) \cup {o}) = Cardinality(OrdersFor(C)) + 1
       /\ Cardinality(OrdersFor(C)) \in Nat
  BY Counts, FS_AddElement
<1>12. PICK k \in Nat : /\ k = m * Cardinality(Slots)
                        /\ (m + 1) * Cardinality(Slots) = k + Cardinality(Slots)
  BY <1>10, OneTimeMore
<1>13. Cardinality(OrdersFor(C)) + Cardinality(B) <= k
  BY <1>5, <1>8, <1>12 DEF Sold
<1>14. CASE n = m + 1
  <2>1. Cardinality(OrdersFor(C)) + 1 + Cardinality(A) <= n * Cardinality(Slots)
    BY <1>10, <1>11, <1>12, <1>13, <1>14
  <2> QED BY <1>6, <1>8, <1>11, <2>1 DEF Sold, Behind
<1>15. CASE n = m
  <2>1. Cardinality(K) < m
    <3>1. SUFFICES ASSUME m <= Cardinality(K)
                   PROVE  FALSE
      BY <1>3
    <3>2. Cardinality(K) < limit
      BY <1>1
    <3>3. m = Cardinality(W) /\ K = W
      BY <1>3, <1>5, <3>1, <3>2 DEF Least
    <3>4. Cardinality(W \cup {x}) = Cardinality(W) + 1
      BY <1>1, <1>4, <3>3
    <3> QED BY <1>3, <1>6, <1>15, <3>2, <3>3, <3>4 DEF Least
  <2>2. s \in B /\ A \in SUBSET (B \ {s})
    <3>1. s \in B
      BY <1>1, <1>8, <2>1 DEF Behind
    <3>2. \A t \in A : t \in Slots /\ t # s /\ req'[t] = req[t]
      BY <1>9 DEF TypeOK
    <3> QED BY <1>8, <1>15, <3>1, <3>2 DEF Behind
  <2>3. Cardinality(A) <= Cardinality(B) - 1
    <3>1. IsFiniteSet(B) /\ IsFiniteSet(B \ {s})
      BY <1>9, SlotsCount, FS_RemoveElement
    <3>2. Cardinality(B \ {s}) = Cardinality(B) - 1
      BY <2>2, <3>1, FS_RemoveElement
    <3> QED BY <2>2, <3>1, <3>2, FS_Subset
  <2>4. Cardinality(OrdersFor(C)) + 1 + Cardinality(A) <= n * Cardinality(Slots)
    BY <1>10, <1>11, <1>12, <1>13, <1>15, <2>3
  <2> QED BY <1>6, <1>8, <1>11, <2>4 DEF Sold, Behind
<1> QED BY <1>7, <1>14, <1>15

-----------------------------------------------------------------------------
(* Every step *)

LEMMA ClaimKeeps ==
    ASSUME PromoInv, NEW c \in Customers, Claim(c) PROVE PromoInv'
<1> USE DEF PromoInv
<1>1. PICK row \in UsageRow : row = [customer |-> c, order |-> NoOrder]
  BY DEF UsageRow, NoOrder
<1>2. usage' = Append(usage, row) /\ usage \in Seq(UsageRow) /\ UNCHANGED <<active, order, req>>
  BY <1>1 DEF Claim, TypeOK
<1>3. PICK n : n = Len(usage) + 1 /\ n \in Nat /\ Len(usage) \in Nat
  BY <1>2
<1>4. /\ usage' \in Seq(UsageRow) /\ Len(usage') = n /\ Len(usage) <= Len(usage')
      /\ DOMAIN usage' = DOMAIN usage \cup {n} /\ n \notin DOMAIN usage
      /\ \A u \in DOMAIN usage : usage'[u] = usage[u]
      /\ usage'[n] = row
  BY <1>2, <1>3, Longer
<1>5. TypeOK' /\ Len(order) \in Nat
  BY <1>2, <1>4 DEF TypeOK
<1>6. RowsInv'
  BY <1>1, <1>2, <1>4, <1>5 DEF RowsInv, NoOrder
<1>7. Used(usage') = Used(usage) /\ \A b \in Customers : UsedBy(usage', b) = UsedBy(usage, b)
  <2>1. Used(usage') = Used(usage)
    BY <1>1, <1>4 DEF Used
  <2>2. \A u \in Used(usage) : usage'[u] = usage[u]
    BY <1>4 DEF Used
  <2> QED BY <2>1, <2>2 DEF UsedBy
<1>8. OrdersInv'
  <2>1. \A u \in Used(usage) : usage'[u] = usage[u]
    BY <1>4 DEF Used
  <2> QED BY <1>2, <1>7, <2>1 DEF OrdersInv
<1>9. SnapshotsInv'
  <2>1. ASSUME NEW s \in Slots, req[s].busy
        PROVE  /\ Len(req[s].usage) <= n
               /\ \A u \in DOMAIN req[s].usage : SameRow(req[s].usage[u], usage'[u])
    <3>0. req[s] \in Checkout
      BY <2>1 DEF TypeOK, Idle
    <3>1. req[s].usage \in Seq(UsageRow)
      BY <3>0 DEF Checkout
    <3>2. Len(req[s].usage) <= Len(usage) /\ Len(req[s].usage) \in Nat
      BY <2>1, <3>1 DEF SnapshotsInv
    <3>3. \A u \in DOMAIN req[s].usage : u \in DOMAIN usage
      BY <1>2, <3>1, <3>2
    <3> QED BY <1>3, <1>4, <2>1, <3>2, <3>3 DEF SnapshotsInv
  <2> QED BY <1>2, <1>4, <2>1 DEF SnapshotsInv
<1>10. RoomInv'
  <2>1. Bold' = Bold /\ \A b \in Customers : BoldFor(b)' = BoldFor(b)
    BY <1>2 DEF Bold, BoldFor
  <2> QED BY <1>7, <2>1 DEF RoomInv, Room
<1>11. SoldInv'
  <2>1. \A u \in Used(usage) : usage'[u] = usage[u]
    BY <1>4 DEF Used
  <2>2. \A C \in SUBSET Customers : /\ UsedFor(usage', C) = UsedFor(usage, C)
                                     /\ OrdersFor(C)' = OrdersFor(C)
    BY <1>2, <1>7, <2>1 DEF UsedFor, OrdersFor
  <2>3. \A s \in Slots : req'[s].busy => req'[s] = req[s]
    BY <1>2
  <2> QED BY <1>5, <2>2, <2>3, NoneSold
<1> QED BY <1>5, <1>6, <1>8, <1>9, <1>10, <1>11

\* A step that leaves the rows, and takes no snapshot.
LEMMA RowsStay ==
    ASSUME PromoInv, UNCHANGED <<usage, order>>, active' \in BOOLEAN,
           \/ UNCHANGED req
           \/ \E s \in Slots : req' = [req EXCEPT ![s] = Idle]
    PROVE  PromoInv'
<1> USE DEF PromoInv
<1>1. /\ req' \in [Slots -> {Idle} \cup Checkout]
      /\ \A s \in Slots : req'[s].busy => req'[s] = req[s]
  BY DEF TypeOK, Idle
<1>2. TypeOK' /\ RowsInv' /\ OrdersInv' /\ SnapshotsInv'
  BY <1>1 DEF TypeOK, RowsInv, OrdersInv, SnapshotsInv, Used
<1>3. Bold' \in SUBSET Bold /\ \A c \in Customers : BoldFor(c)' \in SUBSET BoldFor(c)
  BY <1>1 DEF Bold, BoldFor
<1>4. RoomInv'
  <2>1. Room(Used(usage), Bold', MaxUsage)
    BY <1>3, Limits, FewerBold DEF RoomInv
  <2>2. ASSUME NEW c \in Customers
        PROVE  Room(UsedBy(usage, c), BoldFor(c)', PerCustomerLimit)
    <3>1. PICK U, B, C : U = UsedBy(usage, c) /\ B = BoldFor(c) /\ C = BoldFor(c)'
      OBVIOUS
    <3>2. Room(U, B, PerCustomerLimit) /\ B \in SUBSET Slots /\ C \in SUBSET B
          /\ Cardinality(U) \in Nat /\ PerCustomerLimit \in Nat
      BY <1>3, <3>1, Limits DEF RoomInv
    <3>3. Room(U, C, PerCustomerLimit)
      BY <3>2, FewerBold
    <3> QED BY <3>1, <3>3
  <2> QED BY <2>1, <2>2 DEF RoomInv, Room
<1>5. SoldInv'
  <2>1. \A C \in SUBSET Customers : /\ UsedFor(usage', C) = UsedFor(usage, C)
                                     /\ OrdersFor(C)' = OrdersFor(C)
    BY DEF OrdersFor
  <2> QED BY <1>1, <1>2, <2>1, NoneSold
<1> QED BY <1>2, <1>4, <1>5

LEMMA BeginKeeps ==
    ASSUME PromoInv, NEW s \in Slots, NEW c \in Customers, NEW subtotal \in Subtotals,
           Begin(s, c, subtotal)
    PROVE  PromoInv'
<1> USE DEF PromoInv
<1>1. PICK r : r = [busy |-> TRUE, customer |-> c, subtotal |-> subtotal,
                    active |-> active, usage |-> usage]
  OBVIOUS
<1>2. r \in Checkout /\ r.busy /\ r.usage = usage /\ r.customer = c
  BY <1>1 DEF TypeOK, Checkout
<1>3. /\ req' = [req EXCEPT ![s] = r] /\ UNCHANGED <<active, usage, order>>
      /\ req \in [Slots -> {Idle} \cup Checkout]
  BY <1>1 DEF Begin, TypeOK
<1>4. TypeOK' /\ RowsInv' /\ OrdersInv'
  BY <1>2, <1>3 DEF TypeOK, RowsInv, OrdersInv, Used
<1>5. req'[s] = r /\ \A t \in Slots \ {s} : req'[t] = req[t]
  BY <1>3
<1>6. SnapshotsInv'
  BY <1>2, <1>3, <1>5 DEF SnapshotsInv, SameRow, TypeOK
<1>7. Room(Used(usage), Bold', MaxUsage)
  <2>1. Bold' \in SUBSET Slots
    BY DEF Bold
  <2>2. CASE QuotaLeft(usage)
    BY <2>1, <2>2, Limits, OneMoreBold DEF QuotaLeft
  <2>3. CASE ~QuotaLeft(usage)
    <3>1. Bold' \in SUBSET Bold
      BY <1>2, <1>5, <2>3 DEF Bold
    <3> QED BY <3>1, Limits, FewerBold DEF RoomInv
  <2> QED BY <2>2, <2>3
<1>8. ASSUME NEW b \in Customers
      PROVE  Room(UsedBy(usage, b), BoldFor(b)', PerCustomerLimit)
  <2>1. PICK U, B, C : U = UsedBy(usage, b) /\ B = BoldFor(b) /\ C = BoldFor(b)'
    OBVIOUS
  <2>2. /\ Room(U, B, PerCustomerLimit) /\ B \in SUBSET Slots /\ C \in SUBSET Slots
        /\ Cardinality(U) \in Nat /\ PerCustomerLimit \in Nat
    BY <2>1, Limits DEF RoomInv, BoldFor
  <2>3. CASE LimitLeft(usage, b)
    <3>1. Within(Cardinality(U), PerCustomerLimit)
      BY <2>1, <2>3 DEF LimitLeft
    <3>2. Room(U, C, PerCustomerLimit)
      BY <2>2, <3>1, OneMoreBold
    <3> QED BY <2>1, <3>2
  <2>4. CASE ~LimitLeft(usage, b)
    <3>1. C \in SUBSET B
      BY <1>2, <1>5, <2>1, <2>4 DEF BoldFor
    <3>2. Room(U, C, PerCustomerLimit)
      BY <2>2, <3>1, FewerBold
    <3> QED BY <2>1, <3>2
  <2> QED BY <2>3, <2>4
<1>9. RoomInv'
  BY <1>3, <1>7, <1>8 DEF RoomInv, Room
<1>10. SoldInv'
  <2>1. \A C \in SUBSET Customers : /\ UsedFor(usage', C) = UsedFor(usage, C)
                                     /\ OrdersFor(C)' = OrdersFor(C)
    BY <1>3 DEF OrdersFor
  <2>2. \A t \in Slots : req'[t].busy => req'[t] = req[t] \/ req'[t].usage = usage
    BY <1>2, <1>5
  <2> QED BY <1>4, <2>1, <2>2, NoneSold
<1> QED BY <1>4, <1>6, <1>9, <1>10

\* Amounts are whole numbers.
LEMMA Amounts ==
    ASSUME NEW n \in Subtotals
    PROVE  /\ Discount(Kind, Value, MaxDiscount, n) \in Int
           /\ Total(n, Discount(Kind, Value, MaxDiscount, n)) \in Int
<1>1. n \in Nat /\ Value \in Nat /\ MaxDiscount \in Int
  BY PromoAssumption DEF NoCap
<1>2. n * Value \in Nat
  BY <1>1
<1>3. PICK d : d = Discount(Kind, Value, MaxDiscount, n) /\ d \in Int
  BY <1>1, <1>2 DEF Discount, DiscountUnbounded, Least, RoundedQuotient
<1>4. Total(n, d) \in Int
  BY <1>1, <1>3 DEF Total, RoundedQuotient
<1> QED BY <1>3, <1>4

LEMMA PlaceKeeps ==
    ASSUME PromoInv, NEW s \in Slots, Place(s) PROVE PromoInv'
<1> USE DEF PromoInv
<1>1. PICK r \in Checkout : r = req[s] /\ r.busy /\ Applicable(r)
  BY DEF TypeOK, Idle, Place
<1>2. r.customer \in Customers /\ r.subtotal \in Subtotals
  BY DEF Checkout
<1>3. PICK o : o = Len(order) + 1 /\ o \in Nat /\ o # NoOrder /\ Len(order) \in Nat
               /\ Len(order) < o
  BY DEF TypeOK, NoOrder
<1>4. PICK x :
        /\ usage' \in Seq(UsageRow) /\ Len(usage') >= Len(usage)
        /\ DOMAIN usage' = DOMAIN usage \cup {x}
        /\ usage'[x] = [customer |-> r.customer, order |-> o]
        /\ x \in DOMAIN usage => usage[x].customer = r.customer
        /\ x \notin Used(r.usage)
        /\ \A u \in DOMAIN usage : u # x => usage'[u] = usage[u]
  <2>1. RecordsUse(req[s], o) /\ req[s].busy
    BY <1>1, <1>3 DEF Place
  <2>2. PICK x :
          /\ usage' \in Seq(UsageRow) /\ Len(usage') >= Len(usage)
          /\ DOMAIN usage' = DOMAIN usage \cup {x}
          /\ usage'[x] = [customer |-> req[s].customer, order |-> o]
          /\ x \in DOMAIN usage => usage[x].customer = req[s].customer
          /\ x \notin Used(req[s].usage)
          /\ \A u \in DOMAIN usage : u # x => usage'[u] = usage[u]
    BY <1>3, <2>1, UseRows
  <2> QED BY <1>1, <2>2
<1>5. PICK row \in OrderRow : order' = Append(order, row) /\ row.customer = r.customer
  <2> DEFINE d == Discount(Kind, Value, MaxDiscount, r.subtotal)
             new == [customer |-> r.customer, subtotal |-> r.subtotal,
                     discount |-> d, total |-> Total(r.subtotal, d)]
  <2>1. d \in Int /\ Total(r.subtotal, d) \in Int
    BY <1>2, Amounts
  <2>2. order' = Append(order, new)
    BY <1>1 DEF Place
  <2> HIDE DEF d
  <2>3. new \in OrderRow /\ new.customer = r.customer
    BY <1>2, <2>1 DEF OrderRow
  <2> QED BY <2>2, <2>3
<1>6. /\ order' \in Seq(OrderRow) /\ Len(order') = o
      /\ DOMAIN order' = DOMAIN order \cup {o} /\ o \notin DOMAIN order
      /\ \A p \in DOMAIN order : order'[p] = order[p]
      /\ order'[o] = row
  BY <1>3, <1>5, Longer DEF TypeOK
<1>7. UNCHANGED active /\ req' = [req EXCEPT ![s] = Idle]
  BY DEF Place
<1>8. TypeOK'
  BY <1>4, <1>6, <1>7 DEF TypeOK
<1>9. req'[s] = Idle /\ \A t \in Slots \ {s} : req'[t] = req[t]
  BY <1>7 DEF TypeOK
<1>10. ASSUME NEW u \in DOMAIN usage
       PROVE  usage[u].order \in Nat /\ usage[u] \in UsageRow
  <2>1. usage[u] \in UsageRow
    BY DEF TypeOK
  <2> QED BY <2>1 DEF UsageRow
<1>11. usage'[x].order = o /\ usage'[x].customer = r.customer
  BY <1>4
<1>12. RowsInv'
  <2>1. ASSUME NEW u \in DOMAIN usage'
        PROVE  /\ usage'[u].order <= o
               /\ usage'[u].order # NoOrder => order'[usage'[u].order].customer = usage'[u].customer
    <3>1. CASE u = x
      BY <1>3, <1>5, <1>6, <1>11, <3>1
    <3>2. CASE u # x
      <4>1. u \in DOMAIN usage /\ usage'[u] = usage[u]
        BY <1>4, <3>2
      <4>2. usage[u].order <= Len(order) /\ usage[u].order \in Nat
        BY <1>10, <4>1 DEF RowsInv
      <4>3. usage[u].order # NoOrder => usage[u].order \in DOMAIN order
        BY <1>3, <4>2 DEF TypeOK, NoOrder
      <4> QED BY <1>3, <1>6, <4>1, <4>2, <4>3 DEF RowsInv
    <3> QED BY <3>1, <3>2
  <2> QED BY <1>6, <2>1 DEF RowsInv
<1>13. Used(usage') = Used(usage) \cup {x}
  BY <1>3, <1>4, <1>11 DEF Used
<1>14. OrdersInv'
  <2>1. ASSUME NEW p \in DOMAIN order'
        PROVE  \E u \in Used(usage') :
                  usage'[u].customer = order'[p].customer /\ usage'[u].order >= p
    <3>1. CASE p = o
      BY <1>3, <1>5, <1>6, <1>11, <1>13, <3>1
    <3>2. CASE p # o
      <4>1. p \in DOMAIN order /\ order'[p] = order[p] /\ p \in Nat /\ p < o
        BY <1>3, <1>6, <3>2 DEF TypeOK
      <4>2. PICK u \in Used(usage) : usage[u].customer = order[p].customer /\ usage[u].order >= p
        BY <4>1 DEF OrdersInv
      <4>3. u \in DOMAIN usage
        BY DEF Used
      <4>4. CASE u = x
        BY <1>3, <1>4, <1>11, <1>13, <4>1, <4>2, <4>3, <4>4
      <4>5. CASE u # x
        BY <1>4, <1>13, <4>1, <4>2, <4>3, <4>5
      <4> QED BY <4>4, <4>5
    <3> QED BY <3>1, <3>2
  <2> QED BY <2>1 DEF OrdersInv
<1>15. SnapshotsInv'
  <2>1. ASSUME NEW t \in Slots, t # s, req[t].busy
        PROVE  /\ Len(req[t].usage) <= Len(usage')
               /\ \A u \in DOMAIN req[t].usage : SameRow(req[t].usage[u], usage'[u])
    <3>1. req[t] \in Checkout
      BY <2>1 DEF TypeOK, Idle
    <3>2. req[t].usage \in Seq(UsageRow) /\ usage \in Seq(UsageRow)
      BY <3>1 DEF Checkout, TypeOK
    <3>3. /\ Len(req[t].usage) <= Len(usage) /\ Len(req[t].usage) \in Nat
          /\ Len(usage) \in Nat /\ Len(usage') \in Nat
      BY <1>4, <2>1, <3>2 DEF SnapshotsInv
    <3>4. \A u \in DOMAIN req[t].usage : u \in DOMAIN usage
      BY <3>2, <3>3
    <3>5. \A u \in DOMAIN usage : SameRow(usage[u], usage'[u])
      BY <1>3, <1>4, <1>11 DEF SameRow
    <3> QED BY <1>4, <2>1, <3>3, <3>4, <3>5 DEF SnapshotsInv, SameRow
  <2> QED BY <1>9, <2>1 DEF SnapshotsInv, Idle
<1>16. Room(Used(usage'), Bold', MaxUsage)
  <2>1. s \in Bold
    BY <1>1 DEF Bold, Applicable
  <2>2. Bold' = Bold \ {s}
    BY <1>9 DEF Bold, Idle
  <2>3. PICK U, B : U = Used(usage) /\ B = Bold
    OBVIOUS
  <2>4. Room(U, B, MaxUsage) /\ IsFiniteSet(U) /\ B \in SUBSET Slots /\ MaxUsage \in Nat
    BY <2>3, Limits DEF RoomInv
  <2>5. Room(U \cup {x}, B \ {s}, MaxUsage)
    BY <2>1, <2>3, <2>4, OneUse
  <2> QED BY <1>13, <2>2, <2>3, <2>5
<1>17. ASSUME NEW c \in Customers
       PROVE  Room(UsedBy(usage', c), BoldFor(c)', PerCustomerLimit)
  <2>1. PICK U, B : U = UsedBy(usage, c) /\ B = BoldFor(c)
    OBVIOUS
  <2>2. /\ Room(U, B, PerCustomerLimit) /\ IsFiniteSet(U) /\ B \in SUBSET Slots
        /\ PerCustomerLimit \in Nat /\ Cardinality(U) \in Nat
    BY <2>1, Limits DEF RoomInv
  <2>3. \A u \in Used(usage) : u \in DOMAIN usage
    BY DEF Used
  <2>4. BoldFor(c)' = BoldFor(c) \ {s}
    BY <1>9 DEF BoldFor, Idle
  <2>5. CASE c = r.customer
    <3>1. s \in B
      BY <1>1, <2>1, <2>5 DEF BoldFor, Applicable
    <3>2. UsedBy(usage', c) = U \cup {x}
      BY <1>4, <1>11, <1>13, <2>1, <2>3, <2>5 DEF UsedBy
    <3>3. Room(U \cup {x}, B \ {s}, PerCustomerLimit)
      BY <2>2, <3>1, OneUse
    <3> QED BY <2>1, <2>4, <3>2, <3>3
  <2>6. CASE c # r.customer
    <3>1. UsedBy(usage', c) = U
      BY <1>4, <1>11, <1>13, <2>1, <2>3, <2>6 DEF UsedBy
    <3>2. Room(U, B \ {s}, PerCustomerLimit)
      BY <2>2, FewerBold
    <3> QED BY <2>1, <2>4, <3>1, <3>2
  <2> QED BY <2>5, <2>6
<1>18. RoomInv'
  BY <1>16, <1>17 DEF RoomInv, Room
<1>19. ASSUME NEW C \in SUBSET Customers, NEW limit \in Nat, Sold(C, limit),
              r.customer \in C /\ limit # 0 => Cardinality(UsedFor(r.usage, C)) < limit
       PROVE  Sold(C, limit)'
  <2>1. CASE r.customer \in C
    <3>1. UsedFor(usage', C) = UsedFor(usage, C) \cup {x}
      <4>1. \A u \in Used(usage) : u \in DOMAIN usage
        BY DEF Used
      <4> QED BY <1>4, <1>11, <1>13, <2>1, <4>1 DEF UsedFor
    <3>2. OrdersFor(C)' = OrdersFor(C) \cup {o} /\ o \notin OrdersFor(C)
      BY <1>5, <1>6, <2>1 DEF OrdersFor
    <3>3. x \notin UsedFor(r.usage, C)
      BY <1>4 DEF UsedFor
    <3> QED BY <1>1, <1>7, <1>8, <1>19, <2>1, <3>1, <3>2, <3>3, OneSold
  <2>2. CASE r.customer \notin C
    <3>1. UsedFor(usage', C) = UsedFor(usage, C)
      <4>1. \A u \in Used(usage) : u \in DOMAIN usage
        BY DEF Used
      <4> QED BY <1>4, <1>11, <1>13, <2>2, <4>1 DEF UsedFor
    <3>2. OrdersFor(C)' = OrdersFor(C)
      BY <1>5, <1>6, <2>2 DEF OrdersFor
    <3>3. \A t \in Slots : req'[t].busy => req'[t] = req[t]
      BY <1>9 DEF Idle
    <3> QED BY <1>8, <1>19, <3>1, <3>2, <3>3, SoldStays
  <2> QED BY <2>1, <2>2
<1>20. SoldInv'
  <2>1. r.usage \in Seq(UsageRow)
    BY DEF Checkout
  <2>2. UsedFor(r.usage, Customers) = Used(r.usage)
    <3>1. PICK rows \in Seq(UsageRow) : rows = r.usage
      BY <2>1
    <3>2. \A u \in DOMAIN rows : rows[u] \in UsageRow
      OBVIOUS
    <3>3. \A u \in DOMAIN rows : rows[u].customer \in Customers
      BY <3>2 DEF UsageRow
    <3> QED BY <3>1, <3>3 DEF UsedFor, Used
  <2>3. \A c \in Customers : UsedFor(r.usage, {c}) = UsedBy(r.usage, c)
    BY DEF UsedFor, UsedBy
  <2>4. Sold(Customers, MaxUsage)'
    BY <1>1, <1>19, <2>2, PromoAssumption DEF SoldInv, Applicable, QuotaLeft, Within
  <2>5. ASSUME NEW c \in Customers
        PROVE  Sold({c}, PerCustomerLimit)'
    <3>1. r.customer \in {c} /\ PerCustomerLimit # 0 =>
             Cardinality(UsedFor(r.usage, {c})) < PerCustomerLimit
      BY <1>1, <2>3 DEF Applicable, LimitLeft, Within
    <3>2. {c} \in SUBSET Customers /\ PerCustomerLimit \in Nat /\ Sold({c}, PerCustomerLimit)
      BY PromoAssumption DEF SoldInv
    <3> QED BY <1>19, <3>1, <3>2
  <2> QED BY <2>4, <2>5 DEF SoldInv
<1> QED BY <1>8, <1>12, <1>14, <1>15, <1>18, <1>20

LEMMA StepKeeps ==
    ASSUME PromoInv, [Next]_vars PROVE PromoInv'
<1>1. ASSUME NEW b \in BOOLEAN, SetActive(b) PROVE PromoInv'
  BY <1>1, RowsStay DEF SetActive
<1>2. ASSUME NEW s \in Slots, Refuse(s) PROVE PromoInv'
  BY <1>2, RowsStay DEF Refuse, PromoInv, TypeOK
<1>3. CASE UNCHANGED vars
  BY <1>3, RowsStay DEF vars, PromoInv, TypeOK
<1> QED BY <1>1, <1>2, <1>3, ClaimKeeps, BeginKeeps, PlaceKeeps DEF Next

LEMMA Start == Init => PromoInv
<1> SUFFICES ASSUME Init PROVE PromoInv
  OBVIOUS
<1>1. TypeOK /\ RowsInv /\ OrdersInv /\ SnapshotsInv
  BY DEF Init, TypeOK, RowsInv, OrdersInv, SnapshotsInv, Idle
<1>2. Used(usage) = {} /\ \A c \in Customers : UsedBy(usage, c) = {}
  BY DEF Init, Used, UsedBy
<1>3. Bold \in SUBSET Slots /\ \A c \in Customers : BoldFor(c) \in SUBSET Slots
  BY DEF Bold, BoldFor
<1>4. Cardinality({}) = 0 /\ MaxUsage \in Nat /\ PerCustomerLimit \in Nat
  BY FS_EmptySet, PromoAssumption
<1>5. \A limit \in Nat, B \in SUBSET Slots : Room({}, B, limit)
  BY <1>4, OneMoreBold DEF Within
<1>6. ASSUME NEW C \in SUBSET Customers, NEW limit \in Nat
      PROVE  Sold(C, limit)
  <2>1. UsedFor(usage, C) = {} /\ OrdersFor(C) = {}
    BY <1>2 DEF Init, UsedFor, OrdersFor
  <2>2. WithinLimit(C, limit) = 0
    BY <1>4, <2>1 DEF WithinLimit, Least
  <2>3. Behind(C, 0) = {}
    BY DEF Init, Behind, Idle
  <2>4. PICK n \in Nat : n = Cardinality(Slots) /\ 0 * n = 0
    BY SlotsCount
  <2>5. /\ Cardinality(OrdersFor(C)) = 0
        /\ Cardinality(Behind(C, WithinLimit(C, limit))) = 0
    BY <1>4, <2>1, <2>2, <2>3
  <2> QED BY <2>2, <2>4, <2>5 DEF Sold
<1>7. SoldInv
  <2>1. Customers \in SUBSET Customers /\ \A c \in Customers : {c} \in SUBSET Customers
    OBVIOUS
  <2> QED BY <1>4, <1>6, <2>1 DEF SoldInv
<1> QED BY <1>1, <1>2, <1>3, <1>4, <1>5, <1>7 DEF PromoInv, RoomInv

-----------------------------------------------------------------------------
(* What is kept *)

\* The inductive invariant: types, whose use each row is, what the snapshots still
\* say, and how many uses there may come to be.
THEOREM PromoKept == Spec => []PromoInv
<1>1. PromoInv /\ [Next]_vars => PromoInv'
  BY StepKeeps
<1> QED BY <1>1, Start, PTL DEF Spec

\* No more orders than one for each use of the quota and each checkout that can be
\* under way, and no more rows beyond the quota than the other checkouts; the same for
\* each customer's limit (applyPromoToOrder counts in its snapshot, recordPromoUse
\* writes by id).
THEOREM OverrunBounded == Spec => []OverrunIsBounded
<1>1. ASSUME NEW U, NEW B \in SUBSET Slots, NEW limit \in Nat, limit # 0,
             Cardinality(U) \in Nat, Room(U, B, limit)
      PROVE  Cardinality(U) <= limit + Cardinality(Slots) - 1
  BY <1>1, SlotsCount DEF Room
<1>2. ASSUME TypeOK, NEW C \in SUBSET Customers, NEW limit \in Nat, limit # 0, Sold(C, limit)
      PROVE  Cardinality(OrdersFor(C)) <= limit * Cardinality(Slots)
  <2>1. PICK m \in Nat : m = WithinLimit(C, limit) /\ m <= limit
    BY <1>2, Counts DEF WithinLimit, Least
  <2>2. PICK B : B = Behind(C, m) /\ B \in SUBSET Slots
    BY DEF Behind
  <2>3. Cardinality(OrdersFor(C)) + Cardinality(B) <= m * Cardinality(Slots)
    BY <1>2, <2>1, <2>2 DEF Sold
  <2>4. PICK n \in Nat : n = Cardinality(Slots)
    BY SlotsCount
  <2>5. PICK d \in Nat : limit = m + d
    <3>1. limit - m \in Nat /\ limit = m + (limit - m)
      BY <2>1
    <3> QED BY <3>1
  <2>6. m * n \in Nat /\ d * n \in Nat /\ limit * n = m * n + d * n
    BY <2>4, <2>5
  <2>7. Cardinality(OrdersFor(C)) \in Nat /\ Cardinality(B) \in Nat
    BY <1>2, <2>2, Counts, SlotsCount
  <2> QED BY <2>3, <2>4, <2>6, <2>7
<1>3. ASSUME PromoInv PROVE OverrunIsBounded
  <2>1. MaxUsage # 0 => Cardinality(Used(usage)) <= MaxUsage + Cardinality(Slots) - 1
    BY <1>1, <1>3, Limits DEF PromoInv, RoomInv
  <2>2. MaxUsage # 0 => Len(order) <= MaxUsage * Cardinality(Slots)
    <3>1. order \in Seq(OrderRow) /\ Len(order) \in Nat /\ DOMAIN order = 1..Len(order)
      BY <1>3 DEF PromoInv, TypeOK
    <3>2. OrdersFor(Customers) = 1..Len(order)
      <4>1. \A o \in DOMAIN order : order[o] \in OrderRow
        BY <3>1
      <4>2. \A o \in DOMAIN order : order[o].customer \in Customers
        BY <4>1 DEF OrderRow
      <4> QED BY <3>1, <4>2 DEF OrdersFor
    <3>3. Cardinality(OrdersFor(Customers)) = Len(order)
      BY <3>1, <3>2, FS_Interval
    <3>4. Customers \in SUBSET Customers
      OBVIOUS
    <3> QED BY <1>2, <1>3, <3>3, <3>4, PromoAssumption DEF PromoInv, SoldInv
  <2>3. ASSUME NEW c \in Customers, PerCustomerLimit # 0
        PROVE  Cardinality(UsedBy(usage, c)) <= PerCustomerLimit + Cardinality(Slots) - 1
    <3>1. PICK U, B : U = UsedBy(usage, c) /\ B = BoldFor(c)
      OBVIOUS
    <3>2. /\ Room(U, B, PerCustomerLimit) /\ B \in SUBSET Slots
          /\ Cardinality(U) \in Nat /\ PerCustomerLimit \in Nat
      BY <1>3, <3>1, Limits DEF PromoInv, RoomInv
    <3> QED BY <1>1, <2>3, <3>1, <3>2
  <2>4. ASSUME NEW c \in Customers, PerCustomerLimit # 0
        PROVE  Cardinality(OrdersOf(c)) <= PerCustomerLimit * Cardinality(Slots)
    <3>1. OrdersFor({c}) = OrdersOf(c) /\ {c} \in SUBSET Customers
      BY DEF OrdersFor, OrdersOf
    <3> QED BY <1>2, <1>3, <2>4, <3>1, PromoAssumption DEF PromoInv, SoldInv
  <2> QED BY <1>3, <2>1, <2>2, <2>3, <2>4 DEF OverrunIsBounded, PromoInv
<1> QED BY <1>3, PromoKept, PTL

\* A use is of an order of its customer, and no order's use is lost but to a later
\* order of the same customer (recordPromoUse).
THEOREM UsesNamed == Spec => []UsesNameTheirOrders
<1>1. PromoInv => UsesNameTheirOrders
  BY DEF PromoInv, RowsInv, OrdersInv, UsesNameTheirOrders, Used
<1> QED BY <1>1, PromoKept, PTL

\* For every kind, value up to 100% and cap: no more is taken off than there is or
\* than the cap, and one more rupiah of items never makes the whole cheaper, tax
\* and service included (applyPromoToOrder, persistCustomerOrder).
THEOREM EveryPromoIsFair ==
    ASSUME NEW kind \in {"PERCENT", "FIXED"}, NEW value \in Nat,
           kind = "PERCENT" => value <= 100,
           NEW cap \in Nat \cup {NoCap}, NEW n \in Nat
    PROVE  Fair(kind, value, cap, n)
<1> DEFINE D(m) == Discount(kind, value, cap, m)
<1>1. PICK x \in Nat, y \in Nat : x = n * value /\ y = (n + 1) * value /\ y = x + value
  OBVIOUS
<1>2. cap \in Int /\ NoCap \in Int /\ (cap # NoCap => cap >= 0)
  BY DEF NoCap
<1>3. PICK c \in Nat, d \in Nat :
        /\ c = D(n) /\ d = D(n + 1) /\ c <= d /\ d <= c + 1 /\ c <= n
        /\ kind = "PERCENT" /\ cap # NoCap => c <= cap
  <2>1. CASE kind = "FIXED"
    BY <2>1 DEF Discount, DiscountUnbounded, Least
  <2>2. CASE kind = "PERCENT"
    <3>1. PICK p \in Nat, q \in Nat : /\ p = RoundedQuotient(x, 100)
                                      /\ q = RoundedQuotient(y, 100)
                                      /\ p <= q /\ q <= p + 1
      BY <1>1, <2>2 DEF RoundedQuotient
    <3>2. /\ DiscountUnbounded(kind, value, cap, n) = IF cap # NoCap THEN Least(p, cap) ELSE p
          /\ DiscountUnbounded(kind, value, cap, n + 1) = IF cap # NoCap THEN Least(q, cap) ELSE q
      BY <1>1, <2>2, <3>1 DEF DiscountUnbounded
    <3> QED BY <1>2, <2>2, <3>1, <3>2 DEF Discount, Least
  <2> QED BY <2>1, <2>2
<1>4. Total(n, c) <= Total(n + 1, d)
  <2>1. PICK a \in Nat, b \in Nat : a = n - c /\ b = n + 1 - d /\ a <= b
    BY <1>3
  <2> QED BY <2>1 DEF Total, RoundedQuotient
<1> HIDE DEF D
<1>5. D(n) \in 0..n /\ Total(n, D(n)) <= Total(n + 1, D(n + 1))
  BY <1>3, <1>4
<1> QED BY <1>3, <1>5 DEF Fair, D

\* So was every order placed, and so are the promos of either kind for all that an
\* order may cost (applyPromoToOrder, persistCustomerOrder).
THEOREM DiscountsAreFair == Spec => []DiscountIsFair
<1>1. PromoInv => DiscountIsFair
  <2> SUFFICES ASSUME PromoInv, NEW o \in DOMAIN order
               PROVE  FairPromos /\ Fair(Kind, Value, MaxDiscount, order[o].subtotal)
    BY DEF DiscountIsFair
  <2>1. order[o].subtotal \in Nat
    <3>1. order[o] \in OrderRow
      BY DEF PromoInv, TypeOK
    <3> QED BY <3>1, PromoAssumption DEF OrderRow
  <2>2. Fair(Kind, Value, MaxDiscount, order[o].subtotal)
    BY <2>1, PromoAssumption, EveryPromoIsFair
  <2>3. FairPromos
    <3> SUFFICES ASSUME NEW kind \in {"PERCENT", "FIXED"}, NEW value \in {1, 33, 50, 99, 100},
                        NEW cap \in {NoCap, 0, 3}, NEW n \in 0..Max(Subtotals)
                 PROVE  Fair(kind, value, cap, n)
      BY DEF FairPromos
    <3>1. n \in Nat
      OBVIOUS
    <3>2. value \in Nat /\ value <= 100 /\ cap \in Nat \cup {NoCap}
      OBVIOUS
    <3> QED BY <3>1, <3>2, EveryPromoIsFair
  <2> QED BY <2>2, <2>3
<1> QED BY <1>1, PromoKept, PTL
=============================================================================
