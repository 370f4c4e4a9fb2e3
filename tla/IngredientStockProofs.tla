----------------------- MODULE IngredientStockProofs -----------------------
(***************************************************************************)
(* IngredientStock receives each purchase once, restores no more than was  *)
(* used, and keeps its averages between the prices, for any ingredients,   *)
(* purchases, orders and requests.                                         *)
(***************************************************************************)
EXTENDS IngredientStock, Sums, SequenceTheorems

-----------------------------------------------------------------------------
(* The book *)

Quantities(b) == [n \in DOMAIN b |-> b[n].qty]

\* The recursion of MapThenSumSet over entries of a book is the sum of their quantities.
LEMMA SumOfEntries ==
    ASSUME NEW b \in Seq(Movement), NEW E \in SUBSET DOMAIN b
    PROVE  (CHOOSE g : g = [s \in SUBSET E |->
                IF s = {} THEN 0
                ELSE b[CHOOSE x \in s : TRUE].qty + g[s \ {CHOOSE x \in s : TRUE}]])[E]
               = SumOf(Quantities(b), E)
<1> DEFINE It(g) == [s \in SUBSET E |->
                IF s = {} THEN 0
                ELSE b[CHOOSE x \in s : TRUE].qty + g[s \ {CHOOSE x \in s : TRUE}]]
           v == Quantities(b)
           iter == CHOOSE g : g = It(g)
<1>1. IsFiniteSet(E)
  <2>1. DOMAIN b = 1 .. Len(b) /\ Len(b) \in Int
    OBVIOUS
  <2>2. IsFiniteSet(DOMAIN b)
    BY <2>1, FS_Interval
  <2> QED BY <2>2, FS_Subset
<1>2. \A x \in E : v[x] = b[x].qty /\ v[x] \in Int
  <2>1. \A x \in E : b[x] \in Movement /\ x \in DOMAIN b
    BY ElementOfSeq
  <2> QED BY <2>1 DEF Quantities, Movement
<1>3. Numbers(v, E)
  BY <1>2 DEF Numbers
<1> HIDE DEF v
<1>4. \A s \in SUBSET E : s # {} => (CHOOSE x \in s : TRUE) \in E
  OBVIOUS
<1>5. \A g : It(g) = [s \in SUBSET E |->
                IF s = {} THEN 0 ELSE v[Pick(s)] + g[s \ {Pick(s)}]]
  BY <1>2, <1>4 DEF Pick
<1> HIDE DEF It
<1>6. PICK f \in Sums(v, E) : f = It(f)
  <2>1. PICK f \in Sums(v, E) : TRUE
    BY <1>1, <1>3, SumExists
  <2>2. f = It(f)
    BY <1>5 DEF Sums
  <2> QED BY <2>2
<1>7. iter = It(iter)
  BY <1>6
<1> HIDE DEF iter
<1>8. iter \in Sums(v, E)
  BY <1>1, <1>3, <1>5, <1>7, RecursionIsSum
<1> QED BY <1>1, <1>8, SumIs DEF iter, It, v

\* Entries are some of the places of the book.
LEMMA EntriesAreFinite ==
    ASSUME NEW i, NEW t, NEW k, book[i] \in Seq(Movement)
    PROVE  /\ Entries(i, t, k) \in SUBSET DOMAIN book[i]
           /\ IsFiniteSet(Entries(i, t, k))
           /\ Numbers(Quantities(book[i]), Entries(i, t, k))
           /\ \A n \in Entries(i, t, k) : Quantities(book[i])[n] = book[i][n].qty
<1> DEFINE b == book[i]
           E == Entries(i, t, k)
<1>1. E \in SUBSET DOMAIN b
  BY DEF Entries
<1>2. DOMAIN b = 1 .. Len(b) /\ Len(b) \in Int
  OBVIOUS
<1>3. IsFiniteSet(DOMAIN b)
  BY <1>2, FS_Interval
<1> HIDE DEF E, b
<1>4. \A n \in E : b[n] \in Movement
  <2>1. b \in Seq(Movement)
    BY DEF b
  <2> QED BY <1>1, <1>2, <2>1, ElementOfSeq
<1>5. \A n \in E : Quantities(b)[n] = b[n].qty /\ b[n].qty \in Int
  BY <1>1, <1>4 DEF Quantities, Movement
<1> QED BY <1>1, <1>3, <1>5, FS_Subset DEF E, b, Numbers

LEMMA MovedIs ==
    ASSUME NEW i, NEW t, NEW k, book[i] \in Seq(Movement)
    PROVE  /\ Moved(i, t, k) = SumOf(Quantities(book[i]), Entries(i, t, k))
           /\ Moved(i, t, k) \in Int
<1>1. Moved(i, t, k) = SumOf(Quantities(book[i]), Entries(i, t, k))
  BY SumOfEntries, EntriesAreFinite DEF Moved, MapThenSumSet, MapThenFoldSet
<1> QED BY <1>1, EntriesAreFinite, SumIsInt

LEMMA MovedIsNext ==
    ASSUME NEW i, NEW t, NEW k, book'[i] \in Seq(Movement)
    PROVE  Moved(i, t, k)' = SumOf(Quantities(book'[i]), Entries(i, t, k)')
<1>1. Entries(i, t, k)' \in SUBSET DOMAIN book'[i]
  BY DEF Entries
<1> QED BY <1>1, SumOfEntries DEF Moved, MapThenSumSet, MapThenFoldSet

Stays(i, t, k) ==
    /\ Entries(i, t, k)' = Entries(i, t, k)
    /\ Moved(i, t, k)' = Moved(i, t, k)
    /\ \A n \in Entries(i, t, k) : book'[i][n].qty = book[i][n].qty

Adds(i, t, k, x) ==
    /\ \E n : /\ n \notin Entries(i, t, k)
              /\ Entries(i, t, k)' = Entries(i, t, k) \cup {n}
              /\ book'[i][n].qty = x
    /\ Moved(i, t, k)' = Moved(i, t, k) + x
    /\ \A n \in Entries(i, t, k) : book'[i][n].qty = book[i][n].qty

LEMMA NothingPosted ==
    ASSUME NEW i, NEW t, NEW k, book[i] \in Seq(Movement), book'[i] = book[i]
    PROVE  Stays(i, t, k)
<1>1. Entries(i, t, k)' = Entries(i, t, k)
  BY DEF Entries
<1> QED BY <1>1, MovedIs, MovedIsNext DEF Stays

\* A movement is one more entry of the reference it was made for, and no other.
LEMMA OnePosted ==
    ASSUME NEW i, NEW t, NEW k, NEW m \in Movement, book[i] \in Seq(Movement),
           book'[i] = Append(book[i], m)
    PROVE  /\ m.ref = [type |-> t, id |-> k] => Adds(i, t, k, m.qty)
           /\ m.ref # [type |-> t, id |-> k] => Stays(i, t, k)
<1> DEFINE N == Len(book[i]) + 1
           E == Entries(i, t, k)
<1>1. /\ DOMAIN book[i] = 1 .. Len(book[i]) /\ DOMAIN book'[i] = 1 .. N
      /\ book'[i][N] = m /\ Len(book[i]) \in Nat
      /\ \A n \in DOMAIN book[i] : book'[i][n] = book[i][n]
      /\ book'[i] \in Seq(Movement)
  BY AppendProperties
<1>2. E \in SUBSET DOMAIN book[i] /\ N \notin E
  BY <1>1 DEF Entries
<1>3. \A n \in E : book'[i][n] = book[i][n]
  BY <1>1, <1>2
<1>4. Entries(i, t, k)' = IF m.ref = [type |-> t, id |-> k] THEN E \cup {N} ELSE E
  BY <1>1 DEF Entries
<1>5. /\ Moved(i, t, k) = SumOf(Quantities(book[i]), E)
      /\ Moved(i, t, k)' = SumOf(Quantities(book'[i]), Entries(i, t, k)')
      /\ Moved(i, t, k) \in Int
  BY <1>1, MovedIs, MovedIsNext
<1>6. IsFiniteSet(E) /\ Numbers(Quantities(book[i]), E)
  BY EntriesAreFinite
<1>7. \A n \in E : Quantities(book'[i])[n] = Quantities(book[i])[n]
  BY <1>1, <1>2 DEF Quantities
<1>8. Quantities(book'[i])[N] = m.qty /\ m.qty \in Int
  BY <1>1 DEF Quantities, Movement
<1> HIDE DEF E, N
<1>9. SumOf(Quantities(book'[i]), E) = Moved(i, t, k)
  BY <1>5, <1>6, <1>7, SumOfEqual
<1>10. Numbers(Quantities(book'[i]), E)
  BY <1>6, <1>7 DEF Numbers
<1>11. SumOf(Quantities(book'[i]), E \cup {N}) = m.qty + Moved(i, t, k)
  BY <1>2, <1>6, <1>8, <1>9, <1>10, SumWith
<1>12. CASE m.ref = [type |-> t, id |-> k]
  <2>1. Moved(i, t, k)' = Moved(i, t, k) + m.qty
    BY <1>4, <1>5, <1>8, <1>11, <1>12
  <2>2. Entries(i, t, k)' = E \cup {N} /\ N \notin E /\ book'[i][N].qty = m.qty
    BY <1>1, <1>2, <1>4, <1>12
  <2> QED BY <1>3, <1>12, <2>1, <2>2 DEF Adds, E
<1>13. CASE m.ref # [type |-> t, id |-> k]
  BY <1>3, <1>4, <1>5, <1>9, <1>13 DEF Stays, E
<1> QED BY <1>12, <1>13

\* What the movements of a transaction leave in stock and book.
LEMMA MovesPost ==
    ASSUME TypeOK, NEW delta, DOMAIN delta \in SUBSET Ingredients,
           \A i \in DOMAIN delta : delta[i] \in Int /\ stock[i] + delta[i] \in Nat,
           NEW type, NEW id, [type |-> type, id |-> id] \in References,
           Moves(delta, type, id)
    PROVE  /\ stock' \in [Ingredients -> Nat] /\ book' \in [Ingredients -> Seq(Movement)]
           /\ \A i \in Ingredients : stock'[i] =
                 IF i \in DOMAIN delta THEN stock[i] + delta[i] ELSE stock[i]
           /\ \A i \in Ingredients : \A t, k :
                 IF i \in DOMAIN delta /\ t = type /\ k = id
                 THEN Adds(i, t, k, delta[i]) ELSE Stays(i, t, k)
<1> DEFINE m(i) == [qty |-> delta[i], after |-> stock[i] + delta[i],
                    ref |-> [type |-> type, id |-> id]]
<1>1. \A i \in DOMAIN delta : m(i) \in Movement
  BY DEF Movement
<1>2. \A i \in Ingredients : book[i] \in Seq(Movement)
  BY DEF TypeOK
<1>3. /\ \A i \in Ingredients :
            book'[i] = IF i \in DOMAIN delta THEN Append(book[i], m(i)) ELSE book[i]
      /\ book' = [i \in Ingredients |-> book'[i]]
  BY DEF Moves
<1>4. \A i \in Ingredients : book'[i] \in Seq(Movement)
  <2> SUFFICES ASSUME NEW i \in Ingredients PROVE book'[i] \in Seq(Movement)
    OBVIOUS
  <2>1. CASE i \in DOMAIN delta
    <3>1. m(i) \in Movement /\ book'[i] = Append(book[i], m(i))
      BY <1>1, <1>3, <2>1
    <3> HIDE DEF m
    <3> QED BY <1>2, <3>1, AppendProperties
  <2>2. CASE i \notin DOMAIN delta
    BY <1>2, <1>3, <2>2
  <2> QED BY <2>1, <2>2
<1>5. /\ stock' \in [Ingredients -> Nat]
      /\ \A i \in Ingredients : stock'[i] =
            IF i \in DOMAIN delta THEN stock[i] + delta[i] ELSE stock[i]
  BY DEF TypeOK, Moves
<1>6. ASSUME NEW i \in Ingredients, NEW t, NEW k
      PROVE  IF i \in DOMAIN delta /\ t = type /\ k = id
             THEN Adds(i, t, k, delta[i]) ELSE Stays(i, t, k)
  <2>1. CASE i \notin DOMAIN delta
    BY <1>2, <1>3, <2>1, NothingPosted
  <2>2. CASE i \in DOMAIN delta
    <3>1. /\ m(i).qty = delta[i]
          /\ m(i).ref = [type |-> t, id |-> k] <=> t = type /\ k = id
      OBVIOUS
    <3>2. m(i) \in Movement /\ book'[i] = Append(book[i], m(i))
      BY <1>1, <1>3, <2>2
    <3> HIDE DEF m
    <3>3. /\ m(i).ref = [type |-> t, id |-> k] => Adds(i, t, k, m(i).qty)
          /\ m(i).ref # [type |-> t, id |-> k] => Stays(i, t, k)
      BY <1>2, <3>2, OnePosted
    <3> QED BY <2>2, <3>1, <3>3
  <2> QED BY <2>1, <2>2
<1> QED
  <2>1. book' \in [Ingredients -> Seq(Movement)]
    BY <1>3, <1>4
  <2> QED BY <1>5, <1>6, <2>1

\* A draft costs a natural number.
LEMMA TotalIsNat == ASSUME NEW l \in Lines PROVE TotalOf(l) \in Nat
<1> DEFINE It(g) == [s \in SUBSET Ingredients |->
                IF s = {} THEN 0
                ELSE l[CHOOSE x \in s : TRUE].total + g[s \ {CHOOSE x \in s : TRUE}]]
           v == [x \in Ingredients |-> l[x].total]
           iter == CHOOSE g : g = It(g)
<1>1. TotalOf(l) = iter[Ingredients]
  BY DEF TotalOf, MapThenSumSet, MapThenFoldSet
<1>2. \A x \in Ingredients : v[x] = l[x].total /\ v[x] \in Nat
  BY IngredientAssumption
<1>3. IsFiniteSet(Ingredients) /\ Numbers(v, Ingredients)
  BY <1>2, IngredientAssumption DEF Numbers
<1> HIDE DEF v
<1>4. \A s \in SUBSET Ingredients : s # {} => (CHOOSE x \in s : TRUE) \in Ingredients
  OBVIOUS
<1>5. \A g : It(g) = [s \in SUBSET Ingredients |->
                IF s = {} THEN 0 ELSE v[Pick(s)] + g[s \ {Pick(s)}]]
  BY <1>2, <1>4 DEF Pick
<1> HIDE DEF It
<1>6. PICK f \in Sums(v, Ingredients) : f = It(f)
  <2>1. PICK f \in Sums(v, Ingredients) : TRUE
    BY <1>3, SumExists
  <2>2. f = It(f)
    BY <1>5 DEF Sums
  <2> QED BY <2>2
<1>7. iter = It(iter)
  BY <1>6
<1> HIDE DEF iter
<1>8. iter \in Sums(v, Ingredients)
  BY <1>3, <1>5, <1>7, RecursionIsSum
<1> QED BY <1>1, <1>2, <1>3, <1>8, SumIs, SumOfNaturals

-----------------------------------------------------------------------------
(* The requests *)

\* The refunds of an order that are on their way.
InHand(o) == {u \in Slots : req[u].step = "refund" /\ req[u].id = o}

LEMMA InHandIsCounted ==
    ASSUME NEW o
    PROVE  /\ IsFiniteSet(InHand(o)) /\ Cardinality(InHand(o)) \in Nat
           /\ InStep("refund") \in Nat /\ Cardinality(InHand(o)) <= InStep("refund")
<1> DEFINE R == {u \in Slots : req[u].step = "refund"}
<1>1. IsFiniteSet(R) /\ InHand(o) \in SUBSET R /\ InHand(o) \in SUBSET Slots
  BY IngredientAssumption, FS_Subset DEF InHand
<1> HIDE DEF R
<1>2. IsFiniteSet(InHand(o)) /\ Cardinality(InHand(o)) <= Cardinality(R)
  BY <1>1, FS_Subset
<1> QED BY <1>1, <1>2, FS_CardinalityType DEF InStep, R

LEMMA RefundBegins ==
    ASSUME TypeOK, NEW s \in Slots, NEW r, req[s] = Idle, req' = [req EXCEPT ![s] = r],
           NEW o
    PROVE  /\ Cardinality(InHand(o)) \in Nat
           /\ Cardinality(InHand(o))' = IF r.step = "refund" /\ r.id = o
                                        THEN Cardinality(InHand(o)) + 1
                                        ELSE Cardinality(InHand(o))
<1>1. s \notin InHand(o)
  BY DEF Idle, InHand
<1>2. InHand(o)' = IF r.step = "refund" /\ r.id = o THEN InHand(o) \cup {s} ELSE InHand(o)
  BY DEF TypeOK, Idle, InHand
<1>3. /\ Cardinality(InHand(o)) \in Nat
      /\ Cardinality(InHand(o) \cup {s}) = Cardinality(InHand(o)) + 1
  BY <1>1, InHandIsCounted, FS_AddElement
<1> QED BY <1>2, <1>3

LEMMA RefundEnds ==
    ASSUME TypeOK, NEW s \in Slots, Ends(s), NEW o
    PROVE  /\ Cardinality(InHand(o)) \in Nat /\ Cardinality(InHand(o))' \in Nat
           /\ Cardinality(InHand(o))' = IF s \in InHand(o) THEN Cardinality(InHand(o)) - 1
                                                           ELSE Cardinality(InHand(o))
<1>1. InHand(o)' = InHand(o) \ {s}
  BY DEF TypeOK, Idle, Ends, InHand
<1>2. /\ Cardinality(InHand(o)) \in Nat /\ Cardinality(InHand(o) \ {s}) \in Nat
      /\ Cardinality(InHand(o) \ {s}) = IF s \in InHand(o) THEN Cardinality(InHand(o)) - 1
                                        ELSE Cardinality(InHand(o))
  BY InHandIsCounted, FS_RemoveElement, FS_CardinalityType
<1> QED BY <1>1, <1>2

\* A request carries the data of its step.
LEMMA RequestCarries ==
    ASSUME TypeOK, NEW s \in Slots
    PROVE  /\ req[s].step = "edit" => req[s] \in
                 [step : {"edit"}, id : Purchases, lines : Lines \cup {None}, total : Nat]
           /\ req[s].step = "receive" => req[s] \in
                 [step : {"receive"}, id : Purchases, lines : Lines]
           /\ req[s].step = "refund" => req[s] \in
                 [step : {"refund"}, id : Orders, units : Nat]
           /\ req[s].step = "count" => req[s] \in
                 [step : {"count"}, id : Ingredients, delta : Int, cost : Costs \cup {None}]
<1>1. req[s] \in Request
  BY DEF TypeOK
<1> QED BY <1>1 DEF Request, Idle

LEMMA EndsTyped ==
    ASSUME TypeOK, NEW s \in Slots, Ends(s)
    PROVE  req' \in [Slots -> Request]
BY DEF TypeOK, Ends, Request

-----------------------------------------------------------------------------
(* The parts of the invariant *)

RefundsCounted ==
    \A o \in Orders : order[o].refunds + Cardinality(InHand(o)) <= MaxRefunds

\* Using an ingredient takes some of it out.
UsedTakesOut ==
    \A o \in Orders, i \in Ingredients :
        \A n \in Entries(i, "ORDER_COMPLETED", o) : book[i][n].qty <= 0

\* What came back is the share that was refunded, but for half a part at each refund.
BackWithinShare ==
    \A o \in Orders, i \in Ingredients :
        2 * (Units[o] * Moved(i, "REFUND_RESTORE", o))
            <= 2 * ((0 - Moved(i, "ORDER_COMPLETED", o)) * Clamped(o, order[o].refunded))
                  + Units[o] * Cardinality(Entries(i, "REFUND_RESTORE", o))

\* An ingredient without a cost has never been used.
UnpricedIsUnused ==
    \A i \in Ingredients : Opening[i] = 0 /\ cost[i] = None =>
        \A o \in Orders : Entries(i, "ORDER_COMPLETED", o) = {}

\* It is about to be counted up only together with its first cost.
UnpricedCountsDown ==
    \A s \in Slots : req[s].step = "count" =>
        LET r == req[s]
        IN Opening[r.id] = 0 /\ cost[r.id] = None /\ r.cost = None => r.delta <= 0

IngredientInv ==
    /\ TypeOK /\ RefundsCounted /\ UsedTakesOut /\ ReceivedAsOneDraft /\ BackWithinShare
    /\ AverageIsWithinPrices /\ UnpricedIsUnused /\ UnpricedCountsDown

\* What a movement for something else leaves alone.
LEMMA ReceivedStays ==
    ASSUME ReceivedAsOneDraft,
           \A d \in Purchases :
              /\ purchase'[d].status = "RECEIVED" <=> purchase[d].status = "RECEIVED"
              /\ purchase[d].status = "RECEIVED" => purchase'[d].total = purchase[d].total,
           \A d \in Purchases, i \in Ingredients : Stays(i, "PURCHASE_RECEIVE", d)
    PROVE  ReceivedAsOneDraft'
<1> SUFFICES ASSUME NEW d \in Purchases
             PROVE  IF purchase'[d].status = "RECEIVED"
                    THEN \E l \in Lines :
                       /\ purchase'[d].total = TotalOf(l)
                       /\ \A i \in Ingredients :
                            /\ Cardinality(Entries(i, "PURCHASE_RECEIVE", d)')
                                  = IF l[i].qty > 0 THEN 1 ELSE 0
                            /\ Moved(i, "PURCHASE_RECEIVE", d)' = l[i].qty
                    ELSE \A i \in Ingredients : Entries(i, "PURCHASE_RECEIVE", d)' = {}
  BY DEF ReceivedAsOneDraft
<1> QED BY DEF ReceivedAsOneDraft, Stays

LEMMA UsedStays ==
    ASSUME UsedTakesOut, \A o \in Orders, i \in Ingredients : Stays(i, "ORDER_COMPLETED", o)
    PROVE  UsedTakesOut'
<1> SUFFICES ASSUME NEW o \in Orders, NEW i \in Ingredients,
                    NEW n \in Entries(i, "ORDER_COMPLETED", o)'
             PROVE  book'[i][n].qty <= 0
  BY DEF UsedTakesOut
<1> QED BY DEF UsedTakesOut, Stays

\* What an order used is a natural number, and nothing when there is no movement.
LEMMA UsedIsNat ==
    ASSUME TypeOK, UsedTakesOut, NEW o \in Orders, NEW i \in Ingredients
    PROVE  /\ 0 - Moved(i, "ORDER_COMPLETED", o) \in Nat
           /\ Entries(i, "ORDER_COMPLETED", o) = {} => Moved(i, "ORDER_COMPLETED", o) = 0
<1> DEFINE E == Entries(i, "ORDER_COMPLETED", o)
           v == Quantities(book[i])
<1>1. book[i] \in Seq(Movement)
  BY DEF TypeOK
<1>2. IsFiniteSet(E) /\ \A n \in E : v[n] \in Int /\ v[n] <= 0
  BY <1>1, EntriesAreFinite DEF UsedTakesOut, Numbers
<1>3. /\ Moved(i, "ORDER_COMPLETED", o) = SumOf(v, E)
      /\ Moved(i, "ORDER_COMPLETED", o) \in Int
  BY <1>1, MovedIs
<1> HIDE DEF E, v
<1>4. SumOf(v, E) <= 0
  BY <1>2, SumOfNegatives
<1>5. E = {} => SumOf(v, E) = 0
  BY SumOfNone
<1> QED BY <1>3, <1>4, <1>5 DEF E

LEMMA ClampedIsNat ==
    ASSUME NEW o \in Orders, NEW u \in Nat, NEW w \in Nat
    PROVE  /\ Clamped(o, u) \in Nat /\ Clamped(o, u) <= Units[o]
           /\ Clamped(o, u) <= Clamped(o, u + w)
BY IngredientAssumption DEF Clamped

\* The count of the entries that there are.
LEMMA CountIsNat ==
    ASSUME NEW i, NEW t, NEW k, book[i] \in Seq(Movement)
    PROVE  Cardinality(Entries(i, t, k)) \in Nat
BY EntriesAreFinite, FS_CardinalityType

LEMMA Times ==
    ASSUME NEW a \in Int, NEW b \in Int, a <= b, NEW k \in Nat
    PROVE  k * a <= k * b /\ a * k <= b * k /\ k * a \in Int /\ k * b \in Int
<1>1. PICK d \in Nat : b = a + d
  <2>1. b - a \in Nat /\ b = a + (b - a)
    OBVIOUS
  <2> QED BY <2>1
<1>2. k * d \in Nat /\ k * b = k * a + k * d /\ k * a \in Int /\ a * k = k * a /\ b * k = k * b
  BY <1>1
<1> QED BY <1>2

LEMMA BackStays ==
    ASSUME TypeOK, UsedTakesOut, BackWithinShare,
           \A o \in Orders, i \in Ingredients :
              /\ Stays(i, "ORDER_COMPLETED", o) /\ Stays(i, "REFUND_RESTORE", o)
              /\ order'[o].refunded = order[o].refunded
    PROVE  BackWithinShare'
<1> SUFFICES ASSUME NEW o \in Orders, NEW i \in Ingredients
             PROVE  2 * (Units[o] * Moved(i, "REFUND_RESTORE", o)')
                       <= 2 * ((0 - Moved(i, "ORDER_COMPLETED", o)')
                                  * Clamped(o, order'[o].refunded))
                             + Units[o] * Cardinality(Entries(i, "REFUND_RESTORE", o)')
  BY DEF BackWithinShare, Clamped
<1> QED BY DEF BackWithinShare, Stays

-----------------------------------------------------------------------------
(* The average *)

\* Rounding to the nearest, told by multiplication.
LEMMA RoundedIs ==
    ASSUME NEW n \in Nat, NEW d \in Nat \ {0}
    PROVE  /\ Rounded(n, d) \in Nat
           /\ \A c \in Nat : d * (2 * c) <= 2 * n + d => c <= Rounded(n, d)
           /\ \A c \in Nat : c <= Rounded(n, d) => d * (2 * c) <= 2 * n + d
           /\ \A c \in Nat : 2 * n + d < d * (2 * (c + 1)) => Rounded(n, d) <= c
           /\ \A c \in Nat : Rounded(n, d) <= c => 2 * n + d < d * (2 * (c + 1))
<1> DEFINE r == Rounded(n, d)
           x == 2 * n + d
           e == 2 * d
<1>1. x \in Nat /\ e \in Nat \ {0}
  OBVIOUS
<1>2. r \in Nat /\ e * r <= x /\ x < e * (r + 1)
  <2>1. r = x \div e
    BY DEF Rounded
  <2> HIDE DEF r, x, e
  <2> QED BY <1>1, <2>1
<1>3. \A c \in Nat : d * (2 * c) = e * c /\ e * c \in Nat
  OBVIOUS
<1>4. \A c \in Nat : c <= r => e * c <= e * r
  <2> HIDE DEF e, r
  <2> QED BY <1>1, <1>2, Times
<1>5. \A c \in Nat : r + 1 <= c => e * (r + 1) <= e * c
  <2> HIDE DEF e, r
  <2> QED BY <1>1, <1>2, Times
<1>6. \A c \in Nat : r <= c => e * (r + 1) <= e * (c + 1)
  <2> HIDE DEF e, r
  <2> QED BY <1>1, <1>2, Times
<1>7. \A c \in Nat : c + 1 <= r => e * (c + 1) <= e * r
  <2> HIDE DEF e, r
  <2> QED BY <1>1, <1>2, Times
<1> HIDE DEF r, x, e
<1>8. ASSUME NEW c \in Nat
      PROVE  /\ e * c <= x => c <= r
             /\ c <= r => e * c <= x
             /\ x < e * (c + 1) => r <= c
             /\ r <= c => x < e * (c + 1)
  <2>1. e * c \in Nat /\ e * (c + 1) \in Nat /\ e * r \in Nat /\ e * (r + 1) \in Nat
    BY <1>1, <1>2
  <2>2. /\ c <= r \/ r + 1 <= c
        /\ r <= c \/ c + 1 <= r
    BY <1>2
  <2>3. /\ c <= r => e * c <= e * r
        /\ r + 1 <= c => e * (r + 1) <= e * c
        /\ r <= c => e * (r + 1) <= e * (c + 1)
        /\ c + 1 <= r => e * (c + 1) <= e * r
    BY <1>4, <1>5, <1>6, <1>7
  <2> DEFINE A == e * c
             B == e * (c + 1)
             C == e * r
             D == e * (r + 1)
  <2>4. A \in Nat /\ B \in Nat /\ C \in Nat /\ D \in Nat /\ C <= x /\ x < D
    BY <1>2, <2>1
  <2>5. /\ c <= r => A <= C
        /\ r + 1 <= c => D <= A
        /\ r <= c => D <= B
        /\ c + 1 <= r => B <= C
    BY <2>3
  <2> HIDE DEF A, B, C, D
  <2>6. /\ A <= x => c <= r
        /\ c <= r => A <= x
        /\ x < B => r <= c
        /\ r <= c => x < B
    BY <1>1, <2>2, <2>4, <2>5
  <2> QED BY <2>6 DEF A, B
<1> QED
  <2>1. \A c \in Nat : d * (2 * c) = e * c /\ d * (2 * (c + 1)) = e * (c + 1)
    BY <1>3
  <2>2. r \in Nat /\ \A c \in Nat : /\ d * (2 * c) <= x => c <= r
                                    /\ c <= r => d * (2 * c) <= x
                                    /\ x < d * (2 * (c + 1)) => r <= c
                                    /\ r <= c => x < d * (2 * (c + 1))
    BY <1>2, <1>8, <2>1
  <2> QED BY <2>2 DEF r, x

\* The weighted average of a cost and a price is not below both nor above both,
\* whatever it is rounded to.
LEMMA AverageBetween ==
    ASSUME NEW S \in Nat, NEW c \in Nat, NEW Y \in Nat, NEW q \in Nat \ {0}, NEW m \in Nat
    PROVE  /\ Rounded(S * c + Y, S + q) \in Nat
           /\ m <= Rounded(Y, q) /\ (S = 0 \/ m <= c) => m <= Rounded(S * c + Y, S + q)
           /\ Rounded(Y, q) <= m /\ (S = 0 \/ c <= m) => Rounded(S * c + Y, S + q) <= m
<1>1. S * c + Y \in Nat /\ S + q \in Nat \ {0} /\ S * c \in Nat
  OBVIOUS
<1>2. /\ (S + q) * (2 * m) = S * (2 * m) + q * (2 * m)
      /\ (S + q) * (2 * (m + 1)) = S * (2 * (m + 1)) + q * (2 * (m + 1))
      /\ 2 * (S * c + Y) + (S + q) = S * (2 * c + 1) + (2 * Y + q)
      /\ S * (2 * m) \in Nat /\ q * (2 * m) \in Nat /\ S * (2 * (m + 1)) \in Nat
      /\ q * (2 * (m + 1)) \in Nat /\ S * (2 * c + 1) \in Nat
  OBVIOUS
<1>3. ASSUME m <= Rounded(Y, q), S = 0 \/ m <= c
      PROVE  m <= Rounded(S * c + Y, S + q)
  <2>1. q * (2 * m) <= 2 * Y + q
    BY <1>3, RoundedIs
  <2>2. S * (2 * m) <= S * (2 * c + 1)
    <3>1. CASE S = 0
      BY <3>1
    <3>2. CASE m <= c
      <4>1. 2 * m <= 2 * c + 1 /\ 2 * m \in Int /\ 2 * c + 1 \in Int
        BY <3>2
      <4> QED BY <4>1, Times
    <3> QED BY <1>3, <3>1, <3>2
  <2>3. (S + q) * (2 * m) <= 2 * (S * c + Y) + (S + q)
    BY <1>2, <2>1, <2>2
  <2> QED BY <1>1, <2>3, RoundedIs
<1>4. ASSUME Rounded(Y, q) <= m, S = 0 \/ c <= m
      PROVE  Rounded(S * c + Y, S + q) <= m
  <2>1. 2 * Y + q < q * (2 * (m + 1))
    BY <1>4, RoundedIs
  <2>2. S * (2 * c + 1) <= S * (2 * (m + 1))
    <3>1. CASE S = 0
      BY <3>1
    <3>2. CASE c <= m
      <4>1. 2 * c + 1 <= 2 * (m + 1) /\ 2 * c + 1 \in Int /\ 2 * (m + 1) \in Int
        BY <3>2
      <4> QED BY <4>1, Times
    <3> QED BY <1>4, <3>1, <3>2
  <2>3. 2 * (S * c + Y) + (S + q) < (S + q) * (2 * (m + 1))
    BY <1>2, <2>1, <2>2
  <2> QED BY <1>1, <2>3, RoundedIs
<1> QED BY <1>1, <1>3, <1>4, RoundedIs

LEMMA PricesAreNat ==
    ASSUME NEW i \in Ingredients, NEW p \in Prices(i)
    PROVE  p \in Nat
<1>1. CASE p \in Costs
  BY <1>1, IngredientAssumption
<1>2. CASE p \notin Costs
  <2>1. PICK l \in Lines : l[i].qty > 0 /\ p = Rounded(Scale * l[i].total, l[i].qty)
    BY <1>2 DEF Prices
  <2>2. Scale * l[i].total \in Nat /\ l[i].qty \in Nat \ {0}
    BY <2>1, IngredientAssumption
  <2> QED BY <2>1, <2>2, RoundedIs
<1> QED BY <1>1, <1>2

-----------------------------------------------------------------------------
(* The steps that move nothing *)

LEMMA PricesStay ==
    ASSUME AverageIsWithinPrices, cost' = cost,
           \A i \in Ingredients : Opening[i] = 0 /\ cost[i] = None => stock'[i] <= stock[i],
           stock \in [Ingredients -> Nat], stock' \in [Ingredients -> Nat]
    PROVE  AverageIsWithinPrices'
<1> SUFFICES ASSUME NEW i \in Ingredients, Opening[i] = 0
             PROVE  /\ stock'[i] > 0 => cost'[i] # None
                    /\ cost'[i] # None =>
                          \E p, q \in Prices(i) : p <= cost'[i] /\ cost'[i] <= q
  BY DEF AverageIsWithinPrices, Prices, Rounded
<1>1. stock[i] \in Nat /\ stock'[i] \in Nat
  OBVIOUS
<1> QED BY <1>1 DEF AverageIsWithinPrices

LEMMA CountsDownEnds ==
    ASSUME TypeOK, UnpricedCountsDown, NEW s \in Slots, Ends(s),
           \A i \in Ingredients : cost'[i] = None => cost[i] = None
    PROVE  UnpricedCountsDown'
<1> SUFFICES ASSUME NEW u \in Slots, req'[u].step = "count",
                    Opening[req'[u].id] = 0, cost'[req'[u].id] = None, req'[u].cost = None
             PROVE  req'[u].delta <= 0
  BY DEF UnpricedCountsDown
<1>1. req'[u] = req[u]
  BY DEF Ends, TypeOK, Idle
<1>2. req[u].id \in Ingredients
  BY <1>1, RequestCarries
<1> QED BY <1>1, <1>2 DEF UnpricedCountsDown

LEMMA CountedEnds ==
    ASSUME TypeOK, RefundsCounted, NEW s \in Slots, Ends(s),
           \A o \in Orders : order'[o].refunds = order[o].refunds
    PROVE  RefundsCounted'
<1> SUFFICES ASSUME NEW o \in Orders
             PROVE  order'[o].refunds + Cardinality(InHand(o))' <= MaxRefunds
  BY DEF RefundsCounted
<1>1. /\ Cardinality(InHand(o)) \in Nat /\ Cardinality(InHand(o))' \in Nat
      /\ Cardinality(InHand(o))' <= Cardinality(InHand(o))
  BY RefundEnds
<1>2. order[o].refunds \in Nat
  BY DEF TypeOK, OrderRow
<1> QED BY <1>1, <1>2, IngredientAssumption DEF RefundsCounted

LEMMA BookQuiet ==
    ASSUME TypeOK, book' = book
    PROVE  \A i \in Ingredients : \A t, k : Stays(i, t, k)
BY NothingPosted DEF TypeOK

LEMMA UnusedStays ==
    ASSUME UnpricedIsUnused, \A i \in Ingredients : cost'[i] = None => cost[i] = None,
           \A o \in Orders, i \in Ingredients : Stays(i, "ORDER_COMPLETED", o)
    PROVE  UnpricedIsUnused'
<1> SUFFICES ASSUME NEW i \in Ingredients, Opening[i] = 0, cost'[i] = None, NEW o \in Orders
             PROVE  Entries(i, "ORDER_COMPLETED", o)' = {}
  BY DEF UnpricedIsUnused
<1> QED BY DEF UnpricedIsUnused, Stays

\* A request that begins.
LEMMA Begins ==
    ASSUME IngredientInv, NEW s \in Slots, NEW r \in Request, Starts(s, r),
           r.step = "refund" => order[r.id].refunds + InStep("refund") < MaxRefunds,
           r.step = "count" =>
              (Opening[r.id] = 0 /\ cost[r.id] = None /\ r.cost = None => r.delta <= 0)
    PROVE  IngredientInv'
<1> USE DEF IngredientInv
<1>1. TypeOK'
  BY DEF TypeOK, Starts
<1>2. \A i \in Ingredients : \A t, k : Stays(i, t, k)
  BY BookQuiet DEF Starts
<1>3. RefundsCounted'
  <2> SUFFICES ASSUME NEW o \in Orders
               PROVE  order'[o].refunds + Cardinality(InHand(o))' <= MaxRefunds
    BY DEF RefundsCounted
  <2>1. /\ Cardinality(InHand(o)) \in Nat
        /\ Cardinality(InHand(o))' = IF r.step = "refund" /\ r.id = o
                                     THEN Cardinality(InHand(o)) + 1
                                     ELSE Cardinality(InHand(o))
    BY RefundBegins DEF Starts
  <2>2. order[o].refunds \in Nat /\ order'[o].refunds = order[o].refunds
    BY DEF TypeOK, OrderRow, Starts
  <2>3. InStep("refund") \in Nat /\ Cardinality(InHand(o)) <= InStep("refund")
    BY InHandIsCounted
  <2> QED BY <2>1, <2>2, <2>3, IngredientAssumption DEF RefundsCounted
<1>4. UsedTakesOut'
  BY <1>2, UsedStays
<1>5. ReceivedAsOneDraft'
  BY <1>2, ReceivedStays DEF Starts
<1>6. BackWithinShare'
  BY <1>2, BackStays DEF Starts
<1>7. AverageIsWithinPrices'
  BY <1>1, PricesStay DEF Starts, TypeOK
<1>8. UnpricedIsUnused'
  BY <1>2, UnusedStays DEF Starts
<1>9. UnpricedCountsDown'
  BY DEF UnpricedCountsDown, Starts, TypeOK
<1> QED BY <1>1, <1>3, <1>4, <1>5, <1>6, <1>7, <1>8, <1>9

LEMMA EditBegins ==
    ASSUME IngredientInv, NEW s \in Slots, NEW d \in Purchases, NEW lines \in Lines \cup {None},
           EditRead(s, d, lines)
    PROVE  IngredientInv'
<1> DEFINE r == [step |-> "edit", id |-> d, lines |-> lines,
                 total |-> TotalOf(IF lines = None THEN purchase[d].lines ELSE lines)]
<1>1. r \in Request /\ r.step = "edit"
  BY TotalIsNat DEF IngredientInv, TypeOK, PurchaseRow, Request
<1>2. Starts(s, r)
  BY DEF EditRead
<1> HIDE DEF r
<1> QED BY <1>1, <1>2, Begins

LEMMA ReceiveBegins ==
    ASSUME IngredientInv, NEW s \in Slots, NEW d \in Purchases, ReceiveRead(s, d)
    PROVE  IngredientInv'
<1> DEFINE r == [step |-> "receive", id |-> d, lines |-> purchase[d].lines]
<1>1. r \in Request /\ r.step = "receive"
  BY DEF IngredientInv, TypeOK, PurchaseRow, Request
<1>2. Starts(s, r)
  BY DEF ReceiveRead
<1> HIDE DEF r
<1> QED BY <1>1, <1>2, Begins

LEMMA RefundIsAsked ==
    ASSUME IngredientInv, NEW s \in Slots, NEW o \in Orders, NEW units \in 1 .. Units[o],
           RefundRead(s, o, units)
    PROVE  IngredientInv'
<1> DEFINE r == [step |-> "refund", id |-> o, units |-> units]
<1>1. r \in Request /\ r.step = "refund" /\ r.id = o
  BY IngredientAssumption DEF Request
<1>2. Starts(s, r) /\ order[o].refunds + InStep("refund") < MaxRefunds
  BY DEF RefundRead
<1> HIDE DEF r
<1> QED BY <1>1, <1>2, Begins

\* Without a cost and without an opening balance there is nothing to count down from.
LEMMA CountBegins ==
    ASSUME IngredientInv, NEW s \in Slots, NEW i \in Ingredients, NEW target \in Targets,
           NEW first \in Costs \cup {None}, CountRead(s, i, target, first)
    PROVE  IngredientInv'
<1> DEFINE r == [step |-> "count", id |-> i, delta |-> target - stock[i], cost |-> first]
<1>1. target \in Nat /\ stock[i] \in Nat
  BY IngredientAssumption DEF IngredientInv, TypeOK
<1>2. /\ r \in Request /\ r.step = "count" /\ r.id = i /\ r.cost = first
      /\ r.delta = target - stock[i]
  BY <1>1 DEF Request
<1>3. cost[i] = None /\ first = None => target = 0
  BY <1>1 DEF CountRead
<1>4. Starts(s, r)
  BY DEF CountRead
<1> HIDE DEF r
<1> QED BY <1>1, <1>2, <1>3, <1>4, Begins

LEMMA EditEnds ==
    ASSUME IngredientInv, NEW s \in Slots, EditWrite(s)
    PROVE  IngredientInv'
<1> USE DEF IngredientInv
<1>1. req[s] \in [step : {"edit"}, id : Purchases, lines : Lines \cup {None}, total : Nat]
  BY RequestCarries DEF EditWrite
<1>2. Ends(s) /\ UNCHANGED <<stock, cost, book, order>>
  BY DEF EditWrite
<1>3. /\ purchase' \in [Purchases -> PurchaseRow]
      /\ \A d \in Purchases :
            /\ purchase'[d].status = "RECEIVED" <=> purchase[d].status = "RECEIVED"
            /\ purchase[d].status = "RECEIVED" => purchase'[d].total = purchase[d].total
  BY <1>1 DEF EditWrite, StillDraft, TypeOK, PurchaseRow
<1>4. TypeOK'
  BY <1>2, <1>3, EndsTyped DEF TypeOK
<1>5. \A i \in Ingredients : \A t, k : Stays(i, t, k)
  BY <1>2, BookQuiet
<1>6. UsedTakesOut' /\ BackWithinShare' /\ UnpricedIsUnused'
  BY <1>2, <1>5, UsedStays, BackStays, UnusedStays
<1>7. ReceivedAsOneDraft'
  BY <1>3, <1>5, ReceivedStays
<1>8. AverageIsWithinPrices'
  BY <1>2, <1>4, PricesStay DEF TypeOK
<1>9. RefundsCounted' /\ UnpricedCountsDown'
  BY <1>2, CountedEnds, CountsDownEnds
<1> QED BY <1>4, <1>6, <1>7, <1>8, <1>9

LEMMA DraftIsCancelled ==
    ASSUME IngredientInv, NEW d \in Purchases, CancelPurchase(d)
    PROVE  IngredientInv'
<1> USE DEF IngredientInv
<1>1. UNCHANGED <<stock, cost, book, order, req>>
  BY DEF CancelPurchase
<1>2. /\ purchase' \in [Purchases -> PurchaseRow]
      /\ \A e \in Purchases :
            /\ purchase'[e].status = "RECEIVED" <=> purchase[e].status = "RECEIVED"
            /\ purchase[e].status = "RECEIVED" => purchase'[e].total = purchase[e].total
  BY DEF CancelPurchase, TypeOK, PurchaseRow
<1>3. TypeOK'
  BY <1>1, <1>2 DEF TypeOK
<1>4. \A i \in Ingredients : \A t, k : Stays(i, t, k)
  BY <1>1, BookQuiet
<1>5. UsedTakesOut' /\ BackWithinShare' /\ UnpricedIsUnused'
  BY <1>1, <1>4, UsedStays, BackStays, UnusedStays
<1>6. ReceivedAsOneDraft'
  BY <1>2, <1>4, ReceivedStays
<1>7. AverageIsWithinPrices'
  BY <1>1, <1>3, PricesStay DEF TypeOK
<1>8. RefundsCounted' /\ UnpricedCountsDown'
  BY <1>1 DEF RefundsCounted, InHand, UnpricedCountsDown
<1> QED BY <1>3, <1>5, <1>6, <1>7, <1>8

-----------------------------------------------------------------------------
(* The steps that move stock *)

\* Only the use of an order is new in the book.
LEMMA OrderUses ==
    ASSUME IngredientInv, NEW o \in Orders, Consume(o)
    PROVE  IngredientInv'
<1> USE DEF IngredientInv
<1> DEFINE delta == [i \in Used(o) |-> 0 - Needs[o][i]]
<1>1. /\ DOMAIN delta \in SUBSET Ingredients /\ DOMAIN delta = Used(o)
      /\ \A i \in DOMAIN delta : /\ delta[i] \in Int /\ delta[i] < 0
                                 /\ stock[i] + delta[i] \in Nat /\ stock[i] > 0
  <2>1. \A i \in Used(o) : i \in Ingredients /\ Needs[o][i] \in Nat /\ Needs[o][i] > 0
    BY IngredientAssumption DEF Used
  <2>2. \A i \in Used(o) : stock[i] \in Nat
    BY <2>1 DEF TypeOK
  <2>3. \A i \in Used(o) : stock[i] + (0 - Needs[o][i]) >= 0
    BY DEF Consume, Enough
  <2> QED BY <2>1, <2>2, <2>3
<1>2. /\ Moves(delta, "ORDER_COMPLETED", o) /\ UNCHANGED <<cost, purchase, req>>
      /\ order' = [order EXCEPT ![o].consumed = TRUE]
  BY DEF Consume
<1> HIDE DEF delta
<1>3. /\ stock' \in [Ingredients -> Nat] /\ book' \in [Ingredients -> Seq(Movement)]
      /\ \A i \in Ingredients : stock'[i] =
            IF i \in DOMAIN delta THEN stock[i] + delta[i] ELSE stock[i]
      /\ \A i \in Ingredients : \A t, k :
            IF i \in DOMAIN delta /\ t = "ORDER_COMPLETED" /\ k = o
            THEN Adds(i, t, k, delta[i]) ELSE Stays(i, t, k)
  <2>1. [type |-> "ORDER_COMPLETED", id |-> o] \in References
    BY DEF References
  <2> QED BY <1>1, <1>2, <2>1, MovesPost
<1>4. /\ order' \in [Orders -> OrderRow]
      /\ \A x \in Orders : /\ order'[x].refunded = order[x].refunded
                           /\ order'[x].refunds = order[x].refunds
  BY <1>2 DEF TypeOK, OrderRow
<1>5. TypeOK'
  BY <1>2, <1>3, <1>4 DEF TypeOK
<1>6. UsedTakesOut'
  <2> SUFFICES ASSUME NEW x \in Orders, NEW i \in Ingredients,
                      NEW n \in Entries(i, "ORDER_COMPLETED", x)'
               PROVE  book'[i][n].qty <= 0
    BY DEF UsedTakesOut
  <2>1. CASE i \in DOMAIN delta /\ x = o
    <3>1. Adds(i, "ORDER_COMPLETED", x, delta[i]) /\ delta[i] <= 0
      BY <1>1, <1>3, <2>1
    <3> QED BY <3>1 DEF Adds, UsedTakesOut
  <2>2. CASE ~(i \in DOMAIN delta /\ x = o)
    <3>1. Stays(i, "ORDER_COMPLETED", x)
      BY <1>3, <2>2
    <3> QED BY <3>1 DEF Stays, UsedTakesOut
  <2> QED BY <2>1, <2>2
<1>7. ReceivedAsOneDraft'
  <2>1. \A d \in Purchases, i \in Ingredients : Stays(i, "PURCHASE_RECEIVE", d)
    BY <1>3
  <2> QED BY <1>2, <2>1, ReceivedStays
<1>8. BackWithinShare'
  <2> SUFFICES ASSUME NEW x \in Orders, NEW i \in Ingredients
               PROVE  2 * (Units[x] * Moved(i, "REFUND_RESTORE", x)')
                         <= 2 * ((0 - Moved(i, "ORDER_COMPLETED", x)')
                                    * Clamped(x, order'[x].refunded))
                               + Units[x] * Cardinality(Entries(i, "REFUND_RESTORE", x)')
    BY DEF BackWithinShare, Clamped
  <2> DEFINE u == 0 - Moved(i, "ORDER_COMPLETED", x)
             w == 0 - Moved(i, "ORDER_COMPLETED", x)'
             K == Clamped(x, order[x].refunded)
  <2>1. Stays(i, "REFUND_RESTORE", x) /\ order'[x].refunded = order[x].refunded
    BY <1>3, <1>4
  <2>2. u \in Nat /\ w \in Int /\ u <= w
    <3>1. u \in Nat /\ Moved(i, "ORDER_COMPLETED", x) \in Int
      BY UsedIsNat, MovedIs DEF TypeOK
    <3>2. CASE i \in DOMAIN delta /\ x = o
      <4>1. Moved(i, "ORDER_COMPLETED", x)' = Moved(i, "ORDER_COMPLETED", x) + delta[i]
        BY <1>3, <3>2 DEF Adds
      <4>2. delta[i] \in Int /\ delta[i] < 0
        BY <1>1, <3>2
      <4> QED BY <3>1, <4>1, <4>2
    <3>3. CASE ~(i \in DOMAIN delta /\ x = o)
      <4>1. Moved(i, "ORDER_COMPLETED", x)' = Moved(i, "ORDER_COMPLETED", x)
        BY <1>3, <3>3 DEF Stays
      <4> QED BY <3>1, <4>1
    <3> QED BY <3>2, <3>3
  <2>3. K \in Nat
    <3>1. order[x].refunded \in Nat
      BY DEF TypeOK, OrderRow
    <3> QED BY <3>1, ClampedIsNat
  <2> HIDE DEF u, w, K
  <2>4. u * K <= w * K /\ u * K \in Int /\ w * K \in Int
    BY <2>2, <2>3, Times
  <2>5. 2 * (Units[x] * Moved(i, "REFUND_RESTORE", x))
           <= 2 * (u * K) + Units[x] * Cardinality(Entries(i, "REFUND_RESTORE", x))
    BY DEF BackWithinShare, u, K
  <2>6. /\ Units[x] * Moved(i, "REFUND_RESTORE", x) \in Int
        /\ Units[x] * Cardinality(Entries(i, "REFUND_RESTORE", x)) \in Int
    <3>1. Units[x] \in Int /\ Moved(i, "REFUND_RESTORE", x) \in Int
      BY IngredientAssumption, MovedIs DEF TypeOK
    <3>2. Cardinality(Entries(i, "REFUND_RESTORE", x)) \in Int
      BY CountIsNat DEF TypeOK
    <3> QED BY <3>1, <3>2
  <2>7. 2 * (Units[x] * Moved(i, "REFUND_RESTORE", x))
           <= 2 * (w * K) + Units[x] * Cardinality(Entries(i, "REFUND_RESTORE", x))
    BY <2>4, <2>5, <2>6
  <2> QED BY <2>1, <2>7 DEF Stays, w, K
<1>9. AverageIsWithinPrices'
  <2>1. \A i \in Ingredients : stock[i] \in Nat /\ stock'[i] <= stock[i]
    <3> SUFFICES ASSUME NEW i \in Ingredients PROVE stock[i] \in Nat /\ stock'[i] <= stock[i]
      OBVIOUS
    <3>1. stock[i] \in Nat
      BY DEF TypeOK
    <3>2. i \in DOMAIN delta => stock[i] + delta[i] <= stock[i]
      BY <1>1, <3>1
    <3> QED BY <1>3, <3>1, <3>2
  <2> QED BY <1>2, <1>3, <2>1, PricesStay DEF TypeOK
<1>10. UnpricedIsUnused'
  <2> SUFFICES ASSUME NEW i \in Ingredients, Opening[i] = 0, cost'[i] = None, NEW x \in Orders
               PROVE  Entries(i, "ORDER_COMPLETED", x)' = {}
    BY DEF UnpricedIsUnused
  <2>1. i \notin DOMAIN delta
    BY <1>1, <1>2 DEF AverageIsWithinPrices
  <2>2. Stays(i, "ORDER_COMPLETED", x)
    BY <1>3, <2>1
  <2> QED BY <1>2, <2>2 DEF UnpricedIsUnused, Stays
<1>11. RefundsCounted' /\ UnpricedCountsDown'
  BY <1>2, <1>4 DEF RefundsCounted, InHand, UnpricedCountsDown
<1> QED BY <1>5, <1>6, <1>7, <1>8, <1>9, <1>10, <1>11

\* A receipt is the only movement of its purchase.
LEMMA PurchaseArrives ==
    ASSUME IngredientInv, NEW s \in Slots, ReceiveWrite(s)
    PROVE  IngredientInv'
<1> USE DEF IngredientInv
<1> DEFINE r == req[s]
           bought == {i \in Ingredients : r.lines[i].qty > 0}
           delta == [i \in bought |-> r.lines[i].qty]
<1>1. r \in [step : {"receive"}, id : Purchases, lines : Lines]
  BY RequestCarries DEF ReceiveWrite
<1>2. Ends(s) /\ UNCHANGED order
  BY DEF ReceiveWrite
<1>3. CASE ~StillDraft(r.id)
  <2>1. UNCHANGED <<stock, cost, book, purchase>>
    BY <1>3 DEF ReceiveWrite
  <2>2. TypeOK'
    BY <1>2, <2>1, EndsTyped DEF TypeOK
  <2>3. \A i \in Ingredients : \A t, k : Stays(i, t, k)
    BY <2>1, BookQuiet
  <2>4. UsedTakesOut' /\ BackWithinShare' /\ UnpricedIsUnused'
    BY <1>2, <2>1, <2>3, UsedStays, BackStays, UnusedStays
  <2>5. ReceivedAsOneDraft'
    BY <2>1, <2>3, ReceivedStays
  <2>6. AverageIsWithinPrices'
    BY <2>1, <2>2, PricesStay DEF TypeOK
  <2>7. RefundsCounted' /\ UnpricedCountsDown'
    BY <1>2, <2>1, CountedEnds, CountsDownEnds
  <2> QED BY <2>2, <2>4, <2>5, <2>6, <2>7
<1>4. CASE StillDraft(r.id)
  <2>1. /\ Moves(delta, "PURCHASE_RECEIVE", r.id)
        /\ cost' = [i \in Ingredients |->
                       IF i \in bought THEN Average(i, r.lines[i]) ELSE cost[i]]
        /\ purchase' = [purchase EXCEPT ![r.id].status = "RECEIVED",
                                        ![r.id].total = TotalOf(r.lines)]
    BY <1>4 DEF ReceiveWrite
  <2>2. \A i \in Ingredients : r.lines[i].qty \in Nat /\ r.lines[i].total \in Nat
    BY <1>1, IngredientAssumption
  <2>3. /\ DOMAIN delta \in SUBSET Ingredients /\ DOMAIN delta = bought
        /\ \A i \in DOMAIN delta : delta[i] \in Int /\ stock[i] + delta[i] \in Nat
        /\ \A i \in DOMAIN delta : delta[i] = r.lines[i].qty
    BY <2>2 DEF TypeOK
  <2> HIDE DEF delta
  <2>4. /\ stock' \in [Ingredients -> Nat] /\ book' \in [Ingredients -> Seq(Movement)]
        /\ \A i \in Ingredients : stock'[i] =
              IF i \in DOMAIN delta THEN stock[i] + delta[i] ELSE stock[i]
        /\ \A i \in Ingredients : \A t, k :
              IF i \in DOMAIN delta /\ t = "PURCHASE_RECEIVE" /\ k = r.id
              THEN Adds(i, t, k, delta[i]) ELSE Stays(i, t, k)
    <3>1. [type |-> "PURCHASE_RECEIVE", id |-> r.id] \in References
      BY <1>1 DEF References
    <3> QED BY <2>1, <2>3, <3>1, MovesPost
  <2>5. \A i \in bought : /\ Average(i, r.lines[i]) \in Nat
                          /\ stock[i] \in Nat /\ CostOrZero(i) \in Nat
                          /\ Scale * r.lines[i].total \in Nat /\ r.lines[i].qty \in Nat \ {0}
    <3> SUFFICES ASSUME NEW i \in bought
                 PROVE  /\ Average(i, r.lines[i]) \in Nat
                        /\ stock[i] \in Nat /\ CostOrZero(i) \in Nat
                        /\ Scale * r.lines[i].total \in Nat /\ r.lines[i].qty \in Nat \ {0}
      OBVIOUS
    <3>1. stock[i] \in Nat /\ CostOrZero(i) \in Nat
      BY DEF TypeOK, CostOrZero
    <3>2. Scale * r.lines[i].total \in Nat /\ r.lines[i].qty \in Nat \ {0}
      BY <2>2, IngredientAssumption
    <3> QED BY <3>1, <3>2, AverageBetween DEF Average
  <2>6. cost' \in [Ingredients -> Nat \cup {None}]
    BY <2>1, <2>5 DEF TypeOK
  <2>7. purchase' \in [Purchases -> PurchaseRow]
    BY <1>1, <2>1, TotalIsNat DEF TypeOK, PurchaseRow
  <2>8. TypeOK'
    BY <1>2, <2>4, <2>6, <2>7, EndsTyped DEF TypeOK
  <2>9. \A o \in Orders, i \in Ingredients :
           Stays(i, "ORDER_COMPLETED", o) /\ Stays(i, "REFUND_RESTORE", o)
    BY <2>4
  <2>10. \A i \in Ingredients : cost'[i] = None => cost[i] = None
    BY <2>1, <2>5, IngredientAssumption
  <2>11. UsedTakesOut' /\ BackWithinShare' /\ UnpricedIsUnused'
    BY <1>2, <2>9, <2>10, UsedStays, BackStays, UnusedStays
  <2>12. RefundsCounted' /\ UnpricedCountsDown'
    BY <1>2, <2>10, CountedEnds, CountsDownEnds
  <2>13. ReceivedAsOneDraft'
    <3> SUFFICES ASSUME NEW d \in Purchases
                 PROVE  IF purchase'[d].status = "RECEIVED"
                        THEN \E l \in Lines :
                           /\ purchase'[d].total = TotalOf(l)
                           /\ \A i \in Ingredients :
                                /\ Cardinality(Entries(i, "PURCHASE_RECEIVE", d)')
                                      = IF l[i].qty > 0 THEN 1 ELSE 0
                                /\ Moved(i, "PURCHASE_RECEIVE", d)' = l[i].qty
                        ELSE \A i \in Ingredients : Entries(i, "PURCHASE_RECEIVE", d)' = {}
      BY DEF ReceivedAsOneDraft
    <3>1. CASE d # r.id
      <4>1. purchase'[d] = purchase[d]
        BY <1>1, <2>1, <3>1 DEF TypeOK
      <4>2. \A i \in Ingredients : Stays(i, "PURCHASE_RECEIVE", d)
        BY <2>4, <3>1
      <4> QED BY <4>1, <4>2 DEF ReceivedAsOneDraft, Stays
    <3>2. CASE d = r.id
      <4>1. /\ purchase'[d].status = "RECEIVED" /\ purchase'[d].total = TotalOf(r.lines)
            /\ r.lines \in Lines
        BY <1>1, <2>1, <3>2 DEF TypeOK, PurchaseRow
      <4>2. \A i \in Ingredients : Entries(i, "PURCHASE_RECEIVE", d) = {}
        BY <1>4, <3>2 DEF ReceivedAsOneDraft, StillDraft
      <4>3. ASSUME NEW i \in Ingredients
            PROVE  /\ Cardinality(Entries(i, "PURCHASE_RECEIVE", d)')
                         = IF r.lines[i].qty > 0 THEN 1 ELSE 0
                   /\ Moved(i, "PURCHASE_RECEIVE", d)' = r.lines[i].qty
        <5>1. Moved(i, "PURCHASE_RECEIVE", d) = 0
          BY <4>2, MovedIs, SumOfNone DEF TypeOK
        <5>2. CASE i \in bought
          <6>1. Adds(i, "PURCHASE_RECEIVE", d, r.lines[i].qty)
            BY <2>3, <2>4, <3>2, <5>2
          <6>2. PICK n : Entries(i, "PURCHASE_RECEIVE", d)' = {n}
            BY <4>2, <6>1 DEF Adds
          <6>3. Moved(i, "PURCHASE_RECEIVE", d)' = r.lines[i].qty
            BY <2>2, <5>1, <6>1 DEF Adds
          <6> QED BY <5>2, <6>2, <6>3, FS_Singleton
        <5>3. CASE i \notin bought
          <6>1. Stays(i, "PURCHASE_RECEIVE", d) /\ r.lines[i].qty = 0
            BY <2>2, <2>3, <2>4, <5>3
          <6> QED BY <4>2, <5>1, <6>1, FS_EmptySet DEF Stays
        <5> QED BY <5>2, <5>3
      <4> QED BY <4>1, <4>3
    <3> QED BY <3>1, <3>2
  <2>14. AverageIsWithinPrices'
    <3> SUFFICES ASSUME NEW i \in Ingredients, Opening[i] = 0
                 PROVE  /\ stock'[i] > 0 => cost'[i] # None
                        /\ cost'[i] # None =>
                              \E p, q \in Prices(i) : p <= cost'[i] /\ cost'[i] <= q
      BY DEF AverageIsWithinPrices, Prices, Rounded
    <3>1. CASE i \notin bought
      BY <2>1, <2>3, <2>4, <3>1 DEF AverageIsWithinPrices
    <3>2. CASE i \in bought
      <4> DEFINE P == Rounded(Scale * r.lines[i].total, r.lines[i].qty)
                 c == CostOrZero(i)
                 A == Average(i, r.lines[i])
      <4>1. cost'[i] = A /\ A \in Nat /\ A # None
        BY <2>1, <2>5, <3>2, IngredientAssumption
      <4>2. P \in Prices(i) /\ P \in Nat
        <5>1. P \in Prices(i)
          BY <1>1, <3>2 DEF Prices
        <5> QED BY <2>5, <3>2, <5>1, RoundedIs
      <4>3. /\ \A m \in Nat : m <= P /\ (stock[i] = 0 \/ m <= c) => m <= A
            /\ \A m \in Nat : P <= m /\ (stock[i] = 0 \/ c <= m) => A <= m
        BY <2>5, <3>2, AverageBetween DEF Average
      <4>4. stock[i] \in Nat
        BY DEF TypeOK
      <4> HIDE DEF P, c, A
      <4>5. CASE stock[i] = 0
        <5>1. P <= A /\ A <= P
          BY <4>2, <4>3, <4>5
        <5> QED BY <4>1, <4>2, <5>1
      <4>6. CASE stock[i] > 0
        <5>1. cost[i] # None /\ c = cost[i]
          BY <4>6 DEF AverageIsWithinPrices, CostOrZero, c
        <5>2. PICK p, q \in Prices(i) : p <= cost[i] /\ cost[i] <= q
          BY <5>1 DEF AverageIsWithinPrices
        <5>3. p \in Nat /\ q \in Nat /\ c \in Nat
          BY <2>5, <3>2, PricesAreNat DEF c
        <5>4. PICK m \in {p, P} : m <= P /\ m <= c
          BY <4>2, <5>1, <5>2, <5>3
        <5>5. PICK n \in {q, P} : P <= n /\ c <= n
          BY <4>2, <5>1, <5>2, <5>3
        <5>6. /\ m \in Prices(i) /\ n \in Prices(i) /\ m \in Nat /\ n \in Nat
          BY <4>2, <5>3
        <5>7. m <= A /\ A <= n
          BY <4>3, <5>4, <5>5, <5>6
        <5> QED BY <4>1, <5>6, <5>7
      <4> QED BY <4>4, <4>5, <4>6
    <3> QED BY <3>1, <3>2
  <2> QED BY <2>8, <2>11, <2>12, <2>13, <2>14
<1> QED BY <1>3, <1>4

\* A share of what was used comes back, rounded by no more than half a part.
LEMMA ShareIsNear ==
    ASSUME TypeOK, UsedTakesOut, NEW o \in Orders, NEW i \in Ingredients, NEW units \in Nat,
           NEW x \in Restored(o, i, units)
    PROVE  LET used == 0 - Moved(i, "ORDER_COMPLETED", o)
               share == Clamped(o, order[o].refunded + units) - Clamped(o, order[o].refunded)
           IN /\ used \in Nat /\ share \in Nat /\ x \in Nat
              /\ 2 * (x * Units[o] - used * share) <= Units[o]
<1> DEFINE used == 0 - Moved(i, "ORDER_COMPLETED", o)
           share == Clamped(o, order[o].refunded + units) - Clamped(o, order[o].refunded)
           n == used * share
           d == Units[o]
<1>1. used \in Nat
  BY UsedIsNat
<1>2. share \in Nat
  <2>1. order[o].refunded \in Nat /\ order[o].refunded + units \in Nat
    BY DEF TypeOK, OrderRow
  <2>2. /\ Clamped(o, order[o].refunded) \in Nat
        /\ Clamped(o, order[o].refunded) <= Clamped(o, order[o].refunded + units)
    BY <2>1, ClampedIsNat
  <2>3. Clamped(o, order[o].refunded + units) \in Nat
    BY <2>1, ClampedIsNat
  <2> QED BY <2>2, <2>3
<1>3. d \in Nat \ {0}
  BY IngredientAssumption
<1>4. x \in Nearest(n, d)
  BY DEF Restored
<1> HIDE DEF used, share, d
<1>5. n \in Nat
  BY <1>1, <1>2
<1> HIDE DEF n
<1>6. n \div d \in Nat
  BY <1>3, <1>5
<1>7. x \in Nat /\ 2 * (x * d - n) <= d
  BY <1>3, <1>4, <1>5, <1>6 DEF Nearest
<1> QED BY <1>1, <1>2, <1>7 DEF used, share, n, d

\* Only the reversals of the order are new in the book, one for each ingredient used.
LEMMA OrderIsRefunded ==
    ASSUME IngredientInv, NEW s \in Slots, RefundWrite(s)
    PROVE  IngredientInv'
<1> USE DEF IngredientInv
<1>0. PICK o \in Orders, units \in Nat : req[s].id = o /\ req[s].units = units
  BY RequestCarries DEF RefundWrite
<1> DEFINE before == order[o].refunded
           moved == {i \in Ingredients : Entries(i, "ORDER_COMPLETED", o) # {}}
<1>1. /\ req[s].step = "refund" /\ o \in Orders /\ units \in Nat
  BY DEF RefundWrite
<1>2. /\ order' = [order EXCEPT ![o].refunded = @ + units, ![o].refunds = @ + 1]
      /\ Ends(s) /\ UNCHANGED <<cost, purchase>>
  BY <1>0 DEF RefundWrite
<1>3. /\ before \in Nat /\ order[o].refunds \in Nat
  BY <1>1 DEF TypeOK, OrderRow
<1>4. order[o].refunds + 1 <= MaxRefunds
  <2>1. s \in InHand(o)
    BY <1>0, <1>1 DEF InHand
  <2>2. Cardinality(InHand(o)) \in Nat /\ Cardinality(InHand(o)) >= 1
    BY <2>1, InHandIsCounted, RefundEnds, <1>2
  <2> QED BY <1>1, <1>3, <2>2, IngredientAssumption DEF RefundsCounted
<1>5. /\ order' \in [Orders -> OrderRow]
      /\ order'[o].refunded = before + units /\ order'[o].refunds = order[o].refunds + 1
      /\ \A x \in Orders : x # o => order'[x] = order[x]
  <2>1. order \in [Orders -> OrderRow]
    BY DEF TypeOK
  <2>2. /\ order' = [x \in Orders |-> order'[x]]
        /\ order'[o] = [order[o] EXCEPT !.refunded = before + units,
                                       !.refunds = order[o].refunds + 1]
        /\ \A x \in Orders : x # o => order'[x] = order[x]
    BY <1>1, <1>2, <2>1
  <2>3. before + units \in Nat /\ order[o].refunds + 1 \in 0 .. MaxRefunds
    BY <1>1, <1>3, <1>4, IngredientAssumption
  <2>4. /\ order'[o] \in OrderRow
        /\ order'[o].refunded = before + units /\ order'[o].refunds = order[o].refunds + 1
    BY <1>1, <2>1, <2>2, <2>3 DEF OrderRow
  <2> QED BY <2>1, <2>2, <2>4
<1>6. RefundsCounted'
  <2> SUFFICES ASSUME NEW x \in Orders
               PROVE  order'[x].refunds + Cardinality(InHand(x))' <= MaxRefunds
    BY DEF RefundsCounted
  <2>1. /\ Cardinality(InHand(x)) \in Nat
        /\ Cardinality(InHand(x))' = IF s \in InHand(x) THEN Cardinality(InHand(x)) - 1
                                                         ELSE Cardinality(InHand(x))
    BY <1>2, RefundEnds
  <2>2. s \in InHand(x) <=> x = o
    BY <1>0, <1>1 DEF InHand
  <2>3. /\ order[x].refunds + Cardinality(InHand(x)) <= MaxRefunds
        /\ order[x].refunds \in Nat
    BY DEF RefundsCounted, TypeOK, OrderRow
  <2> QED BY <1>5, <2>1, <2>2, <2>3, IngredientAssumption
<1>7. UnpricedCountsDown'
  BY <1>2, CountsDownEnds
<1> DEFINE K == Clamped(o, before)
           L == Clamped(o, before + units)
<1>8. K \in Nat /\ L \in Nat /\ K <= L
  <2>1. K \in Nat /\ K <= L
    BY <1>1, <1>3, ClampedIsNat
  <2>2. before + units \in Nat
    BY <1>1, <1>3
  <2>3. L \in Nat
    BY <1>1, <2>2, ClampedIsNat
  <2> QED BY <2>1, <2>3
\* What is left to show of a refund that moves delta.
<1>9. ASSUME NEW delta, DOMAIN delta \in SUBSET moved, Moves(delta, "REFUND_RESTORE", o),
             \A i \in DOMAIN delta : delta[i] \in Restored(o, i, units),
             DOMAIN delta = moved \/ K = L
      PROVE  /\ TypeOK' /\ UsedTakesOut' /\ ReceivedAsOneDraft' /\ BackWithinShare'
             /\ AverageIsWithinPrices' /\ UnpricedIsUnused'
  <2>1. \A i \in DOMAIN delta : delta[i] \in Nat /\ stock[i] + delta[i] \in Nat
    <3> SUFFICES ASSUME NEW i \in DOMAIN delta
                 PROVE  delta[i] \in Nat /\ stock[i] + delta[i] \in Nat
      OBVIOUS
    <3>1. delta[i] \in Nat
      BY <1>1, <1>9, ShareIsNear
    <3>2. stock[i] \in Nat
      BY <1>9 DEF TypeOK
    <3> QED BY <3>1, <3>2
  <2>2. DOMAIN delta \in SUBSET Ingredients
    BY <1>9
  <2> HIDE DEF moved
  <2>3. /\ stock' \in [Ingredients -> Nat] /\ book' \in [Ingredients -> Seq(Movement)]
        /\ \A i \in Ingredients : stock'[i] =
              IF i \in DOMAIN delta THEN stock[i] + delta[i] ELSE stock[i]
        /\ \A i \in Ingredients : \A t, k :
              IF i \in DOMAIN delta /\ t = "REFUND_RESTORE" /\ k = o
              THEN Adds(i, t, k, delta[i]) ELSE Stays(i, t, k)
    <3>1. [type |-> "REFUND_RESTORE", id |-> o] \in References
      BY <1>1 DEF References
    <3>2. \A i \in DOMAIN delta : delta[i] \in Int /\ stock[i] + delta[i] \in Nat
      BY <2>1
    <3> QED BY <1>9, <2>2, <3>1, <3>2, MovesPost
  <2>4. TypeOK'
    BY <1>2, <1>5, <2>3, EndsTyped DEF TypeOK
  <2>5. /\ \A x \in Orders, i \in Ingredients : Stays(i, "ORDER_COMPLETED", x)
        /\ \A d \in Purchases, i \in Ingredients : Stays(i, "PURCHASE_RECEIVE", d)
    BY <2>3
  <2>6. UsedTakesOut' /\ UnpricedIsUnused' /\ ReceivedAsOneDraft'
    BY <1>2, <2>5, UsedStays, UnusedStays, ReceivedStays
  <2>7. AverageIsWithinPrices'
    <3>1. \A i \in Ingredients :
             Opening[i] = 0 /\ cost[i] = None => stock'[i] <= stock[i]
      <4> SUFFICES ASSUME NEW i \in Ingredients, Opening[i] = 0, cost[i] = None
                   PROVE  stock'[i] <= stock[i]
        OBVIOUS
      <4>1. i \notin DOMAIN delta
        BY <1>1, <1>9 DEF UnpricedIsUnused, moved
      <4>2. stock[i] \in Nat
        BY DEF TypeOK
      <4> QED BY <2>3, <4>1, <4>2
    <3> QED BY <1>2, <2>3, <3>1, PricesStay DEF TypeOK
  <2>8. BackWithinShare'
    <3> SUFFICES ASSUME NEW x \in Orders, NEW i \in Ingredients
                 PROVE  2 * (Units[x] * Moved(i, "REFUND_RESTORE", x)')
                           <= 2 * ((0 - Moved(i, "ORDER_COMPLETED", x)')
                                      * Clamped(x, order'[x].refunded))
                                 + Units[x] * Cardinality(Entries(i, "REFUND_RESTORE", x)')
      BY DEF BackWithinShare, Clamped
    <3>1. Stays(i, "ORDER_COMPLETED", x)
      BY <2>5
    <3>2. 2 * (Units[x] * Moved(i, "REFUND_RESTORE", x))
             <= 2 * ((0 - Moved(i, "ORDER_COMPLETED", x)) * Clamped(x, order[x].refunded))
                   + Units[x] * Cardinality(Entries(i, "REFUND_RESTORE", x))
      BY DEF BackWithinShare
    <3>3. CASE x # o
      <4>1. Stays(i, "REFUND_RESTORE", x) /\ order'[x] = order[x]
        BY <1>5, <2>3, <3>3
      <4> QED BY <3>1, <3>2, <4>1 DEF Stays
    <3>4. CASE x = o
      <4> DEFINE U == Units[o]
                 u == 0 - Moved(i, "ORDER_COMPLETED", o)
                 B == Moved(i, "REFUND_RESTORE", o)
                 c == Cardinality(Entries(i, "REFUND_RESTORE", o))
      <4> SUFFICES 2 * (U * Moved(i, "REFUND_RESTORE", o)')
                      <= 2 * ((0 - Moved(i, "ORDER_COMPLETED", o)')
                                 * Clamped(o, order'[o].refunded))
                            + U * Cardinality(Entries(i, "REFUND_RESTORE", o)')
        BY <3>4
      <4>1. U \in Nat \ {0} /\ u \in Nat /\ B \in Int /\ c \in Nat
        BY <1>1, IngredientAssumption, UsedIsNat, MovedIs, CountIsNat DEF TypeOK
      <4>2. (0 - Moved(i, "ORDER_COMPLETED", o)') = u /\ Clamped(o, order'[o].refunded) = L
        BY <1>5, <3>1, <3>4 DEF Stays
      <4>5. 2 * (U * B) <= 2 * (u * K) + U * c
        BY <3>2, <3>4
      <4>3. CASE i \in DOMAIN delta
        <5> DEFINE q == delta[i]
        <5>1. Adds(i, "REFUND_RESTORE", o, q)
          BY <2>3, <4>3
        <5>2. Moved(i, "REFUND_RESTORE", o)' = B + q
          BY <5>1 DEF Adds
        <5>3. Cardinality(Entries(i, "REFUND_RESTORE", o)') = c + 1
          <6>1. IsFiniteSet(Entries(i, "REFUND_RESTORE", o))
            BY EntriesAreFinite DEF TypeOK
          <6> QED BY <5>1, <6>1, FS_AddElement DEF Adds
        <5>4. q \in Nat /\ L - K \in Nat /\ 2 * (q * U - u * (L - K)) <= U
          BY <1>1, <1>9, <4>3, ShareIsNear
        <5> HIDE DEF q, U, u, B, c, K, L
        <5>6. /\ U * (B + q) = U * B + q * U /\ u * L = u * K + u * (L - K)
              /\ U * (c + 1) = U * c + U
              /\ U * B \in Int /\ q * U \in Int /\ u * K \in Int
              /\ u * (L - K) \in Int /\ U * c \in Int
          BY <1>8, <4>1, <5>4
        <5>7. 2 * (U * (B + q)) <= 2 * (u * L) + U * (c + 1)
          BY <4>1, <4>5, <5>4, <5>6
        <5> QED BY <4>2, <5>2, <5>3, <5>7
      <4>4. CASE i \notin DOMAIN delta
        <5>1. Stays(i, "REFUND_RESTORE", o)
          BY <2>3, <4>4
        <5>2. u = 0 \/ K = L
          BY <1>1, <1>9, <4>4, UsedIsNat DEF moved
        <5> HIDE DEF U, u, B, c, K, L
        <5>4. u * K = u * L
          BY <1>8, <4>1, <5>2
        <5>5. 2 * (U * B) <= 2 * (u * L) + U * c
          BY <4>5, <5>4
        <5> QED BY <4>2, <5>1, <5>5 DEF B, c, Stays
      <4> QED BY <4>3, <4>4
    <3> QED BY <3>3, <3>4
  <2> QED BY <2>4, <2>6, <2>7, <2>8
<1>10. CASE L > K
  <2>1. PICK delta \in [moved -> UNION {Restored(o, i, units) : i \in moved}] :
           /\ \A i \in moved : delta[i] \in Restored(o, i, units)
           /\ Moves(delta, "REFUND_RESTORE", o)
    BY <1>0, <1>10 DEF RefundWrite
  <2> QED BY <1>6, <1>7, <1>9, <2>1
<1>11. CASE ~(L > K)
  <2>1. UNCHANGED <<stock, book>> /\ K = L
    BY <1>0, <1>8, <1>11 DEF RefundWrite
  <2> DEFINE nothing == [i \in {} |-> 0]
  <2>2. Moves(nothing, "REFUND_RESTORE", o)
    BY <2>1 DEF Moves, TypeOK
  <2>3. DOMAIN nothing \in SUBSET moved /\ \A i \in DOMAIN nothing : nothing[i] \in Restored(o, i, units)
    OBVIOUS
  <2> HIDE DEF nothing, moved
  <2> QED BY <1>6, <1>7, <1>9, <2>1, <2>2, <2>3
<1> QED BY <1>10, <1>11

\* Only an adjustment is new in the book, of an ingredient that has a cost or gets one.
LEMMA IngredientIsCounted ==
    ASSUME IngredientInv, NEW s \in Slots, CountWrite(s)
    PROVE  IngredientInv'
<1> USE DEF IngredientInv
<1>1. PICK r \in [step : {"count"}, id : Ingredients, delta : Int, cost : Costs \cup {None}] :
         r = req[s]
  BY RequestCarries DEF CountWrite
<1> DEFINE delta == [i \in {r.id} |-> r.delta]
<1>2. /\ Ends(s) /\ UNCHANGED <<purchase, order>>
      /\ IF MayPrice(r) /\ Enough(delta)
         THEN /\ IF r.delta = 0 THEN UNCHANGED <<stock, book>>
                                ELSE Moves(delta, "STOCK_ADJUSTMENT", None)
              /\ cost' = IF r.cost = None THEN cost ELSE [cost EXCEPT ![r.id] = r.cost]
         ELSE UNCHANGED <<stock, book, cost>>
  BY <1>1 DEF CountWrite
<1>3. Enough(delta) => stock[r.id] + r.delta \in Nat
  <2>1. stock[r.id] \in Nat
    BY DEF TypeOK
  <2> QED BY <2>1 DEF Enough
<1>4. /\ stock' \in [Ingredients -> Nat] /\ book' \in [Ingredients -> Seq(Movement)]
      /\ \A i \in Ingredients : i # r.id => stock'[i] = stock[i]
      /\ stock'[r.id] = stock[r.id] \/ stock'[r.id] = stock[r.id] + r.delta
      /\ \A i \in Ingredients : \A t, k : t # "STOCK_ADJUSTMENT" => Stays(i, t, k)
  <2>1. CASE UNCHANGED <<stock, book>>
    BY <2>1, BookQuiet DEF TypeOK
  <2>2. CASE Enough(delta) /\ Moves(delta, "STOCK_ADJUSTMENT", None)
    <3>1. /\ DOMAIN delta \in SUBSET Ingredients /\ DOMAIN delta = {r.id}
          /\ \A i \in DOMAIN delta : delta[i] \in Int /\ stock[i] + delta[i] \in Nat
          /\ delta[r.id] = r.delta
      BY <1>3, <2>2
    <3>2. [type |-> "STOCK_ADJUSTMENT", id |-> None] \in References
      BY DEF References
    <3> HIDE DEF delta
    <3>3. /\ stock' \in [Ingredients -> Nat] /\ book' \in [Ingredients -> Seq(Movement)]
          /\ \A i \in Ingredients : stock'[i] =
                IF i \in DOMAIN delta THEN stock[i] + delta[i] ELSE stock[i]
          /\ \A i \in Ingredients : \A t, k :
                IF i \in DOMAIN delta /\ t = "STOCK_ADJUSTMENT" /\ k = None
                THEN Adds(i, t, k, delta[i]) ELSE Stays(i, t, k)
      BY <2>2, <3>1, <3>2, MovesPost
    <3> QED BY <3>1, <3>3
  <2> QED BY <1>2, <2>1, <2>2
<1>5. /\ cost' \in [Ingredients -> Nat \cup {None}]
      /\ \A i \in Ingredients : i # r.id => cost'[i] = cost[i]
      /\ \/ cost'[r.id] = cost[r.id]
         \/ r.cost # None /\ cost'[r.id] = r.cost /\ cost[r.id] = None
  BY <1>2, IngredientAssumption DEF TypeOK, MayPrice
<1>6. TypeOK'
  BY <1>2, <1>4, <1>5, EndsTyped DEF TypeOK
<1>7. \A i \in Ingredients : cost'[i] = None => cost[i] = None
  BY <1>5
<1>8. /\ \A o \in Orders, i \in Ingredients :
            Stays(i, "ORDER_COMPLETED", o) /\ Stays(i, "REFUND_RESTORE", o)
      /\ \A d \in Purchases, i \in Ingredients : Stays(i, "PURCHASE_RECEIVE", d)
  BY <1>4
<1>9. UsedTakesOut' /\ BackWithinShare' /\ UnpricedIsUnused' /\ ReceivedAsOneDraft'
  BY <1>2, <1>7, <1>8, UsedStays, BackStays, UnusedStays, ReceivedStays
<1>10. RefundsCounted' /\ UnpricedCountsDown'
  BY <1>2, <1>7, CountedEnds, CountsDownEnds
<1>11. AverageIsWithinPrices'
  <2> SUFFICES ASSUME NEW i \in Ingredients, Opening[i] = 0
               PROVE  /\ stock'[i] > 0 => cost'[i] # None
                      /\ cost'[i] # None =>
                            \E p, q \in Prices(i) : p <= cost'[i] /\ cost'[i] <= q
    BY DEF AverageIsWithinPrices, Prices, Rounded
  <2>1. CASE i # r.id
    BY <1>4, <1>5, <2>1 DEF AverageIsWithinPrices
  <2>2. CASE i = r.id
    <3>1. CASE cost'[r.id] # cost[r.id]
      <4>1. cost'[i] \in Prices(i) /\ cost'[i] # None /\ cost'[i] \in Nat
        BY <1>5, <2>2, <3>1, IngredientAssumption DEF Prices
      <4> QED BY <4>1
    <3>2. CASE cost'[r.id] = cost[r.id]
      <4>1. cost'[i] = None => stock'[i] <= 0
        <5> SUFFICES ASSUME cost[i] = None PROVE stock'[i] <= 0
          BY <2>2, <3>2
        <5>1. stock[i] \in Nat /\ ~(stock[i] > 0)
          BY DEF AverageIsWithinPrices, TypeOK
        <5>2. CASE stock'[i] = stock[i]
          BY <5>1, <5>2
        <5>3. CASE stock'[i] # stock[i]
          <6>1. MayPrice(r) /\ Enough(delta) /\ stock'[i] = stock[i] + r.delta
            BY <1>2, <1>4, <2>2, <5>3
          <6>2. r.cost = None
            BY <1>2, <2>2, <3>2, <5>3, <6>1, IngredientAssumption DEF TypeOK
          <6>3. r.delta <= 0
            BY <1>1, <2>2, <6>2 DEF UnpricedCountsDown
          <6> QED BY <5>1, <6>1, <6>3
        <5> QED BY <5>2, <5>3
      <4>2. stock'[i] \in Nat
        BY <1>4
      <4> QED BY <2>2, <3>2, <4>1, <4>2 DEF AverageIsWithinPrices
    <3> QED BY <3>1, <3>2
  <2> QED BY <2>1, <2>2
<1> QED BY <1>6, <1>9, <1>10, <1>11

-----------------------------------------------------------------------------
(* The specification *)

LEMMA StockStart == Init => IngredientInv
<1> SUFFICES ASSUME Init PROVE IngredientInv
  OBVIOUS
<1>1. TypeOK
  <2>1. purchase \in [Purchases -> PurchaseRow]
    BY TotalIsNat, IngredientAssumption DEF Init, PurchaseRow
  <2>2. order \in [Orders -> OrderRow]
    BY IngredientAssumption DEF Init, OrderRow
  <2> QED BY <2>1, <2>2, IngredientAssumption DEF Init, TypeOK, Request, Idle
<1>2. \A i \in Ingredients : \A t, k :
         /\ Entries(i, t, k) = {} /\ Moved(i, t, k) = 0
         /\ Cardinality(Entries(i, t, k)) = 0
  <2> SUFFICES ASSUME NEW i \in Ingredients, NEW t, NEW k
               PROVE  /\ Entries(i, t, k) = {} /\ Moved(i, t, k) = 0
                      /\ Cardinality(Entries(i, t, k)) = 0
    OBVIOUS
  <2>1. Entries(i, t, k) = {}
    BY DEF Init, Entries
  <2>2. Moved(i, t, k) = SumOf(Quantities(book[i]), Entries(i, t, k))
    BY <1>1, MovedIs DEF TypeOK
  <2> QED BY <2>1, <2>2, SumOfNone, FS_EmptySet
<1>3. RefundsCounted
  <2> SUFFICES ASSUME NEW o \in Orders
               PROVE  order[o].refunds + Cardinality(InHand(o)) <= MaxRefunds
    BY DEF RefundsCounted
  <2>1. InHand(o) = {}
    BY DEF Init, InHand, Idle
  <2> QED BY <2>1, FS_EmptySet, IngredientAssumption DEF Init
<1>4. BackWithinShare
  <2> SUFFICES ASSUME NEW o \in Orders, NEW i \in Ingredients
               PROVE  2 * (Units[o] * 0)
                         <= 2 * ((0 - 0) * Clamped(o, order[o].refunded)) + Units[o] * 0
    BY <1>2 DEF BackWithinShare
  <2>1. Units[o] \in Nat /\ Clamped(o, order[o].refunded) \in Nat
    BY ClampedIsNat, IngredientAssumption DEF Init
  <2> QED BY <2>1
<1>5. UsedTakesOut /\ UnpricedIsUnused
  BY <1>2 DEF UsedTakesOut, UnpricedIsUnused
<1>6. ReceivedAsOneDraft
  BY <1>2 DEF Init, ReceivedAsOneDraft
<1>7. AverageIsWithinPrices
  BY DEF Init, AverageIsWithinPrices
<1>8. UnpricedCountsDown
  BY DEF Init, UnpricedCountsDown, Idle
<1> QED BY <1>1, <1>3, <1>4, <1>5, <1>6, <1>7, <1>8 DEF IngredientInv

LEMMA StockUnchanged == ASSUME IngredientInv, UNCHANGED vars PROVE IngredientInv'
<1> USE DEF IngredientInv
<1>1. TypeOK' /\ UNCHANGED <<stock, cost, book, purchase, order, req>>
  BY DEF TypeOK, vars
<1>2. \A i \in Ingredients : \A t, k : Stays(i, t, k)
  BY <1>1, BookQuiet
<1>3. UsedTakesOut' /\ BackWithinShare' /\ UnpricedIsUnused'
  BY <1>1, <1>2, UsedStays, BackStays, UnusedStays
<1>4. ReceivedAsOneDraft'
  BY <1>1, <1>2, ReceivedStays
<1>5. AverageIsWithinPrices'
  BY <1>1, PricesStay DEF TypeOK
<1>6. RefundsCounted' /\ UnpricedCountsDown'
  BY <1>1 DEF RefundsCounted, InHand, UnpricedCountsDown
<1> QED BY <1>1, <1>3, <1>4, <1>5, <1>6

LEMMA StockStep == ASSUME IngredientInv, [Next]_vars PROVE IngredientInv'
<1>1. CASE UNCHANGED vars
  BY <1>1, StockUnchanged
<1>2. CASE \E d \in Purchases : CancelPurchase(d)
  BY <1>2, DraftIsCancelled
<1>3. CASE \E o \in Orders : Consume(o)
  BY <1>3, OrderUses
<1>4. ASSUME NEW s \in Slots, NEW d \in Purchases, NEW lines \in Lines \cup {None},
             EditRead(s, d, lines)
      PROVE  IngredientInv'
  BY <1>4, EditBegins
<1>5. ASSUME NEW s \in Slots, NEW d \in Purchases, ReceiveRead(s, d)
      PROVE  IngredientInv'
  BY <1>5, ReceiveBegins
<1>6. ASSUME NEW s \in Slots, NEW o \in Orders, NEW units \in 1 .. Units[o],
             RefundRead(s, o, units)
      PROVE  IngredientInv'
  BY <1>6, RefundIsAsked
<1>7. ASSUME NEW s \in Slots, NEW i \in Ingredients, NEW target \in Targets,
             NEW first \in Costs \cup {None}, CountRead(s, i, target, first)
      PROVE  IngredientInv'
  BY <1>7, CountBegins
<1>8. CASE \E s \in Slots : EditWrite(s)
  BY <1>8, EditEnds
<1>9. CASE \E s \in Slots : ReceiveWrite(s)
  BY <1>9, PurchaseArrives
<1>10. CASE \E s \in Slots : RefundWrite(s)
  BY <1>10, OrderIsRefunded
<1>11. CASE \E s \in Slots : CountWrite(s)
  BY <1>11, IngredientIsCounted
<1> QED BY <1>1, <1>2, <1>3, <1>4, <1>5, <1>6, <1>7, <1>8, <1>9, <1>10, <1>11 DEF Next

\* The invariant of this module, for any ingredients, drafts, orders and requests.
THEOREM IngredientsKept == Spec => []IngredientInv
<1>1. Init => IngredientInv
  BY StockStart
<1>2. IngredientInv /\ [Next]_vars => IngredientInv'
  BY StockStep
<1> QED BY <1>1, <1>2, PTL DEF Spec

\* receivePurchase applies one version of its draft, whole and once, whatever was
\* edited, sent twice or cancelled meanwhile.
THEOREM ReceivedOnce == Spec => []ReceivedAsOneDraft
<1>1. IngredientInv => ReceivedAsOneDraft
  BY DEF IngredientInv
<1> QED BY <1>1, IngredientsKept, PTL

\* receivePurchase and adjustIngredientStock never let the average cost of an
\* ingredient leave the prices it was bought at.
THEOREM AverageKept == Spec => []AverageIsWithinPrices
<1>1. IngredientInv => AverageIsWithinPrices
  BY DEF IngredientInv
<1> QED BY <1>1, IngredientsKept, PTL

\* What is true of a multiple is true of the number.
LEMMA Cancels ==
    ASSUME NEW a \in Int, NEW b \in Int, NEW k \in Nat \ {0}, k * a <= k * b
    PROVE  a <= b
<1> SUFFICES ASSUME b + 1 <= a PROVE FALSE
  OBVIOUS
<1>1. k * (b + 1) <= k * a
  BY Times
<1>2. k * (b + 1) = k * b + k /\ k * a \in Int /\ k * b \in Int
  OBVIOUS
<1> QED BY <1>1, <1>2

\* reverseHistoricalIngredientConsumption: the refunds of an order restore no more
\* than it used, but for half a part at each of them.
THEOREM RestoredBounded == Spec => []RestoredWithinUsed
<1>1. ASSUME IngredientInv PROVE RestoredWithinUsed
  <2> USE <1>1 DEF IngredientInv
  <2> SUFFICES ASSUME NEW o \in Orders, NEW i \in Ingredients
               PROVE  2 * (Moved(i, "REFUND_RESTORE", o) - (0 - Moved(i, "ORDER_COMPLETED", o)))
                         <= Cardinality(Entries(i, "REFUND_RESTORE", o))
    BY DEF RestoredWithinUsed
  <2> DEFINE U == Units[o]
             u == 0 - Moved(i, "ORDER_COMPLETED", o)
             B == Moved(i, "REFUND_RESTORE", o)
             c == Cardinality(Entries(i, "REFUND_RESTORE", o))
             K == Clamped(o, order[o].refunded)
  <2>1. U \in Nat \ {0} /\ u \in Nat /\ B \in Int /\ c \in Nat
    BY IngredientAssumption, UsedIsNat, MovedIs, CountIsNat DEF TypeOK
  <2>2. K \in Nat /\ K <= U
    <3>1. order[o].refunded \in Nat
      BY DEF TypeOK, OrderRow
    <3> QED BY <3>1, ClampedIsNat
  <2>3. 2 * (U * B) <= 2 * (u * K) + U * c
    BY DEF BackWithinShare
  <2> HIDE DEF U, u, B, c, K
  <2>4. u * K <= u * U
    BY <2>1, <2>2, Times
  <2>5. /\ U * (2 * B) = 2 * (U * B) /\ U * (2 * u + c) = 2 * (u * U) + U * c
        /\ U * B \in Int /\ u * K \in Int /\ u * U \in Int /\ U * c \in Int
    BY <2>1, <2>2
  <2>6. U * (2 * B) <= U * (2 * u + c)
    BY <2>3, <2>4, <2>5
  <2>7. 2 * B <= 2 * u + c
    BY <2>1, <2>6, Cancels
  <2>8. 2 * (B - u) <= c
    BY <2>1, <2>7
  <2> QED BY <2>8 DEF B, u, c
<1>2. IngredientInv => RestoredWithinUsed
  BY <1>1
<1> QED BY <1>2, IngredientsKept, PTL

-----------------------------------------------------------------------------
(* Every change is a movement *)

Posts(i) == Account(i)!Post \/ UNCHANGED <<stock[i], book[i]>>

LEMMA MovesAreEntries ==
    ASSUME TypeOK, stock' \in [Ingredients -> Nat],
           NEW delta, DOMAIN delta \in SUBSET Ingredients,
           \A i \in DOMAIN delta : delta[i] \in Int,
           NEW type, NEW id, [type |-> type, id |-> id] \in References,
           Moves(delta, type, id), NEW i \in Ingredients
    PROVE  Posts(i)
<1>1. CASE i \notin DOMAIN delta
  BY <1>1 DEF Moves, Posts
<1>2. CASE i \in DOMAIN delta
  <2>1. /\ stock'[i] = stock[i] + delta[i] /\ stock'[i] \in Nat
        /\ book'[i] = Append(book[i], [qty |-> delta[i], after |-> stock[i] + delta[i],
                                       ref |-> [type |-> type, id |-> id]])
    BY <1>2 DEF Moves
  <2>2. delta[i] = stock'[i] - stock[i]
    BY <1>2, <2>1 DEF TypeOK
  <2> QED BY <2>1, <2>2 DEF Posts, Account!Post
<1> QED BY <1>1, <1>2

LEMMA StepsPost ==
    ASSUME IngredientInv, IngredientInv', [Next]_vars, NEW i \in Ingredients
    PROVE  Posts(i)
<1>1. TypeOK /\ UsedTakesOut /\ stock' \in [Ingredients -> Nat]
  BY DEF IngredientInv, TypeOK
<1>2. CASE UNCHANGED <<stock, book>>
  BY <1>2 DEF Posts
<1>3. ASSUME NEW o \in Orders, Consume(o) PROVE Posts(i)
  <2> DEFINE delta == [x \in Used(o) |-> 0 - Needs[o][x]]
  <2>1. /\ DOMAIN delta \in SUBSET Ingredients /\ \A x \in DOMAIN delta : delta[x] \in Int
        /\ Moves(delta, "ORDER_COMPLETED", o)
    BY <1>3, IngredientAssumption DEF Consume, Used
  <2>2. [type |-> "ORDER_COMPLETED", id |-> o] \in References
    BY DEF References
  <2> HIDE DEF delta
  <2> QED BY <1>1, <2>1, <2>2, MovesAreEntries
<1>4. ASSUME NEW s \in Slots, ReceiveWrite(s) PROVE Posts(i)
  <2>1. PICK r \in [step : {"receive"}, id : Purchases, lines : Lines] : r = req[s]
    BY <1>1, <1>4, RequestCarries DEF ReceiveWrite
  <2> DEFINE bought == {x \in Ingredients : r.lines[x].qty > 0}
             delta == [x \in bought |-> r.lines[x].qty]
  <2>2. CASE ~StillDraft(r.id)
    BY <1>2, <1>4, <2>1, <2>2 DEF ReceiveWrite
  <2>3. CASE StillDraft(r.id)
    <3>1. /\ DOMAIN delta \in SUBSET Ingredients /\ \A x \in DOMAIN delta : delta[x] \in Int
          /\ Moves(delta, "PURCHASE_RECEIVE", r.id)
      BY <1>4, <2>1, <2>3, IngredientAssumption DEF ReceiveWrite
    <3>2. [type |-> "PURCHASE_RECEIVE", id |-> r.id] \in References
      BY DEF References
    <3> HIDE DEF delta
    <3> QED BY <1>1, <3>1, <3>2, MovesAreEntries
  <2> QED BY <2>2, <2>3
<1>5. ASSUME NEW s \in Slots, RefundWrite(s) PROVE Posts(i)
  <2>1. PICK o \in Orders, units \in Nat : req[s].id = o /\ req[s].units = units
    BY <1>1, <1>5, RequestCarries DEF RefundWrite
  <2> DEFINE moved == {x \in Ingredients : Entries(x, "ORDER_COMPLETED", o) # {}}
  <2>2. CASE Clamped(o, order[o].refunded + units) > Clamped(o, order[o].refunded)
    <3>1. PICK delta \in [moved -> UNION {Restored(o, x, units) : x \in moved}] :
             /\ \A x \in moved : delta[x] \in Restored(o, x, units)
             /\ Moves(delta, "REFUND_RESTORE", o)
      BY <1>5, <2>1, <2>2 DEF RefundWrite
    <3>2. DOMAIN delta \in SUBSET Ingredients /\ \A x \in DOMAIN delta : delta[x] \in Int
      BY <1>1, <3>1, ShareIsNear
    <3>3. [type |-> "REFUND_RESTORE", id |-> o] \in References
      BY DEF References
    <3> HIDE DEF moved
    <3> QED BY <1>1, <3>1, <3>2, <3>3, MovesAreEntries
  <2>3. CASE ~(Clamped(o, order[o].refunded + units) > Clamped(o, order[o].refunded))
    BY <1>2, <1>5, <2>1, <2>3 DEF RefundWrite
  <2> QED BY <2>2, <2>3
<1>6. ASSUME NEW s \in Slots, CountWrite(s) PROVE Posts(i)
  <2>1. PICK r \in [step : {"count"}, id : Ingredients, delta : Int, cost : Costs \cup {None}] :
           r = req[s]
    BY <1>1, <1>6, RequestCarries DEF CountWrite
  <2> DEFINE delta == [x \in {r.id} |-> r.delta]
  <2>2. UNCHANGED <<stock, book>> \/ Moves(delta, "STOCK_ADJUSTMENT", None)
    BY <1>6, <2>1 DEF CountWrite
  <2>3. /\ DOMAIN delta \in SUBSET Ingredients /\ \A x \in DOMAIN delta : delta[x] \in Int
        /\ [type |-> "STOCK_ADJUSTMENT", id |-> None] \in References
    BY DEF References
  <2> HIDE DEF delta
  <2> QED BY <1>1, <1>2, <2>2, <2>3, MovesAreEntries
<1>7. CASE Next
  <2>1. CASE \E o \in Orders : Consume(o)
    BY <1>3, <2>1
  <2>2. CASE \E s \in Slots : ReceiveWrite(s) \/ RefundWrite(s) \/ CountWrite(s)
    BY <1>4, <1>5, <1>6, <2>2
  <2>3. CASE /\ ~\E o \in Orders : Consume(o)
             /\ ~\E s \in Slots : ReceiveWrite(s) \/ RefundWrite(s) \/ CountWrite(s)
    BY <1>2, <1>7, <2>1, <2>2, <2>3
      DEF Next, CancelPurchase, EditRead, ReceiveRead, RefundRead, CountRead, Starts, EditWrite
  <2> QED BY <2>1, <2>2, <2>3
<1> QED BY <1>2, <1>7 DEF vars

\* applyIngredientStockMovement: each ingredient implements StockAccount, under stale
\* counts and overlapping requests too.
THEOREM AccountsAreKept == Spec => IngredientAccounts
<1>1. Init => \A i \in Ingredients : Account(i)!Open
  BY DEF Init, Account!Open
<1>2. IngredientInv /\ IngredientInv' /\ [Next]_vars
          => [\A i \in Ingredients : Account(i)!Post \/ UNCHANGED <<stock[i], book[i]>>]_vars
  BY StepsPost DEF Posts
<1> QED BY <1>1, <1>2, IngredientsKept, PTL DEF Spec, IngredientAccounts

=============================================================================
