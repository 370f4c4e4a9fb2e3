--------------------------- MODULE IngredientStock ---------------------------
(***************************************************************************)
(* The ingredients of one branch: purchases bring them in and fix their     *)
(* average cost, orders use them, refunds put part of that back, and an     *)
(* administrator counts them.                                               *)
(*                                                                         *)
(* Orders no longer use ingredients by themselves: consumeOrderIngredients  *)
(* is kept for a caller of its own, and the ledger of the orders it was     *)
(* called for is what refunds reverse.                                      *)
(*                                                                         *)
(* A transaction locks the rows of the ingredients it moves until it        *)
(* commits, and so is one step.  What a request reads before its            *)
(* transaction is a step of its own.                                       *)
(*                                                                         *)
(* Quantities are whole numbers of the smallest part of a unit that a       *)
(* column can hold, money whole numbers of its smallest part.              *)
(***************************************************************************)
EXTENDS Integers, Sequences, FiniteSets, FiniteSetsExt

CONSTANTS
    Slots,          \* requests that can be under way at the same time
    Ingredients, Purchases, Orders,
    Scale,          \* parts of a unit: 1000 in the columns
    Opening,        \* stock at the start; it has no cost yet
    Lines,          \* what a draft may say: ingredient -> quantity and total
    FirstLines,     \* what each purchase says first
    Needs,          \* what an order uses of each ingredient
    Units,          \* how many items an order has
    Targets, Costs, \* what an administrator may type in
    MaxRefunds, MaxCounts,
    None

ASSUME IngredientAssumption ==
    /\ IsFiniteSet(Slots) /\ IsFiniteSet(Ingredients)
    /\ Scale \in Nat \ {0} /\ MaxRefunds \in Nat /\ MaxCounts \in Nat
    /\ Opening \in [Ingredients -> Nat]
    /\ Lines \subseteq [Ingredients -> [qty : Nat, total : Nat]]
    /\ \A l \in Lines, i \in Ingredients : l[i].qty = 0 => l[i].total = 0
    /\ FirstLines \in [Purchases -> Lines]
    /\ Needs \in [Orders -> [Ingredients -> Nat]] /\ Units \in [Orders -> Nat \ {0}]
    /\ Targets \subseteq Nat /\ Costs \subseteq Nat /\ None \notin Nat

VARIABLES
    stock,      \* branchIngredient.stock
    cost,       \* branchIngredient.averageCost, of a unit
    book,       \* the movements of each ingredient
    purchase, order,
    req         \* what each request has read

vars == <<stock, cost, book, purchase, order, req>>

-----------------------------------------------------------------------------
(* Rows *)

\* refType and refId
References ==
    [type : {"PURCHASE_RECEIVE"}, id : Purchases]
    \cup [type : {"ORDER_COMPLETED", "REFUND_RESTORE"}, id : Orders]
    \cup [type : {"STOCK_ADJUSTMENT"}, id : {None}]

Movement == [qty : Int, after : Nat, ref : References]

PurchaseRow == [status : {"DRAFT", "RECEIVED", "CANCELLED"}, lines : Lines, total : Nat]

OrderRow == [consumed : BOOLEAN, refunded : Nat, refunds : 0 .. MaxRefunds]

Idle == [step |-> "idle"]

Request ==
    {Idle}
    \cup [step : {"edit"}, id : Purchases, lines : Lines \cup {None}, total : Nat]
    \cup [step : {"receive"}, id : Purchases, lines : Lines]
    \cup [step : {"refund"}, id : Orders, units : Nat]
    \cup [step : {"count"}, id : Ingredients, delta : Int, cost : Costs \cup {None}]

TypeOK ==
    /\ stock \in [Ingredients -> Nat]
    /\ cost \in [Ingredients -> Nat \cup {None}]
    /\ book \in [Ingredients -> Seq(Movement)]
    /\ purchase \in [Purchases -> PurchaseRow]
    /\ order \in [Orders -> OrderRow]
    /\ req \in [Slots -> Request]

TotalOf(lines) == MapThenSumSet(LAMBDA i : lines[i].total, Ingredients)

Entries(i, type, id) ==
    {n \in DOMAIN book[i] : book[i][n].ref = [type |-> type, id |-> id]}

Moved(i, type, id) ==
    MapThenSumSet(LAMBDA n : book[i][n].qty, Entries(i, type, id))

InStep(step) == Cardinality({s \in Slots : req[s].step = step})

Counted ==
    MapThenSumSet(LAMBDA i : Cardinality(Entries(i, "STOCK_ADJUSTMENT", None)), Ingredients)

Starts(s, r) ==
    /\ req[s] = Idle
    /\ req' = [req EXCEPT ![s] = r]
    /\ UNCHANGED <<stock, cost, book, purchase, order>>

Ends(s) == req' = [req EXCEPT ![s] = Idle]

-----------------------------------------------------------------------------
(* applyIngredientStockMovement, for every ingredient of a transaction *)

AlwaysEnough(delta) == TRUE

\* No movement takes more than there is.
Enough(delta) == \A i \in DOMAIN delta : stock[i] + delta[i] >= 0

Moves(delta, type, id) ==
    /\ stock' = [i \in Ingredients |->
                    IF i \in DOMAIN delta THEN stock[i] + delta[i] ELSE stock[i]]
    /\ book' = [i \in Ingredients |->
                    IF i \in DOMAIN delta
                    THEN Append(book[i], [qty |-> delta[i], after |-> stock[i] + delta[i],
                                          ref |-> [type |-> type, id |-> id]])
                    ELSE book[i]]

-----------------------------------------------------------------------------
(* Purchases *)

StillDraftUnguarded(d) == purchase[d].status # "CANCELLED"

StillDraft(d) == purchase[d].status = "DRAFT"

\* updateDraftPurchase: without new lines, the total is that of the lines it read.
EditRead(s, d, lines) ==
    /\ purchase[d].status = "DRAFT"
    /\ Starts(s, [step |-> "edit", id |-> d, lines |-> lines,
                  total |-> TotalOf(IF lines = None THEN purchase[d].lines ELSE lines)])

EditWrite(s) ==
    /\ req[s].step = "edit"
    /\ LET r == req[s] IN
       purchase' = IF StillDraft(r.id)
                   THEN [purchase EXCEPT ![r.id] =
                            [status |-> "DRAFT", total |-> r.total,
                             lines |-> IF r.lines = None THEN @.lines ELSE r.lines]]
                   ELSE purchase
    /\ Ends(s)
    /\ UNCHANGED <<stock, cost, book, order>>

CancelPurchase(d) ==
    /\ purchase[d].status = "DRAFT"
    /\ purchase' = [purchase EXCEPT ![d].status = "CANCELLED"]
    /\ UNCHANGED <<stock, cost, book, order, req>>

ReceiveRead(s, d) ==
    /\ purchase[d].status = "DRAFT"
    /\ Starts(s, [step |-> "receive", id |-> d, lines |-> purchase[d].lines])

\* n / d to the nearest, a half up; for n >= 0.
Rounded(n, d) == (2 * n + d) \div (2 * d)

CostOrZero(i) == IF cost[i] = None THEN 0 ELSE cost[i]

AverageCountedTwice(i, line) ==
    Rounded((stock[i] + line.qty) * CostOrZero(i) + Scale * line.total, stock[i] + line.qty)

\* The weighted average of what is there and what comes in.
Average(i, line) ==
    Rounded(stock[i] * CostOrZero(i) + Scale * line.total, stock[i] + line.qty)

\* receivePurchase, with the lines and the total that were read before.
ReceiveWrite(s) ==
    /\ req[s].step = "receive"
    /\ LET r == req[s]
           bought == {i \in Ingredients : r.lines[i].qty > 0}
       IN IF StillDraft(r.id)
          THEN /\ Moves([i \in bought |-> r.lines[i].qty], "PURCHASE_RECEIVE", r.id)
               /\ cost' = [i \in Ingredients |->
                              IF i \in bought THEN Average(i, r.lines[i]) ELSE cost[i]]
               /\ purchase' = [purchase EXCEPT ![r.id].status = "RECEIVED",
                                               ![r.id].total = TotalOf(r.lines)]
          ELSE UNCHANGED <<stock, cost, book, purchase>>
    /\ Ends(s)
    /\ UNCHANGED order

-----------------------------------------------------------------------------
(* Orders *)

Used(o) == {i \in Ingredients : Needs[o][i] > 0}

\* consumeOrderIngredients: all of it or nothing.  The engine does not look for an
\* earlier call; one for each order is what its caller did while there was one.
Consume(o) ==
    LET delta == [i \in Used(o) |-> 0 - Needs[o][i]] IN
    /\ ~order[o].consumed /\ Enough(delta)
    /\ Moves(delta, "ORDER_COMPLETED", o)
    /\ order' = [order EXCEPT ![o].consumed = TRUE]
    /\ UNCHANGED <<cost, purchase, req>>

\* requestRefund looks at what is left to refund; see Settlement for what may
\* happen between that look and the decision.
RefundRead(s, o, units) ==
    /\ units \in 1 .. (Units[o] - order[o].refunded)
    /\ order[o].refunds + InStep("refund") < MaxRefunds
    /\ Starts(s, [step |-> "refund", id |-> o, units |-> units])

NotClamped(o, units) == units

\* The fraction of an order that is refunded is at most one.
Clamped(o, units) == IF units > Units[o] THEN Units[o] ELSE units

\* What a column makes of n / d: the nearest value, either of two.
Nearest(n, d) == {q \in (n \div d) .. (n \div d + 1) : 2 * (q * d - n) \in (0 - d) .. d}

\* reverseHistoricalIngredientConsumption: the share of this refund of what the
\* movements of the order say it used.
Restored(o, i, units) ==
    LET share == Clamped(o, order[o].refunded + units) - Clamped(o, order[o].refunded)
    IN Nearest((0 - Moved(i, "ORDER_COMPLETED", o)) * share, Units[o])

\* An approved refund.  Nothing comes back once the whole order has been refunded,
\* and nothing that the order has not used.
RefundWrite(s) ==
    /\ req[s].step = "refund"
    /\ LET o == req[s].id
           before == order[o].refunded
           moved == {i \in Ingredients : Entries(i, "ORDER_COMPLETED", o) # {}}
       IN /\ order' = [order EXCEPT ![o].refunded = @ + req[s].units,
                                    ![o].refunds = @ + 1]
          /\ IF Clamped(o, before + req[s].units) > Clamped(o, before)
             THEN \E delta \in [moved -> UNION {Restored(o, i, req[s].units) : i \in moved}] :
                     /\ \A i \in moved : delta[i] \in Restored(o, i, req[s].units)
                     /\ Moves(delta, "REFUND_RESTORE", o)
             ELSE UNCHANGED <<stock, book>>
    /\ Ends(s)
    /\ UNCHANGED <<cost, purchase>>

-----------------------------------------------------------------------------
(* adjustIngredientStock *)

\* A first cost is asked for exactly while there is none.
CountRead(s, i, target, first) ==
    /\ first # None => cost[i] = None /\ target > 0
    /\ cost[i] = None /\ target > 0 => first # None
    /\ target # stock[i] \/ first # None
    /\ Counted + InStep("count") < MaxCounts
    /\ Starts(s, [step |-> "count", id |-> i, delta |-> target - stock[i], cost |-> first])

\* A cost that was set in the meantime is not replaced.
MayPrice(r) == r.cost # None => cost[r.id] = None

CountWrite(s) ==
    /\ req[s].step = "count"
    /\ LET r == req[s]
           delta == [i \in {r.id} |-> r.delta]
       IN IF MayPrice(r) /\ Enough(delta)
          THEN /\ IF r.delta = 0 THEN UNCHANGED <<stock, book>>
                                 ELSE Moves(delta, "STOCK_ADJUSTMENT", None)
               /\ cost' = IF r.cost = None THEN cost ELSE [cost EXCEPT ![r.id] = r.cost]
          ELSE UNCHANGED <<stock, book, cost>>
    /\ Ends(s)
    /\ UNCHANGED <<purchase, order>>

-----------------------------------------------------------------------------
Init ==
    /\ stock = Opening
    /\ cost = [i \in Ingredients |-> None]
    /\ book = [i \in Ingredients |-> <<>>]
    /\ purchase = [d \in Purchases |-> [status |-> "DRAFT", lines |-> FirstLines[d],
                                        total |-> TotalOf(FirstLines[d])]]
    /\ order = [o \in Orders |-> [consumed |-> FALSE, refunded |-> 0, refunds |-> 0]]
    /\ req = [s \in Slots |-> Idle]

Next ==
    \/ \E d \in Purchases : CancelPurchase(d)
    \/ \E o \in Orders : Consume(o)
    \/ \E s \in Slots :
          \/ \E d \in Purchases, lines \in Lines \cup {None} : EditRead(s, d, lines)
          \/ \E d \in Purchases : ReceiveRead(s, d)
          \/ \E o \in Orders : \E units \in 1 .. Units[o] : RefundRead(s, o, units)
          \/ \E i \in Ingredients, target \in Targets, first \in Costs \cup {None} :
                CountRead(s, i, target, first)
          \/ EditWrite(s) \/ ReceiveWrite(s) \/ RefundWrite(s) \/ CountWrite(s)

Spec == Init /\ [][Next]_vars

-----------------------------------------------------------------------------
(* Properties *)

\* A purchase that was received is one version of its draft, whole and once: its
\* movements and its total come from the same lines, whatever was edited, sent
\* twice or cancelled meanwhile; one that was not received moved nothing
\* (receivePurchase: "any duplicate / retried receive hits count 0").
ReceivedAsOneDraft ==
    \A d \in Purchases :
        LET Receipts(i) == Entries(i, "PURCHASE_RECEIVE", d)
        IN IF purchase[d].status = "RECEIVED"
           THEN \E l \in Lines :
                  /\ purchase[d].total = TotalOf(l)
                  /\ \A i \in Ingredients :
                       /\ Cardinality(Receipts(i)) = IF l[i].qty > 0 THEN 1 ELSE 0
                       /\ Moved(i, "PURCHASE_RECEIVE", d) = l[i].qty
           ELSE \A i \in Ingredients : Receipts(i) = {}

\* The refunds of an order, however they overlap with its use and with each other,
\* put back no more than it used, but for half of the smallest part of a unit by
\* which each of them may be rounded up (reverseHistoricalIngredientConsumption).
RestoredWithinUsed ==
    TypeOK /\ \A o \in Orders, i \in Ingredients :
        LET back == Moved(i, "REFUND_RESTORE", o)
            used == 0 - Moved(i, "ORDER_COMPLETED", o)
        IN 2 * (back - used) <= Cardinality(Entries(i, "REFUND_RESTORE", o))

\* What is paid for a unit of i, on every occasion there is.
Prices(i) ==
    {Rounded(Scale * l[i].total, l[i].qty) : l \in {m \in Lines : m[i].qty > 0}} \cup Costs

\* An ingredient that did not start with stock of no known cost has a cost as soon
\* as it has stock, and that average is never below every price nor above every
\* price: no order of receipts, uses, refunds and counts, nor any rounding on the
\* way, makes an ingredient cheaper or dearer than it was ever bought.
AverageIsWithinPrices ==
    \A i \in Ingredients : Opening[i] = 0 =>
        /\ stock[i] > 0 => cost[i] # None
        /\ cost[i] # None => \E p, q \in Prices(i) : p <= cost[i] /\ cost[i] <= q

\* Refinement: each ingredient is a StockAccount, under stale counts too: every
\* change of its stock is a movement with the balance it leaves.
Account(i) ==
    INSTANCE StockAccount
        WITH Opening <- Opening[i], balance <- stock[i], book <- book[i]

IngredientAccounts ==
    /\ \A i \in Ingredients : Account(i)!Open
    /\ [][\A i \in Ingredients : Account(i)!Post \/ UNCHANGED <<stock[i], book[i]>>]_vars

\* "cumulative restorations never exceed the historical consumption".  NOT kept.
RestoredNeverExceedsUsed ==
    \A o \in Orders, i \in Ingredients :
        Moved(i, "REFUND_RESTORE", o) <= 0 - Moved(i, "ORDER_COMPLETED", o)

\* "applies an IN stock movement (balance + quantity) per purchase item".  NOT kept.
ReceivedIsItsLines ==
    \A d \in Purchases : purchase[d].status = "RECEIVED" =>
        \A i \in Ingredients :
            Moved(i, "PURCHASE_RECEIVE", d) = purchase[d].lines[i].qty
=============================================================================
