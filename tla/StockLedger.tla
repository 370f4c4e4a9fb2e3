---------------------------- MODULE StockLedger ----------------------------
(***************************************************************************)
(* The product stock of one branch and the documents that move it: orders  *)
(* becoming READY, purchases received, refunds approved, and the counts an  *)
(* administrator types in.  Every movement goes through applyStockMovement, *)
(* inside the transaction that changes its document.                       *)
(*                                                                         *)
(* A transaction takes the rows of its products one after another, in any  *)
(* order, and keeps them until it ends; what it writes is seen by others   *)
(* when it commits.  Two transactions that wait for each other's rows are  *)
(* ended by the database (GiveUp).                                         *)
(***************************************************************************)
EXTENDS Integers, Sequences, FiniteSets

CONSTANTS
    Slots,         \* requests that can be in flight at the same time
    Products,
    Orders, Purchases, Refunds,
    LegacyOrders,  \* orders that were READY before stock left at READY
    OrderOf,       \* the order a refund belongs to
    Quantity,      \* units of each product in a document
    Opening,       \* the balances the ledger starts from
    Unlisted,      \* products the branch has no row for yet
    Counted,       \* products an administrator may set the stock of
    Levels,        \* numbers typed in
    MaxMoves       \* no count is typed in once a product has so many movements

Documents == Orders \cup Purchases \cup Refunds

ASSUME DocumentsAssumption ==
    /\ Orders \cap Purchases = {} /\ Orders \cap Refunds = {}
    /\ Purchases \cap Refunds = {} /\ "count" \notin Documents
    /\ LegacyOrders \subseteq Orders
    /\ OrderOf \in [Refunds -> Orders]
    /\ Quantity \in [Documents -> [Products -> Nat]]
    /\ \A r \in Refunds, p \in Products : Quantity[r][p] <= Quantity[OrderOf[r]][p]

ASSUME ProductsAssumption ==
    /\ Opening \in [Products -> Nat]
    /\ Unlisted \subseteq Products
    /\ Counted \subseteq Products
    /\ \A p \in Unlisted : Opening[p] = 0
    /\ Levels \subseteq Nat /\ MaxMoves \in Nat

VARIABLES
    stock,    \* branchProduct.stock
    listed,   \* the products that have a branchProduct row
    ledger,   \* the stock movements of each product, in order
    doc,      \* status of each document
    req       \* what each request in flight is about to do

vars == <<stock, listed, ledger, doc, req>>

Status == {"PROCESSING", "READY", "COMPLETED", "CANCELLED",
           "DRAFT", "RECEIVED", "PENDING", "APPROVED", "REJECTED"}

\* Where a document may go from a status.
Transitions ==
    [st \in Status |->
        CASE st = "PROCESSING" -> {"READY", "CANCELLED"}
          [] st = "READY" -> {"COMPLETED"}
          [] st = "DRAFT" -> {"RECEIVED", "CANCELLED"}
          [] st = "PENDING" -> {"APPROVED", "REJECTED"}
          [] OTHER -> {}]

\* The document of a movement (refType and refId); "count" is an adjustment, which
\* has none.
References == Documents \cup {"count"}

Movement == [qty : Int, after : Nat, ref : References]

Idle == [at |-> "idle"]

\* new holds the balances a transaction has written for the rows it holds.
Requests ==
    {Idle}
    \cup [at : {"begin"}, d : Documents, from : Status, to : Status]
    \cup [at : {"move"}, d : Documents, to : Status, todo : SUBSET Products,
          held : SUBSET Products, new : [Products -> Nat]]
    \cup [at : {"reserve"}, d : Documents, to : Status, todo : SUBSET Products,
          held : SUBSET Products, new : [Products -> Nat], p : Products]
    \cup [at : {"count"}, p : Counted, level : Levels, delta : Int]

TypeOK ==
    /\ stock \in [Products -> Nat]
    /\ listed \in SUBSET Products
    /\ ledger \in [Products -> Seq(Movement)]
    /\ doc \in [Documents -> Status]
    /\ req \in [Slots -> Requests]

-----------------------------------------------------------------------------
InTx(s) == req[s].at \in {"move", "reserve"}

Held(s) == IF InTx(s) THEN req[s].held ELSE {}

\* The document row a transaction writes, and the order an approved refund writes
\* too (its payment status).
RowsOf(r) == IF r.to = "APPROVED" THEN {r.d, OrderOf[r.d]} ELSE {r.d}

Busy(r) == \E s \in Slots : InTx(s) /\ RowsOf(req[s]) \cap RowsOf(r) # {}

\* The quantity of the movement: an order's is negative.
Signed(d, p) == IF d \in Orders THEN 0 - Quantity[d][p] ELSE Quantity[d][p]

Items(d) == {p \in Products : Quantity[d][p] > 0}

Entries(d, p) == {i \in 1..Len(ledger[p]) : ledger[p][i].ref = d}

Moved(d) == \E p \in Products : Entries(d, p) # {}

Goto(s, r) == req' = [req EXCEPT ![s] = r]

-----------------------------------------------------------------------------
(* The checks the handlers make, each after what a slip would make of it *)

FreeAlways(p) == TRUE

\* SELECT ... FOR UPDATE: no other transaction holds the product's row.
Free(p) == \A s \in Slots : p \notin Held(s)

NotRelocked(p) == 0

\* The balance of a row that was missing when the transaction first looked.
Relocked(p) == stock[p]

StillUnguarded(d, from) == TRUE

\* The guarded write finds the document where it was read.
Still(d, from) == doc[d] = from

LeftAlways(o) == TRUE

\* The order reached the status that took its stock.
Left(o) == doc[o] \in {"READY", "COMPLETED"}

RefusedNever(n) == FALSE

\* A movement may not take more than there is.
Refused(n) == n < 0

-----------------------------------------------------------------------------
(* A document and its movements *)

\* updateOrderStatus, receivePurchase and decideRefund read the document and
\* check its status before the transaction.
Read(s) ==
    /\ req[s] = Idle
    /\ \E d \in Documents :
          \E to \in Transitions[doc[d]] :
              Goto(s, [at |-> "begin", d |-> d, from |-> doc[d], to |-> to])
    /\ UNCHANGED <<stock, listed, ledger, doc>>

\* What the transaction has to move once its document is written: an order that
\* is completed without having moved its stock moves it then.
Due(d, from, to) ==
    IF \/ to \in {"READY", "RECEIVED"}
       \/ from = "READY" /\ to = "COMPLETED" /\ ~Moved(d)
       \/ to = "APPROVED" /\ Left(OrderOf[d])
      THEN Items(d) ELSE {}

\* The guarded write of the document.
Begin(s) ==
    /\ req[s].at = "begin"
    /\ ~Busy(req[s])
    /\ Still(req[s].d, req[s].from)
    /\ Goto(s, [at |-> "move", d |-> req[s].d, to |-> req[s].to,
                todo |-> Due(req[s].d, req[s].from, req[s].to),
                held |-> {}, new |-> [p \in Products |-> 0]])
    /\ UNCHANGED <<stock, listed, ledger, doc>>

\* applyStockMovement, once it holds the row of p with balance n.
Apply(s, p, n) ==
    LET after == n + Signed(req[s].d, p)
    IN /\ ~Refused(after)
       /\ Goto(s, [at |-> "move", d |-> req[s].d, to |-> req[s].to,
                   todo |-> req[s].todo \ {p}, held |-> req[s].held \cup {p},
                   new |-> [req[s].new EXCEPT ![p] = after]])

LockRow(s) ==
    /\ req[s].at = "move"
    /\ \E p \in req[s].todo \cap listed : Free(p) /\ Apply(s, p, stock[p])
    /\ UNCHANGED <<stock, listed, ledger, doc>>

\* The row does not exist: nothing was locked.
FindNoRow(s) ==
    /\ req[s].at = "move"
    /\ \E p \in req[s].todo \ listed :
          /\ Free(p)
          /\ Goto(s, [at |-> "reserve", d |-> req[s].d, to |-> req[s].to,
                      todo |-> req[s].todo, held |-> req[s].held,
                      new |-> req[s].new, p |-> p])
    /\ UNCHANGED <<stock, listed, ledger, doc>>

\* The transaction inserts the row, or finds it inserted by another, and locks it.
ReserveRow(s) ==
    /\ req[s].at = "reserve"
    /\ Free(req[s].p)
    /\ Apply(s, req[s].p, Relocked(req[s].p))
    /\ UNCHANGED <<stock, listed, ledger, doc>>

\* A refund that gives everything back cancels an order that is not over.
Settled(d, to) ==
    {[doc EXCEPT ![d] = to]}
    \cup IF to = "APPROVED" /\ doc[OrderOf[d]] \notin {"COMPLETED", "CANCELLED"}
           THEN {[doc EXCEPT ![d] = to, ![OrderOf[d]] = "CANCELLED"]} ELSE {}

Commit(s) ==
    /\ req[s].at = "move" /\ req[s].todo = {}
    /\ LET d == req[s].d
           held == req[s].held
           new == req[s].new
       IN /\ doc' \in Settled(d, req[s].to)
          /\ stock' = [p \in Products |-> IF p \in held THEN new[p] ELSE stock[p]]
          /\ listed' = listed \cup held
          /\ ledger' = [p \in Products |->
                IF p \in held
                  THEN Append(ledger[p], [qty |-> Signed(d, p), after |-> new[p],
                                          ref |-> d])
                  ELSE ledger[p]]
    /\ Goto(s, Idle)

\* A rule rejected the request, its transaction was rolled back (for want of
\* stock, or to end a deadlock), or the server went down.
GiveUp(s) ==
    /\ req[s] # Idle
    /\ Goto(s, Idle)
    /\ UNCHANGED <<stock, listed, ledger, doc>>

-----------------------------------------------------------------------------
(* The count an administrator types in (updateBranchProduct) *)

\* The difference is computed from a balance read before the transaction.
CountStart(s) ==
    /\ req[s] = Idle
    /\ \E p \in Counted, level \in Levels :
          /\ Len(ledger[p]) < MaxMoves
          /\ Goto(s, [at |-> "count", p |-> p, level |-> level,
                      delta |-> level - stock[p]])
    /\ UNCHANGED <<stock, listed, ledger, doc>>

\* The movement is applied under the row's lock, then the upsert writes the
\* number that was typed in.
Count(s) ==
    /\ req[s].at = "count"
    /\ LET p == req[s].p
           delta == req[s].delta
           after == stock[p] + delta
       IN /\ Free(p)
          /\ \/ /\ delta # 0 /\ ~Refused(after)
                /\ ledger' = [ledger EXCEPT ![p] =
                      Append(ledger[p], [qty |-> delta, after |-> after, ref |-> "count"])]
             \/ /\ delta = 0
                /\ UNCHANGED ledger
          /\ stock' = [stock EXCEPT ![p] = req[s].level]
          /\ listed' = listed \cup {p}
    /\ Goto(s, Idle)
    /\ UNCHANGED doc

-----------------------------------------------------------------------------
Init ==
    /\ stock = Opening
    /\ listed = Products \ Unlisted
    /\ ledger = [p \in Products |-> <<>>]
    /\ doc = [d \in Documents |->
                CASE d \in LegacyOrders -> "READY"
                  [] d \in Orders \ LegacyOrders -> "PROCESSING"
                  [] d \in Purchases -> "DRAFT"
                  [] OTHER -> "PENDING"]
    /\ req = [s \in Slots |-> Idle]

Step(s) ==
    \/ Read(s) \/ Begin(s) \/ LockRow(s) \/ FindNoRow(s) \/ ReserveRow(s)
    \/ Commit(s) \/ GiveUp(s)
    \/ CountStart(s) \/ Count(s)

Next == \E s \in Slots : Step(s)

Spec == Init /\ [][Next]_vars

-----------------------------------------------------------------------------
(* What holds *)

\* A transaction that holds rows knows their balances until it ends, and no two
\* hold the same row (applyStockMovement, FOR UPDATE).
Exclusive == \A s, t \in Slots : s # t => Held(s) \cap Held(t) = {}

KnownBalances ==
    \A s \in Slots : InTx(s) =>
        \A p \in Held(s) : req[s].new[p] = stock[p] + Signed(req[s].d, p)

LedgerInv == TypeOK /\ Exclusive /\ KnownBalances

\* A document moves each of its products at most once and all of them together,
\* and a received purchase or a completed order has moved them, however many
\* requests handle it at once (receivePurchase, "Idempotent gate"; order
\* completion, "no double deduction, no ledger row without its balance change").
MovedOnceAndWhole ==
    \A d \in Documents :
        /\ \A p \in Items(d) :
              /\ \A i, j \in Entries(d, p) : i = j
              /\ Moved(d) => Entries(d, p) # {}
              /\ doc[d] \in {"RECEIVED", "COMPLETED"} => Entries(d, p) # {}
        /\ Moved(d) => doc[d] \notin {"PROCESSING", "DRAFT", "PENDING", "REJECTED"}

\* A refund puts back only what its order took (decideRefund, "stock was actually
\* consumed"); orders that were READY before stock left at READY excepted.
NothingBackBeforeItLeft ==
    \A r \in Refunds : Moved(r) => Moved(OrderOf[r]) \/ OrderOf[r] \in LegacyOrders

\* The stock of a product that nobody counts by hand is an account: each change
\* is a movement with the balance it leaves, never below zero, whichever
\* documents move it at once and also when its row did not exist
\* (applyStockMovement).
Account(p) == INSTANCE StockAccount
    WITH balance <- stock[p], book <- ledger[p], Opening <- Opening[p]

AccountsKept ==
    /\ \A p \in Products \ Counted : Account(p)!Open
    /\ [][\A p \in Products \ Counted :
            Account(p)!Post \/ UNCHANGED <<stock[p], ledger[p]>>]_vars

-----------------------------------------------------------------------------
(* What the code promises of counted products too *)

\* The last movement of a product leaves the balance it has (updateBranchProduct,
\* "the ledger always reflects reality and concurrent writers serialize").
Reflected(p) ==
    stock[p] = IF ledger[p] = <<>> THEN Opening[p]
                                   ELSE ledger[p][Len(ledger[p])].after

LedgerReflectsStock == \A p \in Products : Reflected(p)

=============================================================================
