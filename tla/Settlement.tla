----------------------------- MODULE Settlement -----------------------------
(***************************************************************************)
(* One dine-in order and everything that moves its money: the payment      *)
(* rows created for it, the gateway and its callbacks, the cashier, the    *)
(* refund and cancellation desks, and the kitchen that advances it.        *)
(*                                                                         *)
(* Requests run concurrently in Slots.  A request reads the database, then *)
(* runs one or more transactions; what it read is kept in req[s] and may   *)
(* be stale when it is used.  A transaction is one step when its first     *)
(* statement locks the row its rivals write; where it reads a snapshot     *)
(* before it writes, the read and the write are two steps.                 *)
(*                                                                         *)
(* The order belongs to no reservation, so the reservation seams of the    *)
(* payment handlers find nothing to do.                                    *)
(***************************************************************************)
EXTENDS Integers, FiniteSets, FiniteSetsExt, PaymentRows

CONSTANTS
    Slots,       \* requests that can be in flight at the same time
    MaxPay,      \* payment rows the order may get
    MaxRefund,   \* refund requests the order may get
    MaxCancel,   \* cancellation requests the order may get
    Total        \* grandTotal, in units; the order has Total items of one unit

ASSUME BoundsAssumption ==
    /\ MaxPay \in Nat /\ MaxRefund \in Nat /\ MaxCancel \in Nat
    /\ Total \in Nat \ {0}

VARIABLES
    status,      \* order.status
    payStatus,   \* order.paymentStatus
    table,       \* status of the order's table
    pay,         \* the order's payment rows, in creation order
    refund,      \* the order's refund rows
    cancel,      \* the order's cancellation requests
    stock,       \* units the order took out of stock, and units put back
    req          \* what each request in flight is about to do

vars == <<status, payStatus, table, pay, refund, cancel, stock, req>>

Payments == 1..MaxPay
Refunds == 1..MaxRefund
Cancels == 1..MaxCancel

OrderStatus ==
    {"PENDING", "CONFIRMED", "PROCESSING", "READY", "COMPLETED", "CANCELLED"}

Terminal == {"COMPLETED", "CANCELLED"}

\* Where a status may go next.
ValidStatusTransitions ==
    [PENDING    |-> {"CONFIRMED", "CANCELLED"},
     CONFIRMED  |-> {"PROCESSING", "CANCELLED"},
     PROCESSING |-> {"READY", "CANCELLED"},
     READY      |-> {"COMPLETED"},
     COMPLETED  |-> {},
     CANCELLED  |-> {}]

\* back counts the negative ledger entries written for the refund.
RefundRow ==
    [st : {"NONE", "PENDING", "APPROVED", "REJECTED"}, amt : 0..Total,
     items : BOOLEAN, back : Nat]

NoRefund == [st |-> "NONE", amt |-> 0, items |-> FALSE, back |-> 0]

CancelStatus == {"NONE", "PENDING", "APPROVED", "REJECTED"}

Idle == [at |-> "idle"]

Requests ==
    {Idle}
    \cup [at : {"expire"}, p : Payments, by : {"cashier", "public"}]
    \cup [at : {"check", "mirror", "qris"}]
    \cup [at : {"gateway", "unwind"}, p : Payments]
    \cup [at : {"recheck", "insert"}, stale : Payments \cup {0}]
    \cup [at : {"collect"}, p : Payments, adv : BOOLEAN]
    \cup [at : {"callback"}, p : Payments, res : Callbacks]
    \cup [at : {"callbackTx"}, p : Payments, res : Callbacks,
          cur : PaymentStatus \ {"CANCELLED"}]
    \cup [at : {"move"}, from : OrderStatus, to : OrderStatus]
    \cup [at : {"askRefund"}, amt : 1..Total, items : BOOLEAN]
    \cup [at : {"settleRefund"}, r : Refunds, had : BOOLEAN, holds : BOOLEAN]
    \cup [at : {"askCancel"}]
    \cup [at : {"weighCancel", "applyCancel"}, c : Cancels, ready : BOOLEAN]

TypeOK ==
    /\ status \in OrderStatus
    /\ payStatus \in PaymentStatus
    /\ table \in {"OCCUPIED", "AVAILABLE"}
    /\ pay \in [Payments -> PaymentRow]
    /\ refund \in [Refunds -> RefundRow]
    /\ cancel \in [Cancels -> CancelStatus]
    /\ stock \in [out : Nat, back : Nat]
    /\ req \in [Slots -> Requests]

-----------------------------------------------------------------------------
(* Reading the rows *)

Created == {p \in Payments : pay[p].st # "NONE"}

Having(method, st) == {p \in Payments : pay[p].method = method /\ pay[p].st = st}

UnpaidCash == Having("KASIR", "UNPAID")

IsPaid(p) == pay[p].st = "PAID"

AnyPaid == \E p \in Payments : IsPaid(p)

\* Rows are ordered by createdAt, which is the order of their numbers.
IsNewest(p, S) == p \in S /\ \A q \in S : q <= p

IsNext(p) == Created = 1..(p - 1)

TotalPaid == Total * Cardinality({p \in Payments : pay[p].st \in CollectedStatuses})

ApprovedAmount == MapThenSumSet(LAMBDA r : refund[r].amt,
                                {r \in Refunds : refund[r].st = "APPROVED"})

\* Quantity already allocated to approved refunds (a unit costs one).
ApprovedItems ==
    MapThenSumSet(LAMBDA r : refund[r].amt,
                  {r \in Refunds : refund[r].st = "APPROVED" /\ refund[r].items})

\* computeNetCollected: what the restaurant still holds for the order.
NetCollected == TotalPaid - ApprovedAmount

\* updateMany on the payment rows of set S.
SetStatus(S, st) ==
    [p \in Payments |-> IF p \in S THEN [pay[p] EXCEPT !.st = st] ELSE pay[p]]

UnlessPaid(st) == IF payStatus = "PAID" THEN payStatus ELSE st

\* What the payment handlers leave alone.
OrderUnchanged == UNCHANGED <<status, table, refund, cancel, stock>>

Goto(s, r) == req' = [req EXCEPT ![s] = r]

-----------------------------------------------------------------------------
(* The checks the handlers make.  Each is followed by what a slip would make  *)
(* of it: a check that is missing, or that looks at the wrong thing.          *)

UnsettledSkipped == TRUE

\* The order's own mirror says it is not paid.
Unsettled == payStatus # "PAID"

LiveQrisForgotten == {}

\* The QRIS intent to hand out again instead of creating one.
LiveQris == Having("QRIS", "PENDING")

CollectibleAnyMethod(p) == ~IsPaid(p)

\* Only a cashier row can be collected at the counter.
Collectible(p) == pay[p].method = "KASIR" /\ ~IsPaid(p)

EntersKitchenAnyStatus(form) ==
    form \/ \E q \in Created : pay[q].method = "QRIS"

\* The collection sends the order to the kitchen: the cashier filled the form or
\* the customer had tried QRIS, and the order is still waiting for payment.
EntersKitchen(form) ==
    /\ form \/ \E q \in Created : pay[q].method = "QRIS"
    /\ status \in {"PENDING", "CONFIRMED"}

TakenIgnored(p) == FALSE

\* The guarded write finds the row no longer UNPAID.
Taken(p) == pay[p].st # "UNPAID"

ProcessedForgotten(p) == FALSE

\* The callback was already processed.
Processed(p) == IsPaid(p)

Superseded(p) == pay[p].st = "CANCELLED"

StillAtUnguarded(from) == TRUE

\* The guarded write finds the order where it was read.
StillAt(from) == status = from

OpenRefundsForgotten == {}

OpenRefunds == {r \in Refunds : refund[r].st = "PENDING"}

UndecidedUnguarded(r) == TRUE

\* The guarded write finds the refund still waiting.
Undecided(r) == refund[r].st = "PENDING"

StockTakenAlways == TRUE

StockTakenOnCompletion == status = "COMPLETED"

\* The order reached the status that took its stock.
StockTaken == status \in {"READY", "COMPLETED"}

Restore(n) == [stock EXCEPT !.back = @ + n]

MirrorKept(holds) == payStatus

\* order.paymentStatus once a refund is settled.
MirrorAfterRefund(holds) == IF holds THEN "PAID" ELSE "UNPAID"

-----------------------------------------------------------------------------
(* Payment intents *)

Payable == status # "CANCELLED" /\ ~AnyPaid

\* createPayment with method KASIR, under the order's row lock.  A virtual
\* account's row has no method, so "not KASIR" does not match it.
CreateCashIntent ==
    LET superseded == {p \in Payments : /\ pay[p].method = "QRIS"
                                        /\ pay[p].st \in {"PENDING", "FAILED", "EXPIRED"}}
        cash == {p \in Created : pay[p].method = "KASIR"}
        recorded == \E c \in cash : IsNewest(c, cash) /\ pay[c].st = "UNPAID"
    IN /\ Payable
       /\ payStatus' = UnlessPaid("UNPAID")
       /\ \/ /\ recorded
             /\ pay' = SetStatus(superseded, "CANCELLED")
          \/ /\ ~recorded
             /\ \E n \in Payments :
                   /\ IsNext(n)
                   /\ pay' = [SetStatus(superseded, "CANCELLED")
                                 EXCEPT ![n] = NewRow("KASIR", "UNPAID")]
       /\ UNCHANGED req /\ OrderUnchanged

\* createPayment without a method: a virtual account.
CreateVaIntent(s) ==
    /\ req[s] = Idle
    /\ Payable /\ UnpaidCash = {}
    /\ \E n \in Payments :
          /\ IsNext(n)
          /\ pay' = [pay EXCEPT ![n] = NewRow("VA", "PENDING")]
          /\ Goto(s, [at |-> "gateway", p |-> n])
    /\ payStatus' = UnlessPaid("PENDING")
    /\ OrderUnchanged

\* createPayment with method QRIS, called directly or by a cashier or customer
\* route that went through the steps below.
ReuseQrisIntent(s) ==
    /\ LiveQris # {}
    /\ pay' = SetStatus(UnpaidCash, "CANCELLED")
    /\ Goto(s, Idle)
    /\ UNCHANGED payStatus

NewQrisIntent(s) ==
    /\ LiveQris = {}
    /\ \E n \in Payments :
          /\ IsNext(n)
          /\ pay' = [SetStatus(UnpaidCash, "CANCELLED")
                        EXCEPT ![n] = NewRow("QRIS", "PENDING")]
          /\ Goto(s, [at |-> "gateway", p |-> n])
    /\ payStatus' = UnlessPaid("PENDING")

CreateQrisIntent(s) ==
    /\ req[s].at \in {"idle", "qris"}
    /\ Payable
    /\ ReuseQrisIntent(s) \/ NewQrisIntent(s)
    /\ OrderUnchanged

\* createKasirQrisPayment reads the order and its rows; the newest UNPAID cashier
\* row, about to be superseded, does not count as the latest row.
KasirQrisStart(s) ==
    LET others == {p \in Created : ~IsNewest(p, UnpaidCash)}
    IN /\ req[s] = Idle
       /\ Unsettled /\ ~AnyPaid
       /\ \E p \in Created :
             /\ IsNewest(p, IF others = {} THEN Created ELSE others)
             /\ \/ /\ pay[p].st = "PENDING" /\ pay[p].exp = "past"
                   /\ Goto(s, [at |-> "expire", p |-> p, by |-> "cashier"])
                \/ /\ pay[p].st \in {"EXPIRED", "FAILED"}
                   /\ Goto(s, [at |-> "check"])
                \/ /\ pay[p].st \notin {"EXPIRED", "FAILED"}
                   /\ pay[p].st = "PENDING" => pay[p].exp = "none"
                   /\ Goto(s, [at |-> "qris"])
       /\ UNCHANGED <<payStatus, pay>> /\ OrderUnchanged

\* The customer's QRIS route looks for a stale PENDING row first.
PublicQrisStart(s) ==
    LET pending == {p \in Payments : pay[p].st = "PENDING"}
        stale == {p \in pending : IsNewest(p, pending) /\ pay[p].exp = "past"}
    IN /\ req[s] = Idle
       /\ Unsettled
       /\ \/ \E p \in stale :
                Goto(s, [at |-> "expire", p |-> p, by |-> "public"])
          \/ /\ stale = {}
             /\ Goto(s, [at |-> "qris"])
       /\ UNCHANGED <<payStatus, pay>> /\ OrderUnchanged

\* Both write EXPIRED on the row they found stale, if it is still PENDING.
ExpireStale(s) ==
    /\ req[s].at = "expire"
    /\ pay' = SetStatus({req[s].p} \cap {p \in Payments : pay[p].st = "PENDING"},
                        "EXPIRED")
    /\ Goto(s, IF req[s].by = "cashier" THEN [at |-> "check"] ELSE [at |-> "mirror"])
    /\ UNCHANGED payStatus /\ OrderUnchanged

\* The cashier's path looks again for a live or settled row.
RecheckActive(s) ==
    /\ req[s].at = "check"
    /\ IF \E p \in Payments : pay[p].st \in {"PENDING", "PAID"}
         THEN Goto(s, Idle)
         ELSE Goto(s, [at |-> "qris"])
    /\ UNCHANGED <<payStatus, pay>> /\ OrderUnchanged

\* The customer's path writes EXPIRED on the order, whatever it holds by now.
MirrorExpired(s) ==
    /\ req[s].at = "mirror"
    /\ payStatus' = "EXPIRED"
    /\ Goto(s, [at |-> "qris"])
    /\ UNCHANGED pay /\ OrderUnchanged

\* The gateway's answer, outside any lock.
GatewayAccepts(s) ==
    /\ req[s].at = "gateway"
    /\ pay' = [pay EXCEPT ![req[s].p].exp = "live"]
    /\ Goto(s, Idle)
    /\ UNCHANGED payStatus /\ OrderUnchanged

GatewayRejects(s) ==
    /\ req[s].at = "gateway"
    /\ pay' = SetStatus({req[s].p} \cap {p \in Payments : pay[p].st = "PENDING"},
                        "FAILED")
    /\ Goto(s, [at |-> "unwind", p |-> req[s].p])
    /\ UNCHANGED payStatus /\ OrderUnchanged

MirrorGatewayFailure(s) ==
    /\ req[s].at = "unwind"
    /\ payStatus' = IF payStatus = "PENDING" THEN "FAILED" ELSE payStatus
    /\ Goto(s, Idle)
    /\ UNCHANGED pay /\ OrderUnchanged

\* The clock passes a row's expiresAt.
Lapse(p) ==
    /\ pay[p].exp = "live"
    /\ pay' = [pay EXCEPT ![p].exp = "past"]
    /\ UNCHANGED <<payStatus, req>> /\ OrderUnchanged

-----------------------------------------------------------------------------
(* switchToCashier *)

SwitchStart(s) ==
    /\ req[s] = Idle
    /\ status # "CANCELLED" /\ Unsettled /\ ~AnyPaid
    /\ UnpaidCash = {}
    /\ \E p \in Created :
          /\ IsNewest(p, Created) /\ pay[p].method # "KASIR"
          /\ \/ /\ pay[p].st = "PENDING" /\ pay[p].exp = "past"
                /\ Goto(s, [at |-> "recheck", stale |-> p])
             \/ /\ pay[p].st \in {"EXPIRED", "FAILED"}
                /\ Goto(s, [at |-> "recheck", stale |-> 0])
    /\ UNCHANGED <<payStatus, pay>> /\ OrderUnchanged

StaleExpiredUnguarded(s) == SetStatus({req[s].stale} \cap Payments, "EXPIRED")

\* The rows as the transaction leaves them before it inserts the cashier row.
StaleExpired(s) ==
    SetStatus({req[s].stale} \cap {p \in Payments : pay[p].st = "PENDING"}, "EXPIRED")

\* The transaction's snapshot: is an UNPAID cashier row there by now?  If it
\* is, the transaction commits with the stale row expired and nothing more.
SwitchRecheck(s) ==
    /\ req[s].at = "recheck"
    /\ \/ UnpaidCash # {} /\ pay' = StaleExpired(s) /\ Goto(s, Idle)
       \/ /\ UnpaidCash = {} /\ UNCHANGED pay
          /\ Goto(s, [at |-> "insert", stale |-> req[s].stale])
    /\ UNCHANGED payStatus /\ OrderUnchanged

SwitchInsert(s) ==
    /\ req[s].at = "insert"
    /\ \E n \in Payments :
          /\ IsNext(n)
          /\ pay' = [StaleExpired(s) EXCEPT ![n] = NewRow("KASIR", "UNPAID")]
    /\ payStatus' = UnlessPaid("UNPAID")
    /\ Goto(s, Idle)
    /\ OrderUnchanged

-----------------------------------------------------------------------------
(* Money arrives: the cashier, and the gateway's callbacks *)

\* markCashierPaymentPaid reads the row, the order and the QRIS history.  form
\* says the cashier filled in the amount received.
CollectStart(s) ==
    /\ req[s] = Idle
    /\ Unsettled
    /\ \E p \in Created, form \in BOOLEAN :
          /\ Collectible(p)
          /\ Goto(s, [at |-> "collect", p |-> p, adv |-> EntersKitchen(form)])
    /\ UNCHANGED <<payStatus, pay>> /\ OrderUnchanged

Collect(s) ==
    /\ req[s].at = "collect"
    /\ LET p == req[s].p
       IN IF Taken(p)
            THEN UNCHANGED <<pay, payStatus, status>>
            ELSE /\ pay' = [pay EXCEPT ![p].st = "PAID", ![p].taken = @ + 1]
                 /\ payStatus' =
                      IF payStatus \in {"UNPAID", "PENDING", "FAILED", "EXPIRED"}
                        THEN "PAID" ELSE payStatus
                 /\ status' = IF req[s].adv THEN "PROCESSING" ELSE status
    /\ Goto(s, Idle)
    /\ UNCHANGED <<table, refund, cancel, stock>>

\* handleWebhook finds the row by its providerRef; a PAID row, or a PENDING
\* callback, ends it here.
CallbackStart(s) ==
    /\ req[s] = Idle
    /\ \E p \in Created, res \in Callbacks :
          /\ pay[p].exp # "none" /\ ~Processed(p)
          /\ Goto(s, [at |-> "callback", p |-> p, res |-> res])
    /\ UNCHANGED <<payStatus, pay>> /\ OrderUnchanged

\* The transaction's snapshot of the row.
CallbackRead(s) ==
    /\ req[s].at = "callback"
    /\ LET p == req[s].p
       IN Goto(s, IF Superseded(p)
                    THEN Idle
                    ELSE [at |-> "callbackTx", p |-> p, res |-> req[s].res,
                          cur |-> pay[p].st])
    /\ UNCHANGED <<payStatus, pay>> /\ OrderUnchanged

CallbackApply(s) ==
    /\ req[s].at = "callbackTx"
    /\ LET p == req[s].p
           cur == req[s].cur
       IN IF pay[p].st # cur
            THEN UNCHANGED <<pay, payStatus>>
            ELSE /\ pay' = SetStatus({p}, req[s].res)
                 /\ payStatus' = IF payStatus = cur THEN req[s].res ELSE payStatus
    /\ Goto(s, Idle)
    /\ OrderUnchanged

-----------------------------------------------------------------------------
(* The kitchen: updateOrderStatus *)

MoneyUnchanged == UNCHANGED <<payStatus, pay, refund, cancel>>

\* The order is read and the transition validated before the transaction.
MoveStart(s) ==
    /\ req[s] = Idle
    /\ \E to \in ValidStatusTransitions[status] :
          Goto(s, [at |-> "move", from |-> status, to |-> to])
    /\ UNCHANGED <<status, table, stock>> /\ MoneyUnchanged

DeductsAgain(from, to) == to \in {"READY", "COMPLETED"}

\* A READY order without an ORDER_READY movement is deducted on completion;
\* here every READY order has one, so only PROCESSING -> READY deducts.
Deducts(from, to) ==
    \/ from = "PROCESSING" /\ to = "READY"
    \/ from = "READY" /\ to = "COMPLETED" /\ stock.out = 0

FreeTableIf(ends) == table' = IF ends THEN "AVAILABLE" ELSE table

Move(s) ==
    /\ req[s].at = "move"
    /\ LET from == req[s].from
           to == req[s].to
       IN /\ StillAt(from)
          /\ to = "CANCELLED" => NetCollected <= 0
          /\ to = "COMPLETED" => NetCollected > 0
          /\ status' = to
          /\ stock' = IF Deducts(from, to)
                        THEN [stock EXCEPT !.out = @ + Total] ELSE stock
          /\ FreeTableIf(to \in Terminal)
    /\ Goto(s, Idle)
    /\ MoneyUnchanged

-----------------------------------------------------------------------------
(* Refunds *)

\* requestRefund: what may be refunded is computed before the transaction.
RefundStart(s) ==
    /\ req[s] = Idle
    /\ status # "CANCELLED" /\ TotalPaid > 0
    /\ \E amt \in 1..Total, items \in BOOLEAN :
          /\ amt <= NetCollected
          /\ items => amt <= Total - ApprovedItems
          /\ Goto(s, [at |-> "askRefund", amt |-> amt, items |-> items])
    /\ UNCHANGED <<status, table, stock>> /\ MoneyUnchanged

\* One PENDING refund per order, checked and inserted under the order's lock.
InsertRefund(s) ==
    /\ req[s].at = "askRefund"
    /\ OpenRefunds = {}
    /\ \E r \in Refunds :
          /\ {q \in Refunds : refund[q].st # "NONE"} = 1..(r - 1)
          /\ refund' = [refund EXCEPT ![r] =
                [st |-> "PENDING", amt |-> req[s].amt, items |-> req[s].items,
                 back |-> 0]]
    /\ Goto(s, Idle)
    /\ UNCHANGED <<status, table, stock, payStatus, pay, cancel>>

RejectRefund(r) ==
    /\ refund[r].st = "PENDING"
    /\ refund' = [refund EXCEPT ![r].st = "REJECTED"]
    /\ UNCHANGED <<status, table, stock, payStatus, pay, cancel, req>>

\* decideRefund approves: after the guarded transition the transaction reads the
\* payments and the approved refunds, its own included.  The transition is
\* written with the rest, in ApproveRefund, whose guard is the transition's.
ReadForRefund(s) ==
    /\ req[s] = Idle
    /\ \E r \in Refunds :
          /\ refund[r].st = "PENDING"
          /\ Goto(s, [at |-> "settleRefund", r |-> r, had |-> TotalPaid > 0,
                      holds |-> NetCollected > refund[r].amt])
    /\ UNCHANGED <<status, table, stock>> /\ MoneyUnchanged

ApproveRefund(s) ==
    /\ req[s].at = "settleRefund"
    /\ LET r == req[s].r
           holds == req[s].holds
           paid == {p \in Payments : IsPaid(p)}
           cancels == req[s].had /\ ~holds /\ status \notin Terminal
       IN /\ Undecided(r)
          /\ refund' = [refund EXCEPT ![r] =
                [refund[r] EXCEPT
                    !.st = "APPROVED",
                    !.back = refund[r].back + IF req[s].had THEN 1 ELSE 0]]
          /\ pay' = IF holds THEN pay ELSE SetStatus(paid, "REFUNDED")
          /\ payStatus' = MirrorAfterRefund(holds)
          /\ stock' = IF refund[r].items /\ StockTaken
                        THEN Restore(refund[r].amt) ELSE stock
          /\ status' = IF cancels THEN "CANCELLED" ELSE status
          /\ FreeTableIf(cancels)
    /\ Goto(s, Idle)
    /\ UNCHANGED cancel

-----------------------------------------------------------------------------
(* Cancellation requests *)

CancelStart(s) ==
    /\ req[s] = Idle
    /\ status \notin Terminal
    /\ Goto(s, [at |-> "askCancel"])
    /\ UNCHANGED <<status, table, stock>> /\ MoneyUnchanged

InsertCancel(s) ==
    /\ req[s].at = "askCancel"
    /\ \A c \in Cancels : cancel[c] # "PENDING"
    /\ \E c \in Cancels :
          /\ {d \in Cancels : cancel[d] # "NONE"} = 1..(c - 1)
          /\ cancel' = [cancel EXCEPT ![c] = "PENDING"]
    /\ Goto(s, Idle)
    /\ UNCHANGED <<status, table, stock, payStatus, pay, refund>>

RejectCancel(c) ==
    /\ cancel[c] = "PENDING" /\ status \notin Terminal
    /\ cancel' = [cancel EXCEPT ![c] = "REJECTED"]
    /\ UNCHANGED <<status, table, stock, payStatus, pay, refund, req>>

\* decideCancellation approves.  It reads the request with its order; the
\* transaction then reads what the order holds, and only then writes the order.
DecideCancelStart(s) ==
    /\ req[s] = Idle
    /\ status \notin Terminal
    /\ \E c \in Cancels :
          /\ cancel[c] = "PENDING"
          /\ Goto(s, [at |-> "weighCancel", c |-> c, ready |-> StockTaken])
    /\ UNCHANGED <<status, table, stock>> /\ MoneyUnchanged

WeighCancel(s) ==
    /\ req[s].at = "weighCancel"
    /\ NetCollected <= 0
    /\ Goto(s, [req[s] EXCEPT !.at = "applyCancel"])
    /\ UNCHANGED <<status, table, stock>> /\ MoneyUnchanged

ApplyCancel(s) ==
    /\ req[s].at = "applyCancel"
    /\ cancel[req[s].c] = "PENDING"
    /\ status \notin Terminal
    /\ status' = "CANCELLED"
    /\ cancel' = [cancel EXCEPT ![req[s].c] = "APPROVED"]
    /\ pay' = SetStatus({p \in Payments : pay[p].st \in {"UNPAID", "PENDING"}},
                        "FAILED")
    /\ stock' = IF req[s].ready THEN Restore(Total) ELSE stock
    /\ FreeTableIf(TRUE)
    /\ Goto(s, Idle)
    /\ UNCHANGED <<payStatus, refund>>

-----------------------------------------------------------------------------
\* A request ends early: a rule rejected it, its transaction was rolled back,
\* or the server went down between two of its steps.
GiveUp(s) ==
    /\ req[s] # Idle
    /\ Goto(s, Idle)
    /\ UNCHANGED <<payStatus, pay>> /\ OrderUnchanged

\* A new order: unpaid, its table taken, with a cashier row when the customer
\* chose to pay at the counter.
Init ==
    /\ status = "PENDING" /\ payStatus = "UNPAID" /\ table = "OCCUPIED"
    /\ pay \in {[p \in Payments |-> NoPayment],
                [p \in Payments |-> IF p = 1 THEN NewRow("KASIR", "UNPAID")
                                             ELSE NoPayment]}
    /\ refund = [r \in Refunds |-> NoRefund]
    /\ cancel = [c \in Cancels |-> "NONE"]
    /\ stock = [out |-> 0, back |-> 0]
    /\ req = [s \in Slots |-> Idle]

CashierAndGateway(s) ==
    \/ CreateVaIntent(s) \/ CreateQrisIntent(s)
    \/ KasirQrisStart(s) \/ PublicQrisStart(s) \/ ExpireStale(s)
    \/ RecheckActive(s) \/ MirrorExpired(s)
    \/ GatewayAccepts(s) \/ GatewayRejects(s) \/ MirrorGatewayFailure(s)
    \/ SwitchStart(s) \/ SwitchRecheck(s) \/ SwitchInsert(s)
    \/ CollectStart(s) \/ Collect(s)
    \/ CallbackStart(s) \/ CallbackRead(s) \/ CallbackApply(s)

KitchenAndDesks(s) ==
    \/ MoveStart(s) \/ Move(s)
    \/ RefundStart(s) \/ InsertRefund(s) \/ ReadForRefund(s) \/ ApproveRefund(s)
    \/ CancelStart(s) \/ InsertCancel(s)
    \/ DecideCancelStart(s) \/ WeighCancel(s) \/ ApplyCancel(s)

Next ==
    \/ CreateCashIntent
    \/ \E p \in Payments : Lapse(p)
    \/ \E r \in Refunds : RejectRefund(r)
    \/ \E c \in Cancels : RejectCancel(c)
    \/ \E s \in Slots : \/ CashierAndGateway(s)
                        \/ KitchenAndDesks(s)
                        \/ GiveUp(s)

Spec == Init /\ [][Next]_vars

-----------------------------------------------------------------------------
(* What holds whatever the interleaving *)

\* Concurrent QRIS requests, retries and expiries never leave two collectable
\* QRIS codes on the order (payment.service.ts, "can never create two live QRIS
\* intents on the same order").
OneLiveQris ==
    \A p, q \in Having("QRIS", "PENDING") : p = q

\* At most one refund request and one cancellation request wait for a decision,
\* however many cashiers ask at once (approval.service.ts, requestRefund and
\* requestCancellation).
OneOpenRequest ==
    /\ \A r, t \in Refunds :
          refund[r].st = "PENDING" /\ refund[t].st = "PENDING" => r = t
    /\ \A c, d \in Cancels : cancel[c] = "PENDING" /\ cancel[d] = "PENDING" => c = d

\* The cash ledger agrees with the rows: a cashier row has one collection entry
\* when it was collected, whether or not it was refunded since, and none
\* otherwise; no online row has any (markCashierPaymentPaid against every other
\* writer of payment rows).
CashBookMatchesRows ==
    \A p \in Payments :
        pay[p].taken = IF /\ pay[p].method = "KASIR"
                          /\ pay[p].st \in CollectedStatuses
                         THEN 1 ELSE 0

\* The refund ledger has one entry for each approved refund and none for the
\* others, with several admins deciding (decideRefund).
RefundBookMatchesRows ==
    \A r \in Refunds :
        /\ refund[r].back <= 1
        /\ refund[r].back = 1 => refund[r].st = "APPROVED"

\* A superseded row is history: no callback, retry, refund or cancellation
\* revives it (handleWebhook, "must never resurrect it").
CancelledRowStays ==
    [][\A p \in Payments : pay[p].st = "CANCELLED" => pay'[p].st = "CANCELLED"]_vars

\* Apart from a collection that sends the order to the kitchen, an order moves
\* along ValidStatusTransitions or is cancelled before it ends, with several
\* kitchen screens, admins and refunds moving it at once (updateOrderStatus,
\* decideRefund, decideCancellation).
KitchenInOrder ==
    [][status' \notin {status, "PROCESSING"}
          => \/ status' \in ValidStatusTransitions[status]
             \/ status' = "CANCELLED" /\ status \notin Terminal]_vars

-----------------------------------------------------------------------------
(* Every row lives as PaymentLifecycle says *)

Row(p) == INSTANCE PaymentLifecycle WITH row <- pay[p]

\* Whatever requests write a payment row, and in whatever order, each of its
\* changes is one the lifecycle allows (every handler of payment.service.ts
\* and approval.service.ts that writes payment rows).
RowsKeepLifecycle ==
    /\ \A p \in Payments : Row(p)!Start
    /\ [][\A p \in Payments : Row(p)!Live \/ UNCHANGED pay[p]]_vars

\* Why the rows keep their lifecycle: a cashier row never looks like an online
\* one, and a request in flight holds the kind of row it was started for.
RowShape ==
    \A p \in Payments :
        IF pay[p].method = "KASIR"
          THEN /\ pay[p].exp = "none"
               /\ pay[p].st \notin {"PENDING", "EXPIRED"}
               /\ pay[p].taken = IF pay[p].st \in CollectedStatuses THEN 1 ELSE 0
          ELSE pay[p].st \notin {"NONE", "UNPAID"} /\ pay[p].taken = 0

RequestShape ==
    \A s \in Slots :
        /\ req[s].at \in {"gateway", "callback", "callbackTx"}
              => pay[req[s].p].method # "KASIR"
        /\ req[s].at = "collect"
              => req[s].p \in Created /\ pay[req[s].p].method = "KASIR"

\* The inductive invariant of the money proofs.
MoneyInv == TypeOK /\ RowShape /\ RequestShape

-----------------------------------------------------------------------------
(* What the code promises, and keeps when requests do not overlap *)

\* No collection is made for an order that already holds one (createPayment,
\* "an order can never be paid twice").
PaidOnce == \A p, q \in Payments : IsPaid(p) /\ IsPaid(q) => p = q

\* Refunds never exceed what was collected (requestRefund).
RefundsWithinCollected == ApprovedAmount <= TotalPaid

\* An order shown as PAID has a paid row behind it.
PaidMirrorIsBacked == payStatus = "PAID" => AnyPaid

\* The order is sent to the kitchen by a collection only while it is PENDING or
\* CONFIRMED (markCashierPaymentPaid).
KitchenEntry ==
    [][status' = "PROCESSING" /\ status # "PROCESSING"
          => status \in {"PENDING", "CONFIRMED"}]_vars

\* An order's stock leaves once.
DeductedOnce == stock.out <= Total

\* No more is put back than was taken.
RestoredWithinDeducted == stock.back <= stock.out

\* An order cancelled on request has its stock back.
CancelReturnsStock ==
    [][\A c \in Cancels : cancel[c] = "PENDING" /\ cancel'[c] = "APPROVED"
          => stock'.back = stock'.out]_vars

\* One live cashier row at a time.
OneLiveCashRow == \A p, q \in UnpaidCash : p = q

\* A paid row leaves PAID only when it is refunded.
PaidRowStays ==
    [][\A p \in Payments : IsPaid(p) => pay'[p].st \in CollectedStatuses]_vars

\* A paid order leaves PAID only when a refund is approved.
PaidOrderStays ==
    [][payStatus = "PAID" /\ payStatus' # "PAID"
          => \E r \in Refunds : refund'[r].st # refund[r].st]_vars

=============================================================================
